-------------------------- MODULE CommandLineProofs -------------------------
(***************************************************************************)
(* Theorems about the lines that are entered, for all lines, all limits and *)
(* all commands: the arguments are the words of the line, the commands that *)
(* the line names answer what is so, and calc is exact.                     *)
(***************************************************************************)
EXTENDS CommandLine, Lemmas, SequenceTheorems, FiniteSetTheorems

(* The least element of a set of naturals, of the community modules' Min.   *)
LEMMA MinIsLeast ==
  ASSUME NEW S \in SUBSET Nat, S # {}
  PROVE  Min(S) \in S /\ \A x \in S : Min(S) <= x
BY LeastNatural DEF Min

LEMMA MinIs ==
  ASSUME NEW S \in SUBSET Nat, NEW least \in S, \A x \in S : least <= x
  PROVE  Min(S) = least
<1>1. Min(S) \in S /\ \A x \in S : Min(S) <= x
  BY MinIsLeast
<1>2. Min(S) <= least /\ least <= Min(S)
  BY <1>1
<1>3. Min(S) \in Nat /\ least \in Nat
  BY <1>1
<1> HIDE DEF Min
<1> QED BY <1>2, <1>3

-----------------------------------------------------------------------------
(* The words of a text.                                                     *)

(* The first character of a set, or the end of the text.                    *)
Clear(text, begin, end, set) == \A i \in begin .. (end - 1) : text[i] \notin set

LEMMA FirstAtIs ==
  ASSUME NEW text \in Seq(Nat), NEW from \in 1 .. (Len(text) + 1), NEW set,
         NEW end \in from .. (Len(text) + 1),
         end = Len(text) + 1 \/ text[end] \in set, Clear(text, from, end, set)
  PROVE  FirstAt(text, from, set) = end
<1> DEFINE S == {i \in from .. (Len(text) + 1) : i = Len(text) + 1 \/ text[i] \in set}
<1>1. Len(text) \in Nat
  BY LenProperties
<1>2. S \in SUBSET Nat /\ end \in S
  BY <1>1
<1>3. \A i \in S : end <= i
  <2> SUFFICES ASSUME NEW i \in S, i < end PROVE FALSE
    BY <1>1
  <2>1. i \in from .. (end - 1) /\ i # Len(text) + 1
    BY <1>1
  <2> QED BY <2>1 DEF Clear
<1> HIDE DEF S
<1>4. Min(S) = end
  BY <1>2, <1>3, MinIs
<1> QED BY <1>4 DEF FirstAt, S

LEMMA FirstAtFinds ==
  ASSUME NEW text \in Seq(Nat), NEW from \in 1 .. (Len(text) + 1), NEW set
  PROVE  LET end == FirstAt(text, from, set)
         IN  /\ end \in from .. (Len(text) + 1)
             /\ end = Len(text) + 1 \/ text[end] \in set
             /\ \A i \in from .. (end - 1) : text[i] \notin set
<1> DEFINE S == {i \in from .. (Len(text) + 1) : i = Len(text) + 1 \/ text[i] \in set}
           end == Min(S)
<1>1. Len(text) \in Nat
  BY LenProperties
<1>2. S \in SUBSET Nat /\ Len(text) + 1 \in S
  BY <1>1
<1>3. end \in S /\ \A i \in S : end <= i
  <2> HIDE DEF S
  <2> QED BY <1>2, MinIsLeast
<1> HIDE DEF end
<1>4. \A i \in from .. (end - 1) : text[i] \notin set
  <2> SUFFICES ASSUME NEW i \in from .. (end - 1), text[i] \in set PROVE FALSE
    OBVIOUS
  <2>1. i \in S /\ ~(end <= i)
    BY <1>1, <1>3
  <2> QED BY <1>3, <2>1
<1> QED BY <1>3, <1>4 DEF FirstAt, end

(* Where a word that begins in a place begins and ends without its quotes.  *)
Begin(text, i) == IF text[i] = Quote THEN i + 1 ELSE i
End(text, i) == FirstAt(text, Begin(text, i), IF text[i] = Quote THEN {Quote} ELSE Blanks)

WordsBehind(text, words) ==
  /\ words \in [1 .. (Len(text) + 2) -> Seq(Seq(Nat))]
  /\ words[Len(text) + 1] = <<>> /\ words[Len(text) + 2] = <<>>
  /\ \A i \in 1 .. Len(text) :
       words[i] = IF text[i] \in Blanks THEN words[i + 1]
                  ELSE <<SubSeq(text, Begin(text, i), End(text, i) - 1)>> \o words[End(text, i) + 1]

(* A stretch of a text is a text.                                           *)
LEMMA WordIsText ==
  ASSUME NEW text \in Seq(Nat), NEW begin \in 1 .. (Len(text) + 1), NEW end \in begin .. (Len(text) + 1)
  PROVE  SubSeq(text, begin, end - 1) \in Seq(Nat)
<1>1. Len(text) \in Nat
  BY LenProperties
<1>2. \A i \in begin .. (end - 1) : i \in 1 .. Len(text) /\ text[i] \in Nat
  BY <1>1, ElementOfSeq
<1> QED BY <1>1, <1>2, SubSeqProperties

(* A word begins at or behind its place and ends within the text.           *)
LEMMA WordPlace ==
  ASSUME NEW text \in Seq(Nat), NEW i \in 1 .. Len(text)
  PROVE  /\ Begin(text, i) \in i .. (Len(text) + 1) /\ Begin(text, i) \in 1 .. (Len(text) + 1)
         /\ End(text, i) \in Begin(text, i) .. (Len(text) + 1)
         /\ End(text, i) + 1 \in (i + 1) .. (Len(text) + 2)
         /\ SubSeq(text, Begin(text, i), End(text, i) - 1) \in Seq(Nat)
<1>1. Len(text) \in Nat
  BY LenProperties
<1>2. Begin(text, i) \in i .. (Len(text) + 1) /\ Begin(text, i) \in 1 .. (Len(text) + 1)
  BY <1>1 DEF Begin
<1>3. End(text, i) \in Begin(text, i) .. (Len(text) + 1)
  BY <1>2, FirstAtFinds DEF End
<1>4. SubSeq(text, Begin(text, i), End(text, i) - 1) \in Seq(Nat)
  BY <1>2, <1>3, WordIsText
<1> HIDE DEF Begin, End
<1> QED BY <1>1, <1>2, <1>3, <1>4

(* WordsFrom has the values that its definition describes.                  *)
LEMMA WordsFromIsWords ==
  ASSUME NEW text \in Seq(Nat)
  PROVE  WordsBehind(text, WordsFrom(text))
<1> DEFINE size == Len(text)
           X == Seq(Seq(Nat))
           Body(f, i) == IF i > size THEN <<>>
                         ELSE IF text[i] \in Blanks THEN f[i + 1]
                         ELSE <<SubSeq(text, Begin(text, i), End(text, i) - 1)>> \o f[End(text, i) + 1]
           D == 1 .. (size + 2)
           F == [D -> X]
           step == [i \in D |-> [f \in F |-> Body(f, i)]]
           Loop(f) == f = [i \in D |-> Body(f, i)]
<1>1. size \in Nat /\ size + 2 \in Nat
  BY LenProperties
<1>2. \A i \in 1 .. (size + 2) : ~(i > size) =>
        /\ i \in 1 .. size /\ i + 1 \in (i + 1) .. (size + 2) /\ i + 1 \in 1 .. (size + 2)
        /\ End(text, i) + 1 \in (i + 1) .. (size + 2) /\ End(text, i) + 1 \in 1 .. (size + 2)
        /\ <<SubSeq(text, Begin(text, i), End(text, i) - 1)>> \in X
  <2> SUFFICES ASSUME NEW i \in 1 .. (size + 2), ~(i > size)
               PROVE  /\ i \in 1 .. size /\ i + 1 \in (i + 1) .. (size + 2) /\ i + 1 \in 1 .. (size + 2)
                      /\ End(text, i) + 1 \in (i + 1) .. (size + 2) /\ End(text, i) + 1 \in 1 .. (size + 2)
                      /\ <<SubSeq(text, Begin(text, i), End(text, i) - 1)>> \in X
    OBVIOUS
  <2>1. i \in 1 .. size
    BY <1>1
  <2>2. /\ End(text, i) + 1 \in (i + 1) .. (size + 2)
        /\ SubSeq(text, Begin(text, i), End(text, i) - 1) \in Seq(Nat)
    BY <2>1, WordPlace
  <2>3. \A word \in Seq(Nat) : <<word>> \in X
    OBVIOUS
  <2> HIDE DEF size, X
  <2>4. i + 1 \in (i + 1) .. (size + 2) /\ i + 1 \in 1 .. (size + 2) /\ End(text, i) + 1 \in 1 .. (size + 2)
    BY <1>1, <2>1, <2>2
  <2> QED BY <2>1, <2>2, <2>3, <2>4
<1>3. \A f \in F : \A i \in 1 .. (size + 2) : Body(f, i) \in X
  <2> SUFFICES ASSUME NEW f \in F, NEW i \in 1 .. (size + 2) PROVE Body(f, i) \in X
    OBVIOUS
  <2> HIDE DEF size
  <2>1. CASE i > size
    BY <2>1, EmptySeq
  <2>2. CASE ~(i > size)
    <3>1. f[i + 1] \in X /\ f[End(text, i) + 1] \in X
      BY <1>2, <2>2
    <3>2. <<SubSeq(text, Begin(text, i), End(text, i) - 1)>> \o f[End(text, i) + 1] \in X
      BY <1>2, <2>2, <3>1, ConcatProperties
    <3> HIDE DEF X
    <3> QED BY <2>2, <3>1, <3>2
  <2> QED BY <2>1, <2>2
<1> DEFINE rank == [i \in D |-> size + 2 - i]
<1> HIDE DEF size, X
<1>4. /\ rank \in [D -> Nat] /\ size + 3 \in Nat /\ \A i \in D : rank[i] < size + 3
      /\ \A i, j \in D : rank[j] < rank[i] <=> i < j
  BY <1>1
<1> HIDE DEF rank
<1>5. \A i \in D : ~(i > size) =>
        /\ i + 1 \in D /\ rank[i + 1] < rank[i]
        /\ End(text, i) + 1 \in D /\ rank[End(text, i) + 1] < rank[i]
  <2> SUFFICES ASSUME NEW i \in D, ~(i > size)
               PROVE  /\ i + 1 \in D /\ i < i + 1 /\ End(text, i) + 1 \in D /\ i < End(text, i) + 1
    BY <1>4
  <2>1. /\ i + 1 \in D /\ i + 1 \in (i + 1) .. (size + 2)
        /\ End(text, i) + 1 \in D /\ End(text, i) + 1 \in (i + 1) .. (size + 2)
    BY <1>2
  <2> QED BY <1>1, <2>1
<1>6. ASSUME NEW f, NEW g, NEW i \in D, \A j \in D : rank[j] < rank[i] => f[j] = g[j]
      PROVE  Body(f, i) = Body(g, i)
  BY <1>5, <1>6
<1> HIDE DEF Body
<1>7. step \in [D -> [F -> X]]
  BY <1>3
<1>8. PICK g : DefinedByRank(X, D, step, g)
  <2>1. MadeOfLower(X, D, rank, step)
    <3> SUFFICES ASSUME NEW i \in D, NEW f \in F, NEW g \in F, \A j \in D : rank[j] < rank[i] => f[j] = g[j]
                 PROVE  step[i][f] = step[i][g]
      BY DEF MadeOfLower
    <3>1. Body(f, i) = Body(g, i)
      BY <1>6
    <3> QED BY <3>1
  <2>2. X # {}
    BY EmptySeq DEF X
  <2> HIDE DEF step, D
  <2> QED BY <1>1, <1>4, <1>7, <2>1, <2>2, RecursionByRank
<1>9. Loop(g)
  <2>1. g \in F /\ \A i \in D : g[i] = step[i][g]
    BY <1>8 DEF DefinedByRank
  <2> QED BY <2>1
<1> DEFINE f == CHOOSE h : Loop(h)
<1>10. Loop(f)
  <2> HIDE DEF Loop
  <2> QED BY <1>9
<1>11. WordsFrom(text) = f
  BY DEF WordsFrom, size, Begin, End, Body
<1> HIDE DEF f, step
<1>12. \A i \in D : f[i] = Body(f, i) /\ g[i] = Body(g, i)
  BY <1>9, <1>10
<1>13. g \in F
  BY <1>8 DEF DefinedByRank
<1>15. \A i \in D : f[i] = g[i]
  <2> DEFINE S == {i \in D : f[i] = g[i]}
  <2>1. ASSUME NEW i \in D, \A j \in D : rank[j] < rank[i] => j \in S PROVE i \in S
    <3>1. Body(f, i) = Body(g, i)
      BY <1>6, <2>1
    <3> QED BY <1>12, <3>1
  <2>2. \A i \in D : i \in S
    <3> HIDE DEF S, D
    <3> QED BY <1>4, <2>1, RankInduction
  <2> QED BY <2>2
<1>16. f \in F /\ \A i \in 1 .. (size + 2) : f[i] = Body(f, i)
  <2>1. f = [i \in 1 .. (size + 2) |-> Body(f, i)]
    BY <1>10
  <2>2. \A i \in 1 .. (size + 2) : Body(f, i) \in X
    BY <1>12, <1>13, <1>15
  <2> QED BY <1>12, <2>1, <2>2
<1>17. /\ size + 1 \in 1 .. (size + 2) /\ size + 1 > size /\ size + 2 \in 1 .. (size + 2) /\ size + 2 > size
       /\ \A i \in 1 .. size : i \in 1 .. (size + 2) /\ ~(i > size)
  BY <1>1
<1>18. /\ f[size + 1] = <<>> /\ f[size + 2] = <<>>
       /\ \A i \in 1 .. size :
            f[i] = IF text[i] \in Blanks THEN f[i + 1]
                   ELSE <<SubSeq(text, Begin(text, i), End(text, i) - 1)>> \o f[End(text, i) + 1]
  BY <1>16, <1>17 DEF Body
<1> HIDE DEF Loop
<1> QED BY <1>11, <1>16, <1>18 DEF WordsBehind, size, X

-----------------------------------------------------------------------------
(* C strings in an array.                                                   *)

Between(array, begin, end) == [j \in 1 .. (end - begin) |-> array[begin + j - 1]]

EndsAt(array, begin, end) == array[end] = 0 /\ \A j \in begin .. (end - 1) : array[j] # 0

(* A C string is what stands in front of its first terminator.              *)
LEMMA CStringIs ==
  ASSUME NEW n \in Nat, NEW array \in [1 .. n -> Nat], NEW begin \in 1 .. n, NEW end \in begin .. n,
         EndsAt(array, begin, end)
  PROVE  CString(array, begin) = Between(array, begin, end)
<1> DEFINE S == {j \in DOMAIN array : j >= begin /\ array[j] = 0}
<1>1. S \in SUBSET Nat /\ end \in S
  BY DEF EndsAt
<1>2. \A j \in S : end <= j
  <2>0. \A j \in begin .. (end - 1) : array[j] # 0
    BY DEF EndsAt
  <2> SUFFICES ASSUME NEW j \in S, j < end PROVE FALSE
    OBVIOUS
  <2>1. j \in begin .. (end - 1)
    OBVIOUS
  <2> QED BY <2>0, <2>1
<1> HIDE DEF S
<1>3. Min(S) = end
  BY <1>1, <1>2, MinIs
<1> QED BY <1>3 DEF CString, Between, S

DrawnFrom(array, n, text) == \A k \in 1 .. Len(text) : \E j \in 1 .. n : text[k] = array[j]

(* There is one wherever a terminator follows.                              *)
LEMMA CStringIsText ==
  ASSUME NEW n \in Nat, NEW array \in [1 .. n -> Nat], NEW begin \in 1 .. n, NEW end \in begin .. n,
         array[end] = 0
  PROVE  /\ CString(array, begin) \in Seq(Nat \ {0})
         /\ DrawnFrom(array, n, CString(array, begin))
<1> DEFINE S == {j \in DOMAIN array : j >= begin /\ array[j] = 0}
           first == Min(S)
<1>1. S \in SUBSET Nat /\ end \in S
  OBVIOUS
<1>2. first \in S /\ \A j \in S : first <= j
  <2> HIDE DEF S
  <2> QED BY <1>1, MinIsLeast
<1> HIDE DEF first
<1>3. first \in begin .. n /\ array[first] = 0
  BY <1>2
<1>4. \A j \in begin .. (first - 1) : array[j] # 0
  <2> SUFFICES ASSUME NEW j \in begin .. (first - 1), array[j] = 0 PROVE FALSE
    OBVIOUS
  <2>1. j \in S /\ ~(first <= j)
    BY <1>3
  <2> QED BY <1>2, <2>1
<1> HIDE DEF S
<1>5. CString(array, begin) = Between(array, begin, first)
  BY <1>3, <1>4, CStringIs DEF EndsAt
<1>6. \A j \in 1 .. (first - begin) : array[begin + j - 1] \in Nat \ {0}
  <2> SUFFICES ASSUME NEW j \in 1 .. (first - begin) PROVE array[begin + j - 1] \in Nat \ {0}
    OBVIOUS
  <2>1. begin + j - 1 \in begin .. (first - 1) /\ begin + j - 1 \in 1 .. n
    BY <1>3
  <2> QED BY <1>4, <2>1
<1>7. first - begin \in Nat
  BY <1>3
<1>8. Between(array, begin, first) \in [1 .. (first - begin) -> Nat \ {0}]
  BY <1>6 DEF Between
<1>9. \A k \in Nat : \A text \in [1 .. k -> Nat \ {0}] : text \in Seq(Nat \ {0})
  OBVIOUS
<1>10. Len(Between(array, begin, first)) = first - begin
  BY <1>7 DEF Between
<1>11. ASSUME NEW k \in 1 .. (first - begin) PROVE \E j \in 1 .. n : Between(array, begin, first)[k] = array[j]
  <2>1. begin + k - 1 \in 1 .. n
    BY <1>3
  <2> QED BY <2>1 DEF Between
<1>12. DrawnFrom(array, n, Between(array, begin, first))
  BY <1>10, <1>11 DEF DrawnFrom
<1> QED BY <1>5, <1>7, <1>8, <1>9, <1>12

(* Only what is in front of the terminator matters.                         *)
Agree(array, after, begin, end) == \A j \in begin .. end : after[j] = array[j]

LEMMA CStringKept ==
  ASSUME NEW n \in Nat, NEW array \in [1 .. n -> Nat], NEW begin \in 1 .. n, NEW end \in begin .. n,
         array[end] = 0, NEW after \in [1 .. n -> Nat], Agree(array, after, begin, end)
  PROVE  CString(after, begin) = CString(array, begin)
<1> DEFINE S == {j \in DOMAIN array : j >= begin /\ array[j] = 0}
           first == Min(S)
<1>1. S \in SUBSET Nat /\ end \in S
  OBVIOUS
<1>2. first \in S /\ \A j \in S : first <= j
  <2> HIDE DEF S
  <2> QED BY <1>1, MinIsLeast
<1> HIDE DEF first
<1>3. first \in begin .. n /\ first <= end /\ array[first] = 0
  BY <1>1, <1>2
<1>4. \A j \in begin .. (first - 1) : array[j] # 0
  <2> SUFFICES ASSUME NEW j \in begin .. (first - 1), array[j] = 0 PROVE FALSE
    OBVIOUS
  <2>1. j \in S /\ ~(first <= j)
    BY <1>3
  <2> QED BY <1>2, <2>1
<1> HIDE DEF S
<1>5. CString(array, begin) = Between(array, begin, first)
  <2>1. first \in begin .. n /\ array[first] = 0
    BY <1>3
  <2> QED BY <2>1, <1>4, CStringIs DEF EndsAt
<1>6. after[first] = 0 /\ \A j \in begin .. (first - 1) : after[j] # 0
  <2>1. first \in begin .. end /\ \A j \in begin .. (first - 1) : j \in begin .. end
    BY <1>3
  <2> QED BY <1>3, <1>4, <2>1 DEF Agree
<1>7. CString(after, begin) = Between(after, begin, first)
  BY <1>3, <1>6, CStringIs DEF EndsAt
<1>8. \A j \in 1 .. (first - begin) : after[begin + j - 1] = array[begin + j - 1]
  <2> SUFFICES ASSUME NEW j \in 1 .. (first - begin) PROVE after[begin + j - 1] = array[begin + j - 1]
    OBVIOUS
  <2>1. begin + j - 1 \in begin .. end
    BY <1>3
  <2> QED BY <2>1 DEF Agree
<1> QED BY <1>5, <1>7, <1>8 DEF Between

Copied(array, text, begin, end) == \A j \in begin .. (end - 1) : array[j] = text[j]

(* The word that ends where its terminator was written.                     *)
LEMMA CStringIsWord ==
  ASSUME NEW text \in Seq(Nat \ {0}), NEW n \in Nat, n = Len(text) + 1,
         NEW array \in [1 .. n -> Nat], NEW begin \in 1 .. n, NEW end \in begin .. n,
         array[end] = 0, Copied(array, text, begin, end)
  PROVE  CString(array, begin) = SubSeq(text, begin, end - 1)
<1>1. Len(text) \in Nat 
  BY LenProperties
<1>2. \A j \in begin .. (end - 1) : j \in 1 .. Len(text) /\ text[j] \in Nat \ {0}
  BY <1>1, ElementOfSeq
<1>3. CString(array, begin) = Between(array, begin, end)
  <2>1. EndsAt(array, begin, end)
    BY <1>2 DEF EndsAt, Copied
  <2> QED BY <2>1, CStringIs
<1>4. \A j \in 1 .. (end - begin) : begin + j - 1 \in begin .. (end - 1)
  BY <1>1
<1>5. CString(array, begin) = [j \in 1 .. (end - begin) |-> text[begin + j - 1]]
  BY <1>3, <1>4 DEF Between, Copied
<1>6. end - begin = (end - 1) - begin + 1 /\ end - begin \in Nat
  BY <1>1
<1>7. SubSeq(text, begin, end - 1) = [j \in 1 .. ((end - 1) - begin + 1) |-> text[begin + j - 1]]
  OBVIOUS
<1> QED BY <1>5, <1>6, <1>7 DEF Between
-----------------------------------------------------------------------------
(* The arguments: the strings that begin at the first places of a list.     *)

ArgsOf(array, places, k) == [i \in 1 .. k |-> CString(array, places[i])]

(* Both kinds of arguments are the strings at the places of argv.           *)
LEMMA ArgumentsAre ==
  /\ Arguments = ArgsOf(buffer, argv, argc)
  /\ FinishedArguments = ArgsOf(buffer, argv, Finished)
BY DEF Arguments, FinishedArguments, Argument, ArgsOf

EndBy(array, places, k, place) ==
  \A i \in 1 .. k : \E end \in places[i] .. place : array[end] = 0

(* Strings that have their terminators are texts.                           *)
LEMMA ArgsAreTexts ==
  ASSUME NEW n \in Nat, NEW array \in [1 .. n -> Nat], NEW places \in Seq(1 .. n),
         NEW k \in 0 .. Len(places), NEW place \in 1 .. n, EndBy(array, places, k, place)
  PROVE  ArgsOf(array, places, k) \in Seq(Seq(Nat \ {0})) /\ Len(ArgsOf(array, places, k)) = k
<1>1. Len(places) \in Nat /\ k \in Nat
  BY LenProperties
<1>2. ASSUME NEW i \in 1 .. k PROVE CString(array, places[i]) \in Seq(Nat \ {0})
  <2>0. i \in 1 .. Len(places)
    BY <1>1
  <2>1. places[i] \in 1 .. n
    BY <2>0, ElementOfSeq
  <2>2. PICK end \in places[i] .. place : array[end] = 0
    BY DEF EndBy
  <2>3. end \in places[i] .. n
    BY <2>1
  <2> QED BY <2>1, <2>2, <2>3, CStringIsText
<1>3. ArgsOf(array, places, k) \in [1 .. k -> Seq(Nat \ {0})]
  BY <1>2 DEF ArgsOf
<1>4. \A X : \A s \in [1 .. k -> X] : s \in Seq(X) /\ Len(s) = k
  BY <1>1
<1> QED BY <1>3, <1>4

WrittenAt(array, after, n, place) == \A j \in 1 .. n : j # place => after[j] = array[j]

(* A write behind the strings that have ended leaves them as they are.      *)
LEMMA ArgsKept ==
  ASSUME NEW n \in Nat, NEW array \in [1 .. n -> Nat], NEW places \in Seq(1 .. n),
         NEW k \in 0 .. Len(places), NEW place \in 1 .. n, EndBy(array, places, k, place),
         NEW after \in [1 .. n -> Nat], array[place] # 0,
         WrittenAt(array, after, n, place)
  PROVE  ArgsOf(after, places, k) = ArgsOf(array, places, k) /\ EndBy(after, places, k, place)
<1>1. Len(places) \in Nat /\ k \in Nat
  BY LenProperties
<1>2. ASSUME NEW i \in 1 .. k
      PROVE  /\ CString(after, places[i]) = CString(array, places[i])
             /\ \E end \in places[i] .. place : after[end] = 0
  <2>0. i \in 1 .. Len(places)
    BY <1>1
  <2> DEFINE begin == places[i]
  <2>1. begin \in 1 .. n
    BY <2>0, ElementOfSeq
  <2>2. \E end \in begin .. place : array[end] = 0
    BY DEF EndBy
  <2> HIDE DEF begin
  <2>3. PICK end \in begin .. place : array[end] = 0
    BY <2>2
  <2>4. end # place
    BY <2>3
  <2>5. end \in begin .. n /\ \A j \in begin .. end : j \in 1 .. n /\ j # place
    BY <2>1, <2>4
  <2>6. Agree(array, after, begin, end)
    BY <2>5 DEF Agree, WrittenAt
  <2>7. CString(after, begin) = CString(array, begin)
    <3>1. end \in begin .. n /\ array[end] = 0
      BY <2>3, <2>5
    <3> HIDE <2>3
    <3> QED BY <2>1, <2>6, <3>1, CStringKept
  <2>8. end \in begin .. end
    BY <2>1
  <2>9. after[end] = 0
    BY <2>3, <2>6, <2>8 DEF Agree
  <2> QED BY <2>3, <2>7, <2>9 DEF begin
<1> QED BY <1>2 DEF ArgsOf, EndBy

(* The arguments up to the next one.                                        *)
LEMMA OneMoreArgument ==
  ASSUME NEW array, NEW places, NEW k \in Nat \ {0}, ArgsOf(array, places, k - 1) \in Seq(Seq(Nat)),
         CString(array, places[k]) \in Seq(Nat)
  PROVE  ArgsOf(array, places, k) = ArgsOf(array, places, k - 1) \o <<CString(array, places[k])>>
<1> DEFINE words == ArgsOf(array, places, k - 1)
           word == CString(array, places[k])
<1>1. /\ words \in Seq(Seq(Nat)) /\ Len(words) = k - 1
      /\ \A i \in 1 .. (k - 1) : words[i] = CString(array, places[i])
  BY DEF ArgsOf
<1>2. ArgsOf(array, places, k) = [i \in 1 .. k |-> CString(array, places[i])]
  BY DEF ArgsOf
<1> HIDE DEF words
<1>3. Append(words, word) = [i \in 1 .. k |-> CString(array, places[i])]
  <2>1. /\ Append(words, word) \in Seq(Seq(Nat)) /\ Len(Append(words, word)) = k
        /\ \A i \in 1 .. (k - 1) : Append(words, word)[i] = words[i]
        /\ Append(words, word)[k] = word
    BY <1>1, AppendProperties
  <2>2. DOMAIN Append(words, word) = 1 .. k
    BY <2>1, LenProperties
  <2>3. \A i \in 1 .. k : i = k \/ i \in 1 .. (k - 1)
    OBVIOUS
  <2>4. \A i \in 1 .. k : Append(words, word)[i] = CString(array, places[i])
    BY <1>1, <2>1, <2>3
  <2>5. Append(words, word) = [i \in 1 .. k |-> Append(words, word)[i]]
    BY <2>1, <2>2
  <2> HIDE DEF word
  <2> QED BY <2>4, <2>5
<1>4. Append(words, word) = words \o <<word>>
  BY <1>1, AppendIsConcat
<1> QED BY <1>2, <1>3, <1>4 DEF words
-----------------------------------------------------------------------------
(* The tokenizer.                                                           *)

(* What the types of the tokenizer's variables say, one by one.             *)
LEMMA LineFacts ==
  ASSUME Types
  PROVE  /\ Len(line) \in Nat /\ line \in Seq(Nat) /\ line \in Seq(Nat \ {0})
         /\ \A i \in 1 .. Len(line) : line[i] \in Nat \ {0}
         /\ WordsBehind(line, WordsFrom(line))
         /\ buffer \in [1 .. (Len(line) + 1) -> Nat] /\ DOMAIN buffer = 1 .. (Len(line) + 1)
         /\ argc \in Nat /\ argc <= MaxArgs /\ MaxArgs \in Nat
<1>1. line \in Seq(Nat \ {0}) /\ \A s : s \in Seq(Nat \ {0}) => s \in Seq(Nat)
  BY DEF Types
<1>2. Len(line) \in Nat /\ line \in Seq(Nat)
  BY <1>1, LenProperties
<1>3. \A i \in 1 .. Len(line) : line[i] \in Nat \ {0}
  BY <1>1, ElementOfSeq
<1>4. WordsBehind(line, WordsFrom(line))
  BY <1>2, WordsFromIsWords
<1>5. buffer \in [1 .. (Len(line) + 1) -> Nat] /\ DOMAIN buffer = 1 .. (Len(line) + 1)
  BY DEF Types
<1>6. argc \in Nat /\ argc <= MaxArgs /\ MaxArgs \in Nat
  BY CommandLineAssumption, LenProperties DEF Types, argc
<1> QED BY <1>1, <1>2, <1>3, <1>4, <1>5, <1>6

(* Under the pointer is what was typed, or the terminator of the line.      *)
LEMMA HereIs ==
  ASSUME Types, UnreadIsLine
  PROVE  /\ p \in 1 .. (Len(line) + 1) /\ Here \in Nat /\ Here = buffer[p]
         /\ Here = 0 => p = Len(line) + 1
         /\ Here # 0 => p \in 1 .. Len(line) /\ Here = line[p]
<1>1. /\ p \in 1 .. (Len(line) + 1) /\ Len(line) \in Nat
      /\ \A i \in 1 .. Len(line) : line[i] \in Nat \ {0}
      /\ DOMAIN line = 1 .. Len(line) /\ buffer[p] \in Nat
  BY LineFacts, LenProperties DEF Types
<1>2. p \in p .. (Len(line) + 1)
  BY <1>1
<1>3. Here = CharAt(line, p)
  BY <1>2 DEF UnreadIsLine, Here
<1>4. CASE p = Len(line) + 1
  BY <1>1, <1>3, <1>4 DEF CharAt, Here
<1>5. CASE p # Len(line) + 1
  <2>1. p \in 1 .. Len(line)
    BY <1>1, <1>5
  <2> QED BY <1>1, <1>3, <2>1 DEF CharAt, Here
<1> QED BY <1>4, <1>5

(* Reading on, without a write: what is ahead is still what was typed, and  *)
(* what has ended has ended.                                               *)
Tokens == Types /\ UnreadIsLine /\ FinishedEnd /\ WordSoFar /\ WordsAddUp

(* The finished words are texts, and each has its terminator.               *)
LEMMA FinishedAre ==
  ASSUME Tokens
  PROVE  /\ Finished \in 0 .. argc /\ EndBy(buffer, argv, Finished, p)
         /\ FinishedArguments \in Seq(Seq(Nat)) /\ FinishedArguments \in Seq(Seq(Nat \ {0}))
         /\ Len(FinishedArguments) = Finished
<1>1. argc \in Nat /\ (pc \in {"word", "quoted"} => argc > 0)
  BY LineFacts DEF Tokens, WordSoFar
<1>2. Finished \in 0 .. argc
  BY <1>1 DEF Finished
<1>3. EndBy(buffer, argv, Finished, p)
  BY DEF EndBy, FinishedEnd, Tokens
<1>4. /\ Len(line) + 1 \in Nat /\ buffer \in [1 .. (Len(line) + 1) -> Nat]
      /\ argv \in Seq(1 .. (Len(line) + 1)) /\ p \in 1 .. (Len(line) + 1)
  BY LineFacts DEF Tokens, Types
<1>5. FinishedArguments \in Seq(Seq(Nat \ {0})) /\ Len(FinishedArguments) = Finished
  <2>1. Finished \in 0 .. Len(argv)
    BY <1>2 DEF argc
  <2> DEFINE n == Len(line) + 1
  <2>2. /\ n \in Nat /\ buffer \in [1 .. n -> Nat] /\ argv \in Seq(1 .. n) /\ p \in 1 .. n
    BY <1>4
  <2> HIDE DEF n
  <2>3. /\ ArgsOf(buffer, argv, Finished) \in Seq(Seq(Nat \ {0}))
        /\ Len(ArgsOf(buffer, argv, Finished)) = Finished
    BY <1>3, <2>1, <2>2, ArgsAreTexts
  <2> QED BY <2>3, ArgumentsAre
<1>6. FinishedArguments \in Seq(Seq(Nat))
  <2>1. Seq(Nat \ {0}) \subseteq Seq(Nat)
    OBVIOUS
  <2> HIDE DEF FinishedArguments
  <2> QED BY <1>5, <2>1, SeqMonotonic
<1> QED BY <1>2, <1>3, <1>5, <1>6
(* What has ended by a place has ended by the next.                         *)
LEMMA EndBySooner ==
  ASSUME NEW array, NEW places, NEW k \in Nat, NEW place \in Nat, EndBy(array, places, k, place),
         NEW n \in Nat, places \in Seq(1 .. n), k <= Len(places)
  PROVE  EndBy(array, places, k, place + 1)
<1>1. ASSUME NEW i \in 1 .. k PROVE \E end \in places[i] .. (place + 1) : array[end] = 0
  <2>1. PICK end \in places[i] .. place : array[end] = 0
    BY DEF EndBy
  <2>2. i \in 1 .. Len(places)
    BY LenProperties
  <2>3. places[i] \in 1 .. n
    BY <2>2, ElementOfSeq
  <2>4. end \in places[i] .. (place + 1)
    BY <2>3
  <2> QED BY <2>1, <2>4
<1> QED BY <1>1 DEF EndBy

LEMMA FinishedEndIs == FinishedEnd <=> EndBy(buffer, argv, Finished, p)
BY DEF FinishedEnd, EndBy

(* A blank between words belongs to none.                                   *)
LEMMA SkipsBlank ==
  ASSUME Tokens, SkipBlank, UNCHANGED line
  PROVE  Tokens'
<1>1. /\ pc = "between" /\ Here \in Blanks /\ pc' = "between" /\ p' = p + 1 /\ buffer' = buffer /\ argv' = argv
      /\ line' = line /\ Here # 0
  BY DEF SkipBlank, Goes, Blanks, Blank, Tab
<1>2. /\ p \in 1 .. Len(line) /\ Here = line[p] /\ Len(line) \in Nat /\ p \in Nat
      /\ WordsBehind(line, WordsFrom(line)) /\ argc \in Nat
  BY <1>1, HereIs, LineFacts DEF Tokens
<1>3. Types'
  <2>1. p + 1 \in 1 .. (Len(line) + 1)
    BY <1>2
  <2> QED BY <1>1, <2>1 DEF Tokens, Types, argc
<1>4. UnreadIsLine'
  <2>1. \A j \in (p + 1) .. (Len(line) + 1) : j \in p .. (Len(line) + 1)
    BY <1>2
  <2> QED BY <1>1, <2>1 DEF Tokens, UnreadIsLine
<1>5. FinishedEnd'
  <2>1. /\ Finished \in Nat /\ Finished <= Len(argv) /\ EndBy(buffer, argv, Finished, p)
        /\ argv \in Seq(1 .. (Len(line) + 1)) /\ Len(line) + 1 \in Nat
    BY <1>2, FinishedAre DEF argc, Tokens, Types
  <2>2. EndBy(buffer, argv, Finished, p + 1)
    BY <1>2, <2>1, EndBySooner
  <2>3. Finished' = Finished
    BY <1>1 DEF Finished, argc
  <2> QED BY <1>1, <2>2, <2>3 DEF FinishedEnd, EndBy
<1>6. WordSoFar'
  BY <1>1 DEF WordSoFar
<1>7. WordsAddUp'
  <2>1. WordsFrom(line)[p] = WordsFrom(line)[p + 1]
    BY <1>1, <1>2 DEF WordsBehind
  <2>2. Arguments' = Arguments /\ WordsOf' = WordsOf
    BY <1>1 DEF Arguments, Argument, argc, WordsOf
  <2> QED BY <1>1, <2>1, <2>2 DEF Tokens, WordsAddUp
<1> QED BY <1>3, <1>4, <1>5, <1>6, <1>7 DEF Tokens
(* The first character of a word, or the quote in front of it, puts the word in progress. *)
LEMMA StartsAWord ==
  ASSUME Tokens, OpenQuote \/ StartWord, UNCHANGED line
  PROVE  Tokens'
<1> DEFINE begin == Begin(line, p)
           end == End(line, p)
           size == Len(line)
<1>1. /\ pc = "between" /\ Here \notin Blanks /\ Here # 0 /\ argc < MaxArgs
      /\ p' = p + 1 /\ buffer' = buffer /\ line' = line
  BY DEF OpenQuote, StartWord, Starts, Goes
<1>2. /\ p \in 1 .. size /\ Here = line[p] /\ size \in Nat /\ p \in Nat /\ buffer[p] = line[p]
      /\ WordsBehind(line, WordsFrom(line)) /\ argc \in Nat /\ MaxArgs \in Nat /\ line \in Seq(Nat)
  BY <1>1, HereIs, LineFacts DEF Tokens
<1>3. argv' = Append(argv, begin) /\ pc' \in {"word", "quoted"}
      /\ Ending(pc') = (IF line[p] = Quote THEN {Quote} ELSE Blanks)
      /\ end = FirstAt(line, begin, Ending(pc'))
  BY <1>2 DEF OpenQuote, StartWord, Goes, Begin, Ending, End
<1>4. /\ begin \in 1 .. (size + 1) /\ begin \in p .. (p + 1) /\ (line[p] # Quote => begin = p)
      /\ (line[p] = Quote => begin = p + 1)
  BY <1>2 DEF Begin
<1>5. /\ argv \in Seq(1 .. (size + 1)) /\ argv' \in Seq(1 .. (size + 1)) /\ argc' = argc + 1
      /\ Len(argv') = argc + 1
      /\ argv'[argc + 1] = begin /\ \A i \in 1 .. argc : argv'[i] = argv[i]
  <2>1. argv \in Seq(1 .. (size + 1))
    BY DEF Tokens, Types
  <2> HIDE DEF begin, size
  <2> QED BY <1>3, <1>4, <2>1, AppendProperties DEF argc
<1>6. Finished = argc /\ Finished' = argc
  <2>1. Finished' = argc' - 1
    BY <1>3 DEF Finished
  <2> QED BY <1>1, <1>2, <1>5, <2>1 DEF Finished
<1>7. Types'
  <2>1. p + 1 \in 1 .. (size + 1) /\ argc + 1 <= MaxArgs
    BY <1>1, <1>2
  <2>2. /\ pc' \in {"idle", "between", "word", "quoted", "look", "run", "answered", "halted"}
        /\ line' = line /\ buffer' = buffer /\ p' = p + 1 /\ argc' = argc + 1 /\ argv' \in Seq(1 .. (size + 1))
    BY <1>1, <1>3, <1>5
  <2> HIDE DEF begin, end
  <2> QED BY <2>1, <2>2 DEF Tokens, Types
<1>8. UnreadIsLine'
  <2>1. \A j \in (p + 1) .. (size + 1) : j \in p .. (size + 1)
    BY <1>2
  <2> QED BY <1>1, <2>1 DEF Tokens, UnreadIsLine
<1>9. FinishedEnd'
  <2>1. /\ argc <= Len(argv) /\ EndBy(buffer, argv, argc, p)
        /\ argv \in Seq(1 .. (size + 1)) /\ size + 1 \in Nat
    BY <1>2, <1>5, <1>6, FinishedAre DEF argc
  <2>2. EndBy(buffer, argv, argc, p + 1)
    <3> HIDE DEF size
    <3> QED BY <1>2, <2>1, EndBySooner
  <2>3. EndBy(buffer, argv', argc, p + 1)
    BY <1>5, <2>2 DEF EndBy
  <2> QED BY <1>1, <1>6, <2>3 DEF FinishedEnd, EndBy
<1>10. WordSoFar'
  <2>1. \A j \in begin .. ((p + 1) - 1) : j = p /\ line[p] # Quote
    BY <1>2, <1>4
  <2>2. \A j \in begin .. ((p + 1) - 1) : buffer[j] = line[j] /\ line[j] \notin Ending(pc')
    BY <1>1, <1>2, <1>3, <2>1
  <2>3. argv'[argc'] = begin /\ argc' > 0 /\ begin <= p + 1
    BY <1>2, <1>4, <1>5
  <2> HIDE DEF begin, Ending
  <2> QED BY <1>1, <2>2, <2>3 DEF WordSoFar
<1>11. WordsAddUp'
  <2>1. WordsOf = Arguments \o WordsFrom(line)[p] /\ WordsOf' = WordsOf
    BY <1>1 DEF Tokens, WordsAddUp, WordsOf
  <2>2. WordsFrom(line)[p] = <<SubSeq(line, begin, end - 1)>> \o WordsFrom(line)[end + 1]
    BY <1>1, <1>2 DEF WordsBehind
  <2>3. FinishedArguments = Arguments /\ FinishedArguments \in Seq(Seq(Nat))
    BY <1>6, FinishedAre DEF FinishedArguments, Arguments
  <2>4. FinishedArguments' = Arguments
    <3>1. \A i \in 1 .. argc : Argument(i)' = Argument(i)
      BY <1>1, <1>5 DEF Argument
    <3>2. FinishedArguments' = [i \in 1 .. Finished' |-> Argument(i)']
      BY DEF FinishedArguments
    <3> QED BY <1>6, <3>1, <3>2 DEF Arguments
  <2>5. SubSeq(line, begin, end - 1) \in Seq(Nat) /\ end + 1 \in 1 .. (size + 2)
    <3>1. SubSeq(line, begin, end - 1) \in Seq(Nat) /\ end + 1 \in (p + 1) .. (size + 2)
      BY <1>2, WordPlace
    <3> HIDE DEF begin, end, size
    <3> QED BY <1>2, <3>1
  <2>6. WordsFrom(line)[end + 1] \in Seq(Seq(Nat))
    BY <1>2, <2>5 DEF WordsBehind
  <2> DEFINE word == SubSeq(line, begin, end - 1)
             rest == WordsFrom(line)[end + 1]
  <2>7. Arguments \o (<<word>> \o rest) = (Arguments \o <<word>>) \o rest
    <3> HIDE DEF word, rest, Arguments
    <3>1. <<word>> \in Seq(Seq(Nat))
      BY <2>5 DEF word
    <3>2. Arguments \in Seq(Seq(Nat)) /\ rest \in Seq(Seq(Nat))
      BY <2>3, <2>6 DEF rest
    <3> QED BY SMTT(30), <3>1, <3>2, ConcatAssociative
  <2>8. WordsOf' = FinishedArguments' \o <<word>> \o rest
    BY <2>1, <2>2, <2>4, <2>7
  <2>9. end = FirstAt(line, argv'[argc'], Ending(pc')) /\ begin = argv'[argc']
    BY <1>2, <1>3, <1>5
  <2> HIDE DEF begin, end, Ending, FinishedArguments, WordsOf
  <2>10. WordsOf' = FinishedArguments' \o <<SubSeq(line', argv'[argc'], end - 1)>> \o WordsFrom(line')[end + 1]
    BY <1>1, <2>8, <2>9
  <2> QED BY <1>1, <1>3, <2>9, <2>10 DEF WordsAddUp
<1> QED BY <1>7, <1>8, <1>9, <1>10, <1>11 DEF Tokens
(* What a word in progress looks like.                                      *)
LEMMA WordInProgress ==
  ASSUME Tokens, pc \in {"word", "quoted"}
  PROVE  LET begin == argv[argc]
             end == FirstAt(line, begin, Ending(pc))
         IN  /\ argc \in Nat \ {0} /\ Finished = argc - 1 /\ begin \in 1 .. (Len(line) + 1) /\ begin <= p
             /\ \A j \in begin .. (p - 1) : buffer[j] = line[j] /\ line[j] \notin Ending(pc)
             /\ FinishedArguments = ArgsOf(buffer, argv, argc - 1)
             /\ WordsOf = FinishedArguments \o <<SubSeq(line, begin, end - 1)>> \o WordsFrom(line)[end + 1]
<1>1. argc \in Nat \ {0} /\ Finished = argc - 1
  BY LineFacts DEF Tokens, WordSoFar, Finished
<1>2. argv[argc] \in 1 .. (Len(line) + 1)
  BY <1>1, ElementOfSeq DEF Tokens, Types, argc
<1>3. FinishedArguments = ArgsOf(buffer, argv, argc - 1)
  BY <1>1, ArgumentsAre
<1> QED BY <1>1, <1>2, <1>3 DEF Tokens, WordSoFar, WordsAddUp

LEMMA ReadsOn ==
  ASSUME Tokens, pc \in {"word", "quoted"}, Here \notin Ending(pc) \cup {0}, Goes(pc),
         UNCHANGED <<line, buffer, argv>>
  PROVE  Tokens'
<1>1. /\ pc' = pc /\ p' = p + 1 /\ buffer' = buffer /\ line' = line /\ argv' = argv
      /\ Here \notin Ending(pc) /\ Here # 0
  BY DEF Goes
<1>2. /\ p \in 1 .. Len(line) /\ Here = line[p] /\ Len(line) \in Nat /\ p \in Nat /\ buffer[p] = line[p]
  BY <1>1, HereIs, LineFacts DEF Tokens
<1>3. Types'
  <2>1. p + 1 \in 1 .. (Len(line) + 1)
    BY <1>2
  <2> QED BY <1>1, <2>1 DEF Tokens, Types, argc
<1>4. UnreadIsLine'
  <2>1. \A j \in (p + 1) .. (Len(line) + 1) : j \in p .. (Len(line) + 1)
    BY <1>2
  <2> QED BY <1>1, <2>1 DEF Tokens, UnreadIsLine
<1>5. FinishedEnd'
  <2>1. /\ Finished \in Nat /\ Finished <= Len(argv) /\ EndBy(buffer, argv, Finished, p)
        /\ argv \in Seq(1 .. (Len(line) + 1)) /\ Len(line) + 1 \in Nat
    BY <1>2, FinishedAre, LineFacts DEF argc, Tokens, Types
  <2>2. EndBy(buffer, argv, Finished, p + 1)
    BY <1>2, <2>1, EndBySooner
  <2>3. Finished' = Finished
    BY <1>1 DEF Finished, argc
  <2> QED BY <1>1, <2>2, <2>3 DEF FinishedEnd, EndBy
<1>6. WordSoFar'
  <2> DEFINE begin == argv[argc]
  <2>1. /\ begin \in 1 .. (Len(line) + 1) /\ begin <= p /\ argc \in Nat \ {0}
        /\ \A j \in begin .. (p - 1) : buffer[j] = line[j] /\ line[j] \notin Ending(pc)
    BY WordInProgress
  <2>2. argc' = argc /\ argv'[argc'] = begin
    BY <1>1 DEF argc
  <2> HIDE DEF begin, Ending
  <2>3. \A j \in begin .. ((p + 1) - 1) : j = p \/ j \in begin .. (p - 1)
    BY <1>2, <2>1
  <2>4. \A j \in begin .. ((p + 1) - 1) : buffer[j] = line[j] /\ line[j] \notin Ending(pc)
    BY <1>1, <1>2, <2>1, <2>3
  <2>5. begin <= p + 1
    BY <1>2, <2>1
  <2> QED BY <1>1, <2>1, <2>2, <2>4, <2>5 DEF WordSoFar
<1>7. WordsAddUp'
  <2>1. FinishedArguments' = FinishedArguments /\ WordsOf' = WordsOf /\ argc' = argc
    BY <1>1 DEF FinishedArguments, Finished, Argument, argc, WordsOf
  <2> HIDE DEF Ending
  <2> QED BY <1>1, <2>1 DEF Tokens, WordsAddUp
<1> QED BY <1>3, <1>4, <1>5, <1>6, <1>7 DEF Tokens

(* The end of a word: at the end of the line, or where a terminator is      *)
(* written.                                                                *)
LEMMA WordIsDone ==
  ASSUME Tokens, pc \in {"word", "quoted"}, p = Len(line) + 1 \/ Here \in Ending(pc),
         NEW after, after \in [1 .. (Len(line) + 1) -> Nat], after[p] = 0,
         WrittenAt(buffer, after, Len(line) + 1, p),
         Here # 0 \/ after = buffer
  PROVE  /\ EndBy(after, argv, argc, p)
         /\ WordsOf = ArgsOf(after, argv, argc) \o WordsFrom(line)[p + 1]
<1> DEFINE begin == argv[argc]
           end == FirstAt(line, begin, Ending(pc))
           size == Len(line) + 1
<1>1. /\ argc \in Nat \ {0} /\ Finished = argc - 1 /\ begin \in 1 .. size /\ begin <= p
      /\ \A j \in begin .. (p - 1) : buffer[j] = line[j] /\ line[j] \notin Ending(pc)
      /\ FinishedArguments = ArgsOf(buffer, argv, argc - 1)
      /\ WordsOf = FinishedArguments \o <<SubSeq(line, begin, end - 1)>> \o WordsFrom(line)[end + 1]
  BY WordInProgress
<1>2. /\ p \in 1 .. size /\ size \in Nat /\ line \in Seq(Nat) /\ Len(line) \in Nat /\ buffer \in [1 .. size -> Nat]
      /\ argv \in Seq(1 .. size) /\ Here = buffer[p] /\ argc = Len(argv) /\ line \in Seq(Nat \ {0})
      /\ (p # size => Here = line[p])
  BY HereIs, LineFacts DEF Tokens, Types, argc
<1>3. end = p
  <2>1. p \in begin .. (Len(line) + 1)
    BY <1>1, <1>2
  <2>2. p = Len(line) + 1 \/ line[p] \in Ending(pc)
    BY <1>2
  <2>3. Clear(line, begin, p, Ending(pc)) /\ begin \in 1 .. (Len(line) + 1) /\ line \in Seq(Nat)
    BY <1>1, <1>2 DEF Clear
  <2> HIDE DEF begin, Ending
  <2> QED BY <2>1, <2>2, <2>3, FirstAtIs
<1>4. /\ ArgsOf(after, argv, argc - 1) = FinishedArguments /\ EndBy(after, argv, argc - 1, p)
      /\ FinishedArguments \in Seq(Seq(Nat))
  <2>1. EndBy(buffer, argv, argc - 1, p) /\ FinishedArguments \in Seq(Seq(Nat))
    BY <1>1, FinishedAre
  <2>2. CASE after = buffer
    BY <1>1, <2>1, <2>2
  <2>3. CASE Here # 0
    <3>1. /\ argc - 1 \in 0 .. Len(argv) /\ buffer[p] # 0 /\ after \in [1 .. size -> Nat]
          /\ WrittenAt(buffer, after, size, p) /\ buffer \in [1 .. size -> Nat] /\ argv \in Seq(1 .. size)
          /\ p \in 1 .. size /\ size \in Nat
      BY <1>1, <1>2, <2>3
    <3>2. /\ ArgsOf(after, argv, argc - 1) = ArgsOf(buffer, argv, argc - 1)
          /\ EndBy(after, argv, argc - 1, p)
      <4> HIDE DEF size
      <4> QED BY <2>1, <3>1, ArgsKept
    <3> QED BY <1>1, <2>1, <3>2
  <2> QED BY <2>2, <2>3
<1>5. CString(after, begin) = SubSeq(line, begin, p - 1) /\ SubSeq(line, begin, p - 1) \in Seq(Nat)
  <2>1. \A j \in begin .. (p - 1) : j \in 1 .. size /\ j # p
    <3> HIDE DEF begin, size
    <3> QED BY <1>1, <1>2
  <2>2. Copied(after, line, begin, p)
    BY <1>1, <2>1 DEF Copied, WrittenAt
  <2>3. /\ p \in begin .. size /\ after \in [1 .. size -> Nat] /\ size = Len(line) + 1 /\ size \in Nat
        /\ begin \in 1 .. size /\ line \in Seq(Nat \ {0}) /\ line \in Seq(Nat) /\ after[p] = 0
    BY <1>1, <1>2
  <2>4. SubSeq(line, begin, p - 1) \in Seq(Nat)
    BY <2>3, WordIsText
  <2> HIDE DEF begin, size
  <2>5. CString(after, begin) = SubSeq(line, begin, p - 1)
    BY ZenonT(60), <2>2, <2>3, CStringIsWord
  <2> QED BY <2>4, <2>5
<1>6. EndBy(after, argv, argc, p)
  <2>1. p \in begin .. p
    BY <1>1, <1>2
  <2>2. \A i \in 1 .. argc : i = argc \/ i \in 1 .. (argc - 1)
    BY <1>1
  <2> QED BY <1>4, <2>1, <2>2 DEF EndBy
<1>7. ArgsOf(after, argv, argc) = FinishedArguments \o <<SubSeq(line, begin, p - 1)>>
  <2> HIDE DEF FinishedArguments
  <2>0. /\ argc \in Nat \ {0} /\ ArgsOf(after, argv, argc - 1) \in Seq(Seq(Nat))
        /\ CString(after, argv[argc]) \in Seq(Nat)
    BY <1>1, <1>4, <1>5
  <2>1. ArgsOf(after, argv, argc) = ArgsOf(after, argv, argc - 1) \o <<CString(after, argv[argc])>>
    BY <2>0, OneMoreArgument
  <2> QED BY <1>4, <1>5, <2>1
<1> QED BY <1>1, <1>3, <1>6, <1>7
(* A blank, or the quote that closes, finishes the word: a terminator takes its place. *)
LEMMA EndsWord ==
  ASSUME Tokens, pc \in {"word", "quoted"}, Here \in Ending(pc), Ends, UNCHANGED <<line, argv>>
  PROVE  Tokens'
<1> DEFINE size == Len(line) + 1
<1>1. /\ pc' = "between" /\ p' = p + 1 /\ buffer' = [buffer EXCEPT ![p] = 0] /\ line' = line /\ argv' = argv
      /\ Here # 0 /\ argc' = argc
  BY DEF Goes, Ends, Ending, Blanks, Blank, Tab, Quote, argc
<1>2. /\ p \in 1 .. Len(line) /\ Len(line) \in Nat /\ p \in Nat /\ buffer \in [1 .. size -> Nat] /\ argc \in Nat
  BY <1>1, HereIs, LineFacts DEF Tokens
<1>3. /\ buffer' \in [1 .. size -> Nat] /\ buffer'[p] = 0 /\ WrittenAt(buffer, buffer', size, p)
  <2>1. p \in 1 .. size
    BY <1>2
  <2> HIDE DEF size
  <2> QED BY <1>1, <1>2, <2>1 DEF WrittenAt
<1>4. /\ EndBy(buffer', argv, argc, p)
      /\ WordsOf = ArgsOf(buffer', argv, argc) \o WordsFrom(line)[p + 1]
  BY <1>1, <1>3, WordIsDone
<1>5. Types'
  <2>1. p + 1 \in 1 .. size
    BY <1>2
  <2> QED BY <1>1, <1>3, <2>1 DEF Tokens, Types
<1>6. UnreadIsLine'
  <2>1. \A j \in (p + 1) .. size : j \in p .. size /\ j # p /\ j \in 1 .. size
    BY <1>2
  <2>2. \A j \in (p + 1) .. size : buffer'[j] = CharAt(line, j)
    BY <1>3, <2>1 DEF Tokens, UnreadIsLine, WrittenAt
  <2> QED BY <1>1, <2>2 DEF UnreadIsLine
<1>7. FinishedEnd'
  <2>1. /\ argc <= Len(argv) /\ argv \in Seq(1 .. size) /\ size \in Nat
    BY <1>2 DEF argc, Tokens, Types
  <2>2. EndBy(buffer', argv, argc, p + 1)
    <3> HIDE DEF size
    <3> QED BY <1>2, <1>4, <2>1, EndBySooner
  <2>3. Finished' = argc
    BY <1>1 DEF Finished
  <2> QED BY <1>1, <2>2, <2>3 DEF FinishedEnd, EndBy
<1>8. WordSoFar'
  BY <1>1 DEF WordSoFar
<1>9. WordsAddUp'
  <2>1. Arguments' = ArgsOf(buffer', argv, argc) /\ WordsOf' = WordsOf
    BY <1>1 DEF Arguments, Argument, ArgsOf, argc, WordsOf
  <2> QED BY <1>1, <1>4, <2>1 DEF WordsAddUp
<1> QED BY <1>5, <1>6, <1>7, <1>8, <1>9 DEF Tokens

(* The terminator of the line finishes the word in progress.                *)
LEMMA LineEndsWord ==
  ASSUME Tokens, pc \in {"word", "quoted"}, Here = 0, pc' = "between", UNCHANGED <<line, argv, p, buffer>>
  PROVE  Tokens'
<1>1. /\ pc' = "between" /\ p' = p /\ buffer' = buffer /\ line' = line /\ argv' = argv /\ argc' = argc
  BY DEF argc
<1>2. /\ p = Len(line) + 1 /\ Len(line) \in Nat /\ buffer \in [1 .. (Len(line) + 1) -> Nat] /\ buffer[p] = 0
      /\ WordsBehind(line, WordsFrom(line))
  BY HereIs, LineFacts DEF Tokens
<1>3. EndBy(buffer, argv, argc, p) /\ WordsOf = ArgsOf(buffer, argv, argc) \o WordsFrom(line)[p + 1]
  <2>1. WrittenAt(buffer, buffer, Len(line) + 1, p)
    BY DEF WrittenAt
  <2> QED BY <1>2, <2>1, WordIsDone
<1>4. Types' /\ UnreadIsLine'
  BY <1>1 DEF Tokens, Types, UnreadIsLine
<1>5. FinishedEnd'
  <2>1. Finished' = argc
    BY <1>1 DEF Finished
  <2> QED BY <1>1, <1>3, <2>1 DEF FinishedEnd, EndBy
<1>6. WordSoFar'
  BY <1>1 DEF WordSoFar
<1>7. WordsAddUp'
  <2>1. WordsFrom(line)[p] = WordsFrom(line)[p + 1]
    <3>1. p + 1 = Len(line) + 2
      BY <1>2
    <3> QED BY <1>2, <3>1 DEF WordsBehind
  <2>2. Arguments' = ArgsOf(buffer, argv, argc) /\ WordsOf' = WordsOf
    BY <1>1 DEF Arguments, Argument, ArgsOf, argc, WordsOf
  <2> QED BY <1>1, <1>3, <2>1, <2>2 DEF WordsAddUp
<1> QED BY <1>4, <1>5, <1>6, <1>7 DEF Tokens

(* At the end of the line, or at the limit, the arguments are the first words of the line. *)
LEMMA ReachesEnd ==
  ASSUME Tokens, EndOfLine, UNCHANGED line
  PROVE  Tokens' /\ Arguments' = SubSeq(WordsOf', 1, Min({MaxArgs, Len(WordsOf')}))
<1>1. /\ pc = "between" /\ pc' = "look" /\ UNCHANGED <<p, buffer, argv, line>>
      /\ Here = 0 \/ (Here \notin Blanks /\ Here # 0 /\ argc >= MaxArgs)
  BY DEF EndOfLine
<1>2. Types' /\ UnreadIsLine'
  BY <1>1 DEF Tokens, Types, UnreadIsLine, argc
<1>3. FinishedEnd'
  <2>1. Finished' = Finished
    BY <1>1 DEF Finished, argc
  <2> QED BY <1>1, <2>1 DEF Tokens, FinishedEnd
<1>4. WordSoFar' /\ WordsAddUp'
  BY <1>1 DEF WordSoFar, WordsAddUp
<1>5. /\ Arguments' = Arguments /\ WordsOf' = WordsOf
      /\ WordsOf = Arguments \o WordsFrom(line)[p]
  BY <1>1 DEF Tokens, WordsAddUp, Arguments, Argument, argc, WordsOf
<1> DEFINE rest == WordsFrom(line)[p]
<1>6. Arguments \in Seq(Seq(Nat)) /\ Len(Arguments) = argc /\ argc \in Nat /\ argc <= MaxArgs /\ MaxArgs \in Nat
  <2>1. FinishedArguments = Arguments /\ Finished = argc
    BY <1>1 DEF FinishedArguments, Finished, Arguments
  <2> HIDE DEF Arguments, FinishedArguments
  <2> QED BY <2>1, FinishedAre, LineFacts DEF Tokens
<1>7. rest \in Seq(Seq(Nat)) /\ (rest = <<>> \/ argc = MaxArgs)
  <2>1. p \in 1 .. (Len(line) + 1) /\ Len(line) \in Nat /\ WordsBehind(line, WordsFrom(line))
    BY LineFacts DEF Tokens, Types
  <2>2. p \in 1 .. (Len(line) + 2)
    BY <2>1
  <2>3. Here = 0 => p = Len(line) + 1
    BY HereIs DEF Tokens
  <2> QED BY <1>1, <1>6, <2>1, <2>2, <2>3 DEF WordsBehind
<1> DEFINE all == Arguments \o rest
<1> HIDE DEF rest, Arguments
<1>8. /\ all \in Seq(Seq(Nat)) /\ Len(all) = argc + Len(rest) /\ Len(rest) \in Nat
      /\ \A i \in 1 .. argc : all[i] = Arguments[i]
  <2>1. /\ all \in Seq(Seq(Nat)) /\ Len(all) = Len(Arguments) + Len(rest)
        /\ \A i \in 1 .. Len(Arguments) + Len(rest) :
             all[i] = IF i <= Len(Arguments) THEN Arguments[i] ELSE rest[i - Len(Arguments)]
    BY <1>6, <1>7, ConcatProperties
  <2>2. Len(rest) \in Nat
    BY <1>7, LenProperties
  <2> HIDE DEF all
  <2>3. \A i \in 1 .. argc : i \in 1 .. Len(Arguments) + Len(rest) /\ i <= Len(Arguments)
    BY <1>6, <2>2
  <2> QED BY <1>6, <2>1, <2>2, <2>3
<1>9. Min({MaxArgs, Len(all)}) = argc
  <2>1. argc = MaxArgs \/ argc = Len(all)
    <3>1. rest = <<>> => Len(rest) = 0
      OBVIOUS
    <3> QED BY <1>6, <1>7, <1>8, <3>1
  <2>2. argc <= Len(all) /\ Len(all) \in Nat
    BY <1>6, <1>8
  <2> DEFINE S == {MaxArgs, Len(all)}
  <2> HIDE DEF all
  <2>3. S \in SUBSET Nat /\ argc \in S /\ \A x \in S : argc <= x
    BY <1>6, <2>1, <2>2
  <2> HIDE DEF S
  <2>4. Min(S) = argc
    BY <2>3, MinIs
  <2> QED BY <2>4 DEF S
<1>10. SubSeq(all, 1, argc) = Arguments
  <2> HIDE DEF all
  <2>1. SubSeq(all, 1, argc) = [i \in 1 .. argc |-> all[i]]
    BY <1>6
  <2>2. Arguments = [i \in 1 .. argc |-> Arguments[i]]
    BY <1>6, LenProperties
  <2> QED BY <1>8, <2>1, <2>2
<1> HIDE DEF all
<1>11. WordsOf = all
  BY <1>5 DEF all, rest
<1> QED BY <1>2, <1>3, <1>4, <1>5, <1>9, <1>10, <1>11 DEF Tokens
-----------------------------------------------------------------------------
(* The invariant.                                                           *)

Behind == {"look", "run", "answered"}

(* Each step of the tokenizer keeps the invariant.                          *)
LEMMA TokenizeKeeps ==
  ASSUME Inductive, Tokenize
  PROVE  Inductive'
<1>1. Tokens /\ UNCHANGED line
  BY DEF Inductive, Tokens, Tokenize
<1>2. CASE SkipBlank
  <2>1. Tokens' /\ pc' = "between"
    BY <1>1, <1>2, SkipsBlank DEF SkipBlank, Goes
  <2> QED BY <2>1 DEF Tokens, Types, Inductive, NothingTyped, ArgumentsAreWords
<1>3. CASE OpenQuote \/ StartWord
  <2>1. Tokens' /\ pc' \in {"word", "quoted"}
    BY <1>1, <1>3, StartsAWord DEF OpenQuote, StartWord, Goes
  <2> QED BY <2>1 DEF Tokens, Types, Inductive, NothingTyped, ArgumentsAreWords
<1>4. CASE InWord
  <2>1. Tokens' /\ pc' \in {"between", "word", "quoted"}
    <3>1. CASE Here = 0 /\ pc' = "between" /\ UNCHANGED <<p, buffer>>
      BY <1>1, <1>4, <3>1, LineEndsWord DEF InWord
    <3>2. CASE Here \in Ending(pc) /\ Ends
      BY <1>1, <1>4, <3>2, EndsWord DEF InWord, Ends, Goes
    <3>3. CASE Here \notin Ending(pc) \cup {0} /\ Goes(pc) /\ UNCHANGED buffer
      BY <1>1, <1>4, <3>3, ReadsOn DEF InWord, Goes
    <3> QED BY <1>4, <3>1, <3>2, <3>3 DEF InWord
  <2> QED BY <2>1 DEF Tokens, Types, Inductive, NothingTyped, ArgumentsAreWords
<1>5. CASE EndOfLine
  <2>1. Tokens' /\ pc' = "look" /\ Arguments' = SubSeq(WordsOf', 1, Min({MaxArgs, Len(WordsOf')}))
    BY <1>1, <1>5, ReachesEnd DEF EndOfLine
  <2>2. p' \in DOMAIN buffer'
    BY <2>1 DEF Tokens, Types
  <2>3. ArgumentsAreWords'
    BY <2>1, <2>2 DEF ArgumentsAreWords
  <2> QED BY <2>1, <2>3 DEF Tokens, Inductive, NothingTyped
<1> QED BY <1>2, <1>3, <1>4, <1>5 DEF Tokenize

(* Behind the tokenizer nobody writes into the line.                        *)
LEMMA LineKept ==
  ASSUME Inductive, pc \in Behind, pc' \in Behind \cup {"halted"}, UNCHANGED <<line, buffer, p, argv>>
  PROVE  Inductive'
<1>1. Types' /\ UnreadIsLine'
  BY DEF Inductive, Types, UnreadIsLine, argc, Behind
<1>2. FinishedEnd'
  <2>1. Finished' = Finished
    BY DEF Finished, argc, Behind
  <2> QED BY <2>1 DEF Inductive, FinishedEnd
<1>3. WordSoFar' /\ WordsAddUp' /\ NothingTyped'
  BY DEF WordSoFar, WordsAddUp, NothingTyped, Behind
<1>4. ArgumentsAreWords'
  <2>1. Arguments' = Arguments /\ WordsOf' = WordsOf
    BY DEF Arguments, Argument, argc, WordsOf
  <2> QED BY <2>1 DEF Inductive, ArgumentsAreWords, Behind
<1> QED BY <1>1, <1>2, <1>3, <1>4 DEF Inductive

(* What is typed holds no terminator.                                       *)
LEMMA CharactersAreText ==
  /\ Characters \subseteq Nat \ {0}
  /\ \A s : s \in Seq(Characters) => s \in Seq(Nat \ {0})
<1>1. Characters \subseteq Nat \ {0}
  BY DEF Characters
<1> HIDE DEF Characters
<1> QED BY <1>1, SeqMonotonic

(* A new line has no words behind the pointer and all its words in front of it. *)
LEMMA EnterKeeps ==
  ASSUME Inductive, NEW typed \in Lines, Enter(typed)
  PROVE  Inductive'
<1>1. /\ pc' = "between" /\ line' = typed /\ buffer' = Append(typed, 0) /\ p' = 1 /\ argv' = <<>>
  BY DEF Inductive, NothingTyped, Enter
<1>2. /\ typed \in Seq(Nat \ {0}) /\ typed \in Seq(Nat) /\ Len(typed) \in Nat /\ DOMAIN typed = 1 .. Len(typed)
  <2>1. \A s : s \in Seq(Nat \ {0}) => s \in Seq(Nat)
    OBVIOUS
  <2>2. typed \in Seq(Nat \ {0})
    BY CommandLineAssumption, CharactersAreText
  <2> QED BY <2>1, <2>2, LenProperties
<1>3. /\ buffer' \in [1 .. (Len(typed) + 1) -> Nat]
      /\ \A j \in 1 .. Len(typed) : buffer'[j] = typed[j]
      /\ buffer'[Len(typed) + 1] = 0
  <2>1. /\ Append(typed, 0) \in Seq(Nat) /\ Len(Append(typed, 0)) = Len(typed) + 1
        /\ \A j \in 1 .. Len(typed) : Append(typed, 0)[j] = typed[j]
        /\ Append(typed, 0)[Len(typed) + 1] = 0
    BY <1>2, AppendProperties
  <2> QED BY <1>1, <2>1, LenProperties
<1>4. Types'
  <2>1. 1 \in 1 .. (Len(typed) + 1) /\ <<>> \in Seq(1 .. (Len(typed) + 1)) /\ Len(<<>>) = 0 /\ 0 <= MaxArgs
    BY <1>2, EmptySeq, CommandLineAssumption
  <2> QED BY <1>1, <1>2, <1>3, <2>1 DEF Types, argc
<1>5. UnreadIsLine'
  <2>1. \A j \in 1 .. (Len(typed) + 1) : j \in 1 .. Len(typed) \/ (j = Len(typed) + 1 /\ j \notin 1 .. Len(typed))
    BY <1>2
  <2>2. \A j \in 1 .. (Len(typed) + 1) : buffer'[j] = CharAt(typed, j)
    BY <1>2, <1>3, <2>1 DEF CharAt
  <2> QED BY <1>1, <2>2 DEF UnreadIsLine
<1>6. Finished' = 0 /\ argc' = 0
  BY <1>1 DEF Finished, argc
<1>7. FinishedEnd' /\ WordSoFar' /\ NothingTyped'
  BY <1>1, <1>6 DEF FinishedEnd, WordSoFar, NothingTyped
<1>8. WordsAddUp'
  <2>1. Arguments' = <<>>
    BY <1>1, <1>6 DEF Arguments
  <2>2. WordsFrom(typed)[1] \in Seq(Seq(Nat))
    <3>1. 1 \in 1 .. (Len(typed) + 2)
      BY <1>2
    <3> QED BY <1>2, <3>1, WordsFromIsWords DEF WordsBehind
  <2>3. <<>> \o WordsFrom(typed)[1] = WordsFrom(typed)[1]
    BY <2>2, ConcatEmptySeq
  <2>4. WordsOf' = WordsFrom(typed)[1]
    BY <1>1 DEF WordsOf
  <2> QED BY <1>1, <2>1, <2>3, <2>4 DEF WordsAddUp
<1>9. ArgumentsAreWords'
  BY <1>1, <1>4 DEF ArgumentsAreWords, Types
<1> QED BY <1>4, <1>5, <1>7, <1>8, <1>9 DEF Inductive

(* With the new prompt nothing is typed yet.                                *)
LEMMA PromptKeeps ==
  ASSUME pc' = "idle", line' = <<>>, buffer' = << 0 >>, p' = 1, argv' = <<>>
  PROVE  Inductive'
<1>1. /\ <<>> \in Seq(Nat \ {0}) /\ Len(<<>>) = 0 /\ <<>> \in Seq(1 .. 1) /\ 0 <= MaxArgs
      /\ <<0>> \in [1 .. 1 -> Nat] /\ 0 + 1 = 1
  BY EmptySeq, CommandLineAssumption
<1>2. Types'
  BY <1>1 DEF Types, argc
<1>3. UnreadIsLine'
  <2>1. \A j \in 1 .. (0 + 1) : j = 1 /\ <<0>>[j] = 0 /\ j \notin DOMAIN <<>>
    OBVIOUS
  <2> QED BY <1>1, <2>1 DEF UnreadIsLine, CharAt
<1>4. Finished' = 0
  BY DEF Finished, argc
<1>5. FinishedEnd' /\ WordSoFar' /\ WordsAddUp' /\ NothingTyped'
  BY <1>4 DEF FinishedEnd, WordSoFar, WordsAddUp, NothingTyped
<1>6. ArgumentsAreWords'
  BY <1>2 DEF ArgumentsAreWords, Types
<1> QED BY <1>2, <1>3, <1>5, <1>6 DEF Inductive

(* At the start nothing has been typed.                                     *)
LEMMA InitInductive == Init => Inductive
<1> SUFFICES ASSUME Init PROVE Inductive
  OBVIOUS
<1>1. /\ pc = "idle" /\ line = <<>> /\ buffer = <<0>> /\ p = 1 /\ argv = <<>>
  BY DEF Init
<1>2. /\ <<>> \in Seq(Nat \ {0}) /\ Len(<<>>) = 0 /\ <<>> \in Seq(1 .. 1) /\ 0 <= MaxArgs
      /\ <<0>> \in [1 .. 1 -> Nat] /\ 0 + 1 = 1
  BY EmptySeq, CommandLineAssumption
<1>3. Types
  BY <1>1, <1>2 DEF Types, argc
<1>4. UnreadIsLine
  <2>1. \A j \in 1 .. (0 + 1) : j = 1 /\ <<0>>[j] = 0 /\ j \notin DOMAIN <<>>
    OBVIOUS
  <2> QED BY <1>1, <1>2, <2>1 DEF UnreadIsLine, CharAt
<1>5. Finished = 0
  BY <1>1 DEF Finished, argc
<1>6. FinishedEnd /\ WordSoFar /\ WordsAddUp /\ NothingTyped
  BY <1>1, <1>5 DEF FinishedEnd, WordSoFar, WordsAddUp, NothingTyped
<1>7. ArgumentsAreWords
  BY <1>1, <1>3 DEF ArgumentsAreWords, Types
<1> QED BY <1>3, <1>4, <1>6, <1>7 DEF Inductive

(* A command leaves the line alone.                                         *)
LEMMA CommandsKeepLine ==
  ASSUME LookUp \/ LookUpUnset \/ Handler
  PROVE  pc \in Behind /\ pc' \in Behind \cup {"halted"} /\ UNCHANGED <<line, buffer, p, argv>>
<1>1. CASE LookUp \/ LookUpUnset
  BY <1>1 DEF LookUp, LookUpUnset, Stop, Behind
<1>2. CASE Handler
  <2>1. pc = "run"
    BY <1>2 DEF Handler, NoSuchCommand, cmd_help, HelpOfUnset, cmd_echo, cmd_calc, cmd_colorshell, cmd_quit,
      cmd_shutdown, cmd_halt, cmd_debug, cmd_ticks, cmd_meminfo, cmd_alloc, cmd_runtime, cmd_strlen, cmd_strcmp,
      cmd_strncmp, cmd_pageinfo, cmd_elsewhere, FaultsInMemory, Runs
  <2>2. pc' \in {"answered", "halted"} /\ UNCHANGED <<line, buffer, p, argv>>
    BY <1>2 DEF Handler, NoSuchCommand, cmd_help, HelpOfUnset, cmd_echo, cmd_calc, cmd_colorshell, cmd_quit,
      cmd_shutdown, cmd_halt, cmd_debug, cmd_ticks, cmd_meminfo, cmd_alloc, cmd_runtime, cmd_strlen, cmd_strcmp,
      cmd_strncmp, cmd_pageinfo, cmd_elsewhere, FaultsInMemory, Answered, Stop
  <2> QED BY <2>1, <2>2 DEF Behind
<1> QED BY <1>1, <1>2

(* Each step keeps the invariant.                                           *)
LEMMA StepInductive == Inductive /\ [Next]_vars => Inductive'
<1> SUFFICES ASSUME Inductive, [Next]_vars PROVE Inductive'
  OBVIOUS
<1>1. CASE Tokenize
  BY <1>1, TokenizeKeeps
<1>2. CASE LookUp \/ LookUpUnset \/ Handler
  BY <1>2, CommandsKeepLine, LineKept
<1>3. CASE ShowsPrompt
  BY <1>3, PromptKeeps DEF ShowsPrompt
<1>4. CASE \E typed \in Lines : Enter(typed)
  BY <1>4, EnterKeeps
<1>5. CASE UNCHANGED vars
  <2>1. UNCHANGED <<pc, line, buffer, p, argv>>
    BY <1>5 DEF vars
  <2> QED BY ZenonT(60), <2>1 DEF Inductive, Types, UnreadIsLine, FinishedEnd, Finished, WordSoFar, WordsAddUp, NothingTyped,
        ArgumentsAreWords, Arguments, FinishedArguments, Argument, argc, WordsOf
<1> QED BY <1>1, <1>2, <1>3, <1>4, <1>5 DEF Next, Work

(* While the tokenizer walks over a line and writes into it, the words that *)
(* it is done with stay, and with what is left they make up the line.       *)
THEOREM LineInvariant == Spec => []Inductive
BY InitInductive, StepInductive, PTL DEF Spec

(* The arguments of a command are the words of the line as it was typed, up *)
(* to the limit, whatever was typed: blanks, quotes, quotes that are never  *)
(* closed, words beyond the limit.                                         *)
THEOREM CommandsGetTheWords == Spec => []ArgumentsAreWords
<1>1. Inductive => ArgumentsAreWords
  BY DEF Inductive
<1> QED BY LineInvariant, <1>1, PTL

-----------------------------------------------------------------------------
(* The command table.                                                       *)

(* The powers of sixteen, and the words below the highest of them.          *)
LEMMA PowersUpTo ==
  ASSUME NEW N \in Nat
  PROVE  /\ SixteenTo(N) \in Nat \ {0}
         /\ \E f : SixteenTo(N) = f[N] /\ f[0] = 1 /\ \A n \in 1 .. N : f[n] = 16 * f[n - 1]
<1> DEFINE Body(value, n) == 16 * value
           X == Nat \ {0}
           step == [n \in 1 .. N |-> [value \in X |-> Body(value, n)]]
           Loop(f) == f = [n \in 0 .. N |-> IF n = 0 THEN 1 ELSE Body(f[n - 1], n)]
<1>1. 1 \in X
  OBVIOUS
<1>3. ASSUME NEW value \in X, NEW n \in 1 .. N PROVE Body(value, n) \in X
  OBVIOUS
<1> HIDE DEF X
<1> HIDE DEF Body
<1>4. step \in [1 .. N -> [X -> X]]
  BY <1>3
<1>5. PICK g : LoopHistory(X, 1, N, step, g)
  <2> HIDE DEF step
  <2> QED BY <1>1, <1>4, LoopRuns
<1>6. Loop(g)
  <2>1. g \in [0 .. N -> X] /\ g[0] = 1 /\ \A n \in 1 .. N : g[n] = step[n][g[n - 1]]
    BY <1>5 DEF LoopHistory
  <2>2. /\ \A n \in 0 .. N : n # 0 => n \in 1 .. N
        /\ \A n \in 1 .. N : n - 1 \in 0 .. N
    BY <1>1
  <2>3. \A n \in 1 .. N : g[n] = Body(g[n - 1], n)
    BY <2>1, <2>2
  <2> QED BY <2>1, <2>2, <2>3
<1> DEFINE f == CHOOSE h : Loop(h)
<1>7. Loop(f)
  <2> HIDE DEF Loop
  <2> QED BY <1>6
<1>8. SixteenTo(N) = f[N]
  BY DEF SixteenTo, Body
<1> HIDE DEF f
<1>9. \A n \in 1 .. N : f[n] = Body(f[n - 1], n)
  <2>1. \A n \in 1 .. N : n # 0 /\ n \in 0 .. N
    BY <1>1
  <2> QED BY <1>7, <2>1
<1>10. LoopHistory(X, 1, N, step, f)
  <2>1. 0 \in 0 .. N
    BY <1>1
  <2>2. f = [n \in 0 .. N |-> f[n]] /\ f[0] = 1
    BY <1>7, <2>1
  <2>3. Follows(X, 1, N, step, f)
    BY <2>2, <1>9 DEF Follows
  <2> HIDE DEF step
  <2> QED BY <1>1, <1>4, <2>3, LoopIs
<1>11. f \in [0 .. N -> X] /\ f[0] = 1
  BY <1>10 DEF LoopHistory
<1>12. f[N] \in X /\ \A n \in 1 .. N : f[n] = 16 * f[n - 1]
  BY <1>9, <1>11 DEF Body
<1> QED BY <1>8, <1>11, <1>12 DEF X

LEMMA PowersOfSixteen ==
  /\ SixteenTo(0) = 1
  /\ \A n \in Nat : SixteenTo(n) \in Nat \ {0} /\ SixteenTo(n + 1) = 16 * SixteenTo(n)
<1>1. SixteenTo(0) = 1
  BY PowersUpTo
<1>2. ASSUME NEW n \in Nat PROVE SixteenTo(n) \in Nat \ {0}
  BY PowersUpTo
<1>3. ASSUME NEW n \in Nat PROVE SixteenTo(n + 1) = 16 * SixteenTo(n)
  <2>1. PICK f : SixteenTo(n) = f[n] /\ f[0] = 1 /\ \A m \in 1 .. n : f[m] = 16 * f[m - 1]
    BY PowersUpTo
  <2>2. n + 1 \in Nat /\ n + 1 \in 1 .. (n + 1) /\ n \in 0 .. n /\ (n + 1) - 1 = n /\ 0 \in 0 .. n
        /\ \A m \in 1 .. n : m \in 1 .. (n + 1)
    OBVIOUS
  <2>3. PICK g : SixteenTo(n + 1) = g[n + 1] /\ g[0] = 1 /\ \A m \in 1 .. (n + 1) : g[m] = 16 * g[m - 1]
    BY <2>2, PowersUpTo
  <2> DEFINE S == {m \in 0 .. n : f[m] = g[m]}
  <2>4. 0 \in S
    BY <2>1, <2>2, <2>3
  <2>5. ASSUME NEW m \in 1 .. n, m - 1 \in S PROVE m \in S
    <3>1. m \in 0 .. n /\ f[m] = 16 * f[m - 1] /\ g[m] = 16 * g[m - 1]
      BY <2>1, <2>2, <2>3
    <3> QED BY <2>5, <3>1
  <2>6. \A m \in 0 .. n : m \in S
    <3> HIDE DEF S
    <3> QED BY <2>4, <2>5, LoopKeeps
  <2>7. f[n] = g[n] /\ g[n + 1] = 16 * g[n]
    BY <2>2, <2>3, <2>6
  <2> QED BY <2>1, <2>3, <2>7
<1> QED BY <1>1, <1>2, <1>3

(* A word is a number, and every number modulo its size is one.             *)
LEMMA WordIsPositive == Word \in Nat \ {0} /\ Words \subseteq Nat /\ \A n \in Nat : (n % Word) \in Words
<1>1. HexDigits \in Nat
  BY TextsAssumption
<1>2. Word \in Nat \ {0}
  BY <1>1, PowersOfSixteen DEF Word
<1> HIDE DEF Word
<1>3. \A n \in Nat : (n % Word) \in 0 .. (Word - 1)
  BY <1>2, DivMod
<1> QED BY <1>2, <1>3 DEF Words

(* Every text has its bucket.                                               *)
LEMMA HashIsWord ==
  ASSUME NEW text \in Seq(Nat)
  PROVE  hash(text) \in Words
<1> DEFINE N == Len(text)
           Body(value, n) == (value + HashFactor * text[n]) % Word
           step == [n \in 1 .. N |-> [value \in Words |-> Body(value, n)]]
           Loop(f) == f = [n \in 0 .. N |-> IF n = 0 THEN 0 ELSE Body(f[n - 1], n)]
<1>1. N \in Nat /\ HashFactor \in Nat /\ Word \in Nat \ {0} /\ 0 \in Words
  BY LenProperties, CommandLineAssumption, WordIsPositive DEF Words
<1>2. \A n \in 1 .. N : text[n] \in Nat
  BY ElementOfSeq
<1> HIDE DEF N
<1>3. ASSUME NEW value \in Words, NEW n \in 1 .. N PROVE Body(value, n) \in Words
  <2>1. value \in Nat /\ text[n] \in Nat /\ HashFactor \in Nat
    BY <1>1, <1>2, WordIsPositive
  <2>2. \A a, b, c \in Nat : a + b * c \in Nat
    OBVIOUS
  <2>3. value + HashFactor * text[n] \in Nat
    BY <2>1, <2>2
  <2> QED BY <2>3, WordIsPositive
<1> HIDE DEF Body
<1>4. step \in [1 .. N -> [Words -> Words]]
  BY <1>3
<1>5. PICK g : LoopHistory(Words, 0, N, step, g)
  <2> HIDE DEF step
  <2> QED BY <1>1, <1>4, LoopRuns
<1>6. Loop(g)
  <2>1. g \in [0 .. N -> Words] /\ g[0] = 0 /\ \A n \in 1 .. N : g[n] = step[n][g[n - 1]]
    BY <1>5 DEF LoopHistory
  <2>2. /\ \A n \in 0 .. N : n # 0 => n \in 1 .. N
        /\ \A n \in 1 .. N : n - 1 \in 0 .. N
    BY <1>1
  <2>3. \A n \in 1 .. N : g[n] = Body(g[n - 1], n)
    BY <2>1, <2>2
  <2> QED BY <2>1, <2>2, <2>3
<1> DEFINE f == CHOOSE h : Loop(h)
<1>7. Loop(f)
  <2> HIDE DEF Loop
  <2> QED BY <1>6
<1>8. hash(text) = f[N]
  BY DEF hash, Body, N
<1> HIDE DEF f
<1>9. \A n \in 1 .. N : f[n] = Body(f[n - 1], n)
  <2>1. \A n \in 1 .. N : n # 0 /\ n \in 0 .. N
    BY <1>1
  <2> QED BY <1>7, <2>1
<1>10. LoopHistory(Words, 0, N, step, f)
  <2>1. 0 \in 0 .. N
    BY <1>1
  <2>2. f = [n \in 0 .. N |-> f[n]] /\ f[0] = 0
    BY <1>7, <2>1
  <2>3. Follows(Words, 0, N, step, f)
    BY <2>2, <1>9 DEF Follows
  <2> HIDE DEF step
  <2> QED BY <1>1, <1>4, <2>3, LoopIs
<1>11. f \in [0 .. N -> Words] /\ f[0] = 0
  BY <1>10 DEF LoopHistory
<1> QED BY <1>1, <1>8, <1>11

(* Every text belongs to a bucket of the table.                             *)
LEMMA BucketOfText ==
  ASSUME NEW text \in Seq(Nat)
  PROVE  BucketOf(text) \in 0 .. (TableSize - 1)
<1>1. hash(text) \in Nat /\ TableSize \in Nat \ {0}
  BY HashIsWord, WordIsPositive, CommandLineAssumption
<1> QED BY <1>1, DivMod DEF BucketOf

(* Where two texts part, or the first one ends.                             *)
Part(a, b, k) ==
  /\ k \in 1 .. (Len(a) + 1) /\ (k = Len(a) + 1 \/ CharAt(b, k) # a[k])
  /\ \A i \in 1 .. (k - 1) : CharAt(b, i) = a[i]

LEMMA StopsIs ==
  ASSUME NEW a \in Seq(Nat), NEW b
  PROVE  Part(a, b, Stops(a, b))
<1> DEFINE S == {i \in 1 .. (Len(a) + 1) : i > Len(a) \/ CharAt(b, i) # a[i]}
<1>1. Len(a) \in Nat /\ Len(a) + 1 \in S /\ S \in SUBSET Nat
  BY LenProperties
<1>2. \A i \in 1 .. (Len(a) + 1) : i \notin S => CharAt(b, i) = a[i]
  OBVIOUS
<1>3. \A i \in S : i \in 1 .. (Len(a) + 1) /\ (i = Len(a) + 1 \/ CharAt(b, i) # a[i])
  BY <1>1
<1>4. Stops(a, b) = Min(S)
  BY DEF Stops
<1> HIDE DEF S
<1> DEFINE k == Min(S)
<1>5. k \in S /\ \A i \in S : k <= i
  BY <1>1, MinIsLeast
<1> HIDE DEF k
<1>6. ASSUME NEW i \in 1 .. (k - 1) PROVE CharAt(b, i) = a[i]
  <2>1. k \in 1 .. (Len(a) + 1)
    BY <1>3, <1>5
  <2>2. i \in 1 .. (Len(a) + 1) /\ ~(k <= i)
    BY <1>1, <2>1
  <2> QED BY <1>2, <1>5, <2>2
<1> QED BY <1>3, <1>4, <1>5, <1>6 DEF Part, k

(* A character is less than half a word, so differences of two are signed words. *)
LEMMA CharacterIsSmall ==
  /\ Word \in Nat
  /\ \A char \in Characters : char \in Nat /\ char > 0 /\ 2 * char < Word
<1>1. Word \in Nat
  BY WordIsPositive
<1> HIDE DEF Word
<1> QED BY <1>1 DEF Characters

(* strcmp tells which text comes first in a dictionary.                     *)
LEMMA strcmpOrders ==
  ASSUME NEW a \in Seq(Characters), NEW b \in Seq(Characters)
  PROVE  /\ strcmp(a, b) = 0 <=> a = b
         /\ strcmp(a, b) < 0 <=> Before(a, b)
         /\ strcmp(a, b) \in Int /\ 2 * strcmp(a, b) < Word /\ 2 * strcmp(a, b) > -Word
<1> DEFINE m == Len(a)
           n == Len(b)
           k == Stops(a, b)
<1>1. /\ a \in Seq(Nat \ {0}) /\ b \in Seq(Nat \ {0}) /\ a \in Seq(Nat)
      /\ DOMAIN a = 1 .. m /\ DOMAIN b = 1 .. n /\ m \in Nat /\ n \in Nat
  <2>1. a \in Seq(Nat \ {0}) /\ b \in Seq(Nat \ {0}) /\ Nat \ {0} \subseteq Nat
    BY CharactersAreText
  <2> QED BY <2>1, LenProperties, SeqMonotonic
<1>2. /\ \A i \in 1 .. m : a[i] \in Characters /\ a[i] \in Nat /\ a[i] # 0 /\ CharAt(a, i) = a[i]
      /\ \A i \in 1 .. n : b[i] \in Characters /\ b[i] \in Nat /\ b[i] # 0 /\ CharAt(b, i) = b[i]
      /\ \A i \in Nat : i > m => CharAt(a, i) = 0
      /\ \A i \in Nat : i > n => CharAt(b, i) = 0
  <2>1. \A i \in 1 .. m : a[i] \in Characters
    BY ElementOfSeq
  <2>2. \A i \in 1 .. n : b[i] \in Characters
    BY ElementOfSeq
  <2> QED BY <1>1, <2>1, <2>2, CharactersAreText DEF CharAt
<1>3. Part(a, b, k)
  BY <1>1, StopsIs
<1>4. strcmp(a, b) = CharAt(a, k) - CharAt(b, k)
  BY DEF strcmp
<1>6. a = b <=> (m = n /\ \A i \in 1 .. m : a[i] = b[i])
  BY <1>1, SeqEqual
<1>7. Before(a, b) <=>
        \E c \in 0 .. m : /\ c < n /\ (\A i \in 1 .. c : a[i] = b[i])
                          /\ (c = m \/ a[c + 1] < b[c + 1])
  <2>1. ASSUME NEW c \in 0 .. m, c <= n
        PROVE  SubSeq(a, 1, c) = SubSeq(b, 1, c) <=> \A i \in 1 .. c : a[i] = b[i]
    <3>1. SubSeq(a, 1, c) = [i \in 1 .. c |-> a[i]] /\ SubSeq(b, 1, c) = [i \in 1 .. c |-> b[i]]
      BY <1>1, <2>1
    <3> QED BY <3>1
  <2> HIDE DEF m, n
  <2>2. \A c \in 0 .. m : c < n => c <= n
    BY <1>1
  <2> QED BY <2>1, <2>2 DEF Before, m, n
<1> HIDE DEF m, n, k
<1>8. /\ k \in 1 .. (m + 1) /\ (k = m + 1 \/ CharAt(b, k) # a[k])
      /\ \A i \in 1 .. (k - 1) : CharAt(b, i) = a[i]
  BY <1>3 DEF Part, m
<1>9. k - 1 <= n /\ \A i \in 1 .. (k - 1) : a[i] = b[i]
  <2>1. ASSUME NEW i \in 1 .. (k - 1) PROVE i <= n /\ a[i] = b[i]
    <3>1. i \in 1 .. m /\ i \in Nat
      BY <1>1, <1>8
    <3>2. CharAt(b, i) = a[i] /\ a[i] # 0
      BY <1>2, <1>8, <3>1
    <3>3. ~(i > n)
      BY <1>2, <3>1, <3>2
    <3>4. i \in 1 .. n
      BY <1>1, <3>1, <3>3
    <3> QED BY <1>2, <3>2, <3>4
  <2>2. k - 1 = 0 \/ k - 1 \in 1 .. (k - 1)
    BY <1>1, <1>8
  <2> QED BY <1>1, <2>1, <2>2
<1>10. ASSUME NEW c \in 0 .. m, c < n, \A i \in 1 .. c : a[i] = b[i]
       PROVE  c < k
  <2> SUFFICES ASSUME c >= k PROVE FALSE
    BY <1>1, <1>8
  <2>1. k \in 1 .. c /\ k \in 1 .. m /\ k \in 1 .. n /\ k # m + 1
    BY <1>1, <1>8, <1>10
  <2>2. a[k] = b[k] /\ CharAt(b, k) = b[k]
    BY <1>2, <1>10, <2>1
  <2> QED BY <1>8, <2>1, <2>2
<1>11. CASE k = m + 1 /\ k <= n
  <2>1. k \in 1 .. n /\ k > m /\ m \in 0 .. m /\ m < n /\ \A i \in 1 .. m : i \in 1 .. (k - 1)
    BY <1>1, <1>8, <1>11
  <2>2. CharAt(a, k) = 0 /\ CharAt(b, k) = b[k] /\ b[k] \in Characters
    BY <1>1, <1>2, <1>8, <2>1
  <2>3. b[k] \in Nat /\ b[k] > 0 /\ 2 * b[k] < Word /\ Word \in Nat
    BY <2>2, CharacterIsSmall
  <2>4. strcmp(a, b) = -b[k] /\ strcmp(a, b) # 0 /\ strcmp(a, b) < 0
    BY <1>4, <2>2, <2>3
  <2>5. m # n /\ Before(a, b)
    BY <1>1, <1>7, <1>9, <2>1
  <2> QED BY <1>6, <2>3, <2>4, <2>5
<1>12. CASE k = m + 1 /\ ~(k <= n)
  <2>1. m = n /\ k > m /\ k > n /\ k \in Nat /\ \A i \in 1 .. m : i \in 1 .. (k - 1)
    BY <1>1, <1>8, <1>9, <1>12
  <2>2. strcmp(a, b) = 0 /\ a = b /\ Word \in Nat \ {0}
    BY <1>2, <1>4, <1>6, <1>9, <2>1, WordIsPositive
  <2>3. ASSUME NEW c \in 0 .. m, c < n PROVE ~(c = m \/ a[c + 1] < b[c + 1])
    <3>1. c + 1 \in 1 .. m /\ c # m
      BY <1>1, <2>1, <2>3
    <3>2. a[c + 1] = b[c + 1] /\ a[c + 1] \in Nat
      BY <1>2, <1>9, <2>1, <3>1
    <3> QED BY <3>1, <3>2
  <2>4. ~Before(a, b)
    BY <1>7, <2>3
  <2> QED BY <2>2, <2>4
<1>13. CASE k # m + 1 /\ k <= n
  <2>1. k \in 1 .. n /\ k \in 1 .. m /\ k - 1 \in 0 .. m /\ k - 1 < n /\ (k - 1) + 1 = k /\ k - 1 # m
    BY <1>1, <1>8, <1>13
  <2>2. CharAt(a, k) = a[k] /\ CharAt(b, k) = b[k] /\ b[k] \in Characters /\ a[k] \in Characters
    BY <1>2, <2>1
  <2>3. b[k] \in Nat /\ b[k] > 0 /\ 2 * b[k] < Word /\ Word \in Nat /\ a[k] \in Nat /\ a[k] > 0 /\ 2 * a[k] < Word
    BY <2>2, CharacterIsSmall
  <2>4. strcmp(a, b) = a[k] - b[k] /\ a[k] # b[k]
    BY <1>4, <1>8, <1>13, <2>2
  <2>5. a # b
    BY <1>6, <2>1, <2>4
  <2>6. a[k] < b[k] => Before(a, b)
    BY <1>7, <1>9, <2>1
  <2>7. Before(a, b) => a[k] < b[k]
    <3> SUFFICES ASSUME NEW c \in 0 .. m, c < n, \A i \in 1 .. c : a[i] = b[i], c = m \/ a[c + 1] < b[c + 1]
                 PROVE  a[k] < b[k]
      BY <1>7
    <3>1. c < k
      BY <1>10
    <3>2. c = k - 1 \/ c + 1 \in 1 .. (k - 1)
      BY <1>8, <3>1, <1>1
    <3>3. c + 1 \notin 1 .. (k - 1)
      <4> SUFFICES ASSUME c + 1 \in 1 .. (k - 1) PROVE FALSE
        OBVIOUS
      <4>1. a[c + 1] = b[c + 1] /\ c # m /\ c + 1 \in 1 .. m
        BY <1>1, <1>8, <1>9
      <4>2. a[c + 1] \in Nat
        BY <1>2, <4>1
      <4> QED BY <4>1, <4>2
    <3> QED BY <2>1, <3>2, <3>3
  <2> QED BY SMTT(30), <2>3, <2>4, <2>5, <2>6, <2>7
<1>14. CASE k # m + 1 /\ ~(k <= n)
  <2>1. k > n /\ k \in Nat /\ k \in 1 .. m /\ m # n /\ n = k - 1
    BY <1>1, <1>8, <1>9, <1>14
  <2>2. CharAt(a, k) = a[k] /\ CharAt(b, k) = 0 /\ a[k] \in Characters
    BY <1>2, <2>1
  <2>3. Word \in Nat /\ a[k] \in Nat /\ a[k] > 0 /\ 2 * a[k] < Word
    BY <2>2, CharacterIsSmall
  <2>4. strcmp(a, b) = a[k] /\ a # b
    BY <1>4, <1>6, <2>1, <2>2, <2>3
  <2>5. ASSUME NEW c \in 0 .. m, c < n PROVE ~(c = m \/ a[c + 1] < b[c + 1])
    <3>1. c + 1 \in 1 .. m /\ c + 1 \in 1 .. (k - 1) /\ c # m
      BY <1>1, <2>1, <2>5
    <3>2. a[c + 1] = b[c + 1] /\ a[c + 1] \in Nat
      BY <1>2, <1>9, <3>1
    <3> QED BY <3>1, <3>2
  <2>6. ~Before(a, b)
    BY <1>7, <2>5
  <2> QED BY <2>3, <2>4, <2>6
<1> QED BY <1>11, <1>12, <1>13, <1>14

(* A bucket holds each of the first n commands that belong there, once.     *)
Home(name) == BucketOf(Names[name])

Holds(n, bucket, chain) ==
  /\ chain \in Seq(Commands)
  /\ \A i \in 1 .. Len(chain) : \E j \in 1 .. n : chain[i] = Order[j] /\ Home(Order[j]) = bucket
  /\ \A j \in 1 .. n : Home(Order[j]) = bucket => \E i \in 1 .. Len(chain) : chain[i] = Order[j]
  /\ \A i, k \in 1 .. Len(chain) : chain[i] = chain[k] => i = k

(* Every command is registered, once, and belongs to a bucket.              *)
LEMMA OrderFacts ==
  /\ Len(Order) \in Nat
  /\ \A j \in 1 .. Len(Order) : Order[j] \in Commands /\ Home(Order[j]) \in 0 .. (TableSize - 1)
  /\ \A j, k \in 1 .. Len(Order) : Order[j] = Order[k] => j = k
  /\ \A name \in Commands : \E j \in 1 .. Len(Order) : Order[j] = name
<1>1. Order \in Seq(Commands) /\ ToSet(Order) = Commands /\ IsInjective(Order)
  BY CommandLineAssumption
<1>2. Len(Order) \in Nat /\ DOMAIN Order = 1 .. Len(Order)
  BY <1>1, LenProperties
<1>3. ASSUME NEW j \in 1 .. Len(Order)
      PROVE  Order[j] \in Commands /\ Home(Order[j]) \in 0 .. (TableSize - 1)
  <2>1. Order[j] \in Commands
    BY <1>1, ElementOfSeq
  <2>2. Names[Order[j]] \in Seq(Nat)
    <3>1. Names[Order[j]] \in Seq(Nat \ {0}) /\ Nat \ {0} \subseteq Nat
      BY <2>1, CommandLineAssumption, CharactersAreText
    <3> QED BY <3>1, SeqMonotonic
  <2> QED BY <2>1, <2>2, BucketOfText DEF Home
<1>4. \A j, k \in 1 .. Len(Order) : Order[j] = Order[k] => j = k
  BY <1>1, <1>2 DEF IsInjective
<1>5. \A name \in Commands : \E j \in 1 .. Len(Order) : Order[j] = name
  BY <1>1, <1>2 DEF ToSet
<1> QED BY <1>2, <1>3, <1>4, <1>5

(* A command that is registered goes to the head of its bucket.             *)
LEMMA PutFirst ==
  ASSUME NEW n \in 1 .. Len(Order), NEW bucket, NEW chain, Holds(n - 1, bucket, chain),
         Home(Order[n]) = bucket
  PROVE  Holds(n, bucket, <<Order[n]>> \o chain)
<1> DEFINE name == Order[n]
           longer == <<name>> \o chain
           m == Len(chain)
<1>1. /\ n \in Nat /\ n # 0 /\ name \in Commands /\ Len(Order) \in Nat
      /\ \A j, k \in 1 .. Len(Order) : Order[j] = Order[k] => j = k
      /\ \A j \in 1 .. n : j \in 1 .. Len(Order) /\ (j = n \/ j \in 1 .. (n - 1))
      /\ \A j \in 1 .. (n - 1) : j \in 1 .. n /\ j # n
      /\ n \in 1 .. n
  BY OrderFacts
<1>2. /\ chain \in Seq(Commands) /\ m \in Nat
      /\ \A i \in 1 .. m : \E j \in 1 .. (n - 1) : chain[i] = Order[j] /\ Home(Order[j]) = bucket
      /\ \A j \in 1 .. (n - 1) : Home(Order[j]) = bucket => \E i \in 1 .. m : chain[i] = Order[j]
      /\ \A i, k \in 1 .. m : chain[i] = chain[k] => i = k
  BY LenProperties DEF Holds
<1>3. /\ longer \in Seq(Commands) /\ Len(longer) = m + 1 /\ longer[1] = name
      /\ \A i \in 1 .. m : longer[i + 1] = chain[i]
  <2>1. <<name>> \in Seq(Commands) /\ Len(<<name>>) = 1 /\ <<name>>[1] = name
    BY <1>1
  <2>2. /\ longer \in Seq(Commands) /\ Len(longer) = 1 + m
        /\ \A i \in 1 .. (1 + m) : longer[i] = IF i <= 1 THEN <<name>>[i] ELSE chain[i - 1]
    BY <1>2, <2>1, ConcatProperties
  <2>3. 1 + m = m + 1 /\ 1 \in 1 .. (1 + m)
        /\ \A i \in 1 .. m : i + 1 \in 1 .. (1 + m) /\ ~(i + 1 <= 1) /\ (i + 1) - 1 = i
    BY <1>2
  <2> HIDE DEF longer, m
  <2> QED BY <2>1, <2>2, <2>3
<1> HIDE DEF longer, m
<1>4. ASSUME NEW i \in 1 .. (m + 1) PROVE i = 1 \/ \E l \in 1 .. m : i = l + 1 /\ longer[i] = chain[l]
  <2>1. i = 1 \/ (i - 1 \in 1 .. m /\ (i - 1) + 1 = i)
    BY <1>2
  <2> QED BY <1>3, <2>1
<1>5. \A l \in 1 .. m : l + 1 \in 1 .. (m + 1)
  BY <1>2
<1>6. ASSUME NEW i \in 1 .. (m + 1) PROVE \E j \in 1 .. n : longer[i] = Order[j] /\ Home(Order[j]) = bucket
  <2>1. CASE i = 1
    <3>1. longer[i] = Order[n] /\ n \in 1 .. n
      BY <1>1, <1>3, <2>1
    <3> QED BY <3>1
  <2>2. CASE i # 1
    <3>1. PICK l \in 1 .. m : longer[i] = chain[l]
      BY <1>4, <2>2
    <3>2. PICK j \in 1 .. (n - 1) : chain[l] = Order[j] /\ Home(Order[j]) = bucket
      BY <1>2
    <3> QED BY <1>1, <3>1, <3>2
  <2> QED BY <2>1, <2>2
<1>7. ASSUME NEW j \in 1 .. n, Home(Order[j]) = bucket PROVE \E i \in 1 .. (m + 1) : longer[i] = Order[j]
  <2>1. CASE j = n
    <3>1. 1 \in 1 .. (m + 1)
      BY <1>2
    <3> QED BY <1>3, <2>1, <3>1
  <2>2. CASE j # n
    <3>1. PICK i \in 1 .. m : chain[i] = Order[j]
      BY <1>1, <1>2, <1>7, <2>2
    <3> QED BY <1>3, <1>5, <3>1
  <2> QED BY <2>1, <2>2
<1>8. ASSUME NEW l \in 1 .. m PROVE chain[l] # name
  <2>1. PICK j \in 1 .. (n - 1) : chain[l] = Order[j]
    BY <1>2
  <2>2. j \in 1 .. Len(Order) /\ n \in 1 .. Len(Order) /\ j # n
    BY <1>1
  <2> QED BY <1>1, <2>1, <2>2
<1>9. ASSUME NEW i \in 1 .. (m + 1), NEW k \in 1 .. (m + 1), longer[i] = longer[k] PROVE i = k
  <2>1. CASE i = 1
    <3>1. k = 1
      BY <1>3, <1>4, <1>8, <1>9, <2>1
    <3> QED BY <2>1, <3>1
  <2>2. CASE i # 1
    <3>1. PICK l \in 1 .. m : i = l + 1 /\ longer[i] = chain[l]
      BY <1>4, <2>2
    <3>2. k # 1
      BY <1>3, <1>8, <1>9, <3>1
    <3>3. PICK o \in 1 .. m : k = o + 1 /\ longer[k] = chain[o]
      BY <1>4, <3>2
    <3> QED BY <1>2, <1>9, <3>1, <3>3
  <2> QED BY <2>1, <2>2
<1> QED BY <1>3, <1>6, <1>7, <1>9 DEF Holds, longer

(* A registration leaves the other buckets as they are.                     *)
LEMMA PutElsewhere ==
  ASSUME NEW n \in 1 .. Len(Order), NEW bucket, NEW chain, Holds(n - 1, bucket, chain),
         Home(Order[n]) # bucket
  PROVE  Holds(n, bucket, chain)
<1>1. /\ \A j \in 1 .. n : j = n \/ j \in 1 .. (n - 1)
      /\ \A j \in 1 .. (n - 1) : j \in 1 .. n
  BY OrderFacts
<1> QED BY <1>1 DEF Holds

(* The table after all registrations.                                       *)
LEMMA BucketsHold ==
  /\ DOMAIN Buckets = 0 .. (TableSize - 1)
  /\ \A bucket \in 0 .. (TableSize - 1) : Holds(Len(Order), bucket, Buckets[bucket])
<1> DEFINE N == Len(Order)
           R == 0 .. (TableSize - 1)
           X == [R -> Seq(Commands)]
           empty == [bucket \in R |-> <<>>]
           Body(table, n) == [table EXCEPT ![BucketOf(Names[Order[n]])] = <<Order[n]>> \o @]
           step == [n \in 1 .. N |-> [table \in X |-> Body(table, n)]]
           Loop(f) == f = [n \in 0 .. N |-> IF n = 0 THEN empty ELSE Body(f[n - 1], n)]
<1>1. N \in Nat /\ empty \in X
  BY OrderFacts, EmptySeq
<1>2. \A n \in 1 .. N : Order[n] \in Commands /\ Home(Order[n]) \in R
  BY OrderFacts
<1> HIDE DEF R, N, empty
<1>3. ASSUME NEW table \in X, NEW n \in 1 .. N PROVE Body(table, n) \in X
  <2>1. \A chain \in Seq(Commands) : <<Order[n]>> \o chain \in Seq(Commands)
    <3>1. <<Order[n]>> \in Seq(Commands)
      BY <1>2
    <3> QED BY <3>1, ConcatProperties
  <2> QED BY <2>1
<1>20. ASSUME NEW table \in X, NEW n \in 1 .. N, NEW bucket \in R
       PROVE  Body(table, n)[bucket] = IF Home(Order[n]) = bucket THEN <<Order[n]>> \o table[bucket] ELSE table[bucket]
  BY DEF Home
<1> HIDE DEF X
<1> HIDE DEF Body
<1>4. step \in [1 .. N -> [X -> X]]
  BY <1>3
<1>5. PICK g : LoopHistory(X, empty, N, step, g)
  <2> HIDE DEF step
  <2> QED BY <1>1, <1>4, LoopRuns
<1>6. Loop(g)
  <2>1. g \in [0 .. N -> X] /\ g[0] = empty /\ \A n \in 1 .. N : g[n] = step[n][g[n - 1]]
    BY <1>5 DEF LoopHistory
  <2>2. /\ \A n \in 0 .. N : n # 0 => n \in 1 .. N
        /\ \A n \in 1 .. N : n - 1 \in 0 .. N
    BY <1>1
  <2>3. \A n \in 1 .. N : g[n] = Body(g[n - 1], n)
    BY <2>1, <2>2
  <2> QED BY <2>1, <2>2, <2>3
<1> DEFINE f == CHOOSE h : Loop(h)
<1>7. Loop(f)
  <2> HIDE DEF Loop
  <2> QED BY <1>6
<1>8. Buckets = f[N]
  BY DEF Buckets, Body, N, empty, R
<1> HIDE DEF f
<1>9. \A n \in 1 .. N : f[n] = Body(f[n - 1], n)
  <2>1. \A n \in 1 .. N : n # 0 /\ n \in 0 .. N
    BY <1>1
  <2> QED BY <1>7, <2>1
<1>10. LoopHistory(X, empty, N, step, f)
  <2>1. 0 \in 0 .. N
    BY <1>1
  <2>2. f = [n \in 0 .. N |-> f[n]] /\ f[0] = empty
    BY <1>7, <2>1
  <2>3. Follows(X, empty, N, step, f)
    BY <2>2, <1>9 DEF Follows
  <2> HIDE DEF step
  <2> QED BY <1>1, <1>4, <2>3, LoopIs
<1>11. f \in [0 .. N -> X] /\ f[0] = empty
  BY <1>10 DEF LoopHistory
<1>12. \A n \in 0 .. N : f[n] \in X
  BY <1>11
<1> DEFINE S == {n \in 0 .. N : \A bucket \in R : Holds(n, bucket, f[n][bucket])}
<1>13. 0 \in S
  <2>1. ASSUME NEW bucket \in R PROVE Holds(0, bucket, <<>>)
    <3>1. <<>> \in Seq(Commands) /\ 1 .. Len(<<>>) = {} /\ 1 .. 0 = {}
      BY EmptySeq
    <3> QED BY <3>1 DEF Holds
  <2>2. 0 \in 0 .. N
    BY <1>1
  <2> QED BY <1>11, <2>1, <2>2 DEF empty
<1>14. ASSUME NEW n \in 1 .. N, n - 1 \in S PROVE n \in S
  <2>1. n \in 0 .. N /\ n - 1 \in 0 .. N /\ n \in 1 .. Len(Order)
    BY <1>1 DEF N
  <2>2. ASSUME NEW bucket \in R PROVE Holds(n, bucket, f[n][bucket])
    <3>1. Holds(n - 1, bucket, f[n - 1][bucket])
      BY <1>14
    <3>2. f[n][bucket] = IF Home(Order[n]) = bucket THEN <<Order[n]>> \o f[n - 1][bucket] ELSE f[n - 1][bucket]
      BY <1>9, <1>12, <1>20, <2>1
    <3> DEFINE chain == f[n - 1][bucket]
    <3> HIDE DEF chain
    <3>3. Holds(n - 1, bucket, chain)
      BY <3>1 DEF chain
    <3>4. CASE Home(Order[n]) = bucket
      <4>1. Holds(n, bucket, <<Order[n]>> \o chain)
        BY <2>1, <3>3, <3>4, PutFirst
      <4> QED BY <3>2, <3>4, <4>1 DEF chain
    <3>5. CASE Home(Order[n]) # bucket
      <4>1. Holds(n, bucket, chain)
        BY <2>1, <3>3, <3>5, PutElsewhere
      <4> QED BY <3>2, <3>5, <4>1 DEF chain
    <3> QED BY <3>4, <3>5
  <2> QED BY <2>1, <2>2
<1>15. N \in S
  <2>1. N \in 0 .. N
    BY <1>1
  <2> HIDE DEF S
  <2>2. \A n \in 0 .. N : n \in S
    BY <1>1, <1>13, <1>14, LoopKeeps
  <2> QED BY <2>1, <2>2
<1>16. DOMAIN f[N] = R
  <2>1. f[N] \in X
    BY <1>1, <1>12
  <2> QED BY <2>1 DEF X
<1> QED BY <1>8, <1>15, <1>16 DEF N, R

(* The command that is found is the one of that name.                       *)
LEMMA FoundIsCommand ==
  ASSUME NEW text \in Seq(Characters)
  PROVE  IsCommandOf(Found(text), text) /\ Found(text) \in Commands \cup {None}
<1> DEFINE bucket == BucketOf(text)
           chain == Buckets[bucket]
           hits == {i \in DOMAIN chain : strcmp(Names[chain[i]], text) = 0}
<1>1. bucket \in 0 .. (TableSize - 1)
  <2>1. text \in Seq(Nat \ {0}) /\ Nat \ {0} \subseteq Nat
    BY CharactersAreText
  <2>2. text \in Seq(Nat)
    BY <2>1, SeqMonotonic
  <2> QED BY <2>2, BucketOfText
<1>2. Found(text) = IF hits = {} THEN None ELSE chain[Min(hits)]
  BY DEF Found
<1> HIDE DEF bucket
<1>3. /\ chain \in Seq(Commands) /\ DOMAIN chain = 1 .. Len(chain) /\ Len(chain) \in Nat
      /\ \A j \in 1 .. Len(Order) : Home(Order[j]) = bucket => \E i \in 1 .. Len(chain) : chain[i] = Order[j]
  BY <1>1, BucketsHold, LenProperties DEF Holds
<1> HIDE DEF chain
<1>4. \A i \in DOMAIN chain : chain[i] \in Commands
  BY <1>3, ElementOfSeq
<1>5. \A i \in DOMAIN chain : i \in hits <=> Names[chain[i]] = text
  <2>1. \A name \in Commands : Names[name] \in Seq(Characters)
    BY CommandLineAssumption
  <2>2. \A name \in Commands : strcmp(Names[name], text) = 0 <=> Names[name] = text
    BY <2>1, strcmpOrders
  <2> QED BY <1>4, <2>2
<1>6. hits \in SUBSET Nat /\ hits \subseteq DOMAIN chain
  BY <1>3
<1> HIDE DEF hits
<1>7. CASE hits # {}
  <2>1. Min(hits) \in hits
    BY <1>6, <1>7, MinIsLeast
  <2> DEFINE name == chain[Min(hits)]
  <2>2. name \in Commands /\ Names[name] = text
    BY <1>4, <1>5, <1>6, <2>1
  <2> HIDE DEF name
  <2>3. name # None
    BY <2>2, CommandLineAssumption
  <2>4. Found(text) = name
    BY <1>2, <1>7 DEF name
  <2> QED BY <2>2, <2>3, <2>4 DEF IsCommandOf
<1>8. CASE hits = {}
  <2>1. ASSUME NEW other \in Commands, Names[other] = text PROVE FALSE
    <3>1. PICK j \in 1 .. Len(Order) : Order[j] = other
      BY OrderFacts
    <3>2. Home(Order[j]) = bucket
      BY <2>1, <3>1 DEF Home, bucket
    <3>3. PICK i \in 1 .. Len(chain) : chain[i] = Order[j]
      BY <1>3, <3>2
    <3> QED BY <1>3, <1>5, <1>8, <2>1, <3>1, <3>3
  <2>2. Found(text) = None
    BY <1>2, <1>8
  <2> QED BY <2>1, <2>2 DEF IsCommandOf
<1> QED BY <1>7, <1>8

(* The walk of help over the first k buckets lists their commands, once.    *)
Lists(k, list) ==
  /\ list \in Seq(Commands)
  /\ \A i \in 1 .. Len(list) : Home(list[i]) < k
  /\ \A name \in Commands : Home(name) < k => \E i \in 1 .. Len(list) : list[i] = name
  /\ \A i, j \in 1 .. Len(list) : list[i] = list[j] => i = j

InBucket(bucket, chain) ==
  /\ chain \in Seq(Commands)
  /\ \A i \in 1 .. Len(chain) : Home(chain[i]) = bucket
  /\ \A name \in Commands : Home(name) = bucket => \E i \in 1 .. Len(chain) : chain[i] = name
  /\ \A i, j \in 1 .. Len(chain) : chain[i] = chain[j] => i = j

(* Each bucket lists the commands that belong to it, each once.             *)
LEMMA BucketsAre ==
  ASSUME NEW bucket \in 0 .. (TableSize - 1)
  PROVE  InBucket(bucket, Buckets[bucket])
<1> DEFINE chain == Buckets[bucket]
<1>1. Holds(Len(Order), bucket, chain)
  BY BucketsHold
<1> HIDE DEF chain
<1>2. \A name \in Commands : \E j \in 1 .. Len(Order) : Order[j] = name
  BY OrderFacts
<1>3. InBucket(bucket, chain)
  BY <1>1, <1>2 DEF Holds, InBucket
<1> QED BY <1>3 DEF chain

(* Every command belongs to a bucket.                                       *)
LEMMA HomeIsBucket ==
  ASSUME NEW name \in Commands
  PROVE  Home(name) \in 0 .. (TableSize - 1)
BY OrderFacts

(* The commands of one more bucket.                                         *)
LEMMA ListLonger ==
  ASSUME NEW k \in Nat, NEW list, Lists(k, list), NEW chain, InBucket(k, chain)
  PROVE  Lists(k + 1, list \o chain)
<1> DEFINE m == Len(list)
           n == Len(chain)
           longer == list \o chain
<1>1. /\ list \in Seq(Commands) /\ chain \in Seq(Commands) /\ m \in Nat /\ n \in Nat
      /\ \A i \in 1 .. m : Home(list[i]) < k
      /\ \A name \in Commands : Home(name) < k => \E i \in 1 .. m : list[i] = name
      /\ \A i, j \in 1 .. m : list[i] = list[j] => i = j
      /\ \A i \in 1 .. n : Home(chain[i]) = k
      /\ \A name \in Commands : Home(name) = k => \E i \in 1 .. n : chain[i] = name
      /\ \A i, j \in 1 .. n : chain[i] = chain[j] => i = j
  BY LenProperties DEF Lists, InBucket
<1>2. /\ longer \in Seq(Commands) /\ Len(longer) = m + n
      /\ \A i \in 1 .. (m + n) : longer[i] = IF i <= m THEN list[i] ELSE chain[i - m]
  BY <1>1, ConcatProperties
<1> HIDE DEF m, n, longer
<1>3. \A i \in 1 .. m : i \in 1 .. (m + n) /\ longer[i] = list[i]
  BY <1>1, <1>2
<1>4. ASSUME NEW i \in 1 .. n PROVE m + i \in 1 .. (m + n) /\ longer[m + i] = chain[i]
  <2>1. m + i \in 1 .. (m + n) /\ ~(m + i <= m) /\ (m + i) - m = i
    BY <1>1
  <2> QED BY <1>2, <2>1
<1>5. ASSUME NEW i \in 1 .. (m + n)
      PROVE  \/ i \in 1 .. m /\ longer[i] = list[i]
             \/ \E j \in 1 .. n : i = m + j /\ longer[i] = chain[j]
  <2>1. i \in 1 .. m \/ (i - m \in 1 .. n /\ m + (i - m) = i)
    BY <1>1
  <2> QED BY <1>3, <1>4, <2>1
<1>6. \A name \in Commands : Home(name) \in Nat /\ (Home(name) < k + 1 => Home(name) < k \/ Home(name) = k)
                             /\ (Home(name) < k => Home(name) < k + 1) /\ ~(k < k)
  BY HomeIsBucket
<1>7. \A i \in 1 .. (m + n) : longer[i] \in Commands
  BY <1>2, ElementOfSeq
<1>8. ASSUME NEW i \in 1 .. (m + n) PROVE Home(longer[i]) < k + 1
  <2>1. CASE i \in 1 .. m /\ longer[i] = list[i]
    BY <1>1, <1>6, <1>7, <2>1
  <2>2. CASE \E j \in 1 .. n : i = m + j /\ longer[i] = chain[j]
    <3>1. Home(longer[i]) = k
      BY <1>1, <2>2
    <3> QED BY <3>1
  <2> QED BY <1>5, <2>1, <2>2
<1>9. ASSUME NEW name \in Commands, Home(name) < k + 1 PROVE \E i \in 1 .. (m + n) : longer[i] = name
  <2>1. CASE Home(name) < k
    BY <1>1, <1>3, <2>1
  <2>2. CASE Home(name) = k
    <3>1. PICK j \in 1 .. n : chain[j] = name
      BY <1>1, <2>2
    <3> QED BY <1>4, <3>1
  <2> QED BY <1>6, <1>9, <2>1, <2>2
<1>10. ASSUME NEW i \in 1 .. (m + n), NEW j \in 1 .. (m + n), longer[i] = longer[j] PROVE i = j
  <2>1. \A u \in 1 .. m : \A v \in 1 .. n : list[u] # chain[v]
    <3> SUFFICES ASSUME NEW u \in 1 .. m, NEW v \in 1 .. n, list[u] = chain[v] PROVE FALSE
      OBVIOUS
    <3>1. Home(list[u]) < k /\ Home(chain[v]) = k
      BY <1>1
    <3> QED BY <3>1
  <2>2. CASE i \in 1 .. m /\ longer[i] = list[i]
    <3>1. j \in 1 .. m /\ longer[j] = list[j]
      BY <1>5, <1>10, <2>1, <2>2
    <3> QED BY ZenonT(60), <1>1, <1>10, <2>2, <3>1
  <2>3. CASE \E u \in 1 .. n : i = m + u /\ longer[i] = chain[u]
    <3>1. PICK u \in 1 .. n : i = m + u /\ longer[i] = chain[u]
      BY <2>3
    <3>2. PICK v \in 1 .. n : j = m + v /\ longer[j] = chain[v]
      BY <1>5, <1>10, <2>1, <3>1
    <3> QED BY <1>1, <1>10, <3>1, <3>2
  <2> QED BY <1>5, <2>2, <2>3
<1> QED BY <1>2, <1>8, <1>9, <1>10 DEF Lists, longer

(* The walk of help lists the commands of all buckets, each once.           *)
LEMMA HelpListsAll ==
  LET list == FlattenSeq([i \in 1 .. TableSize |-> Buckets[i - 1]])
  IN  Lists(TableSize, list)
<1> DEFINE N == TableSize
           chains == [i \in 1 .. N |-> Buckets[i - 1]]
           X == Seq(Commands)
           Loop(g) == g = [i \in 1 .. N |-> IF i = 1 THEN chains[i] ELSE g[i - 1] \o chains[i]]
<1>1. /\ N \in Nat \ {0} /\ N - 1 \in Nat /\ 1 \in 1 .. N /\ N # 0 /\ N \in 1 .. N
      /\ \A n \in 1 .. (N - 1) : n + 1 \in 1 .. N
      /\ \A n \in 0 .. (N - 1) : n \in 0 .. (TableSize - 1) /\ n + 1 \in 1 .. N /\ (n + 1) - 1 = n
      /\ \A i \in 1 .. N : i - 1 \in 0 .. (N - 1) /\ (i - 1) + 1 = i
      /\ \A i \in 1 .. N : i # 1 => i - 1 \in 1 .. (N - 1) /\ i - 1 \in 1 .. N
  BY CommandLineAssumption
<1> HIDE DEF N
<1>2. \A i \in 1 .. N : InBucket(i - 1, chains[i]) /\ chains[i] \in X
  <2> SUFFICES ASSUME NEW i \in 1 .. N PROVE InBucket(i - 1, chains[i]) /\ chains[i] \in X
    OBVIOUS
  <2>1. i - 1 \in 0 .. (TableSize - 1) /\ chains[i] = Buckets[i - 1]
    BY <1>1 DEF N
  <2>2. InBucket(i - 1, chains[i])
    BY <2>1, BucketsAre
  <2> QED BY <2>2 DEF InBucket
<1>3. Len(chains) = N
  BY <1>1
<1> HIDE DEF chains
<1> DEFINE step == [n \in 1 .. (N - 1) |-> [list \in X |-> list \o chains[n + 1]]]
<1>4. step \in [1 .. (N - 1) -> [X -> X]] /\ chains[1] \in X
  <2>1. \A n \in 1 .. (N - 1) : \A list \in X : list \o chains[n + 1] \in X
    BY <1>1, <1>2, ConcatProperties
  <2> HIDE DEF X
  <2> QED BY <1>1, <1>2, <2>1
<1>5. PICK g : LoopHistory(X, chains[1], N - 1, step, g)
  <2> HIDE DEF step, X
  <2> QED BY <1>1, <1>4, LoopRuns
<1> DEFINE h == [i \in 1 .. N |-> g[i - 1]]
<1>6. Loop(h)
  <2>1. g \in [0 .. (N - 1) -> X] /\ g[0] = chains[1] /\ \A n \in 1 .. (N - 1) : g[n] = step[n][g[n - 1]]
    BY <1>5 DEF LoopHistory
  <2>2. ASSUME NEW i \in 1 .. N PROVE h[i] = IF i = 1 THEN chains[i] ELSE h[i - 1] \o chains[i]
    <3>1. CASE i = 1
      BY <2>1, <3>1
    <3>2. CASE i # 1
      <4>1. /\ i - 1 \in 1 .. (N - 1) /\ (i - 1) - 1 \in 0 .. (N - 1) /\ (i - 1) + 1 = i /\ i - 1 \in 1 .. N
        BY <1>1, <3>2
      <4>2. h[i] = g[i - 1] /\ h[i - 1] = g[(i - 1) - 1] /\ g[(i - 1) - 1] \in X
        BY <2>1, <4>1
      <4>3. g[i - 1] = g[(i - 1) - 1] \o chains[i]
        BY <2>1, <4>1, <4>2
      <4> QED BY <3>2, <4>2, <4>3
    <3> QED BY <3>1, <3>2
  <2> HIDE DEF h
  <2>3. h = [i \in 1 .. N |-> h[i]]
    BY DEF h
  <2> QED BY <2>2, <2>3
<1> DEFINE f == CHOOSE e : Loop(e)
<1>7. Loop(f)
  <2> HIDE DEF Loop, h
  <2> QED BY <1>6
<1>8. FlattenSeq(chains) = f[N]
  BY <1>1, <1>3 DEF FlattenSeq
<1> HIDE DEF f
<1>9. /\ f[1] = chains[1]
      /\ \A n \in 1 .. (N - 1) : f[n + 1] = f[n] \o chains[n + 1]
  <2>1. \A n \in 1 .. (N - 1) : n + 1 \in 1 .. N /\ n + 1 # 1 /\ (n + 1) - 1 = n
    BY <1>1
  <2> DEFINE Body(i) == IF i = 1 THEN chains[i] ELSE f[i - 1] \o chains[i]
  <2>2. f = [i \in 1 .. N |-> Body(i)]
    BY <1>7
  <2> HIDE DEF Body
  <2>3. \A i \in 1 .. N : f[i] = Body(i)
    BY <2>2
  <2>4. f[1] = chains[1]
    BY <1>1, <2>3 DEF Body
  <2>5. ASSUME NEW n \in 1 .. (N - 1) PROVE f[n + 1] = f[n] \o chains[n + 1]
    <3>1. f[n + 1] = Body(n + 1)
      BY <2>1, <2>3
    <3> QED BY <2>1, <3>1 DEF Body
  <2> QED BY <2>4, <2>5
<1> DEFINE S == {n \in 0 .. (N - 1) : Lists(n + 1, f[n + 1])}
<1>10. 0 \in S
  <2>1. InBucket(0, chains[1])
    BY <1>1, <1>2
  <2>2. \A name \in Commands : Home(name) \in Nat /\ (Home(name) < 1 <=> Home(name) = 0)
    BY HomeIsBucket
  <2>3. \A i \in 1 .. Len(chains[1]) : chains[1][i] \in Commands
    BY <2>1, ElementOfSeq DEF InBucket
  <2>4. Lists(1, chains[1])
    BY <2>1, <2>2, <2>3 DEF Lists, InBucket
  <2> QED BY <1>1, <1>9, <2>4
<1>11. ASSUME NEW n \in 1 .. (N - 1), n - 1 \in S PROVE n \in S
  <2>1. n \in 0 .. (N - 1) /\ (n - 1) + 1 = n /\ n + 1 \in 1 .. N /\ (n + 1) - 1 = n /\ n \in Nat
    BY <1>1
  <2>2. Lists(n, f[n]) /\ InBucket(n, chains[n + 1])
    BY <1>2, <1>11, <2>1
  <2>3. Lists(n + 1, f[n] \o chains[n + 1])
    BY <2>1, <2>2, ListLonger
  <2> QED BY <1>9, <2>1, <2>3
<1>12. Lists(N, f[N])
  <2>1. N - 1 \in 0 .. (N - 1) /\ (N - 1) + 1 = N
    BY <1>1
  <2>2. N - 1 \in S
    <3> HIDE DEF S
    <3>1. \A n \in 0 .. (N - 1) : n \in S
      BY <1>1, <1>10, <1>11, LoopKeeps
    <3> QED BY <2>1, <3>1
  <2> QED BY <2>1, <2>2
<1> QED BY <1>8, <1>12 DEF N, chains

(* So it lists as many as there are, and all of them.                       *)
LEMMA HelpIsComplete ==
  LET list == FlattenSeq([i \in 1 .. TableSize |-> Buckets[i - 1]])
  IN  Len(list) = Cardinality(Commands) /\ ToSet(list) = Commands
<1> DEFINE list == FlattenSeq([i \in 1 .. TableSize |-> Buckets[i - 1]])
<1>1. Lists(TableSize, list)
  BY HelpListsAll
<1> HIDE DEF list
<1>2. /\ list \in Seq(Commands) /\ Len(list) \in Nat /\ DOMAIN list = 1 .. Len(list)
      /\ \A i \in 1 .. Len(list) : list[i] \in Commands
  BY <1>1, LenProperties, ElementOfSeq DEF Lists
<1>3. \A name \in Commands : \E i \in 1 .. Len(list) : list[i] = name
  <2>1. \A name \in Commands : Home(name) < TableSize
    BY HomeIsBucket, CommandLineAssumption
  <2> QED BY <1>1, <2>1 DEF Lists
<1>4. ToSet(list) = Commands
  BY <1>2, <1>3 DEF ToSet
<1>5. list \in Bijection(1 .. Len(list), Commands)
  <2>1. list \in [1 .. Len(list) -> Commands]
    BY <1>2
  <2>2. \A a, b \in 1 .. Len(list) : list[a] = list[b] => a = b
    BY <1>1 DEF Lists
  <2> QED BY <1>3, <2>1, <2>2 DEF Bijection, Injection, Surjection, IsInjective
<1>6. Cardinality(Commands) = Len(list)
  <2>1. ExistsBijection(1 .. Len(list), Commands)
    BY <1>5 DEF ExistsBijection
  <2> QED BY <1>2, <2>1, FS_CountingElements
<1> QED BY <1>4, <1>6 DEF list

-----------------------------------------------------------------------------
(* What the handlers find.                                                  *)

(* An argument is a text of characters of the line.                         *)
LEMMA ArgumentIsText ==
  ASSUME Inductive, Ascii, pc \in Behind, NEW i \in 1 .. argc
  PROVE  Argument(i) \in Seq(Characters)
<1> DEFINE n == Len(line) + 1
           text == CString(buffer, argv[i])
<1>1. /\ n \in Nat /\ buffer \in [1 .. n -> Nat] /\ argv \in Seq(1 .. n) /\ p \in 1 .. n /\ argc \in Nat
      /\ DOMAIN buffer = 1 .. n
  BY LineFacts DEF Inductive, Types
<1>2. \A j \in 1 .. n : buffer[j] \in Characters \cup {0}
  BY <1>1 DEF Ascii
<1> HIDE DEF n
<1>3. argv[i] \in 1 .. n
  BY <1>1, ElementOfSeq DEF argc
<1>4. PICK end \in argv[i] .. p : buffer[end] = 0
  <2>1. i \in 1 .. Finished
    BY DEF Finished, Behind
  <2> QED BY <2>1 DEF Inductive, FinishedEnd
<1>5. end \in argv[i] .. n
  BY <1>1, <1>3
<1>6. text \in Seq(Nat \ {0}) /\ DrawnFrom(buffer, n, text)
  BY <1>1, <1>3, <1>4, <1>5, CStringIsText
<1> HIDE DEF text
<1>7. Len(text) \in Nat /\ text \in [1 .. Len(text) -> Nat \ {0}]
  BY <1>6, LenProperties
<1>8. \A k \in 1 .. Len(text) : text[k] \in Characters
  BY <1>2, <1>6, <1>7 DEF DrawnFrom
<1>9. text \in [1 .. Len(text) -> Characters]
  BY <1>7, <1>8
<1>10. \A k \in Nat : \A s \in [1 .. k -> Characters] : s \in Seq(Characters)
  OBVIOUS
<1>11. text \in Seq(Characters)
  BY <1>7, <1>9, <1>10
<1> QED BY <1>11 DEF Argument, text

Fits == Inductive /\ Ascii /\ CommandFits

(* Who leaves line and argv alone leaves the arguments alone.               *)
LEMMA ArgumentsKept ==
  ASSUME UNCHANGED <<buffer, argv>>
  PROVE  argc' = argc /\ \A i : Argument(i)' = Argument(i)
BY DEF argc, Argument

(* Only characters that are typed, and terminators, get into the line.      *)
LEMMA AsciiKept ==
  ASSUME Inductive, Ascii, [Next]_vars
  PROVE  Ascii'
<1>1. CASE buffer' = buffer
  BY <1>1 DEF Ascii
<1>2. CASE buffer' = [buffer EXCEPT ![p] = 0]
  BY <1>2 DEF Ascii
<1>3. CASE buffer' = <<0>>
  BY <1>3 DEF Ascii
<1>4. ASSUME NEW typed \in Lines, buffer' = Append(typed, 0) PROVE Ascii'
  <2>1. typed \in Seq(Characters)
    BY CommandLineAssumption
  <2>2. /\ Len(typed) \in Nat /\ DOMAIN Append(typed, 0) = 1 .. (Len(typed) + 1)
        /\ \A j \in 1 .. Len(typed) : Append(typed, 0)[j] = typed[j] /\ typed[j] \in Characters
        /\ Append(typed, 0)[Len(typed) + 1] = 0
    <3>1. typed \in Seq(Characters \cup {0}) /\ 0 \in Characters \cup {0}
      BY <2>1, SeqMonotonic
    <3>2. /\ Append(typed, 0) \in Seq(Characters \cup {0}) /\ Len(Append(typed, 0)) = Len(typed) + 1
          /\ \A j \in 1 .. Len(typed) : Append(typed, 0)[j] = typed[j]
          /\ Append(typed, 0)[Len(typed) + 1] = 0
      BY <3>1, AppendProperties
    <3> QED BY <2>1, <3>2, LenProperties, ElementOfSeq
  <2>3. \A j \in 1 .. (Len(typed) + 1) : j \in 1 .. Len(typed) \/ j = Len(typed) + 1
    BY <2>2
  <2> HIDE DEF Characters
  <2> QED BY <1>4, <2>2, <2>3 DEF Ascii
<1>5. CASE Tokenize
  <2>1. buffer' = buffer \/ buffer' = [buffer EXCEPT ![p] = 0]
    BY <1>5 DEF Tokenize, SkipBlank, EndOfLine, OpenQuote, StartWord, InWord, Ends
  <2> QED BY <1>1, <1>2, <2>1
<1>6. CASE LookUp \/ LookUpUnset \/ Handler
  BY <1>1, <1>6, CommandsKeepLine
<1>7. CASE ShowsPrompt
  BY <1>3, <1>7 DEF ShowsPrompt
<1>8. CASE \E typed \in Lines : Enter(typed)
  BY <1>4, <1>8 DEF Enter
<1>9. CASE UNCHANGED vars
  BY <1>1, <1>9 DEF vars
<1> QED BY <1>5, <1>6, <1>7, <1>8, <1>9 DEF Next, Work

(* The command that has been looked up stays the one that the line names.   *)
LEMMA CommandKept ==
  ASSUME Fits, [Next]_vars
  PROVE  CommandFits'
<1>1. CASE Tokenize
  <2>1. pc' \notin {"run", "answered"}
    BY <1>1 DEF Tokenize, SkipBlank, EndOfLine, OpenQuote, StartWord, InWord, Ends, Goes
  <2> QED BY <2>1 DEF CommandFits
<1>2. CASE LookUp
  <2>1. 1 \in 1 .. argc /\ pc \in Behind
    BY <1>2, LineFacts DEF LookUp, Fits, Inductive, Behind
  <2>2. Argument(1) \in Seq(Characters)
    BY <2>1, ArgumentIsText DEF Fits
  <2>3. IsCommandOf(Found(Argument(1)), Argument(1)) /\ Found(Argument(1)) \in Commands \cup {None}
    BY <2>2, FoundIsCommand
  <2>4. argc' = argc /\ Argument(1)' = Argument(1) /\ command' = Found(Argument(1))
    BY <1>2, ArgumentsKept DEF LookUp
  <2> QED BY <2>3, <2>4 DEF CommandFits, CommandIsNamed, IsCommandOf
<1>3. CASE LookUpUnset
  <2>1. argc' = 0 /\ (pc' = "run" => command' \in Commands \cup {None}) /\ pc' # "answered"
    BY <1>3, ArgumentsKept DEF LookUpUnset, Stop
  <2> QED BY <2>1 DEF CommandFits, CommandIsNamed
<1>4. CASE UNCHANGED <<buffer, argv, command>> /\ (pc' \in {"run", "answered"} => pc \in {"run", "answered"})
  <2>1. argc' = argc /\ Argument(1)' = Argument(1)
    BY <1>4, ArgumentsKept
  <2> QED BY <1>4, <2>1 DEF Fits, CommandFits, CommandIsNamed, IsCommandOf
<1>5. CASE Handler
  <2>1. pc = "run" /\ UNCHANGED <<buffer, argv, command>>
    BY <1>5 DEF Handler, NoSuchCommand, cmd_help, HelpOfUnset, cmd_echo, cmd_calc, cmd_colorshell, cmd_quit,
      cmd_shutdown, cmd_halt, cmd_debug, cmd_ticks, cmd_meminfo, cmd_alloc, cmd_runtime, cmd_strlen, cmd_strcmp,
      cmd_strncmp, cmd_pageinfo, cmd_elsewhere, FaultsInMemory, Runs, Answered, Stop
  <2> QED BY <1>4, <2>1
<1>6. CASE ShowsPrompt
  BY <1>6 DEF ShowsPrompt, CommandFits
<1>7. CASE \E typed \in Lines : Enter(typed)
  BY <1>7 DEF Enter, CommandFits
<1>8. CASE UNCHANGED vars
  BY <1>4, <1>8 DEF vars
<1> QED BY <1>1, <1>2, <1>3, <1>5, <1>6, <1>7, <1>8 DEF Next, Work

(* Each step keeps line and command in order.                               *)
LEMMA FitsKept == Fits /\ [Next]_vars => Fits'
BY StepInductive, AsciiKept, CommandKept DEF Fits

(* At the start both are.                                                   *)
LEMMA InitFits == Init => Fits
<1>1. Init => Ascii /\ CommandFits
  BY DEF Init, Ascii, CommandFits
<1> QED BY <1>1, InitInductive DEF Fits

(* Line and command are in order in every reachable state.                  *)
LEMMA FitsAlways == Spec => []Fits
BY InitFits, FitsKept, PTL DEF Spec

-----------------------------------------------------------------------------
(* Numbers in texts.                                                        *)

(* The value of a text grows digit by digit.                                *)
ValueSteps(text, f) ==
  /\ Value(text) = f[Len(text)] /\ f[0] = 0 /\ f \in [0 .. Len(text) -> Int]
  /\ \A n \in 1 .. Len(text) : f[n] = 10 * f[n - 1] + text[n] - 48

LEMMA ValueIs ==
  ASSUME NEW text \in Seq(Nat)
  PROVE  \E f : ValueSteps(text, f)
<1> DEFINE N == Len(text)
           Body(value, n) == 10 * value + text[n] - 48
           step == [n \in 1 .. N |-> [value \in Int |-> Body(value, n)]]
           Loop(f) == f = [n \in 0 .. N |-> IF n = 0 THEN 0 ELSE Body(f[n - 1], n)]
<1>1. N \in Nat /\ 0 \in Int
  BY LenProperties
<1>2. \A n \in 1 .. N : text[n] \in Nat
  BY ElementOfSeq
<1> HIDE DEF N
<1>3. ASSUME NEW value \in Int, NEW n \in 1 .. N PROVE Body(value, n) \in Int
  BY <1>2
<1> HIDE DEF Body
<1>4. step \in [1 .. N -> [Int -> Int]]
  BY <1>3
<1>5. PICK g : LoopHistory(Int, 0, N, step, g)
  <2> HIDE DEF step
  <2> QED BY <1>1, <1>4, LoopRuns
<1>6. Loop(g)
  <2>1. g \in [0 .. N -> Int] /\ g[0] = 0 /\ \A n \in 1 .. N : g[n] = step[n][g[n - 1]]
    BY <1>5 DEF LoopHistory
  <2>2. /\ \A n \in 0 .. N : n # 0 => n \in 1 .. N
        /\ \A n \in 1 .. N : n - 1 \in 0 .. N
    BY <1>1
  <2>3. \A n \in 1 .. N : g[n] = Body(g[n - 1], n)
    BY <2>1, <2>2
  <2> QED BY <2>1, <2>2, <2>3
<1> DEFINE f == CHOOSE h : Loop(h)
<1>7. Loop(f)
  <2> HIDE DEF Loop
  <2> QED BY <1>6
<1>8. Value(text) = f[N]
  BY DEF Value, Body, N
<1> HIDE DEF f
<1>9. \A n \in 1 .. N : f[n] = Body(f[n - 1], n)
  <2>1. \A n \in 1 .. N : n # 0 /\ n \in 0 .. N
    BY <1>1
  <2> QED BY <1>7, <2>1
<1>10. LoopHistory(Int, 0, N, step, f)
  <2>1. 0 \in 0 .. N
    BY <1>1
  <2>2. f = [n \in 0 .. N |-> f[n]] /\ f[0] = 0
    BY <1>7, <2>1
  <2>3. Follows(Int, 0, N, step, f)
    BY <2>2, <1>9 DEF Follows
  <2> HIDE DEF step
  <2> QED BY <1>1, <1>4, <2>3, LoopIs
<1>11. f \in [0 .. N -> Int] /\ f[0] = 0
  BY <1>10 DEF LoopHistory
<1>12. \A n \in 1 .. N : f[n] = 10 * f[n - 1] + text[n] - 48
  BY <1>9 DEF Body
<1> QED BY <1>8, <1>11, <1>12 DEF ValueSteps, N

(* A digit behind a text is worth its own value beside ten times the text's. *)
LEMMA ValueOfAppend ==
  /\ Value(<<>>) = 0
  /\ \A text \in Seq(Nat) : \A digit \in Nat :
       Value(text) \in Int /\ Value(Append(text, digit)) = 10 * Value(text) + digit - 48
<1>1. Value(<<>>) = 0
  <2>1. <<>> \in Seq(Nat) /\ Len(<<>>) = 0
    BY EmptySeq
  <2>2. PICK f : ValueSteps(<<>>, f)
    BY <2>1, ValueIs
  <2> QED BY <2>1, <2>2 DEF ValueSteps
<1>2. ASSUME NEW text \in Seq(Nat), NEW digit \in Nat
      PROVE  Value(text) \in Int /\ Value(Append(text, digit)) = 10 * Value(text) + digit - 48
  <2> DEFINE N == Len(text)
             longer == Append(text, digit)
  <2>1. /\ N \in Nat /\ longer \in Seq(Nat) /\ Len(longer) = N + 1 /\ longer[N + 1] = digit
        /\ \A i \in 1 .. N : longer[i] = text[i]
    BY AppendProperties, LenProperties
  <2>2. PICK f : ValueSteps(text, f)
    BY ValueIs
  <2> HIDE DEF N, longer
  <2>3. PICK g : ValueSteps(longer, g)
    BY <2>1, ValueIs
  <2>4. /\ Value(text) = f[N] /\ f[0] = 0 /\ f \in [0 .. N -> Int]
        /\ \A n \in 1 .. N : f[n] = 10 * f[n - 1] + text[n] - 48
    BY <2>2 DEF ValueSteps, N
  <2>5. /\ Value(longer) = g[N + 1] /\ g[0] = 0
        /\ \A n \in 1 .. (N + 1) : g[n] = 10 * g[n - 1] + longer[n] - 48
    BY <2>1, <2>3 DEF ValueSteps
  <2> DEFINE S == {n \in 0 .. N : f[n] = g[n]}
  <2>6. 0 \in S
    BY <2>1, <2>4, <2>5
  <2>7. ASSUME NEW n \in 1 .. N, n - 1 \in S PROVE n \in S
    <3>1. n \in 0 .. N /\ n \in 1 .. (N + 1) /\ f[n - 1] = g[n - 1]
      BY <2>1, <2>7
    <3>2. f[n] = g[n]
      BY <2>1, <2>4, <2>5, <3>1
    <3> QED BY <3>1, <3>2
  <2>8. f[N] = g[N]
    <3>1. N \in 0 .. N
      BY <2>1
    <3> HIDE DEF S
    <3>2. \A n \in 0 .. N : n \in S
      BY <2>1, <2>6, <2>7, LoopKeeps
    <3> QED BY <3>1, <3>2 DEF S
  <2>9. /\ N + 1 \in 1 .. (N + 1) /\ (N + 1) - 1 = N /\ N \in 0 .. N
    BY <2>1
  <2>10. g[N + 1] = 10 * g[N] + digit - 48
    BY <2>1, <2>5, <2>9
  <2> QED BY <2>4, <2>5, <2>8, <2>9, <2>10 DEF longer
<1> QED BY <1>1, <1>2

(* What is put in front of a text is behind its reverse.                    *)
LEMMA ReverseOfLonger ==
  ASSUME NEW X, NEW text \in Seq(X), NEW first \in X
  PROVE  /\ Reverse(text) \in Seq(X) /\ Len(Reverse(text)) = Len(text)
         /\ Reverse(<<first>> \o text) = Append(Reverse(text), first)
<1> DEFINE N == Len(text)
           longer == <<first>> \o text
<1>1. N \in Nat /\ \A i \in 1 .. N : text[i] \in X
  BY LenProperties, ElementOfSeq
<1>2. /\ longer \in Seq(X) /\ Len(longer) = 1 + N
      /\ \A i \in 1 .. (1 + N) : longer[i] = IF i <= 1 THEN <<first>>[i] ELSE text[i - 1]
  <2>1. <<first>> \in Seq(X) /\ Len(<<first>>) = 1
    OBVIOUS
  <2> QED BY <2>1, ConcatProperties
<1>3. /\ Reverse(text) = [i \in 1 .. N |-> text[(N - i) + 1]]
      /\ Reverse(longer) = [i \in 1 .. (1 + N) |-> longer[((1 + N) - i) + 1]]
  BY <1>2 DEF Reverse
<1> HIDE DEF N, longer
<1>4. \A i \in 1 .. N : (N - i) + 1 \in 1 .. N
  BY <1>1
<1>5. Reverse(text) \in [1 .. N -> X]
  BY <1>1, <1>3, <1>4
<1>6. Reverse(text) \in Seq(X) /\ Len(Reverse(text)) = N
  <2>1. \A k \in Nat : \A s \in [1 .. k -> X] : s \in Seq(X) /\ Len(s) = k
    OBVIOUS
  <2> QED BY <1>1, <1>5, <2>1
<1>7. ASSUME NEW i \in 1 .. (1 + N) PROVE longer[((1 + N) - i) + 1] = Append(Reverse(text), first)[i]
  <2>1. /\ \A k \in 1 .. N : Append(Reverse(text), first)[k] = Reverse(text)[k]
        /\ Append(Reverse(text), first)[N + 1] = first
    BY <1>6, AppendProperties
  <2>2. CASE i = 1 + N
    <3>1. ((1 + N) - i) + 1 = 1 /\ 1 \in 1 .. (1 + N) /\ i = N + 1
      BY <1>1, <2>2
    <3>2. longer[1] = first
      BY <1>2, <3>1
    <3> QED BY <2>1, <3>1, <3>2
  <2>3. CASE i # 1 + N
    <3> DEFINE k == ((1 + N) - i) + 1
    <3>1. i \in 1 .. N /\ k \in 1 .. (1 + N) /\ ~(k <= 1) /\ k - 1 = (N - i) + 1
      BY <1>1, <2>3
    <3> HIDE DEF k
    <3>2. longer[k] = text[(N - i) + 1]
      BY <1>2, <3>1
    <3>3. Append(Reverse(text), first)[i] = text[(N - i) + 1]
      BY <1>3, <2>1, <3>1
    <3> QED BY <3>2, <3>3 DEF k
  <2> QED BY <2>2, <2>3
<1>8. Append(Reverse(text), first) = [i \in 1 .. (1 + N) |-> Append(Reverse(text), first)[i]]
  <2>1. /\ Append(Reverse(text), first) \in Seq(X) /\ Len(Append(Reverse(text), first)) = 1 + N
    BY <1>1, <1>6, AppendProperties
  <2> QED BY <2>1, LenProperties
<1>9. Reverse(longer) = Append(Reverse(text), first)
  BY <1>3, <1>7, <1>8
<1> QED BY <1>6, <1>9 DEF N, longer

(* The digits of a number, and what they are worth.                         *)
Spells(text, n) == text \in Seq(Digits) /\ Len(text) > 0 /\ Value(text) = n

(* A digit in front of the digits written lowest first.                     *)
LEMMA DigitsGrow ==
  ASSUME NEW low \in Seq(Nat), NEW n \in Nat, Spells(Reverse(low), n), NEW digit \in 0 .. 9
  PROVE  Spells(Reverse(<<48 + digit>> \o low), 10 * n + digit)
<1> DEFINE text == Reverse(low)
           char == 48 + digit
<1>1. char \in Digits /\ char \in Nat /\ Digits \subseteq Nat
  BY DEF Digits
<1>2. Reverse(<<char>> \o low) = Append(text, char)
  <2> HIDE DEF char
  <2> QED BY <1>1, ReverseOfLonger
<1>3. text \in Seq(Digits) /\ text \in Seq(Nat) /\ Len(text) \in Nat /\ Value(text) = n
  BY <1>1, LenProperties, SeqMonotonic DEF Spells
<1> HIDE DEF text, char
<1>4. Append(text, char) \in Seq(Digits) /\ Len(Append(text, char)) = Len(text) + 1
  BY <1>1, <1>3, AppendProperties
<1>5. Value(Append(text, char)) = 10 * n + char - 48
  BY <1>1, <1>3, ValueOfAppend
<1>6. Value(Append(text, char)) = 10 * n + digit
  BY <1>5 DEF char
<1>7. Spells(Append(text, char), 10 * n + digit)
  BY <1>3, <1>4, <1>6 DEF Spells
<1> QED BY <1>2, <1>7 DEF char

(* A number below ten is one digit.                                         *)
LEMMA OneDigit ==
  ASSUME NEW n \in 0 .. 9
  PROVE  Spells(Reverse(<<48 + n>>), n) /\ <<48 + n>> \in Seq(Nat)
<1>1. 48 + n \in Digits /\ 48 + n \in Nat /\ Digits \subseteq Nat
  BY DEF Digits
<1>2. Reverse(<<48 + n>>) = <<48 + n>>
  <2>1. Len(<<48 + n>>) = 1 /\ \A i \in 1 .. 1 : (1 - i) + 1 = 1 /\ i = 1
    OBVIOUS
  <2> QED BY <2>1 DEF Reverse
<1>3. Append(<<>>, 48 + n) = <<48 + n>> /\ <<>> \in Seq(Nat)
  OBVIOUS
<1>4. Value(<<48 + n>>) = 10 * 0 + (48 + n) - 48
  BY <1>1, <1>3, ValueOfAppend
<1>5. Value(<<48 + n>>) = n
  BY <1>4
<1>6. <<48 + n>> \in Seq(Digits) /\ Len(<<48 + n>>) > 0 /\ <<48 + n>> \in Seq(Nat)
  BY <1>1
<1> QED BY <1>2, <1>5, <1>6 DEF Spells

(* terminal_write_uint writes the digits of its number.                     *)
LEMMA UnsignedSpells ==
  ASSUME NEW number \in Nat
  PROVE  Spells(Unsigned(number), number)
<1> DEFINE D == 0 .. number
           X == Seq(Nat)
           F == [D -> X]
           Body(f, n) == IF n < 10 THEN <<48 + n>> ELSE <<48 + (n % 10)>> \o f[n \div 10]
           step == [n \in D |-> [f \in F |-> Body(f, n)]]
           rank == [n \in D |-> n]
           Loop(f) == f = [n \in D |-> Body(f, n)]
<1>1. /\ number \in D /\ rank \in [D -> Nat] /\ \A n \in D : n \in Nat /\ rank[n] = n /\ rank[n] < number + 1
      /\ number + 1 \in Nat
  OBVIOUS
<1>2. ASSUME NEW n \in D, ~(n < 10)
      PROVE  n \div 10 \in D /\ n \div 10 < n /\ (n % 10) \in 0 .. 9 /\ n = 10 * (n \div 10) + (n % 10)
  <2>1. n \in Nat /\ n <= number /\ n >= 10 /\ 10 \in Nat \ {0}
    BY <1>2
  <2> DEFINE q == n \div 10
             r == n % 10
  <2>2. q \in Nat /\ r \in Nat /\ r < 10 /\ n = q * 10 + r
    BY <2>1, DivMod
  <2> SUFFICES q \in 0 .. number /\ q < n /\ r \in 0 .. 9 /\ n = 10 * q + r
    OBVIOUS
  <2> HIDE DEF q, r, D
  <2> QED BY <2>1, <2>2
<1>3. ASSUME NEW n \in D, n < 10 PROVE n \in 0 .. 9
  BY <1>1, <1>3
<1> HIDE DEF D
<1>4. ASSUME NEW f \in F, NEW n \in D PROVE Body(f, n) \in X
  <2>1. CASE n < 10
    BY <1>3, <2>1, OneDigit
  <2>2. CASE ~(n < 10)
    <3>1. <<48 + (n % 10)>> \in X /\ f[n \div 10] \in X
      BY <1>2, <2>2, OneDigit
    <3> QED BY <2>2, <3>1, ConcatProperties
  <2> QED BY <2>1, <2>2
<1> HIDE DEF X, rank
<1>5. step \in [D -> [F -> X]]
  BY <1>4
<1>6. MadeOfLower(X, D, rank, step)
  <2> SUFFICES ASSUME NEW n \in D, NEW f \in F, NEW g \in F, \A e \in D : rank[e] < rank[n] => f[e] = g[e]
               PROVE  step[n][f] = step[n][g]
    BY DEF MadeOfLower
  <2>1. ~(n < 10) => f[n \div 10] = g[n \div 10]
    BY <1>1, <1>2
  <2> QED BY <2>1
<1>7. PICK g : DefinedByRank(X, D, step, g)
  <2>1. X # {}
    BY EmptySeq DEF X
  <2> HIDE DEF step
  <2> QED BY <1>1, <1>5, <1>6, <2>1, RecursionByRank
<1>8. Loop(g)
  <2>1. g \in F /\ \A n \in D : g[n] = step[n][g]
    BY <1>7 DEF DefinedByRank
  <2> QED BY <2>1
<1> DEFINE f == CHOOSE h : Loop(h)
<1>9. Loop(f)
  <2> HIDE DEF Loop
  <2> QED BY <1>8
<1>10. Unsigned(number) = Reverse(f[number])
  BY DEF Unsigned, D
<1> HIDE DEF f, step
<1> DEFINE S == {n \in D : f[n] \in X /\ Spells(Reverse(f[n]), n)}
<1>11. ASSUME NEW n \in D, \A e \in D : rank[e] < rank[n] => e \in S PROVE n \in S
  <2>1. CASE n < 10
    <3>1. f[n] = <<48 + n>>
      BY <1>9, <2>1
    <3> QED BY <1>3, <2>1, <3>1, OneDigit DEF X
  <2>2. CASE ~(n < 10)
    <3> DEFINE q == n \div 10
               r == n % 10
    <3>1. f[n] = <<48 + r>> \o f[q]
      BY <1>9, <2>2
    <3>2. q \in D /\ q < n /\ r \in 0 .. 9 /\ n = 10 * q + r
      BY <1>2, <2>2
    <3> HIDE DEF q, r
    <3>3. q \in S /\ q \in Nat
      BY <1>1, <1>11, <3>2
    <3>4. f[q] \in X /\ Spells(Reverse(f[q]), q)
      BY <3>3
    <3>5. Spells(Reverse(<<48 + r>> \o f[q]), 10 * q + r)
      BY <3>2, <3>3, <3>4, DigitsGrow DEF X
    <3>6. <<48 + r>> \o f[q] \in X
      <4>1. <<48 + r>> \in X
        BY <3>2, OneDigit DEF X
      <4> QED BY <3>4, <4>1, ConcatProperties DEF X
    <3> QED BY <3>1, <3>2, <3>5, <3>6
  <2> QED BY <2>1, <2>2
<1>12. \A n \in D : n \in S
  <2>1. rank \in [D -> Nat]
    BY <1>1
  <2> HIDE DEF S, Loop
  <2> QED BY <2>1, <1>11, RankInduction
<1> QED BY <1>1, <1>10, <1>12

(* The digits of a number are read as that number, without a sign.          *)
LEMMA SpellsFacts ==
  ASSUME NEW text, NEW n \in Nat, Spells(text, n)
  PROVE  text # <<>> /\ text[1] # Minus /\ IntegerIn(text) = n /\ Value(text) = n
<1>1. text \in Seq(Digits) /\ Len(text) \in Nat /\ Len(text) > 0 /\ Value(text) = n
  BY LenProperties DEF Spells
<1>2. 1 \in 1 .. Len(text)
  BY <1>1
<1>3. text[1] \in Digits
  BY <1>1, <1>2, ElementOfSeq
<1>4. text[1] # Minus
  BY <1>3 DEF Digits, Minus
<1>5. Len(<<>>) = 0
  BY EmptySeq
<1>6. text # <<>>
  BY <1>1, <1>5
<1> HIDE DEF Value, Minus
<1> QED BY <1>1, <1>4, <1>6 DEF IntegerIn

(* A sign in front of a text.                                               *)
LEMMA MinusBefore ==
  ASSUME NEW text \in Seq(Nat)
  PROVE  /\ (<<Minus>> \o text)[1] = Minus /\ Tail(<<Minus>> \o text) = text
         /\ Len(<<Minus>> \o text) = Len(text) + 1
<1>1. <<Minus>> \in Seq(Nat) /\ Len(<<Minus>>) = 1 /\ Minus \in Nat
  BY DEF Minus
<1> HIDE DEF Minus
<1>2. /\ <<Minus>> \o text \in Seq(Nat) /\ Len(<<Minus>> \o text) = 1 + Len(text) /\ Len(text) \in Nat
      /\ \A i \in 1 .. (1 + Len(text)) : (<<Minus>> \o text)[i] = IF i <= 1 THEN <<Minus>>[i] ELSE text[i - 1]
  BY <1>1, ConcatProperties, LenProperties
<1>3. 1 \in 1 .. (1 + Len(text)) /\ (1 + Len(text)) - 1 = Len(text)
      /\ \A i \in 1 .. Len(text) : i + 1 \in 1 .. (1 + Len(text)) /\ ~(i + 1 <= 1) /\ (i + 1) - 1 = i
  BY <1>2
<1> DEFINE longer == <<Minus>> \o text
<1>4. longer[1] = Minus /\ \A i \in 1 .. Len(text) : longer[i + 1] = text[i]
  BY <1>2, <1>3
<1>5. longer \in Seq(Nat) /\ Len(longer) = 1 + Len(text)
  BY <1>2
<1> HIDE DEF longer
<1>6. longer # <<>>
  <2>1. Len(<<>>) = 0 /\ Len(longer) # 0
    BY <1>2, <1>5, EmptySeq
  <2> QED BY <2>1
<1>7. /\ Tail(longer) \in Seq(Nat) /\ Len(Tail(longer)) = Len(longer) - 1
      /\ \A i \in 1 .. Len(Tail(longer)) : Tail(longer)[i] = longer[i + 1]
  BY <1>5, <1>6, HeadTailProperties
<1>8. Len(Tail(longer)) = Len(text) /\ \A i \in 1 .. Len(text) : Tail(longer)[i] = text[i]
  BY <1>3, <1>4, <1>5, <1>7
<1>9. Tail(longer) = text
  BY <1>7, <1>8, SeqEqual
<1> QED BY <1>2, <1>4, <1>5, <1>9 DEF longer

(* terminal_write_decimal writes the number that a word stands for.         *)
LEMMA DecimalIs ==
  ASSUME NEW word \in Words
  PROVE  IntegerIn(Decimal(word)) = Signed(word)
<1>1. word \in Nat /\ word < Word /\ Word \in Nat
  BY WordIsPositive DEF Words
<1>2. CASE Signed(word) < 0
  <2> DEFINE n == -Signed(word)
             text == Unsigned(n)
  <2>1. n \in Nat /\ -n = Signed(word)
    BY <1>1, <1>2 DEF Signed
  <2> HIDE DEF n
  <2>2. Spells(text, n)
    BY <2>1, UnsignedSpells
  <2>3. text \in Seq(Digits) /\ Value(text) = n
    BY <2>2 DEF Spells
  <2>4. text \in Seq(Nat)
    BY <2>3, SeqMonotonic DEF Digits
  <2>5. Decimal(word) = <<Minus>> \o text
    BY <1>2 DEF Decimal, n
  <2> HIDE DEF text
  <2>6. (<<Minus>> \o text)[1] = Minus /\ Tail(<<Minus>> \o text) = text
    BY <2>4, MinusBefore
  <2> QED BY <2>1, <2>3, <2>5, <2>6 DEF IntegerIn
<1>3. CASE ~(Signed(word) < 0)
  <2>1. Signed(word) \in Nat /\ word = Signed(word)
    BY <1>1, <1>3 DEF Signed
  <2>2. Spells(Unsigned(word), word)
    BY <1>1, UnsignedSpells
  <2>3. IntegerIn(Unsigned(word)) = word
    BY <1>1, <2>2, SpellsFacts
  <2> QED BY <1>3, <2>1, <2>3 DEF Decimal
<1> QED BY <1>2, <1>3

(* A difference of two characters is written as what it is, with its sign.  *)
LEMMA DifferenceIs ==
  ASSUME NEW d \in Int, 2 * d < Word, 2 * d > -Word
  PROVE  IntegerIn(Difference(d)) = d
<1> DEFINE word == IF d < 0 THEN Word + d ELSE d
<1>1. Word \in Nat
  BY WordIsPositive
<1> HIDE DEF Word
<1>2. word \in Words /\ Signed(word) = d
  BY <1>1 DEF Words, Signed
<1>3. IntegerIn(Decimal(word)) = Signed(word)
  <2> HIDE DEF word
  <2> QED BY <1>2, DecimalIs
<1> QED BY <1>2, <1>3 DEF Difference

(* The lesser of two numbers.                                               *)
LEMMA MinOfTwo ==
  ASSUME NEW a \in Nat, NEW b \in Nat
  PROVE  Min({a, b}) = IF a <= b THEN a ELSE b
<1> DEFINE S == {a, b}
           least == IF a <= b THEN a ELSE b
<1>1. S \in SUBSET Nat /\ least \in S /\ \A x \in S : least <= x
  OBVIOUS
<1> HIDE DEF S, least
<1>2. Min(S) = least
  BY <1>1, MinIs
<1> QED BY <1>2 DEF S, least

(* The first characters of a text.                                          *)
LEMMA FirstOfIs ==
  ASSUME NEW text \in Seq(Characters), NEW n \in Nat
  PROVE  /\ FirstOf(text, n) \in Seq(Characters)
         /\ Len(FirstOf(text, n)) = IF n <= Len(text) THEN n ELSE Len(text)
         /\ \A i \in 1 .. n : CharAt(FirstOf(text, n), i) = CharAt(text, i)
<1> DEFINE m == Len(text)
           k == IF n <= m THEN n ELSE m
           first == FirstOf(text, n)
<1>1. m \in Nat /\ DOMAIN text = 1 .. m /\ k \in 0 .. m /\ k <= n
  BY LenProperties
<1>2. Min({n, m}) = k
  BY <1>1, MinOfTwo
<1>3. first = SubSeq(text, 1, k)
  BY <1>2 DEF FirstOf
<1>4. k = n \/ k = m
  OBVIOUS
<1> HIDE DEF m, k, first
<1>5. \A i \in 1 .. m : text[i] \in Characters
  BY ElementOfSeq DEF m
<1>6. SubSeq(text, 1, k) = [i \in 1 .. k |-> text[i]]
  BY <1>1
<1>7. first \in [1 .. k -> Characters]
  <2>1. \A i \in 1 .. k : i \in 1 .. m
    BY <1>1
  <2> QED BY <1>3, <1>5, <1>6, <2>1
<1>8. first \in Seq(Characters) /\ Len(first) = k
  <2>1. \A l \in Nat : \A s \in [1 .. l -> Characters] : s \in Seq(Characters) /\ Len(s) = l
    OBVIOUS
  <2> QED BY <1>1, <1>7, <2>1
<1>9. ASSUME NEW i \in 1 .. n PROVE CharAt(first, i) = CharAt(text, i)
  <2>1. DOMAIN first = 1 .. k
    BY <1>7
  <2>2. CASE i \in 1 .. k
    <3>1. i \in 1 .. m /\ first[i] = text[i]
      BY <1>1, <1>3, <1>6, <2>2
    <3> QED BY <1>1, <2>1, <2>2, <3>1 DEF CharAt
  <2>3. CASE i \notin 1 .. k
    <3>1. i \notin 1 .. m
      BY <1>1, <1>4, <2>3
    <3> QED BY <1>1, <2>1, <2>3, <3>1 DEF CharAt
  <2> QED BY <2>2, <2>3
<1> QED BY <1>8, <1>9 DEF k, m, first

(* Two texts part in one place only.                                        *)
LEMMA PartIs ==
  ASSUME NEW a \in Seq(Nat), NEW b, NEW k, Part(a, b, k), NEW j, Part(a, b, j)
  PROVE  j = k
<1>1. Len(a) \in Nat
  BY LenProperties
<1>2. /\ k \in 1 .. (Len(a) + 1) /\ (k = Len(a) + 1 \/ CharAt(b, k) # a[k])
      /\ j \in 1 .. (Len(a) + 1) /\ (j = Len(a) + 1 \/ CharAt(b, j) # a[j])
      /\ \A i \in 1 .. (k - 1) : CharAt(b, i) = a[i]
      /\ \A i \in 1 .. (j - 1) : CharAt(b, i) = a[i]
  BY DEF Part
<1>3. ~(j < k)
  <2> SUFFICES ASSUME j < k PROVE FALSE
    OBVIOUS
  <2>1. j \in 1 .. (k - 1) /\ j # Len(a) + 1
    BY <1>1, <1>2
  <2> QED BY <1>2, <2>1
<1>4. ~(k < j)
  <2> SUFFICES ASSUME k < j PROVE FALSE
    OBVIOUS
  <2>1. k \in 1 .. (j - 1) /\ k # Len(a) + 1
    BY <1>1, <1>2
  <2> QED BY <1>2, <2>1
<1> QED BY <1>1, <1>2, <1>3, <1>4

(* strncmp is strcmp of the first characters.                               *)
LEMMA strncmpIsstrcmp ==
  ASSUME NEW a \in Seq(Characters), NEW b \in Seq(Characters), NEW n \in Nat
  PROVE  strncmp(a, b, n) = strcmp(FirstOf(a, n), FirstOf(b, n))
<1> DEFINE c == FirstOf(a, n)
           d == FirstOf(b, n)
           k == Stops(a, b)
           j == Stops(c, d)
<1>1. /\ c \in Seq(Characters) /\ d \in Seq(Characters) /\ Len(c) = IF n <= Len(a) THEN n ELSE Len(a)
      /\ Len(d) = IF n <= Len(b) THEN n ELSE Len(b)
      /\ \A i \in 1 .. n : CharAt(c, i) = CharAt(a, i) /\ CharAt(d, i) = CharAt(b, i)
  BY FirstOfIs
<1> HIDE DEF c, d
<1>2. /\ a \in Seq(Nat) /\ c \in Seq(Nat) /\ Len(a) \in Nat /\ Len(b) \in Nat /\ Len(c) \in Nat
      /\ DOMAIN a = 1 .. Len(a) /\ DOMAIN c = 1 .. Len(c) /\ DOMAIN b = 1 .. Len(b) /\ DOMAIN d = 1 .. Len(d)
  <2>1. Characters \subseteq Nat
    BY CharactersAreText
  <2> QED BY <1>1, <2>1, LenProperties, SeqMonotonic
<1>3. Part(a, b, k) /\ Part(c, d, j)
  BY <1>2, StopsIs
<1>4. /\ strcmp(c, d) = CharAt(c, j) - CharAt(d, j)
      /\ strncmp(a, b, n) = IF k > n THEN 0 ELSE CharAt(a, k) - CharAt(b, k)
  BY DEF strcmp, strncmp
<1> HIDE DEF k, j
<1>5. /\ k \in 1 .. (Len(a) + 1) /\ (k = Len(a) + 1 \/ CharAt(b, k) # a[k])
      /\ \A i \in 1 .. (k - 1) : CharAt(b, i) = a[i]
  BY <1>3 DEF Part
<1>6. /\ \A i \in 1 .. Len(a) : CharAt(a, i) = a[i] /\ a[i] # 0
      /\ \A i \in 1 .. Len(c) : CharAt(c, i) = c[i]
  <2>1. \A i \in 1 .. Len(a) : a[i] \in Characters
    BY ElementOfSeq
  <2> QED BY <1>2, <2>1, CharacterIsSmall DEF CharAt
<1>7. CASE k > n
  <2>0. k \in 1 .. (Len(a) + 1) /\ Len(a) \in Nat
    BY <1>2, <1>5
  <2>1. Len(c) = n /\ \A i \in 1 .. n : i \in 1 .. Len(a) /\ i \in 1 .. (k - 1) /\ i \in 1 .. Len(c)
    <3>1. n <= Len(a) /\ n <= k - 1
      BY <1>7, <2>0
    <3>2. Len(c) = n
      BY <1>1, <3>1
    <3> QED BY <2>0, <3>1, <3>2
  <2>2. ASSUME NEW i \in 1 .. n PROVE CharAt(d, i) = c[i] /\ c[i] # 0
    BY <1>1, <1>5, <1>6, <2>1
  <2>3. ASSUME NEW i \in 1 .. n PROVE i <= Len(d)
    <3>1. i \in DOMAIN d
      BY <2>2 DEF CharAt
    <3> QED BY <1>2, <3>1
  <2>4. Len(d) = n
    <3>1. n = 0 \/ n \in 1 .. n
      OBVIOUS
    <3>2. Len(b) \in Nat /\ Len(d) = IF n <= Len(b) THEN n ELSE Len(b)
      BY <1>1, <1>2
    <3>3. n <= Len(d)
      BY <2>3, <3>1, <3>2
    <3> QED BY <3>2, <3>3
  <2>5. c = d
    <3>1. \A i \in 1 .. n : c[i] = d[i]
      BY <1>2, <2>2, <2>4 DEF CharAt
    <3> QED BY <1>1, <2>1, <2>4, <3>1, SeqEqual
  <2>6. strcmp(c, d) = 0
    BY <1>1, <2>5, strcmpOrders
  <2> QED BY <1>4, <1>7, <2>6 DEF c, d
<1>8. CASE ~(k > n)
  <2>1. k \in 1 .. n /\ k \in 1 .. (Len(c) + 1)
    BY <1>1, <1>2, <1>5, <1>8
  <2>2. \A i \in 1 .. (k - 1) : i \in 1 .. n /\ i \in 1 .. Len(c) /\ i \in 1 .. Len(a)
    BY <1>1, <1>2, <1>5, <1>8
  <2>3. k = Len(c) + 1 \/ CharAt(d, k) # c[k]
    <3>1. CASE k = Len(a) + 1
      BY <1>1, <1>2, <1>8, <3>1
    <3>2. CASE k # Len(a) + 1
      <4>1. k \in 1 .. Len(a) /\ k \in 1 .. Len(c)
        BY <1>1, <1>2, <1>5, <1>8, <3>2
      <4> QED BY <1>1, <1>5, <1>6, <2>1, <3>2, <4>1
    <3> QED BY <3>1, <3>2
  <2>4. \A i \in 1 .. (k - 1) : CharAt(d, i) = c[i]
    BY <1>1, <1>5, <1>6, <2>2
  <2>5. Part(c, d, k)
    BY <2>1, <2>3, <2>4 DEF Part
  <2>6. j = k
    BY <1>2, <1>3, <2>5, PartIs
  <2> QED BY <1>1, <1>4, <1>8, <2>1, <2>6 DEF c, d
<1> QED BY <1>7, <1>8

(* strcmp's difference says which text comes first in a dictionary.         *)
LEMMA DifferenceCompares ==
  ASSUME NEW a \in Seq(Characters), NEW b \in Seq(Characters)
  PROVE  Compares(Difference(strcmp(a, b)), a, b)
<1>1. strcmp(a, b) = 0 <=> a = b
  BY strcmpOrders
<1>2. strcmp(a, b) < 0 <=> Before(a, b)
  BY strcmpOrders
<1>3. strcmp(a, b) \in Int /\ 2 * strcmp(a, b) < Word /\ 2 * strcmp(a, b) > -Word
  BY strcmpOrders
<1> DEFINE d == strcmp(a, b)
<1> HIDE DEF d
<1>4. IntegerIn(Difference(d)) = d
  BY <1>3, DifferenceIs DEF d
<1> QED BY <1>1, <1>2, <1>4 DEF Compares, d

(* Where the characters of a set end.                                       *)
SpanEnds(text, from, set, end) ==
  /\ end \in from .. (Len(text) + 1) /\ (end = Len(text) + 1 \/ text[end] \notin set)
  /\ \A i \in from .. (end - 1) : text[i] \in set

LEMMA SpanIs ==
  ASSUME NEW text \in Seq(Nat), NEW from \in 1 .. (Len(text) + 1), NEW set
  PROVE  \E end : SpanEnds(text, from, set, end) /\ Span(text, from, set) = SubSeq(text, from, end - 1)
<1> DEFINE S == {i \in from .. (Len(text) + 1) : i = Len(text) + 1 \/ text[i] \notin set}
           end == Min(S)
<1>1. Len(text) \in Nat /\ Len(text) + 1 \in S /\ S \in SUBSET Nat
  BY LenProperties
<1>2. /\ \A i \in from .. (Len(text) + 1) : i \notin S => text[i] \in set
      /\ \A i \in S : i \in from .. (Len(text) + 1) /\ (i = Len(text) + 1 \/ text[i] \notin set)
  OBVIOUS
<1>3. Span(text, from, set) = SubSeq(text, from, end - 1)
  BY DEF Span
<1> HIDE DEF S
<1>4. end \in S /\ \A i \in S : end <= i
  BY <1>1, MinIsLeast
<1> HIDE DEF end
<1>5. ASSUME NEW i \in from .. (end - 1) PROVE text[i] \in set
  <2>1. end \in from .. (Len(text) + 1)
    BY <1>2, <1>4
  <2>2. i \in from .. (Len(text) + 1) /\ ~(end <= i)
    BY <1>1, <2>1
  <2> QED BY <1>2, <1>4, <2>2
<1>6. SpanEnds(text, from, set, end)
  BY <1>2, <1>4, <1>5 DEF SpanEnds
<1> QED BY <1>3, <1>6

(* A span holds nothing but the characters of its set.                      *)
LEMMA SpanIsOfSet ==
  ASSUME NEW text \in Seq(Nat), NEW from \in 1 .. (Len(text) + 1), NEW set
  PROVE  Span(text, from, set) \in Seq(set) /\ from + Len(Span(text, from, set)) \in 1 .. (Len(text) + 1)
<1> DEFINE m == Len(text)
           span == Span(text, from, set)
<1>1. m \in Nat /\ from \in 1 .. (m + 1)
  BY LenProperties
<1>2. PICK end : SpanEnds(text, from, set, end) /\ span = SubSeq(text, from, end - 1)
  BY SpanIs
<1>3. /\ end \in from .. (m + 1)
      /\ \A i \in from .. (end - 1) : text[i] \in set
  BY <1>2 DEF SpanEnds
<1> HIDE DEF m, span
<1>4. SubSeq(text, from, end - 1) = [i \in 1 .. (end - from) |-> text[i + from - 1]]
  <2>1. (end - 1) - from + 1 = end - from /\ \A i \in 1 .. (end - from) : from + i - 1 = i + from - 1
    BY <1>1, <1>3
  <2> QED BY <1>1, <1>3, <2>1
<1>5. \A i \in 1 .. (end - from) : i + from - 1 \in from .. (end - 1)
  BY <1>1, <1>3
<1>6. span \in [1 .. (end - from) -> set] /\ end - from \in Nat
  <2>1. \A i \in 1 .. (end - from) : text[i + from - 1] \in set
    BY <1>3, <1>5
  <2>2. end - from \in Nat
    BY <1>1, <1>3
  <2>3. span = [i \in 1 .. (end - from) |-> text[i + from - 1]]
    BY <1>2, <1>4
  <2> QED BY <2>1, <2>2, <2>3
<1>7. span \in Seq(set) /\ Len(span) = end - from
  <2>1. \A k \in Nat : \A s \in [1 .. k -> set] : s \in Seq(set) /\ Len(s) = k
    OBVIOUS
  <2> QED BY <1>6, <2>1
<1>8. from + (end - from) \in 1 .. (m + 1)
  BY <1>1, <1>3
<1> QED BY <1>7, <1>8 DEF m, span

DecimalSteps(digits, f) ==
  /\ DecimalValue(digits) = f[Len(digits)] /\ f[0] = 0 /\ f \in [0 .. Len(digits) -> Words]
  /\ \A n \in 1 .. Len(digits) : f[n] = (f[n - 1] * 10 + digits[n] - 48) % Word

(* The loop of shell_parse_uint32.                                          *)
LEMMA DecimalValueBySteps ==
  ASSUME NEW digits \in Seq(Digits)
  PROVE  \E f : DecimalSteps(digits, f)
<1> DEFINE N == Len(digits)
           Body(value, n) == (value * 10 + digits[n] - 48) % Word
           step == [n \in 1 .. N |-> [value \in Words |-> Body(value, n)]]
           Loop(f) == f = [n \in 0 .. N |-> IF n = 0 THEN 0 ELSE Body(f[n - 1], n)]
<1>1. N \in Nat /\ Word \in Nat \ {0} /\ 0 \in Words
  BY LenProperties, WordIsPositive DEF Words
<1>2. \A n \in 1 .. N : digits[n] \in 48 .. 57
  BY ElementOfSeq DEF Digits
<1> HIDE DEF N
<1>3. ASSUME NEW value \in Words, NEW n \in 1 .. N PROVE Body(value, n) \in Words
  <2>1. value \in Nat
    BY WordIsPositive
  <2>2. value * 10 + digits[n] - 48 \in Nat
    BY SMTT(30), <1>2, <2>1
  <2> QED BY <2>2, WordIsPositive
<1> HIDE DEF Body
<1>4. step \in [1 .. N -> [Words -> Words]]
  BY <1>3
<1>5. PICK g : LoopHistory(Words, 0, N, step, g)
  <2> HIDE DEF step
  <2> QED BY <1>1, <1>4, LoopRuns
<1>6. Loop(g)
  <2>1. g \in [0 .. N -> Words] /\ g[0] = 0 /\ \A n \in 1 .. N : g[n] = step[n][g[n - 1]]
    BY <1>5 DEF LoopHistory
  <2>2. /\ \A n \in 0 .. N : n # 0 => n \in 1 .. N
        /\ \A n \in 1 .. N : n - 1 \in 0 .. N
    BY <1>1
  <2>3. \A n \in 1 .. N : g[n] = Body(g[n - 1], n)
    BY <2>1, <2>2
  <2> QED BY <2>1, <2>2, <2>3
<1> DEFINE f == CHOOSE h : Loop(h)
<1>7. Loop(f)
  <2> HIDE DEF Loop
  <2> QED BY <1>6
<1>8. DecimalValue(digits) = f[N]
  BY DEF DecimalValue, Body, N
<1> HIDE DEF f
<1>9. \A n \in 1 .. N : f[n] = Body(f[n - 1], n)
  <2>1. \A n \in 1 .. N : n # 0 /\ n \in 0 .. N
    BY <1>1
  <2> QED BY <1>7, <2>1
<1>10. LoopHistory(Words, 0, N, step, f)
  <2>1. 0 \in 0 .. N
    BY <1>1
  <2>2. f = [n \in 0 .. N |-> f[n]] /\ f[0] = 0
    BY <1>7, <2>1
  <2>3. Follows(Words, 0, N, step, f)
    BY <2>2, <1>9 DEF Follows
  <2> HIDE DEF step
  <2> QED BY <1>1, <1>4, <2>3, LoopIs
<1>11. f \in [0 .. N -> Words] /\ f[0] = 0
  BY <1>10 DEF LoopHistory
<1>12. \A n \in 1 .. N : f[n] = (f[n - 1] * 10 + digits[n] - 48) % Word
  BY <1>9 DEF Body
<1> QED BY <1>8, <1>11, <1>12 DEF DecimalSteps, N

(* What it computes is a word.                                              *)
LEMMA DecimalValueIsWord ==
  ASSUME NEW digits \in Seq(Digits)
  PROVE  DecimalValue(digits) \in Words
<1>1. PICK f : DecimalSteps(digits, f)
  BY DecimalValueBySteps
<1>2. Len(digits) \in 0 .. Len(digits)
  BY LenProperties
<1> QED BY <1>1, <1>2 DEF DecimalSteps

(* So is the number read from an argument.                                  *)
LEMMA NumberIsWord ==
  ASSUME NEW text \in Seq(Characters)
  PROVE  Number(text) \in Words
<1>1. text \in Seq(Nat)
  <2>1. Characters \subseteq Nat
    BY CharactersAreText
  <2> QED BY <2>1, SeqMonotonic
<1>2. 1 \in 1 .. (Len(text) + 1)
  BY <1>1, LenProperties
<1>3. DigitsAt(text, 1) \in Seq(Digits)
  BY <1>1, <1>2, SpanIsOfSet DEF DigitsAt
<1> QED BY <1>3, DecimalValueIsWord DEF Number

(* What strcmp and strncmp answer.                                          *)
LEMMA GivenAre ==
  ASSUME Fits, pc = "run", NEW n \in Nat, Given(n)
  PROVE  \A i \in 1 .. (n + 1) : i \in 1 .. argc /\ Argument(i) \in Seq(Characters)
<1>1. argc \in Nat /\ argc > n /\ pc \in Behind
  BY LineFacts DEF Fits, Inductive, Given, Behind
<1>2. \A i \in 1 .. (n + 1) : i \in 1 .. argc
  BY <1>1
<1> QED BY <1>1, <1>2, ArgumentIsText DEF Fits

(* strcmp answers with the order of its two arguments.                      *)
LEMMA strcmpAnswers ==
  ASSUME Fits, cmd_strcmp
  PROVE  reply'.says = "strcmp" => Compares(reply'.shows[1], Argument(2), Argument(3))
<1> SUFFICES ASSUME reply'.says = "strcmp" PROVE Compares(reply'.shows[1], Argument(2), Argument(3))
  OBVIOUS
<1>1. Given(2) /\ reply'.shows[1] = Difference(strcmp(Argument(2), Argument(3)))
  BY DEF cmd_strcmp, Says, Shows, Given
<1>2. pc = "run" /\ 2 \in Nat /\ 2 \in 1 .. (2 + 1) /\ 3 \in 1 .. (2 + 1)
  BY DEF cmd_strcmp, Runs
<1>3. Argument(2) \in Seq(Characters) /\ Argument(3) \in Seq(Characters)
  BY <1>1, <1>2, GivenAre
<1> QED BY <1>1, <1>3, DifferenceCompares

(* strncmp answers with the order of the first characters of its arguments. *)
LEMMA strncmpAnswers ==
  ASSUME Fits, cmd_strncmp
  PROVE  reply'.says = "strncmp" =>
           LET n == Number(Argument(4))
           IN  Compares(reply'.shows[1], FirstOf(Argument(2), n), FirstOf(Argument(3), n))
<1> DEFINE n == Number(Argument(4))
<1> SUFFICES ASSUME reply'.says = "strncmp"
             PROVE  Compares(reply'.shows[1], FirstOf(Argument(2), n), FirstOf(Argument(3), n))
  OBVIOUS
<1>1. Given(3) /\ reply'.shows[1] = Difference(strncmp(Argument(2), Argument(3), n))
  <2>1. \/ Says("usage")
        \/ Says("invalid_number")
        \/ Given(3) /\ Shows("strncmp", <<Difference(strncmp(Argument(2), Argument(3), n))>>)
    BY Zenon DEF cmd_strncmp
  <2>2. ~Says("usage") /\ ~Says("invalid_number")
    BY DEF Says, Shows
  <2> QED BY <2>1, <2>2 DEF Shows
<1>2. pc = "run" /\ 3 \in Nat /\ 2 \in 1 .. (3 + 1) /\ 3 \in 1 .. (3 + 1) /\ 4 \in 1 .. (3 + 1)
  <2>1. pc = "run"
    BY Zenon DEF cmd_strncmp, Runs
  <2> QED BY <2>1
<1>3. Argument(2) \in Seq(Characters) /\ Argument(3) \in Seq(Characters) /\ Argument(4) \in Seq(Characters)
  BY <1>1, <1>2, GivenAre
<1>4. n \in Nat
  BY <1>3, NumberIsWord, WordIsPositive
<1> HIDE DEF n
<1>5. strncmp(Argument(2), Argument(3), n) = strcmp(FirstOf(Argument(2), n), FirstOf(Argument(3), n))
  BY <1>3, <1>4, strncmpIsstrcmp
<1>6. FirstOf(Argument(2), n) \in Seq(Characters) /\ FirstOf(Argument(3), n) \in Seq(Characters)
  BY <1>3, <1>4, FirstOfIs
<1> QED BY <1>1, <1>5, <1>6, DifferenceCompares

(* help lists every command, or finds the one that is asked for.            *)
LEMMA HelpAnswers ==
  ASSUME Fits, cmd_help
  PROVE  IF argc > 1 THEN IsCommandOf(reply'.of[1], Argument(2))
         ELSE Len(reply'.of) = Cardinality(Commands) /\ ToSet(reply'.of) = Commands
<1> DEFINE list == FlattenSeq([i \in 1 .. TableSize |-> Buckets[i - 1]])
<1>1. reply'.of = IF argc > 1 THEN <<Found(Argument(2))>> ELSE list
  BY DEF cmd_help
<1>2. Len(list) = Cardinality(Commands) /\ ToSet(list) = Commands
  BY HelpIsComplete
<1> HIDE DEF list
<1>3. CASE argc > 1
  <2>1. pc = "run" /\ Given(1) /\ 1 \in Nat /\ 2 \in 1 .. (1 + 1)
    BY <1>3 DEF cmd_help, Runs, Given
  <2>2. Argument(2) \in Seq(Characters)
    BY <2>1, GivenAre
  <2>3. IsCommandOf(Found(Argument(2)), Argument(2))
    BY <2>2, FoundIsCommand
  <2>4. reply'.of[1] = Found(Argument(2))
    BY <1>1, <1>3
  <2> QED BY <1>3, <2>3, <2>4
<1>4. CASE ~(argc > 1)
  BY <1>1, <1>2, <1>4
<1> QED BY <1>3, <1>4

(* The running time in hours, minutes and seconds.                          *)
LEMMA TimeParts ==
  ASSUME NEW seconds \in Nat, NEW unit \in Nat \ {0}
  PROVE  LET hours   == seconds \div (unit * unit)
             minutes == (seconds % (unit * unit)) \div unit
         IN  /\ hours \in Nat /\ minutes \in Nat /\ (seconds % unit) \in Nat
             /\ minutes < unit /\ (seconds % unit) < unit
             /\ (hours * unit + minutes) * unit + (seconds % unit) = seconds
             /\ hours <= seconds /\ minutes <= seconds /\ (seconds % unit) <= seconds
<1> DEFINE square == unit * unit
           hours == seconds \div square
           rest == seconds % square
           minutes == rest \div unit
           s == rest % unit
<1>1. square \in Nat \ {0}
  <2>1. square \in Nat /\ 1 * unit <= square /\ 1 * unit = unit
    BY ProductMonotone
  <2> QED BY <2>1
<1>2. /\ hours \in Nat /\ rest \in Nat /\ rest < square
      /\ seconds = hours * square + rest /\ hours * square <= seconds
  <2> HIDE DEF square
  <2> QED BY <1>1, DivMod
<1> HIDE DEF hours, rest
<1>3. /\ minutes \in Nat /\ s \in Nat /\ s < unit /\ rest = minutes * unit + s /\ minutes * unit <= rest
  BY <1>2, DivMod
<1> HIDE DEF minutes, s
<1>4. minutes < unit
  <2> SUFFICES ASSUME unit <= minutes PROVE FALSE
    BY <1>3
  <2>1. unit * unit <= minutes * unit
    BY <1>3, ProductMonotone
  <2> QED BY <1>2, <1>3, <2>1
<1>5. hours * square = (hours * unit) * unit
  BY <1>2
<1>6. (hours * unit + minutes) * unit = hours * square + minutes * unit
  BY <1>2, <1>3, <1>5
<1> HIDE DEF square
<1>7. hours * unit + minutes \in Nat
  BY <1>2, <1>3
<1>8. seconds = (hours * unit + minutes) * unit + s
  BY <1>1, <1>2, <1>3, <1>6
<1>9. (seconds % unit) = s
  <2> DEFINE q == hours * unit + minutes
  <2>1. q \in Nat /\ seconds = q * unit + s
    BY <1>7, <1>8
  <2> HIDE DEF q
  <2>2. (q * unit + s) % unit = s
    BY <1>3, <2>1, QuotientAndRest
  <2> QED BY <2>1, <2>2
<1>10. hours <= seconds /\ minutes <= seconds /\ s <= seconds
  <2>1. \A a \in Nat : \A n \in Nat \ {0} : a <= a * n
    <3> SUFFICES ASSUME NEW a \in Nat, NEW n \in Nat \ {0} PROVE a <= a * n
      OBVIOUS
    <3>1. 1 <= n /\ 1 \in Nat /\ n \in Nat
      OBVIOUS
    <3>2. 1 * a <= n * a
      BY <3>1, ProductMonotone
    <3> QED BY <3>2
  <2>2. hours <= hours * square /\ minutes <= minutes * unit
    BY <1>1, <1>2, <1>3, <2>1
  <2>3. hours * square \in Nat /\ minutes * unit \in Nat
    BY <1>1, <1>2, <1>3
  <2> QED BY <1>2, <1>3, <2>2, <2>3
<1> QED BY <1>2, <1>3, <1>4, <1>8, <1>9, <1>10 DEF hours, minutes, rest, square

(* A number that is a signed word is written without a sign.                *)
LEMMA SmallDecimal ==
  ASSUME NEW n \in Nat, 2 * n < Word
  PROVE  Decimal(n) # <<>> /\ Value(Decimal(n)) = n
<1>1. Spells(Unsigned(n), n)
  BY UnsignedSpells
<1>2. Signed(n) = n
  BY DEF Signed
<1>3. Decimal(n) = Unsigned(n)
  BY <1>2 DEF Decimal
<1> QED BY <1>1, <1>3, SpellsFacts

(* runtime answers with hours, minutes and seconds that make up the ticks.  *)
LEMMA runtimeAnswers ==
  ASSUME cmd_runtime
  PROVE  TimesAddUp'
<1>1. PICK ticks \in Ticks :
        LET seconds == ticks \div Frequency
            hours   == seconds \div (Minute * Minute)
            minutes == (seconds % (Minute * Minute)) \div Minute
        IN  reply' = [says |-> "runtime", of |-> <<ticks>>,
                      shows |-> <<IF hours > 0 THEN Decimal(hours) ELSE <<>>,
                                  IF hours > 0 \/ minutes > 0 THEN Decimal(minutes) ELSE <<>>,
                                  Decimal(seconds % Minute)>>]
  BY DEF cmd_runtime
<1> DEFINE seconds == ticks \div Frequency
           hours == seconds \div (Minute * Minute)
           minutes == (seconds % (Minute * Minute)) \div Minute
           s == seconds % Minute
<1>2. /\ reply'.of[1] = ticks
      /\ reply'.shows[1] = IF hours > 0 THEN Decimal(hours) ELSE <<>>
      /\ reply'.shows[2] = IF hours > 0 \/ minutes > 0 THEN Decimal(minutes) ELSE <<>>
      /\ reply'.shows[3] = Decimal(s)
  <2> HIDE DEF hours, minutes, s
  <2>1. reply' = [says |-> "runtime", of |-> <<ticks>>,
                  shows |-> <<IF hours > 0 THEN Decimal(hours) ELSE <<>>,
                              IF hours > 0 \/ minutes > 0 THEN Decimal(minutes) ELSE <<>>,
                              Decimal(s)>>]
    BY <1>1 DEF hours, minutes, s
  <2> QED BY <2>1
<1>3. ticks \in Nat /\ ticks < Word /\ Frequency \in Nat /\ Frequency >= 2 /\ Minute \in Nat \ {0} /\ Word \in Nat
  BY CommandLineAssumption, WordIsPositive DEF Words
<1>4. seconds \in Nat /\ 2 * seconds < Word
  <2>1. seconds \in Nat /\ seconds * Frequency <= ticks
    BY <1>3, DivMod
  <2> HIDE DEF seconds
  <2>2. 2 * seconds <= Frequency * seconds
    BY <1>3, <2>1, ProductMonotone
  <2>3. Frequency * seconds = seconds * Frequency /\ seconds * Frequency \in Nat
    BY <1>3, <2>1
  <2> QED BY <1>3, <2>1, <2>2, <2>3
<1> HIDE DEF seconds
<1>5. /\ hours \in Nat /\ minutes \in Nat /\ s \in Nat /\ minutes < Minute /\ s < Minute
      /\ (hours * Minute + minutes) * Minute + s = seconds
      /\ hours <= seconds /\ minutes <= seconds /\ s <= seconds
  BY <1>3, <1>4, TimeParts
<1> HIDE DEF hours, minutes, s
<1>6. 2 * hours < Word /\ 2 * minutes < Word /\ 2 * s < Word
  BY <1>3, <1>4, <1>5
<1>7. /\ Decimal(hours) # <<>> /\ Value(Decimal(hours)) = hours
      /\ Decimal(minutes) # <<>> /\ Value(Decimal(minutes)) = minutes
      /\ Decimal(s) # <<>> /\ Value(Decimal(s)) = s
  BY <1>5, <1>6, SmallDecimal
<1>8. PartOfTime(1)' = hours
  <2>1. CASE hours > 0
    BY <1>2, <1>7, <2>1 DEF PartOfTime
  <2>2. CASE ~(hours > 0)
    <3>1. hours = 0
      BY <1>5, <2>2
    <3> QED BY <1>2, <2>2, <3>1 DEF PartOfTime
  <2> QED BY <2>1, <2>2
<1>9. PartOfTime(2)' = minutes
  <2>1. CASE hours > 0 \/ minutes > 0
    BY <1>2, <1>7, <2>1 DEF PartOfTime
  <2>2. CASE ~(hours > 0 \/ minutes > 0)
    <3>1. minutes = 0
      BY <1>5, <2>2
    <3> QED BY <1>2, <2>2, <3>1 DEF PartOfTime
  <2> QED BY <2>1, <2>2
<1>10. PartOfTime(3)' = s
  BY <1>2, <1>7 DEF PartOfTime
<1> QED BY <1>2, <1>5, <1>8, <1>9, <1>10 DEF TimesAddUp, seconds

(* The units, and the one that format_bytes takes.                          *)
LEMMA Units ==
  /\ \A n \in 0 .. 3 : Unit(n) \in Nat \ {0}
  /\ Unit(0) = 1
  /\ \A n \in 0 .. 2 : Unit(n + 1) = Kilo * Unit(n)
<1>1. Kilo \in Nat \ {0}
  BY TextsAssumption
<1>2. Unit(0) = 1 /\ Unit(1) = Kilo /\ Unit(2) = Kilo * Kilo /\ Unit(3) = Kilo * Kilo * Kilo
  BY DEF Unit
<1>3. \A a \in Nat \ {0} : \A b \in Nat \ {0} : a * b \in Nat \ {0} /\ a * b = b * a
  <2> SUFFICES ASSUME NEW a \in Nat \ {0}, NEW b \in Nat \ {0} PROVE a * b \in Nat \ {0} /\ a * b = b * a
    OBVIOUS
  <2>1. a \in Nat /\ 1 \in Nat /\ 1 <= a /\ b \in Nat
    OBVIOUS
  <2>2. 1 * b <= a * b
    BY <2>1, ProductMonotone
  <2> QED BY <2>1, <2>2
<1>4. Kilo * Kilo \in Nat \ {0}
  BY <1>1, <1>3
<1> DEFINE square == Kilo * Kilo
<1>5. square * Kilo \in Nat \ {0} /\ square * Kilo = Kilo * square
  <2> HIDE DEF square
  <2>1. square \in Nat \ {0}
    BY <1>4 DEF square
  <2> QED BY <1>1, <1>3, <2>1
<1>6. Unit(2) = square /\ Unit(3) = square * Kilo
  BY <1>2
<1>7. square = Kilo * Kilo /\ square \in Nat \ {0}
  BY <1>4
<1> HIDE DEF square
<1>8. \A n \in 0 .. 3 : n = 0 \/ n = 1 \/ n = 2 \/ n = 3
  OBVIOUS
<1>9. \A n \in 0 .. 3 : Unit(n) \in Nat \ {0}
  <2> SUFFICES ASSUME NEW n \in 0 .. 3 PROVE Unit(n) \in Nat \ {0}
    OBVIOUS
  <2> HIDE DEF Unit
  <2> QED BY <1>1, <1>2, <1>5, <1>6, <1>7, <1>8
<1>10. \A n \in 0 .. 2 : Unit(n + 1) = Kilo * Unit(n)
  <2> SUFFICES ASSUME NEW n \in 0 .. 2 PROVE Unit(n + 1) = Kilo * Unit(n)
    OBVIOUS
  <2>1. n = 0 \/ n = 1 \/ n = 2
    OBVIOUS
  <2>2. 0 + 1 = 1 /\ 1 + 1 = 2 /\ 2 + 1 = 3 /\ Kilo * 1 = Kilo
    BY <1>1
  <2> HIDE DEF Unit
  <2>3. Unit(1) = Kilo * Unit(0) /\ Unit(2) = Kilo * Unit(1) /\ Unit(3) = Kilo * Unit(2)
    BY <1>2, <1>5, <1>6, <1>7, <2>2
  <2> QED BY <2>1, <2>2, <2>3
<1> QED BY <1>2, <1>9, <1>10

LargestUnit(bytes) == Max({n \in 0 .. 3 : n = 0 \/ bytes >= Unit(n)})

(* The unit chosen is the largest that the size reaches.                    *)
LEMMA LargestUnitIs ==
  ASSUME NEW bytes \in Nat
  PROVE  /\ LargestUnit(bytes) \in 0 .. 3
         /\ LargestUnit(bytes) = 0 \/ bytes >= Unit(LargestUnit(bytes))
         /\ LargestUnit(bytes) < 3 => bytes < Unit(LargestUnit(bytes) + 1)
<1> DEFINE S == {n \in 0 .. 3 : n = 0 \/ bytes >= Unit(n)}
           power == LargestUnit(bytes)
<1>1. \E x \in S : \A y \in S : x >= y
  <2>1. \A y \in S : y \in 0 .. 3
    OBVIOUS
  <2>2. 0 \in S
    OBVIOUS
  <2>3. CASE 3 \in S
    BY <2>1, <2>3
  <2>4. CASE 3 \notin S /\ 2 \in S
    <3>1. \A y \in S : y <= 2
      BY <2>1, <2>4
    <3> QED BY <2>1, <2>4, <3>1
  <2>5. CASE 3 \notin S /\ 2 \notin S /\ 1 \in S
    <3>1. \A y \in S : y <= 1
      BY <2>1, <2>5
    <3> QED BY <2>1, <2>5, <3>1
  <2>6. CASE 3 \notin S /\ 2 \notin S /\ 1 \notin S
    <3>1. \A y \in S : y <= 0
      BY <2>1, <2>6
    <3> QED BY <2>1, <2>2, <3>1
  <2> QED BY <2>3, <2>4, <2>5, <2>6
<1>2. power = CHOOSE x \in S : \A y \in S : x >= y
  BY DEF LargestUnit, Max
<1>3. power \in S /\ \A y \in S : power >= y
  <2> HIDE DEF S, power
  <2> QED BY <1>1, <1>2
<1>4. power \in 0 .. 3 /\ (power = 0 \/ bytes >= Unit(power))
  <2> HIDE DEF power
  <2> QED BY <1>3
<1>5. power < 3 => bytes < Unit(power + 1)
  <2> SUFFICES ASSUME power < 3 PROVE bytes < Unit(power + 1)
    OBVIOUS
  <2> HIDE DEF power
  <2>1. power + 1 \in 0 .. 3 /\ ~(power >= power + 1)
    BY <1>4
  <2>2. power + 1 \notin S
    BY <1>3, <2>1
  <2>3. ~(bytes >= Unit(power + 1)) /\ Unit(power + 1) \in Nat
    <3> HIDE DEF Unit
    <3> QED BY <2>1, <2>2, Units
  <2> HIDE DEF Unit
  <2> QED BY <2>3
<1> QED BY <1>4, <1>5

(* A size is shown rounded down to a tenth of its unit (format_bytes).      *)
LEMMA TenthsAre ==
  ASSUME NEW bytes \in Nat, NEW unit \in Nat \ {0}
  PROVE  LET rest   == bytes % unit
             tenths == (rest * 10) \div unit
         IN  /\ bytes \div unit \in Nat /\ rest \in Nat /\ tenths \in 0 .. 9
             /\ 10 * (bytes \div unit) + tenths = (10 * bytes) \div unit
             /\ rest < unit \div 10 => tenths = 0
<1> DEFINE rest == bytes % unit
           whole == bytes \div unit
           tenths == (rest * 10) \div unit
           left == (rest * 10) % unit
           many == whole * unit
<1>1. whole \in Nat /\ rest \in Nat /\ rest < unit /\ bytes = whole * unit + rest
  BY DivMod
<1> HIDE DEF rest, whole
<1>2. /\ tenths \in Nat /\ left \in Nat /\ left < unit /\ rest * 10 = tenths * unit + left
      /\ tenths * unit <= rest * 10
  <2>1. rest * 10 \in Nat
    BY <1>1
  <2> QED BY <2>1, DivMod
<1> HIDE DEF tenths, left
<1>3. tenths < 10
  <2> SUFFICES ASSUME 10 <= tenths PROVE FALSE
    BY <1>2
  <2>1. 10 * unit <= tenths * unit
    BY <1>2, ProductMonotone
  <2> QED BY <1>1, <1>2, <2>1
<1>4. (10 * bytes) \div unit = 10 * whole + tenths
  <2> DEFINE q == 10 * whole + tenths
  <2>1. q \in Nat
    BY <1>1, <1>2
  <2>2. q * unit = 10 * many + tenths * unit
    BY <1>1, <1>2
  <2>3. 10 * bytes = q * unit + left
    <3>1. many \in Nat /\ bytes = many + rest
      BY <1>1
    <3> HIDE DEF many, q
    <3> QED BY <1>1, <1>2, <2>2, <3>1
  <2> HIDE DEF q
  <2>4. (q * unit + left) \div unit = q
    BY <1>2, <2>1, QuotientAndRest
  <2> QED BY <2>3, <2>4 DEF q
<1>5. rest < unit \div 10 => tenths = 0
  <2> SUFFICES ASSUME rest < unit \div 10 PROVE tenths = 0
    OBVIOUS
  <2>1. rest * 10 < unit
    BY <1>1
  <2>2. (0 * unit + rest * 10) \div unit = 0
    BY <1>1, <2>1, QuotientAndRest
  <2> QED BY <1>1, <2>2 DEF tenths
<1> QED BY <1>1, <1>2, <1>3, <1>4, <1>5 DEF rest, whole, tenths

(* format_bytes rounds down to a tenth of the unit.                         *)
LEMMA FormatIsTrue ==
  ASSUME NEW bytes \in Nat
  PROVE  SaysSize(FormatBytes(bytes), bytes)
<1> DEFINE power == LargestUnit(bytes)
           unit == Unit(power)
           rest == bytes % unit
           whole == bytes \div unit
           tenths == (rest * 10) \div unit
           text == IF power > 0 /\ rest >= unit \div 10 THEN Unsigned(tenths) ELSE <<>>
           format == FormatBytes(bytes)
<1>1. format.number = Unsigned(whole) /\ format.tenths = text /\ format.unit = power
  BY DEF FormatBytes, LargestUnit
<1>2. /\ power \in 0 .. 3 /\ (power = 0 \/ bytes >= unit)
      /\ power < 3 => bytes < Unit(power + 1)
  BY LargestUnitIs
<1> HIDE DEF power, format
<1>3. unit \in Nat \ {0} /\ (power = 0 => unit = 1) /\ (power < 3 => Unit(power + 1) = Kilo * unit)
  <2>1. power < 3 => power \in 0 .. 2
    BY <1>2
  <2> HIDE DEF Unit
  <2> QED BY <1>2, <2>1, Units
<1> HIDE DEF Unit
<1>4. Unit(power) = unit
  OBVIOUS
<1> HIDE DEF unit
<1>5. /\ whole \in Nat /\ rest \in Nat /\ rest < unit /\ tenths \in 0 .. 9
      /\ 10 * whole + tenths = (10 * bytes) \div unit
      /\ rest < unit \div 10 => tenths = 0
      /\ whole * unit <= bytes /\ bytes = whole * unit + rest
  BY <1>3, TenthsAre, DivMod
<1>6. power = 0 => tenths = 0
  <2> SUFFICES ASSUME power = 0 PROVE tenths = 0
    OBVIOUS
  <2>1. unit = 1 /\ rest = 0
    BY <1>3, <1>5
  <2>2. (0 * 10) \div 1 = 0
    OBVIOUS
  <2> QED BY <2>1, <2>2
<1>7. Kilo \in Nat
  BY TextsAssumption
<1>8. power < 3 => whole < Kilo
  <2> SUFFICES ASSUME power < 3 PROVE whole < Kilo
    OBVIOUS
  <2>1. bytes < Kilo * unit
    BY <1>2, <1>3
  <2> HIDE DEF whole, rest, tenths
  <2>2. whole * unit < Kilo * unit
    BY <1>3, <1>5, <1>7, <2>1
  <2> QED BY <1>3, <1>5, <1>7, <2>2, ProductReflects
<1>9. power > 0 => whole > 0
  <2> SUFFICES ASSUME power > 0, whole = 0 PROVE FALSE
    BY <1>5
  <2>1. bytes >= unit /\ 0 * unit = 0
    BY <1>2, <1>3
  <2> HIDE DEF whole, rest, tenths
  <2> QED BY <1>3, <1>5, <2>1
<1> HIDE DEF whole, tenths, rest
<1>10. Value(Unsigned(whole)) = whole /\ Unsigned(tenths) # <<>> /\ Value(Unsigned(tenths)) = tenths
  <2>1. tenths \in Nat
    BY <1>5
  <2>2. Spells(Unsigned(whole), whole) /\ Spells(Unsigned(tenths), tenths)
    BY <1>5, <2>1, UnsignedSpells
  <2> QED BY <1>5, <2>1, <2>2, SpellsFacts
<1>11. (IF text = <<>> THEN 0 ELSE Value(text)) = tenths
  <2>1. CASE power > 0 /\ rest >= unit \div 10
    BY <1>10, <2>1
  <2>2. CASE ~(power > 0 /\ rest >= unit \div 10)
    <3>1. text = <<>>
      BY <2>2
    <3>2. tenths = 0
      <4>1. power = 0 \/ rest < unit \div 10
        BY <1>2, <1>3, <1>5, <2>2
      <4> QED BY <1>5, <1>6, <4>1
    <3> QED BY <3>1, <3>2
  <2> QED BY <2>1, <2>2
<1> HIDE DEF text
<1>12. tenths < 10
  BY <1>5
<1> QED BY <1>1, <1>4, <1>5, <1>8, <1>9, <1>10, <1>11, <1>12 DEF SaysSize, format

(* alloc shows the size that was asked for.                                 *)
LEMMA allocAnswers ==
  ASSUME Fits, cmd_alloc
  PROVE  reply'.says = "allocated" =>
           SaysSize([number |-> reply'.shows[1], tenths |-> reply'.shows[2], unit |-> reply'.of[1]], SizeAsked)
<1> SUFFICES ASSUME reply'.says = "allocated"
             PROVE  SaysSize([number |-> reply'.shows[1], tenths |-> reply'.shows[2], unit |-> reply'.of[1]], SizeAsked)
  OBVIOUS
<1> DEFINE size == FormatBytes(SizeAsked)
<1>1. reply' = [says |-> "allocated", shows |-> <<size.number, size.tenths>>, of |-> <<size.unit>>]
  BY DEF cmd_alloc, Says, Shows
<1>2. SizeAsked \in Nat
  <2>1. CASE Given(1) /\ IsNumber(Argument(2))
    <3>1. pc = "run" /\ 1 \in Nat /\ 2 \in 1 .. (1 + 1)
      BY DEF cmd_alloc, Runs
    <3>2. Argument(2) \in Seq(Characters)
      BY <2>1, <3>1, GivenAre
    <3>3. Number(Argument(2)) \in Words
      BY <3>2, NumberIsWord
    <3>4. SizeAsked = Number(Argument(2))
      BY <2>1, Zenon DEF SizeAsked
    <3> QED BY <3>3, <3>4, WordIsPositive
  <2>2. CASE ~(Given(1) /\ IsNumber(Argument(2)))
    <3>1. SizeAsked = DefaultSize
      BY <2>2, Zenon DEF SizeAsked
    <3> QED BY <3>1, CommandLineAssumption, WordIsPositive
  <2> QED BY <2>1, <2>2
<1>3. SaysSize(size, SizeAsked)
  BY <1>2, FormatIsTrue
<1>4. [number |-> reply'.shows[1], tenths |-> reply'.shows[2], unit |-> reply'.of[1]]
        = [number |-> size.number, tenths |-> size.tenths, unit |-> size.unit]
  <2> HIDE DEF size
  <2> QED BY <1>1
<1>5. [number |-> size.number, tenths |-> size.tenths, unit |-> size.unit] = size
  BY DEF FormatBytes
<1> HIDE DEF size
<1> QED BY <1>3, <1>4, <1>5

(* The sums of the memory map.                                              *)
SumSteps(numbers, f) ==
  /\ SumOf(numbers) = f[Len(numbers)] /\ f[0] = 0 /\ f \in [0 .. Len(numbers) -> Nat]
  /\ \A n \in 1 .. Len(numbers) : f[n] = f[n - 1] + numbers[n]

LEMMA SumIs ==
  ASSUME NEW numbers \in Seq(Nat)
  PROVE  \E f : SumSteps(numbers, f)
<1> DEFINE N == Len(numbers)
           Body(value, n) == value + numbers[n]
           step == [n \in 1 .. N |-> [value \in Nat |-> Body(value, n)]]
           Loop(f) == f = [n \in 0 .. N |-> IF n = 0 THEN 0 ELSE Body(f[n - 1], n)]
<1>1. N \in Nat /\ 0 \in Nat
  BY LenProperties
<1>2. \A n \in 1 .. N : numbers[n] \in Nat
  BY ElementOfSeq
<1>0. N = Len(numbers)
  OBVIOUS
<1> HIDE DEF N
<1>3. ASSUME NEW value \in Nat, NEW n \in 1 .. N PROVE Body(value, n) \in Nat
  BY <1>2
<1> HIDE DEF Body
<1>4. step \in [1 .. N -> [Nat -> Nat]]
  BY <1>3
<1>5. PICK g : LoopHistory(Nat, 0, N, step, g)
  <2> HIDE DEF step
  <2> QED BY <1>1, <1>4, LoopRuns
<1>6. Loop(g)
  <2>1. g \in [0 .. N -> Nat] /\ g[0] = 0 /\ \A n \in 1 .. N : g[n] = step[n][g[n - 1]]
    BY <1>5 DEF LoopHistory
  <2>2. /\ \A n \in 0 .. N : n # 0 => n \in 1 .. N
        /\ \A n \in 1 .. N : n - 1 \in 0 .. N
    BY <1>1
  <2>3. \A n \in 1 .. N : g[n] = Body(g[n - 1], n)
    BY <2>1, <2>2
  <2> QED BY <2>1, <2>2, <2>3
<1> DEFINE f == CHOOSE h : Loop(h)
<1>7. Loop(f)
  <2> HIDE DEF Loop
  <2> QED BY <1>6
<1>8. SumOf(numbers) = f[N]
  BY <1>0 DEF SumOf, Body, N
<1> HIDE DEF f
<1>9. \A n \in 1 .. N : f[n] = Body(f[n - 1], n)
  <2>1. \A n \in 1 .. N : n # 0 /\ n \in 0 .. N
    BY <1>1
  <2> QED BY <1>7, <2>1
<1>10. LoopHistory(Nat, 0, N, step, f)
  <2>1. 0 \in 0 .. N
    BY <1>1
  <2>2. f = [n \in 0 .. N |-> f[n]] /\ f[0] = 0
    BY <1>7, <2>1
  <2>3. Follows(Nat, 0, N, step, f)
    BY <2>2, <1>9 DEF Follows
  <2> HIDE DEF step
  <2> QED BY <1>1, <1>4, <2>3, LoopIs
<1>11. f \in [0 .. N -> Nat] /\ f[0] = 0
  BY <1>10 DEF LoopHistory
<1>12. SumSteps(numbers, f)
  <2>1. \A n \in 1 .. N : f[n] = f[n - 1] + numbers[n]
    BY <1>9 DEF Body
  <2> QED BY <1>8, <1>11, <2>1, <1>0 DEF SumSteps
<1> QED BY <1>12

Entries == [type : Nat, length : Nat]
OfKind(map, kind) == [i \in DOMAIN map |-> IF KindOf(map[i]) = kind THEN map[i].length ELSE 0]
Lengths(map) == [i \in DOMAIN map |-> map[i].length]

(* The columns of a memory map: the lengths of the entries of one kind.     *)
LEMMA ColumnsAre ==
  ASSUME NEW map \in Seq(Entries)
  PROVE  /\ DOMAIN map = 1 .. Len(map) /\ Len(map) \in Nat
         /\ Lengths(map) \in Seq(Nat) /\ Len(Lengths(map)) = Len(map)
         /\ \A kind \in Kinds : OfKind(map, kind) \in Seq(Nat) /\ Len(OfKind(map, kind)) = Len(map)
         /\ \A i \in 1 .. Len(map) : map[i].type \in Nat /\ map[i].length \in Nat
         /\ \A i \in 1 .. Len(map) : Lengths(map)[i] = map[i].length
<1>1. DOMAIN map = 1 .. Len(map) /\ Len(map) \in Nat
  BY LenProperties
<1>2. \A i \in 1 .. Len(map) : map[i] \in Entries
  BY ElementOfSeq
<1>3. \A i \in 1 .. Len(map) : map[i].type \in Nat /\ map[i].length \in Nat
  BY <1>2 DEF Entries
<1>4. Lengths(map) \in [1 .. Len(map) -> Nat]
  BY <1>1, <1>3 DEF Lengths
<1>5. \A kind \in Kinds : OfKind(map, kind) \in [1 .. Len(map) -> Nat]
  <2> SUFFICES ASSUME NEW kind \in Kinds PROVE OfKind(map, kind) \in [1 .. Len(map) -> Nat]
    OBVIOUS
  <2>1. \A i \in 1 .. Len(map) : (IF KindOf(map[i]) = kind THEN map[i].length ELSE 0) \in Nat
    BY <1>3
  <2> QED BY <1>1, <2>1 DEF OfKind
<1>6. \A n \in Nat : \A s \in [1 .. n -> Nat] : s \in Seq(Nat) /\ Len(s) = n
  OBVIOUS
<1> HIDE DEF Lengths, OfKind
<1>7. Lengths(map) \in Seq(Nat) /\ Len(Lengths(map)) = Len(map)
  BY <1>1, <1>4, <1>6
<1>8. \A kind \in Kinds : OfKind(map, kind) \in Seq(Nat) /\ Len(OfKind(map, kind)) = Len(map)
  BY <1>1, <1>5, <1>6
<1> QED BY <1>1, <1>3, <1>7, <1>8, <1>4 DEF Lengths

(* Every entry is in one of the six sums, and the total is theirs.          *)
LEMMA KindsMakeUp ==
  ASSUME NEW map \in Seq(Entries)
  PROVE  SumOf(Lengths(map)) = SumOf(OfKind(map, 1)) + SumOf(OfKind(map, 2)) + SumOf(OfKind(map, 3))
                                 + SumOf(OfKind(map, 4)) + SumOf(OfKind(map, 5)) + SumOf(OfKind(map, 6))
<1> DEFINE N == Len(map)
           e(kind, i) == OfKind(map, kind)[i]
<1>1. /\ DOMAIN map = 1 .. N /\ N \in Nat
      /\ Lengths(map) \in Seq(Nat) /\ Len(Lengths(map)) = N
      /\ \A kind \in Kinds : OfKind(map, kind) \in Seq(Nat) /\ Len(OfKind(map, kind)) = N
      /\ \A i \in 1 .. N : map[i].type \in Nat /\ map[i].length \in Nat
      /\ \A i \in 1 .. N : Lengths(map)[i] = map[i].length
  BY ColumnsAre
<1>2. 1 \in Kinds /\ 2 \in Kinds /\ 3 \in Kinds /\ 4 \in Kinds /\ 5 \in Kinds /\ 6 \in Kinds
  BY DEF Kinds
<1>3. \A i \in 1 .. N : Lengths(map)[i] = e(1, i) + e(2, i) + e(3, i) + e(4, i) + e(5, i) + e(6, i)
  <2> SUFFICES ASSUME NEW i \in 1 .. N
               PROVE  Lengths(map)[i] = e(1, i) + e(2, i) + e(3, i) + e(4, i) + e(5, i) + e(6, i)
    OBVIOUS
  <2>1. \A kind \in Kinds : e(kind, i) = IF KindOf(map[i]) = kind THEN map[i].length ELSE 0
    BY <1>1 DEF OfKind
  <2>2. map[i].type \in Nat /\ map[i].length \in Nat /\ Lengths(map)[i] = map[i].length
    BY <1>1
  <2>3. KindOf(map[i]) \in {1, 2, 3, 4, 5, 6}
    BY <2>2 DEF KindOf
  <2> HIDE DEF e
  <2> QED BY <1>2, <2>1, <2>2, <2>3
<1>4. PICK g : SumSteps(Lengths(map), g)
  BY <1>1, SumIs
<1>5. \A kind \in Kinds : \E f : SumSteps(OfKind(map, kind), f)
  BY <1>1, SumIs
<1>6. PICK f1 : SumSteps(OfKind(map, 1), f1)
  BY <1>2, <1>5
<1>7. PICK f2 : SumSteps(OfKind(map, 2), f2)
  BY <1>2, <1>5
<1>8. PICK f3 : SumSteps(OfKind(map, 3), f3)
  BY <1>2, <1>5
<1>9. PICK f4 : SumSteps(OfKind(map, 4), f4)
  BY <1>2, <1>5
<1>10. PICK f5 : SumSteps(OfKind(map, 5), f5)
  BY <1>2, <1>5
<1>11. PICK f6 : SumSteps(OfKind(map, 6), f6)
  BY <1>2, <1>5
<1> DEFINE S == {n \in 0 .. N : g[n] = f1[n] + f2[n] + f3[n] + f4[n] + f5[n] + f6[n]}
           Runs6(kind, f) == /\ SumOf(OfKind(map, kind)) = f[N] /\ f[0] = 0 /\ f \in [0 .. N -> Nat]
                             /\ \A n \in 1 .. N : f[n] = f[n - 1] + e(kind, n) /\ e(kind, n) \in Nat
<1>12. Runs6(1, f1) /\ Runs6(2, f2) /\ Runs6(3, f3) /\ Runs6(4, f4) /\ Runs6(5, f5) /\ Runs6(6, f6)
  <2>1. \A kind \in Kinds : \A f : SumSteps(OfKind(map, kind), f) => Runs6(kind, f)
    <3> SUFFICES ASSUME NEW kind \in Kinds, NEW f, SumSteps(OfKind(map, kind), f) PROVE Runs6(kind, f)
      OBVIOUS
    <3>1. /\ SumOf(OfKind(map, kind)) = f[N] /\ f[0] = 0 /\ f \in [0 .. N -> Nat]
          /\ \A n \in 1 .. N : f[n] = f[n - 1] + e(kind, n)
      BY <1>1 DEF SumSteps
    <3>2. OfKind(map, kind) \in Seq(Nat) /\ Len(OfKind(map, kind)) = N
      BY <1>1
    <3>3. \A n \in 1 .. N : e(kind, n) \in Nat
      BY <3>2, ElementOfSeq
    <3> QED BY <3>1, <3>3
  <2> HIDE DEF Runs6
  <2> QED BY <1>2, <1>6, <1>7, <1>8, <1>9, <1>10, <1>11, <2>1
<1>13. /\ SumOf(Lengths(map)) = g[N] /\ g[0] = 0 /\ g \in [0 .. N -> Nat]
       /\ \A n \in 1 .. N : g[n] = g[n - 1] + Lengths(map)[n]
  BY <1>1, <1>4 DEF SumSteps
<1>14. N \in 0 .. N /\ 0 \in 0 .. N /\ \A n \in 1 .. N : n \in 0 .. N /\ n - 1 \in 0 .. N
  BY <1>1
<1> HIDE DEF N, e
<1>15. 0 \in S
  BY <1>12, <1>13, <1>14
<1>16. \A n \in 1 .. N : n - 1 \in S => n \in S
  <2> SUFFICES ASSUME NEW n \in 1 .. N, n - 1 \in S PROVE n \in S
    OBVIOUS
  <2>1. n \in 0 .. N /\ n - 1 \in 0 .. N
    BY <1>14
  <2> DEFINE m == n - 1
  <2>2. m \in 0 .. N /\ g[m] = f1[m] + f2[m] + f3[m] + f4[m] + f5[m] + f6[m]
    BY <2>1
  <2>3. /\ f1[n] = f1[m] + e(1, n) /\ f2[n] = f2[m] + e(2, n) /\ f3[n] = f3[m] + e(3, n)
        /\ f4[n] = f4[m] + e(4, n) /\ f5[n] = f5[m] + e(5, n) /\ f6[n] = f6[m] + e(6, n)
        /\ g[n] = g[m] + (e(1, n) + e(2, n) + e(3, n) + e(4, n) + e(5, n) + e(6, n))
    BY <1>3, <1>12, <1>13
  <2>4. /\ e(1, n) \in Nat /\ e(2, n) \in Nat /\ e(3, n) \in Nat
        /\ e(4, n) \in Nat /\ e(5, n) \in Nat /\ e(6, n) \in Nat
    BY <1>12
  <2> HIDE DEF m
  <2>5. /\ f1[m] \in Nat /\ f2[m] \in Nat /\ f3[m] \in Nat
        /\ f4[m] \in Nat /\ f5[m] \in Nat /\ f6[m] \in Nat
    BY <1>12, <2>2
  <2> DEFINE a1 == f1[m]  a2 == f2[m]  a3 == f3[m]  a4 == f4[m]  a5 == f5[m]  a6 == f6[m]
             b1 == e(1, n)  b2 == e(2, n)  b3 == e(3, n)  b4 == e(4, n)  b5 == e(5, n)  b6 == e(6, n)
  <2>6. /\ a1 \in Nat /\ a2 \in Nat /\ a3 \in Nat /\ a4 \in Nat /\ a5 \in Nat /\ a6 \in Nat
        /\ b1 \in Nat /\ b2 \in Nat /\ b3 \in Nat /\ b4 \in Nat /\ b5 \in Nat /\ b6 \in Nat
        /\ f1[n] = a1 + b1 /\ f2[n] = a2 + b2 /\ f3[n] = a3 + b3
        /\ f4[n] = a4 + b4 /\ f5[n] = a5 + b5 /\ f6[n] = a6 + b6
        /\ g[n] = (a1 + a2 + a3 + a4 + a5 + a6) + (b1 + b2 + b3 + b4 + b5 + b6)
    BY <2>2, <2>3, <2>4, <2>5
  <2> HIDE DEF a1, a2, a3, a4, a5, a6, b1, b2, b3, b4, b5, b6
  <2>7. (a1 + a2 + a3 + a4 + a5 + a6) + (b1 + b2 + b3 + b4 + b5 + b6)
          = (a1 + b1) + (a2 + b2) + (a3 + b3) + (a4 + b4) + (a5 + b5) + (a6 + b6)
    BY <2>6
  <2>8. g[n] = f1[n] + f2[n] + f3[n] + f4[n] + f5[n] + f6[n]
    BY <2>6, <2>7
  <2> QED BY <2>1, <2>8
<1>17. \A n \in 0 .. N : n \in S
  <2> HIDE DEF S
  <2>1. N \in Nat
    BY <1>1 DEF N
  <2> QED BY <1>15, <1>16, <2>1, LoopKeeps
<1>18. g[N] = f1[N] + f2[N] + f3[N] + f4[N] + f5[N] + f6[N]
  BY <1>14, <1>17
<1> QED BY <1>12, <1>13, <1>18

(* The total over the six kinds.                                            *)
LEMMA TotalOfSix ==
  ASSUME NEW totals \in [Kinds -> Nat]
  PROVE  SumOf(totals) = totals[1] + totals[2] + totals[3] + totals[4] + totals[5] + totals[6]
<1>1. totals \in Seq(Nat) /\ Len(totals) = 6
  <2>1. totals \in [1 .. 6 -> Nat] /\ 6 \in Nat
    BY DEF Kinds
  <2>2. \A n \in Nat : \A s \in [1 .. n -> Nat] : s \in Seq(Nat) /\ Len(s) = n
    OBVIOUS
  <2> QED BY <2>1, <2>2
<1>2. PICK f : SumSteps(totals, f)
  BY <1>1, SumIs
<1>3. /\ SumOf(totals) = f[6] /\ f[0] = 0
      /\ \A n \in 1 .. 6 : f[n] = f[n - 1] + totals[n]
  BY <1>1, <1>2 DEF SumSteps
<1>4. f[1] = f[0] + totals[1] /\ f[2] = f[1] + totals[2] /\ f[3] = f[2] + totals[3]
  BY <1>3
<1>5. f[4] = f[3] + totals[4] /\ f[5] = f[4] + totals[5] /\ f[6] = f[5] + totals[6]
  BY <1>3
<1>6. totals[1] \in Nat
  BY DEF Kinds
<1>7. 0 + totals[1] = totals[1]
  BY <1>6
<1> QED BY <1>3, <1>4, <1>5, <1>7

(* meminfo answers with the sums of the memory map.                         *)
LEMMA meminfoAnswers ==
  ASSUME cmd_meminfo
  PROVE  MapAddsUp'
<1>1. PICK map \in MemoryMaps :
        reply' = [says |-> "meminfo", shows |-> <<>>,
                  of |-> <<map, FormatBytes(SumOf(MemoryTotals(map))),
                           [kind \in Kinds |-> FormatBytes(MemoryTotals(map)[kind])]>>]
  BY DEF cmd_meminfo
<1> DEFINE totals == MemoryTotals(map)
<1>2. map \in Seq(Entries)
  BY CommandLineAssumption DEF Entries
<1>3. \A kind \in Kinds : totals[kind] = SumOf(OfKind(map, kind)) /\ totals[kind] \in Nat
  <2> SUFFICES ASSUME NEW kind \in Kinds
               PROVE  totals[kind] = SumOf(OfKind(map, kind)) /\ totals[kind] \in Nat
    OBVIOUS
  <2>1. totals[kind] = SumOf(OfKind(map, kind))
    BY DEF MemoryTotals, OfKind
  <2>2. OfKind(map, kind) \in Seq(Nat)
    BY <1>2, ColumnsAre
  <2>3. PICK f : SumSteps(OfKind(map, kind), f)
    BY <2>2, SumIs
  <2>4. SumOf(OfKind(map, kind)) \in Nat
    BY <2>2, <2>3, LenProperties DEF SumSteps
  <2> QED BY <2>1, <2>4
<1>4. totals \in [Kinds -> Nat]
  <2>1. totals = [kind \in Kinds |-> totals[kind]]
    BY DEF MemoryTotals
  <2> HIDE DEF totals
  <2> QED BY <1>3, <2>1
<1>5. /\ reply'.of[1] = map /\ reply'.of[2] = FormatBytes(SumOf(totals))
      /\ \A kind \in Kinds : reply'.of[3][kind] = FormatBytes(totals[kind])
  BY <1>1
<1> HIDE DEF totals
<1>6. SumOf(totals) = SumOf(Lengths(map))
  <2>1. 1 \in Kinds /\ 2 \in Kinds /\ 3 \in Kinds /\ 4 \in Kinds /\ 5 \in Kinds /\ 6 \in Kinds
    BY DEF Kinds
  <2>2. SumOf(totals) = totals[1] + totals[2] + totals[3] + totals[4] + totals[5] + totals[6]
    BY <1>4, TotalOfSix
  <2> QED BY <1>2, <1>3, <2>1, <2>2, KindsMakeUp
<1>7. SumOf(totals) \in Nat
  <2>1. Lengths(map) \in Seq(Nat)
    BY <1>2, ColumnsAre
  <2>2. PICK f : SumSteps(Lengths(map), f)
    BY <2>1, SumIs
  <2> QED BY <1>6, <2>1, <2>2, LenProperties DEF SumSteps
<1>8. LengthOf(map, Nat) = SumOf(Lengths(map))
  <2>1. [i \in DOMAIN map |-> IF map[i].type \in Nat THEN map[i].length ELSE 0] = Lengths(map)
    BY <1>2, ColumnsAre DEF Lengths
  <2> QED BY <2>1 DEF LengthOf
<1>9. ASSUME NEW kind \in 1 .. 5
      PROVE  LengthOf(map, {kind}) = totals[kind] /\ kind \in Kinds
  <2>1. kind \in Kinds
    BY DEF Kinds
  <2>2. \A i \in DOMAIN map : map[i].type \in {kind} <=> KindOf(map[i]) = kind
    BY <1>2, ColumnsAre DEF KindOf
  <2>3. [i \in DOMAIN map |-> IF map[i].type \in {kind} THEN map[i].length ELSE 0] = OfKind(map, kind)
    BY <2>2 DEF OfKind
  <2> QED BY <1>3, <2>1, <2>3 DEF LengthOf
<1>10. SaysSize(reply'.of[2], LengthOf(reply'.of[1], Nat))
  BY <1>5, <1>6, <1>7, <1>8, FormatIsTrue
<1>11. \A kind \in 1 .. 5 : SaysSize(reply'.of[3][kind], LengthOf(reply'.of[1], {kind}))
  BY <1>3, <1>5, <1>9, FormatIsTrue
<1> QED BY <1>10, <1>11 DEF MapAddsUp

(* parse_hex32 shifts one digit in behind the others, and drops the first.  *)
LEMMA PowersMultiply ==
  ASSUME NEW m \in Nat, NEW n \in Nat
  PROVE  SixteenTo(m + n) = SixteenTo(n) * SixteenTo(m)
<1> DEFINE S == {k \in Nat : SixteenTo(m + k) = SixteenTo(k) * SixteenTo(m)}
<1>1. SixteenTo(0) = 1 /\ \A k \in Nat : SixteenTo(k) \in Nat \ {0} /\ SixteenTo(k + 1) = 16 * SixteenTo(k)
  BY PowersOfSixteen
<1> HIDE DEF SixteenTo
<1>2. 0 \in S
  BY <1>1
<1>3. ASSUME NEW k \in Nat, k \in S PROVE k + 1 \in S
  <2>1. m + k \in Nat /\ m + (k + 1) = (m + k) + 1 /\ k + 1 \in Nat
    OBVIOUS
  <2>2. SixteenTo(m + (k + 1)) = 16 * (SixteenTo(k) * SixteenTo(m))
    BY <1>1, <1>3, <2>1
  <2>3. 16 * (SixteenTo(k) * SixteenTo(m)) = (16 * SixteenTo(k)) * SixteenTo(m)
    BY <1>1
  <2> QED BY <1>1, <2>1, <2>2, <2>3
<1>4. \A k \in Nat : k \in S
  <2> HIDE DEF S
  <2> QED BY <1>2, <1>3, Induction
<1> QED BY <1>4

Shift(v, d, Q) == (16 * v + d) % (16 * Q)

(* A digit shifted into a word is its lowest one, and the others move up.   *)
LEMMA Shifted ==
  ASSUME NEW v \in Nat, NEW d \in 0 .. 15, NEW Q \in Nat \ {0}
  PROVE  /\ Shift(v, d, Q) = 16 * (v % Q) + d
         /\ (Shift(v, d, Q)) % 16 = d
<1> DEFINE a == v \div Q
           b == v % Q
           wide == 16 * Q
           high == a * Q
<1>1. a \in Nat /\ b \in Nat /\ b < Q /\ v = a * Q + b
  BY DivMod
<1> HIDE DEF a, b
<1>2. wide \in Nat \ {0} /\ 16 * b + d \in Nat /\ 16 * b + d < wide
  BY <1>1
<1>3. 16 * v + d = a * wide + (16 * b + d)
  <2>1. a * wide = 16 * high /\ high \in Nat /\ v = high + b
    BY <1>1
  <2> HIDE DEF high, wide
  <2> QED BY <1>1, <2>1
<1>4. (a * wide + (16 * b + d)) % wide = 16 * b + d
  <2> HIDE DEF wide
  <2> QED BY ZenonT(60), <1>1, <1>2, QuotientAndRest
<1>5. (b * 16 + d) % 16 = d
  BY <1>1, QuotientAndRest
<1>6. 16 * b = b * 16
  BY <1>1
<1>7. Shift(v, d, Q) = 16 * b + d
  BY <1>3, <1>4 DEF Shift
<1> QED BY <1>5, <1>6, <1>7 DEF b

DigitOver(v, R) == (v \div R) % 16
Above(Q, R) == \E M \in Nat : Q = (16 * M) * R

(* The digit above a place is the one that was at that place.               *)
LEMMA HigherDigit ==
  ASSUME NEW v \in Nat, NEW d \in 0 .. 15, NEW R \in Nat \ {0}, NEW Q \in Nat \ {0}, Above(Q, R)
  PROVE  DigitOver(Shift(v, d, Q), 16 * R) = DigitOver(v, R)
<1>1. v \div Q \in Nat /\ (v % Q) \in Nat /\ v = (v \div Q) * Q + (v % Q)
  BY DivMod
<1>2. /\ Shift(v, d, Q) = 16 * (v % Q) + d
      /\ v \div Q \in Nat /\ (v % Q) \in Nat /\ v = (v \div Q) * Q + (v % Q)
  BY <1>1, Shifted, Zenon
<1>3. PICK M \in Nat : Q = (16 * M) * R
  BY DEF Above
<1> DEFINE a == v \div Q
           b == v % Q
           e == b \div R
           f == b % R
           g == e \div 16
           h == e % 16
           wide == 16 * R
           many == 16 * M
           low == e * R
<1>4. /\ Shift(v, d, Q) = 16 * b + d
      /\ a \in Nat /\ b \in Nat /\ v = a * Q + b
  BY <1>2, Zenon
<1> HIDE DEF a, b
<1>5. e \in Nat /\ f \in Nat /\ f < R /\ b = e * R + f
  BY <1>4, DivMod
<1> HIDE DEF e, f
<1>6. g \in Nat /\ h \in Nat /\ h < 16 /\ e = g * 16 + h
  BY <1>5, DivMod
<1> HIDE DEF g, h
<1>7. (16 * b + d) \div wide = e
  <2>1. e * wide = 16 * low /\ low \in Nat /\ b = low + f
    BY <1>5
  <2>2. wide \in Nat \ {0} /\ 16 * f + d \in Nat /\ 16 * f + d < wide
    BY <1>5
  <2>3. 16 * b + d = e * wide + (16 * f + d)
    <3> HIDE DEF low, wide
    <3> QED BY <1>5, <2>1
  <2> HIDE DEF wide
  <2>4. (e * wide + (16 * f + d)) \div wide = e
    BY <1>5, <2>2, QuotientAndRest
  <2> QED BY <2>3, <2>4
<1>8. v \div R = a * many + e
  <2> DEFINE q == a * many + e
             top == a * many
  <2>1. many \in Nat /\ q \in Nat /\ top \in Nat
    BY <1>4, <1>5
  <2>2. a * Q = top * R
    <3> HIDE DEF many
    <3>1. Q = many * R
      BY <1>3, Zenon DEF many
    <3> QED BY <1>4, <2>1, <3>1
  <2>3. q * R = top * R + e * R
    <3>1. q = top + e
      OBVIOUS
    <3> HIDE DEF q, top
    <3> QED BY <1>5, <2>1, <3>1
  <2>4. v = q * R + f
    <3> HIDE DEF q, top, many
    <3>1. top * R \in Nat /\ e * R \in Nat
      BY <1>5, <2>1
    <3> QED BY <1>4, <1>5, <2>2, <2>3, <3>1
  <2> HIDE DEF q
  <2>5. (q * R + f) \div R = q
    BY <1>5, <2>1, QuotientAndRest
  <2> QED BY <2>4, <2>5 DEF q
<1>9. (a * many + e) % 16 = e % 16
  <2> DEFINE c == a * M
  <2>1. a * many = 16 * c /\ c \in Nat
    BY <1>4
  <2> HIDE DEF c, many
  <2>2. a * many + e = (c + g) * 16 + h /\ c + g \in Nat
    BY <1>4, <1>5, <1>6, <2>1
  <2>3. ((c + g) * 16 + h) % 16 = h /\ (g * 16 + h) % 16 = h
    BY <1>6, <2>2, QuotientAndRest
  <2> QED BY <1>6, <2>2, <2>3
<1> QED BY <1>4, <1>7, <1>8, <1>9 DEF DigitOver

DigitOf(char) == IF char <= 57 THEN char - 48 ELSE IF char <= 69 THEN char - 55 ELSE char - 87

(* parse_hex32 takes every digit but F for what it is.                      *)
LEMMA DigitIsRead ==
  ASSUME NEW char \in Digits \cup (65 .. 69) \cup (97 .. 102)
  PROVE  /\ HexDigitsOf(char) = {DigitOf(char)} /\ DigitOf(char) \in 0 .. 15
         /\ Capital(char) = IF DigitOf(char) < 10 THEN 48 + DigitOf(char) ELSE 55 + DigitOf(char)
<1>1. CASE char \in 48 .. 57
  BY <1>1 DEF HexDigitsOf, DigitOf, Capital
<1>2. CASE char \in 65 .. 69
  <2>1. char \notin 48 .. 57 /\ char \notin 97 .. 102
    BY <1>2
  <2> QED BY <1>2, <2>1 DEF HexDigitsOf, DigitOf, Capital
<1>3. CASE char \in 97 .. 102
  <2>1. char \notin 48 .. 57 /\ char \notin 65 .. 69
    BY <1>3
  <2> QED BY <1>3, <2>1 DEF HexDigitsOf, DigitOf, Capital
<1> QED BY <1>1, <1>2, <1>3 DEF Digits

(* What has been read of an address is its last digits.                     *)
DigitAt(text, i) == IF i > 2 THEN DigitOf(text[i]) ELSE 0
ReadAs(text, i, v) ==
  v \in Words /\ \A j \in 0 .. (HexDigits - 1) : ((v \div SixteenTo(j)) % 16) = DigitAt(text, i - j)

LEMMA NothingRead ==
  ASSUME NEW text
  PROVE  ReadAs(text, 2, 0)
<1>1. HexDigits \in Nat \ {0} /\ 0 \in Words
  BY TextsAssumption, WordIsPositive DEF Words
<1>2. \A n \in Nat : SixteenTo(n) \in Nat \ {0}
  BY PowersOfSixteen
<1> SUFFICES ASSUME NEW j \in 0 .. (HexDigits - 1)
             PROVE  ((0 \div SixteenTo(j)) % 16) = DigitAt(text, 2 - j)
  BY <1>1 DEF ReadAs
<1> DEFINE P == SixteenTo(j)
<1>3. P \in Nat \ {0} /\ j \in Nat /\ ~(2 - j > 2)
  BY <1>1, <1>2
<1>4. DigitAt(text, 2 - j) = 0
  BY <1>3 DEF DigitAt
<1> HIDE DEF P
<1>5. (0 * P + 0) \div P = 0
  BY <1>3, QuotientAndRest
<1>6. 0 \div P = 0
  BY <1>3, <1>5
<1> QED BY <1>4, <1>6 DEF P

(* One more digit read of an address.                                       *)
LEMMA OneMoreDigit ==
  ASSUME NEW text, NEW i \in Nat, i > 2, NEW v, ReadAs(text, i - 1, v), DigitOf(text[i]) \in 0 .. 15
  PROVE  ReadAs(text, i, (16 * v + DigitOf(text[i])) % Word)
<1> DEFINE d == DigitOf(text[i])
           m == HexDigits - 1
           Q == SixteenTo(m)
           after == Shift(v, d, Q)
<1>1. v \in Nat /\ d \in 0 .. 15 /\ HexDigits \in Nat /\ m \in Nat /\ m + 1 = HexDigits
  BY TextsAssumption, WordIsPositive DEF ReadAs
<1>2. \A n \in Nat : SixteenTo(n) \in Nat \ {0} /\ SixteenTo(n + 1) = 16 * SixteenTo(n)
  BY PowersOfSixteen
<1>3. Q \in Nat \ {0} /\ Word = 16 * Q
  BY <1>1, <1>2 DEF Word
<1>4. after = (16 * v + d) % Word
  BY <1>3 DEF Shift
<1>5. 16 * v + d \in Nat
  BY <1>1
<1>6. after \in Words
  <2> HIDE DEF after, Q, d, Word
  <2> QED BY <1>4, <1>5, WordIsPositive
<1>7. ASSUME NEW j \in 0 .. m PROVE ((after \div SixteenTo(j)) % 16) = DigitAt(text, i - j)
  <2>1. CASE j = 0
    <3>1. SixteenTo(j) = 1
      BY <2>1, PowersOfSixteen
    <3>2. (after % 16) = d
      <4> HIDE DEF Q, d
      <4> QED BY <1>1, <1>3, Shifted
    <3>3. after \div 1 = after
      <4> HIDE DEF after
      <4>1. after \in Nat
        BY <1>6, WordIsPositive
      <4> QED BY <4>1
    <3>4. i - j = i
      BY <2>1
    <3>5. DigitAt(text, i) = d
      BY DEF DigitAt
    <3> HIDE DEF after, d
    <3> QED BY <3>1, <3>2, <3>3, <3>4, <3>5
  <2>2. CASE j # 0
    <3> DEFINE k == j - 1
               R == SixteenTo(k)
               M == SixteenTo(m - j)
    <3>1. /\ k \in Nat /\ m - j \in Nat /\ j = k + 1 /\ m = k + (m - k) /\ m - k = (m - j) + 1 /\ m - k \in Nat
          /\ k \in 0 .. (HexDigits - 1) /\ (i - 1) - k = i - j
      BY <1>1, <2>2
    <3>2. R \in Nat \ {0} /\ M \in Nat \ {0} /\ SixteenTo(j) = 16 * R
      BY <1>2, <3>1
    <3>3. Q = (16 * M) * R
      <4>1. SixteenTo(k + (m - k)) = SixteenTo(m - k) * SixteenTo(k)
        BY <3>1, PowersMultiply
      <4>2. SixteenTo(m - k) = 16 * M
        BY <1>2, <3>1
      <4> QED BY <3>1, <4>1, <4>2
    <3>4. ((v \div R) % 16) = DigitAt(text, (i - 1) - k)
      BY <3>1 DEF ReadAs
    <3>5. ((after \div (16 * R)) % 16) = (v \div R) % 16
      <4>1. Above(Q, R)
        BY <3>2, <3>3 DEF Above
      <4> HIDE DEF R, Q, d
      <4>2. DigitOver(Shift(v, d, Q), 16 * R) = DigitOver(v, R)
        BY SMTT(30), <1>1, <1>3, <3>2, <4>1, HigherDigit
      <4> QED BY <4>2 DEF DigitOver
    <3> HIDE DEF R, after
    <3> QED BY <3>1, <3>2, <3>4, <3>5
  <2> QED BY <2>1, <2>2
<1>8. ReadAs(text, i, after)
  <2> HIDE DEF after
  <2> QED BY <1>6, <1>7 DEF ReadAs
<1> QED BY <1>4, <1>8

Follow(text, i, value) == (16 * value + DigitOf(text[i])) % Word
ReadTo(text, i, values) == \E v : values = {v} /\ ReadAs(text, i, v)

(* The characters of an address that is read as it is written.              *)
LEMMA WrittenDigits ==
  ASSUME NEW text \in Seq(Nat), ReadsAsWritten(text)
  PROVE  /\ Len(text) \in Nat /\ Len(text) > 2
         /\ \A i \in 3 .. Len(text) :
              /\ HexDigitsOf(text[i]) = {DigitOf(text[i])} /\ DigitOf(text[i]) \in 0 .. 15
              /\ Capital(text[i]) = IF DigitOf(text[i]) < 10 THEN 48 + DigitOf(text[i]) ELSE 55 + DigitOf(text[i])
<1>1. Len(text) \in Nat /\ Len(text) > 2
  BY LenProperties DEF ReadsAsWritten, HasHexPrefix
<1>2. \A i \in 3 .. Len(text) : text[i] \in Digits \cup (65 .. 69) \cup (97 .. 102)
  BY DEF ReadsAsWritten
<1> QED BY <1>1, <1>2, DigitIsRead

(* parse_hex32 reads one value from such an address, with its digits.       *)
LEMMA HexIsRead ==
  ASSUME NEW text \in Seq(Nat), ReadsAsWritten(text)
  PROVE  ReadTo(text, Len(text), HexValues(text))
<1> DEFINE L == Len(text)
           N == L - 2
           X == SUBSET Words
           Body(values, i) ==
             IF HexDigitsOf(text[i]) = {} THEN Words
             ELSE {(16 * value + digit) % Word : value \in values, digit \in HexDigitsOf(text[i])}
           step == [n \in 1 .. N |-> [values \in X |-> Body(values, n + 2)]]
           Loop(g) == g = [i \in 2 .. L |-> IF i = 2 THEN {0} ELSE Body(g[i - 1], i)]
<1>1. /\ L \in Nat /\ N \in Nat /\ L > 2 /\ N + 2 = L
      /\ \A n \in 1 .. N : n + 2 \in 3 .. L /\ (n + 2) - 1 = (n - 1) + 2 /\ n - 1 \in 0 .. N /\ n \in 0 .. N
      /\ \A n \in 0 .. N : n + 2 \in 2 .. L /\ (n + 2) - 2 = n
      /\ \A i \in 2 .. L : i - 2 \in 0 .. N /\ (i - 2) + 2 = i
      /\ \A i \in 2 .. L : i # 2 => i - 2 \in 1 .. N /\ i - 1 \in 2 .. L /\ (i - 1) - 2 = (i - 2) - 1
      /\ 2 \in 2 .. L /\ 2 - 2 = 0 /\ 0 \in 0 .. N /\ N \in 0 .. N /\ 0 + 2 = 2
  BY WrittenDigits
<1>2. \A i \in 3 .. L : DigitOf(text[i]) \in 0 .. 15
  BY WrittenDigits
<1> HIDE DEF N
<1>3. ASSUME NEW i \in 3 .. L, NEW values
      PROVE  Body(values, i) = {Follow(text, i, value) : value \in values}
  <2> DEFINE D == DigitOf(text[i])
  <2>1. HexDigitsOf(text[i]) = {D}
    BY WrittenDigits
  <2> HIDE DEF D
  <2>2. Body(values, i) = {(16 * value + digit) % Word : value \in values, digit \in {D}}
    BY <2>1
  <2> HIDE DEF Body
  <2>3. \A x : x \in Body(values, i) <=> \E value \in values : x = (16 * value + D) % Word
    BY <2>2
  <2>4. \A value : Follow(text, i, value) = (16 * value + D) % Word
    BY DEF Follow, D
  <2>5. \A x : x \in Body(values, i) <=> \E value \in values : x = Follow(text, i, value)
    BY <2>3, <2>4
  <2> QED BY <2>5
<1> HIDE DEF L, Body
<1>4. ASSUME NEW i \in 3 .. L, NEW value \in Words PROVE Follow(text, i, value) \in Words
  <2> DEFINE D == DigitOf(text[i])
  <2>1. D \in 0 .. 15 /\ value \in Nat
    BY <1>2, WordIsPositive
  <2> HIDE DEF D
  <2>2. 16 * value + D \in Nat
    BY <2>1
  <2>3. Follow(text, i, value) = (16 * value + D) % Word
    BY DEF Follow, D
  <2> QED BY <2>2, <2>3, WordIsPositive
<1>5. \A n \in 1 .. N : \A values \in X : Body(values, n + 2) \in X
  <2> SUFFICES ASSUME NEW n \in 1 .. N, NEW values \in X PROVE Body(values, n + 2) \in X
    OBVIOUS
  <2>1. n + 2 \in 3 .. L
    BY <1>1
  <2> QED BY <1>3, <1>4, <2>1
<1>6. {0} \in X
  BY WordIsPositive DEF Words
<1> HIDE DEF X
<1>7. step \in [1 .. N -> [X -> X]]
  BY <1>5
<1>8. PICK g : LoopHistory(X, {0}, N, step, g)
  <2> HIDE DEF step
  <2> QED BY <1>1, <1>6, <1>7, LoopRuns
<1> DEFINE h == [i \in 2 .. L |-> g[i - 2]]
<1>9. Loop(h)
  <2>1. g \in [0 .. N -> X] /\ g[0] = {0} /\ \A n \in 1 .. N : g[n] = step[n][g[n - 1]]
    BY <1>8 DEF LoopHistory
  <2>2. \A n \in 1 .. N : g[n] = Body(g[n - 1], n + 2)
    BY <1>1, <2>1
  <2>3. ASSUME NEW i \in 2 .. L PROVE h[i] = IF i = 2 THEN {0} ELSE Body(h[i - 1], i)
    <3>1. CASE i = 2
      BY <1>1, <2>1, <3>1
    <3>2. CASE i # 2
      <4>1. i - 2 \in 1 .. N /\ i - 1 \in 2 .. L /\ (i - 1) - 2 = (i - 2) - 1 /\ (i - 2) + 2 = i
        BY <1>1, <3>2
      <4>2. h[i] = g[i - 2] /\ h[i - 1] = g[(i - 2) - 1]
        BY <4>1
      <4>3. g[i - 2] = Body(g[(i - 2) - 1], (i - 2) + 2)
        BY <2>2, <4>1
      <4> QED BY <3>2, <4>1, <4>2, <4>3
    <3> QED BY <3>1, <3>2
  <2> HIDE DEF h
  <2>4. h = [i \in 2 .. L |-> h[i]]
    BY DEF h
  <2> QED BY <2>3, <2>4
<1> DEFINE f == CHOOSE e : Loop(e)
<1>10. Loop(f)
  <2> HIDE DEF Loop, h
  <2> QED BY <1>9
<1>11. HexValues(text) = f[L]
  BY DEF HexValues, Body, L
<1> HIDE DEF f
<1>12. f[2] = {0} /\ \A i \in 3 .. L : f[i] = Body(f[i - 1], i)
  <2> DEFINE To(i) == IF i = 2 THEN {0} ELSE Body(f[i - 1], i)
  <2>1. f = [i \in 2 .. L |-> To(i)]
    BY <1>10
  <2> HIDE DEF To
  <2>2. \A i \in 2 .. L : f[i] = To(i)
    BY <2>1
  <2>3. \A i \in 3 .. L : i \in 2 .. L /\ i # 2
    OBVIOUS
  <2> QED BY <1>1, <2>2, <2>3 DEF To
<1> DEFINE S == {n \in 0 .. N : ReadTo(text, n + 2, f[n + 2])}
<1>13. 0 \in S
  <2>1. ReadTo(text, 2, f[2])
    BY <1>12, NothingRead DEF ReadTo
  <2> QED BY <1>1, <2>1
<1>14. ASSUME NEW n \in 1 .. N, n - 1 \in S PROVE n \in S
  <2> DEFINE i == n + 2
  <2>1. i \in 3 .. L /\ i - 1 = (n - 1) + 2 /\ n \in 0 .. N /\ i \in Nat /\ i > 2
    BY <1>1
  <2>2. ReadTo(text, i - 1, f[i - 1])
    BY <1>14, <2>1
  <2> HIDE DEF i
  <2>3. PICK v : f[i - 1] = {v} /\ ReadAs(text, i - 1, v)
    BY <2>2 DEF ReadTo
  <2>4. f[i] = {Follow(text, i, v)}
    <3>1. f[i] = {Follow(text, i, value) : value \in {v}}
      BY <1>3, <1>12, <2>1, <2>3
    <3> QED BY <3>1
  <2>5. ReadAs(text, i, Follow(text, i, v))
    BY <1>2, <2>1, <2>3, OneMoreDigit DEF Follow
  <2>6. ReadTo(text, i, f[i])
    BY <2>4, <2>5 DEF ReadTo
  <2> QED BY <2>1, <2>6 DEF i
<1>15. N \in S
  <2> HIDE DEF S
  <2>1. \A n \in 0 .. N : n \in S
    BY <1>1, <1>13, <1>14, LoopKeeps
  <2> QED BY <1>1, <2>1
<1> QED BY <1>1, <1>11, <1>15 DEF L

(* pageinfo writes the last digits of the address that was typed.           *)
LEMMA pageinfoAnswers ==
  ASSUME Fits, cmd_pageinfo
  PROVE  reply'.says = "virtual" /\ ReadsAsWritten(Argument(2)) => reply'.shows[1] = LastDigits(Argument(2))
<1> SUFFICES ASSUME reply'.says = "virtual", ReadsAsWritten(Argument(2))
             PROVE  reply'.shows[1] = LastDigits(Argument(2))
  OBVIOUS
<1> DEFINE text == Argument(2)
           L == Len(text)
<1>1. Given(1) /\ \E virt \in HexValues(text) : reply'.shows[1] = Hex(virt)
  <2>1. \/ Says("usage")
        \/ Says("invalid_address")
        \/ Given(1) /\ \E virt \in HexValues(text) : Shows("virtual", <<Hex(virt)>>)
    BY Zenon DEF cmd_pageinfo
  <2>2. ~Says("usage") /\ ~Says("invalid_address")
    BY DEF Says, Shows
  <2>3. \A virt : Shows("virtual", <<Hex(virt)>>) => reply'.shows[1] = Hex(virt)
    BY DEF Shows
  <2> QED BY <2>1, <2>2, <2>3
<1>2. pc = "run" /\ 1 \in Nat /\ 2 \in 1 .. (1 + 1)
  <2>1. pc = "run"
    BY Zenon DEF cmd_pageinfo, Runs
  <2> QED BY <2>1
<1>3. text \in Seq(Nat)
  <2>1. text \in Seq(Characters) /\ Characters \subseteq Nat
    BY <1>1, <1>2, GivenAre, CharactersAreText
  <2> HIDE DEF text
  <2> QED BY <2>1, SeqMonotonic
<1>4. ReadsAsWritten(text)
  OBVIOUS
<1> HIDE DEF text
<1>5. ReadTo(text, L, HexValues(text))
  BY <1>3, <1>4, HexIsRead
<1>6. PICK v : HexValues(text) = {v} /\ ReadAs(text, L, v)
  BY <1>5 DEF ReadTo
<1>7. reply'.shows[1] = Hex(v)
  BY <1>1, <1>6
<1>8. HexDigits \in Nat /\ L \in Nat
  BY <1>3, TextsAssumption, LenProperties
<1>9. ASSUME NEW i \in 1 .. HexDigits PROVE Hex(v)[i] = LastDigits(text)[i]
  <2> DEFINE j == HexDigits - i
             from == L - HexDigits + i
             digit == (v \div SixteenTo(j)) % 16
  <2>1. j \in 0 .. (HexDigits - 1) /\ L - j = from /\ from \in Int /\ from <= L
    BY <1>8
  <2>2. digit = DigitAt(text, from)
    BY <1>6, <2>1 DEF ReadAs
  <2>3. Hex(v)[i] = IF digit < 10 THEN 48 + digit ELSE 55 + digit
    BY DEF Hex
  <2>4. LastDigits(text)[i] = IF from > 2 THEN Capital(text[from]) ELSE 48
    BY DEF LastDigits
  <2>5. CASE from > 2
    <3>1. from \in 3 .. L
      BY <2>1, <2>5
    <3>2. Capital(text[from]) = IF DigitOf(text[from]) < 10 THEN 48 + DigitOf(text[from]) ELSE 55 + DigitOf(text[from])
      BY <1>3, <1>4, <3>1, WrittenDigits
    <3>3. digit = DigitOf(text[from])
      BY <2>2, <2>5 DEF DigitAt
    <3> HIDE DEF digit, from
    <3> QED BY <2>3, <2>4, <2>5, <3>2, <3>3
  <2>6. CASE ~(from > 2)
    <3>1. digit = 0
      BY <2>2, <2>6 DEF DigitAt
    <3> HIDE DEF digit, from
    <3> QED BY <2>3, <2>4, <2>6, <3>1
  <2> QED BY <2>5, <2>6
<1>10. Hex(v) = LastDigits(text)
  <2>1. Hex(v) = [i \in 1 .. HexDigits |-> Hex(v)[i]]
    BY DEF Hex
  <2>2. LastDigits(text) = [i \in 1 .. HexDigits |-> LastDigits(text)[i]]
    BY DEF LastDigits
  <2> HIDE DEF Hex, LastDigits
  <2> QED BY <1>9, <2>1, <2>2
<1> QED BY <1>7, <1>10 DEF text

-----------------------------------------------------------------------------
(* Every answer.                                                            *)

Answers == {"help", "strcmp", "strncmp", "virtual", "allocated", "runtime", "meminfo"}
Refusals == {"expected_first_number", "number_too_long", "expected_operator", "invalid_number",
             "invalid_first_number", "operator_must_be_one_character", "invalid_second_number"}

(* The errors of calc.                                                      *)
LEMMA calcRefuses ==
  /\ \A text : OneArgument(text).error \in Refusals \cup {""}
  /\ \A left, op, right : ThreeArguments(left, op, right).error \in Refusals \cup {""}
<1>1. \A message \in Refusals : Refuses(message).error \in Refusals \cup {""}
  BY DEF Refuses
<1>2. \A left, op, right : Operation(left, op, right).error \in Refusals \cup {""}
  BY DEF Operation
<1>3. ASSUME NEW text PROVE OneArgument(text).error \in Refusals \cup {""}
  <2>1. \/ \E message \in Refusals : OneArgument(text) = Refuses(message)
        \/ \E left, op, right : OneArgument(text) = Operation(left, op, right)
    BY Zenon DEF OneArgument, Refusals
  <2> QED BY <1>1, <1>2, <2>1
<1>4. ASSUME NEW left, NEW op, NEW right PROVE ThreeArguments(left, op, right).error \in Refusals \cup {""}
  <2>1. \/ \E message \in Refusals : ThreeArguments(left, op, right) = Refuses(message)
        \/ \E a, b, c : ThreeArguments(left, op, right) = Operation(a, b, c)
    BY Zenon DEF ThreeArguments, Refusals
  <2> QED BY <1>1, <1>2, <2>1
<1> QED BY <1>3, <1>4

(* calc gives none of the answers that others give.                         *)
LEMMA calcSays ==
  ASSUME cmd_calc
  PROVE  reply'.says \notin Answers
<1>1. \A message : Says(message) => reply'.says = message
  BY DEF Says, Shows
<1>2. \A texts : Shows("=", texts) => reply'.says = "="
  BY DEF Shows
<1>3. CASE Says("usage")
  BY <1>1, <1>3 DEF Answers
<1>4. ASSUME NEW do \in Asked, Calculates(do) PROVE reply'.says \notin Answers
  <2>1. do.error \in Refusals \cup {""}
    <3>1. \/ \E text : do = OneArgument(text)
          \/ \E a, b, c : do = ThreeArguments(a, b, c)
      <4>1. CASE argc = 2
        BY <4>1 DEF Asked
      <4>2. CASE argc = 4
        <5>1. Asked = {ThreeArguments(a, b, c) : a \in {Argument(2)}, b \in {Argument(3)}, c \in {Argument(4)}}
          BY <4>2 DEF Asked
        <5> QED BY <5>1
      <4>3. CASE argc # 2 /\ argc # 4
        BY <4>3 DEF Asked
      <4> QED BY <4>1, <4>2, <4>3
    <3> QED BY <3>1, calcRefuses
  <2>2. \/ do.error # "" /\ Says(do.error)
        \/ Says("division_by_zero")
        \/ Shows("=", <<Result(do.left, do.op, do.right)>>)
    BY <1>4, Zenon DEF Calculates
  <2>3. \/ do.error # "" /\ reply'.says = do.error
        \/ reply'.says \in {"division_by_zero", "="}
    BY <1>1, <1>2, <2>2
  <2> QED BY <2>1, <2>3 DEF Refusals, Answers
<1> QED BY <1>3, <1>4, Zenon DEF cmd_calc

(* Nor do the commands whose answers need no proof.                         *)
LEMMA OthersSay ==
  ASSUME \/ NoSuchCommand \/ HelpOfUnset \/ cmd_echo \/ cmd_calc \/ cmd_colorshell \/ cmd_quit \/ cmd_shutdown
         \/ cmd_halt \/ cmd_debug \/ cmd_ticks \/ cmd_strlen \/ cmd_elsewhere \/ FaultsInMemory,
         pc' = "answered"
  PROVE  reply'.says \notin Answers
<1>1. CASE HelpOfUnset
  <2>1. Stop \/ \E name \in Commands \cup {None} : reply' = [says |-> "", shows |-> <<>>, of |-> <<name>>]
    BY <1>1, Zenon DEF HelpOfUnset
  <2>2. ~Stop
    BY DEF Stop
  <2>3. PICK name : reply' = [says |-> "", shows |-> <<>>, of |-> <<name>>]
    BY <2>1, <2>2
  <2>4. reply'.says = ""
    BY <2>3
  <2> QED BY <2>4 DEF Answers
<1>2. CASE cmd_echo
  BY <1>2 DEF cmd_echo, Shows, Answers
<1>3. CASE cmd_ticks
  BY <1>3 DEF cmd_ticks, Shows, Answers
<1>4. CASE cmd_strlen
  BY <1>4 DEF cmd_strlen, Says, Shows, Given, Answers
<1>5. CASE NoSuchCommand \/ cmd_elsewhere \/ cmd_halt \/ cmd_shutdown \/ FaultsInMemory
  BY <1>5 DEF NoSuchCommand, cmd_elsewhere, cmd_halt, cmd_shutdown, FaultsInMemory, Says, Shows, Stop, Answers
<1>6. CASE cmd_colorshell
  BY <1>6 DEF cmd_colorshell, Says, Shows, Answers
<1>7. CASE cmd_quit
  <2>1. Says("returned") \/ Says("not_in_ColorShell") \/ Says("usage")
    BY <1>7, Zenon DEF cmd_quit
  <2> QED BY <2>1 DEF Says, Shows, Answers
<1>8. CASE cmd_debug
  <2>1. Stop \/ Says("usage")
    BY <1>8, Zenon DEF cmd_debug
  <2> QED BY <2>1 DEF Stop, Says, Shows, Answers
<1> QED BY <1>1, <1>2, <1>3, <1>4, <1>5, <1>6, <1>7, <1>8, calcSays

(* The size asked for depends on the arguments only.                        *)
LEMMA SizeAskedKept ==
  ASSUME UNCHANGED <<buffer, argv>>
  PROVE  SizeAsked' = SizeAsked
<1>1. argc' = argc /\ Argument(2)' = Argument(2)
  BY ArgumentsKept
<1>2. Given(1)' <=> Given(1)
  BY <1>1 DEF Given
<1> QED BY <1>1, <1>2, Zenon DEF SizeAsked

(* Each handler leaves a true answer.                                       *)
LEMMA AnswersTold ==
  ASSUME Fits, Handler, pc' = "answered"
  PROVE  HelpIsTrue' /\ ComparisonsAreTrue' /\ AddressIsRead' /\ SizeIsTrue' /\ TimesAddUp' /\ MapAddsUp'
<1> DEFINE says == reply'.says
<1>1. UNCHANGED <<buffer, argv>>
  BY CommandsKeepLine
<1>2. argc' = argc /\ (\A i : Argument(i)' = Argument(i)) /\ SizeAsked' = SizeAsked
  BY <1>1, ArgumentsKept, SizeAskedKept
<1>3. says # "help" => HelpIsTrue'
  BY DEF HelpIsTrue
<1>4. says # "strcmp" /\ says # "strncmp" => ComparisonsAreTrue'
  BY DEF ComparisonsAreTrue
<1>5. says # "virtual" => AddressIsRead'
  BY DEF AddressIsRead
<1>6. says # "allocated" => SizeIsTrue'
  BY DEF SizeIsTrue
<1>7. says # "runtime" => TimesAddUp'
  BY DEF TimesAddUp
<1>8. says # "meminfo" => MapAddsUp'
  BY DEF MapAddsUp
<1>9. CASE says \notin Answers
  BY <1>3, <1>4, <1>5, <1>6, <1>7, <1>8, <1>9 DEF Answers
<1>10. CASE cmd_help
  <2>1. says = "help"
    BY <1>10 DEF cmd_help
  <2>2. IF argc > 1 THEN IsCommandOf(reply'.of[1], Argument(2))
        ELSE Len(reply'.of) = Cardinality(Commands) /\ ToSet(reply'.of) = Commands
    BY <1>10, HelpAnswers
  <2>3. HelpIsTrue'
    <3>1. CASE argc > 1
      <4>1. IsCommandOf(reply'.of[1], Argument(2))
        BY <2>2, <3>1
      <4> QED BY <1>2, <3>1, <4>1 DEF HelpIsTrue
    <3>2. CASE ~(argc > 1)
      <4>1. Len(reply'.of) = Cardinality(Commands) /\ ToSet(reply'.of) = Commands
        BY <2>2, <3>2
      <4> QED BY <1>2, <3>2, <4>1 DEF HelpIsTrue
    <3> QED BY <3>1, <3>2
  <2> QED BY <1>4, <1>5, <1>6, <1>7, <1>8, <2>1, <2>3
<1>11. CASE cmd_strcmp
  <2>1. says \in {"strcmp", "usage"}
    BY <1>11 DEF cmd_strcmp, Says, Shows, Given
  <2>2. ComparisonsAreTrue'
    BY <1>2, <1>11, <2>1, strcmpAnswers DEF ComparisonsAreTrue
  <2> QED BY <1>3, <1>5, <1>6, <1>7, <1>8, <2>1, <2>2
<1>12. CASE cmd_strncmp
  <2>1. says \in {"strncmp", "usage", "invalid_number"}
    <3>1. Says("usage") \/ Says("invalid_number") \/ \E texts : Shows("strncmp", texts)
      BY <1>12, Zenon DEF cmd_strncmp
    <3> QED BY <3>1 DEF Says, Shows
  <2>2. ComparisonsAreTrue'
    BY <1>2, <1>12, <2>1, strncmpAnswers DEF ComparisonsAreTrue
  <2> QED BY <1>3, <1>5, <1>6, <1>7, <1>8, <2>1, <2>2
<1>13. CASE cmd_pageinfo
  <2>1. says \in {"virtual", "usage", "invalid_address"}
    <3>1. Says("usage") \/ Says("invalid_address") \/ \E texts : Shows("virtual", texts)
      BY <1>13, Zenon DEF cmd_pageinfo
    <3> QED BY <3>1 DEF Says, Shows
  <2>2. AddressIsRead'
    <3>1. says = "virtual" /\ ReadsAsWritten(Argument(2)) => reply'.shows[1] = LastDigits(Argument(2))
      BY <1>13, pageinfoAnswers
    <3> QED BY <1>2, <3>1 DEF AddressIsRead
  <2> QED BY <1>3, <1>4, <1>6, <1>7, <1>8, <2>1, <2>2
<1>14. CASE cmd_alloc
  <2>1. says \in {"allocated", "allocation_failed"}
    BY <1>14 DEF cmd_alloc, Says, Shows
  <2>2. SizeIsTrue'
    <3>1. says = "allocated" =>
            SaysSize([number |-> reply'.shows[1], tenths |-> reply'.shows[2], unit |-> reply'.of[1]], SizeAsked)
      BY <1>14, allocAnswers
    <3> QED BY <1>2, <3>1 DEF SizeIsTrue
  <2> QED BY <1>3, <1>4, <1>5, <1>7, <1>8, <2>1, <2>2
<1>15. CASE cmd_runtime
  <2>1. says = "runtime"
    BY <1>15 DEF cmd_runtime
  <2>2. TimesAddUp'
    BY <1>15, runtimeAnswers
  <2> QED BY <1>3, <1>4, <1>5, <1>6, <1>8, <2>1, <2>2
<1>16. CASE cmd_meminfo
  <2>1. says = "meminfo"
    BY <1>16 DEF cmd_meminfo
  <2>2. MapAddsUp'
    BY <1>16, meminfoAnswers
  <2> QED BY <1>3, <1>4, <1>5, <1>6, <1>7, <2>1, <2>2
<1>17. CASE \/ NoSuchCommand \/ HelpOfUnset \/ cmd_echo \/ cmd_calc \/ cmd_colorshell \/ cmd_quit \/ cmd_shutdown
             \/ cmd_halt \/ cmd_debug \/ cmd_ticks \/ cmd_strlen \/ cmd_elsewhere \/ FaultsInMemory
  BY <1>9, <1>17, OthersSay
<1> QED BY <1>10, <1>11, <1>12, <1>13, <1>14, <1>15, <1>16, <1>17, Zenon DEF Handler

(* An answer that is true stays true, and a new one is.                     *)
LEMMA AnswersKept ==
  ASSUME Fits, AnswersAreTrue, [Next]_vars
  PROVE  AnswersAreTrue'
<1>1. CASE pc' # "answered"
  BY <1>1 DEF AnswersAreTrue
<1>2. CASE Handler /\ pc' = "answered"
  <2>1. CommandIsNamed'
    BY <1>2, CommandKept DEF CommandFits
  <2> QED BY <1>2, <2>1, AnswersTold DEF AnswersAreTrue
<1>3. CASE UNCHANGED vars
  BY <1>3, Zenon DEF vars, AnswersAreTrue, CommandIsNamed, HelpIsTrue, ComparisonsAreTrue, AddressIsRead,
    SizeIsTrue, TimesAddUp, MapAddsUp, SizeAsked, PartOfTime, Given, Argument, argc
<1>4. CASE Tokenize \/ LookUp \/ LookUpUnset
  <2>1. pc' # "answered"
    BY <1>4 DEF Tokenize, SkipBlank, EndOfLine, OpenQuote, StartWord, InWord, Ends, Goes, LookUp, LookUpUnset, Stop
  <2> QED BY <1>1, <2>1
<1>5. CASE ShowsPrompt \/ \E typed \in Lines : Enter(typed)
  BY <1>1, <1>5 DEF ShowsPrompt, Enter
<1> QED BY <1>1, <1>2, <1>3, <1>4, <1>5 DEF Next, Work

(* The answers are true: the command that ran is the one named, help lists every command  *)
(* and finds one as the shell does, comparisons order texts as a dictionary does, addresses *)
(* are read as they are written, sizes, times and sums are right (shell_commands.c).       *)
THEOREM AnswersAlwaysTrue == Spec => []AnswersAreTrue
<1>1. Init => AnswersAreTrue
  BY DEF Init, AnswersAreTrue
<1> QED BY <1>1, FitsAlways, AnswersKept, PTL DEF Spec

-----------------------------------------------------------------------------
(* calc.                                                                    *)

(* A number that fits is read as it is written: nothing wraps on the way.   *)
LEMMA ValueGrows ==
  ASSUME NEW text \in Seq(Digits), NEW f, ValueSteps(text, f)
  PROVE  \A n \in 0 .. Len(text) : f[n] \in Nat /\ f[n] <= Value(text)
<1> DEFINE N == Len(text)
           S == {n \in 0 .. N : f[n] \in Nat}
           T == {m \in 0 .. N : f[N - m] <= f[N]}
<1>1. /\ N \in Nat /\ Value(text) = f[N] /\ f[0] = 0 /\ f \in [0 .. N -> Int]
      /\ \A n \in 1 .. N : f[n] = 10 * f[n - 1] + text[n] - 48
  BY LenProperties DEF ValueSteps
<1>2. \A n \in 1 .. N : text[n] \in 48 .. 57
  BY ElementOfSeq DEF Digits
<1> HIDE DEF N
<1>3. 0 \in S /\ 0 \in T
  BY <1>1
<1>4. ASSUME NEW n \in 1 .. N, n - 1 \in S PROVE n \in S /\ f[n - 1] <= f[n]
  <2> DEFINE a == f[n - 1]  b == f[n]  c == text[n]
  <2>1. n \in 0 .. N /\ a \in Nat /\ b = 10 * a + c - 48 /\ c \in 48 .. 57
    BY <1>1, <1>2, <1>4
  <2> HIDE DEF a, b, c
  <2>2. b \in Nat /\ a <= b
    BY <2>1
  <2> QED BY <2>1, <2>2 DEF a, b
<1>5. \A n \in 0 .. N : n \in S
  <2>1. \A n \in 1 .. N : n - 1 \in S => n \in S
    BY <1>4
  <2> HIDE DEF S
  <2> QED BY <1>1, <1>3, <2>1, LoopKeeps
<1>6. ASSUME NEW m \in 1 .. N, m - 1 \in T PROVE m \in T
  <2> DEFINE n == N - (m - 1)
  <2>1. m \in 0 .. N /\ n \in 1 .. N /\ N - m = n - 1 /\ n - 1 \in 0 .. N /\ n \in 0 .. N /\ N \in 0 .. N
    BY <1>1
  <2>2. f[n] <= f[N]
    BY <1>6
  <2> HIDE DEF n
  <2>3. f[n - 1] <= f[n]
    BY <1>4, <1>5, <2>1
  <2>4. f[n - 1] \in Nat /\ f[n] \in Nat /\ f[N] \in Nat
    BY <1>5, <2>1
  <2> QED BY <2>1, <2>2, <2>3, <2>4
<1>7. \A m \in 0 .. N : m \in T
  <2> HIDE DEF T
  <2> QED BY <1>1, <1>3, <1>6, LoopKeeps
<1>8. ASSUME NEW n \in 0 .. N PROVE f[n] <= f[N]
  <2>1. N - n \in 0 .. N /\ N - (N - n) = n
    BY <1>1
  <2>2. N - n \in T
    BY <1>7, <2>1
  <2> QED BY <2>1, <2>2
<1> QED BY <1>1, <1>5, <1>8 DEF N

(* A number that fits a word is read as it is written: no prefix of it is greater. *)
LEMMA ReadsWhatFits ==
  ASSUME NEW text \in Seq(Digits), Value(text) < Word
  PROVE  DecimalValue(text) = Value(text)
<1> DEFINE N == Len(text)
<1>1. text \in Seq(Nat) /\ N \in Nat
  BY LenProperties, SeqMonotonic DEF Digits
<1>2. PICK f : ValueSteps(text, f)
  BY <1>1, ValueIs
<1>3. PICK g : DecimalSteps(text, g)
  BY DecimalValueBySteps
<1>4. \A n \in 0 .. N : f[n] \in Nat /\ f[n] <= Value(text)
  BY <1>2, ValueGrows
<1>5. /\ Value(text) = f[N] /\ f[0] = 0
      /\ \A n \in 1 .. N : f[n] = 10 * f[n - 1] + text[n] - 48
  BY <1>2 DEF ValueSteps
<1>6. /\ DecimalValue(text) = g[N] /\ g[0] = 0
      /\ \A n \in 1 .. N : g[n] = (g[n - 1] * 10 + text[n] - 48) % Word
  BY <1>3 DEF DecimalSteps
<1>7. Value(text) \in Nat /\ Word \in Nat \ {0}
  BY <1>1, <1>4, <1>5, WordIsPositive
<1> HIDE DEF N, Word, Value, DecimalValue
<1> DEFINE S == {n \in 0 .. N : g[n] = f[n]}
<1>8. 0 \in S
  BY <1>1, <1>5, <1>6
<1>9. ASSUME NEW n \in 1 .. N, n - 1 \in S PROVE n \in S
  <2>1. n \in 0 .. N /\ n - 1 \in 0 .. N /\ g[n - 1] = f[n - 1]
    BY <1>9
  <2>2. f[n] = 10 * f[n - 1] + text[n] - 48 /\ g[n] = (f[n - 1] * 10 + text[n] - 48) % Word
    BY <1>5, <1>6, <2>1
  <2>3. f[n] \in Nat /\ f[n] < Word /\ f[n - 1] \in Nat
    BY <1>4, <1>7, <2>1
  <2>4. f[n - 1] * 10 = 10 * f[n - 1]
    BY <2>3
  <2>5. g[n] = f[n] % Word
    BY <2>2, <2>4
  <2>6. f[n] % Word = f[n]
    BY <1>7, <2>3, ModSmall
  <2> QED BY <2>1, <2>5, <2>6
<1>10. N \in S
  <2> HIDE DEF S
  <2>1. \A n \in 0 .. N : n \in S
    BY <1>1, <1>8, <1>9, LoopKeeps
  <2> QED BY <1>1, <2>1
<1> QED BY <1>5, <1>6, <1>10

(* The greatest of some numbers, and the text between blanks.               *)
LEMMA MaxIsGreatest ==
  ASSUME NEW N \in Nat, NEW S \in SUBSET (0 .. N), S # {}
  PROVE  Max(S) \in S /\ \A x \in S : x <= Max(S)
<1> DEFINE T == {N - x : x \in S}
<1>1. T \in SUBSET Nat /\ T # {}
  <2>1. \A x \in S : N - x \in Nat /\ N - x \in T
    OBVIOUS
  <2> QED BY <2>1
<1>2. PICK t \in T : \A y \in T : t <= y
  <2> HIDE DEF T
  <2> QED BY <1>1, LeastNatural
<1>3. PICK x \in S : t = N - x
  BY <1>2
<1>4. \A y \in S : N - y \in T /\ y \in 0 .. N
  OBVIOUS
<1>5. \A y \in S : x >= y
  <2> HIDE DEF T
  <2> QED BY <1>2, <1>3, <1>4
<1>6. Max(S) \in S /\ \A y \in S : Max(S) >= y
  BY <1>5 DEF Max
<1>7. Max(S) \in 0 .. N
  BY <1>6
<1> HIDE DEF Max
<1> QED BY <1>4, <1>6, <1>7

(* The span ends in one place only.                                         *)
LEMMA SpanTo ==
  ASSUME NEW text \in Seq(Nat), NEW from \in 1 .. (Len(text) + 1), NEW set, NEW end,
         SpanEnds(text, from, set, end)
  PROVE  /\ Span(text, from, set) = SubSeq(text, from, end - 1)
         /\ Len(Span(text, from, set)) = end - from /\ Skipped(text, from, set) = end
<1>1. PICK e : SpanEnds(text, from, set, e) /\ Span(text, from, set) = SubSeq(text, from, e - 1)
  BY SpanIs
<1>2. /\ e \in from .. (Len(text) + 1) /\ (e = Len(text) + 1 \/ text[e] \notin set)
      /\ \A i \in from .. (e - 1) : text[i] \in set
      /\ end \in from .. (Len(text) + 1) /\ (end = Len(text) + 1 \/ text[end] \notin set)
      /\ \A i \in from .. (end - 1) : text[i] \in set
      /\ Len(text) \in Nat
  BY <1>1, LenProperties DEF SpanEnds
<1>3. e = end
  <2>1. CASE e < end
    <3>1. e \in from .. (end - 1) /\ e # Len(text) + 1
      BY <1>2, <2>1
    <3> QED BY <1>2, <3>1
  <2>2. CASE end < e
    <3>1. end \in from .. (e - 1) /\ end # Len(text) + 1
      BY <1>2, <2>2
    <3> QED BY <1>2, <3>1
  <2> QED BY <1>2, <2>1, <2>2
<1>4. Len(SubSeq(text, from, end - 1)) = end - from
  <2>1. SubSeq(text, from, end - 1) = [i \in 1 .. (end - from) |-> text[i + from - 1]] /\ end - from \in Nat
    <3>1. (end - 1) - from + 1 = end - from /\ \A i \in 1 .. (end - from) : from + i - 1 = i + from - 1
      BY <1>2
    <3> QED BY <1>2, <3>1
  <2>2. \A i \in 1 .. (end - from) : i + from - 1 \in 1 .. Len(text)
    BY <1>2
  <2>3. \A i \in 1 .. (end - from) : text[i + from - 1] \in Nat
    BY <2>2, ElementOfSeq
  <2>4. SubSeq(text, from, end - 1) \in [1 .. (end - from) -> Nat] /\ end - from \in Nat
    BY <2>1, <2>3
  <2>5. \A k \in Nat : \A s \in [1 .. k -> Nat] : Len(s) = k
    OBVIOUS
  <2> QED BY <2>4, <2>5
<1>5. from + (end - from) = end
  BY <1>2
<1> QED BY <1>1, <1>3, <1>4, <1>5 DEF Skipped

TrimmedTo(text, lo, hi, a, b) ==
  /\ a \in lo .. hi /\ b \in a .. hi /\ Trimmed(SubSeq(text, lo, hi)) = SubSeq(text, a, b)
  /\ \A i \in lo .. (a - 1) : text[i] \in Blanks
  /\ \A i \in (b + 1) .. hi : text[i] \in Blanks

LEMMA TrimmedIs ==
  ASSUME NEW text \in Seq(Nat), NEW lo \in 1 .. (Len(text) + 1), NEW hi \in (lo - 1) .. Len(text),
         Trimmed(SubSeq(text, lo, hi)) # <<>>
  PROVE  \E a, b : TrimmedTo(text, lo, hi, a, b)
<1> DEFINE n == hi - lo + 1
           part == SubSeq(text, lo, hi)
           dark == {i \in DOMAIN part : part[i] \notin Blanks}
           x == Min(dark)
           y == Max(dark)
           a == lo + x - 1
           b == lo + y - 1
<1>1. Len(text) \in Nat /\ n \in Nat /\ hi \in Nat /\ lo \in Nat /\ lo >= 1
  BY LenProperties
<1>2. part = [i \in 1 .. n |-> text[i + lo - 1]]
  <2>1. \A i \in 1 .. n : lo + i - 1 = i + lo - 1
    BY <1>1
  <2> QED BY <1>1, <2>1
<1>3. dark \in SUBSET (0 .. n) /\ dark \in SUBSET Nat /\ dark # {}
  <2>1. dark # {}
    BY DEF Trimmed
  <2>2. DOMAIN part = 1 .. n
    <3> HIDE DEF part
    <3> QED BY <1>2
  <2> HIDE DEF part, n
  <2> QED BY <1>1, <2>1, <2>2
<1>4. Trimmed(part) = SubSeq(part, x, y)
  BY <1>3 DEF Trimmed
<1>5. DOMAIN part = 1 .. n /\ \A i \in 1 .. n : part[i] = text[i + lo - 1]
  <2> HIDE DEF part
  <2> QED BY <1>2
<1> HIDE DEF part
<1>6. \A i \in 1 .. n : i \notin dark => text[i + lo - 1] \in Blanks
  BY <1>5
<1>7. dark \subseteq 1 .. n
  BY <1>5
<1> HIDE DEF dark, n
<1>8. x \in dark /\ \A i \in dark : x <= i
  BY <1>3, MinIsLeast
<1>9. y \in dark /\ \A i \in dark : i <= y
  BY <1>1, <1>3, MaxIsGreatest
<1> HIDE DEF x, y
<1>10. x \in 1 .. n /\ y \in x .. n /\ y \in 1 .. n
  BY <1>1, <1>7, <1>8, <1>9
<1>11. a \in lo .. hi /\ b \in a .. hi
  BY <1>1, <1>10 DEF n
<1>12. SubSeq(part, x, y) = SubSeq(text, a, b)
  <2>1. /\ y - x + 1 = b - a + 1 /\ x <= y
        /\ \A i \in 1 .. (y - x + 1) : x + i - 1 \in 1 .. n /\ (x + i - 1) + lo - 1 = a + i - 1
    BY <1>1, <1>10, <1>11
  <2>2. SubSeq(part, x, y) = [i \in 1 .. (y - x + 1) |-> part[x + i - 1]]
    BY <1>10
  <2> HIDE DEF a, b
  <2>3. SubSeq(text, a, b) = [i \in 1 .. (b - a + 1) |-> text[a + i - 1]]
    BY <1>11
  <2>4. \A i \in 1 .. (y - x + 1) : part[x + i - 1] = text[a + i - 1]
    BY <1>5, <2>1
  <2> QED BY <2>1, <2>2, <2>3, <2>4
<1>13. ASSUME NEW i \in lo .. (a - 1) PROVE text[i] \in Blanks
  <2> DEFINE j == i - lo + 1
  <2>1. j \in 1 .. n /\ ~(x <= j) /\ j + lo - 1 = i
    BY <1>1, <1>10 DEF n
  <2> HIDE DEF j
  <2>2. j \notin dark
    BY <1>8, <2>1
  <2> QED BY <1>6, <2>1, <2>2
<1>14. ASSUME NEW i \in (b + 1) .. hi PROVE text[i] \in Blanks
  <2> DEFINE j == i - lo + 1
  <2>1. j \in 1 .. n /\ ~(j <= y) /\ j + lo - 1 = i
    BY <1>1, <1>10 DEF n
  <2> HIDE DEF j
  <2>2. j \notin dark
    BY <1>9, <2>1
  <2> QED BY <1>6, <2>1, <2>2
<1>15. TrimmedTo(text, lo, hi, a, b)
  <2>1. Trimmed(SubSeq(text, lo, hi)) = SubSeq(text, a, b)
    BY <1>4, <1>12 DEF part
  <2> HIDE DEF a, b
  <2> QED BY <1>11, <1>13, <1>14, <2>1 DEF TrimmedTo
<1> QED BY <1>15

(* Digits, blanks and operators are told apart.                             *)
LEMMA KindsOfCharacters ==
  \A char : /\ char \in Digits => char \notin Blanks /\ char \notin Operators
            /\ char \in Blanks => char \notin Digits /\ char \notin Operators
            /\ char \in Operators => char \notin Digits /\ char \notin Blanks
BY DEF Digits, Blanks, Blank, Tab, Operators, Plus, Minus, Times, Slash, Caret

(* The digits of a trimmed part begin behind its first blanks and end before its last.    *)
LEMMA DigitsOfPart ==
  ASSUME NEW text \in Seq(Nat), NEW lo \in 1 .. (Len(text) + 1), NEW hi \in (lo - 1) .. Len(text),
         AllDigits(Trimmed(SubSeq(text, lo, hi))),
         hi = Len(text) \/ text[hi + 1] \in Operators
  PROVE  \E a, b : /\ a \in 1 .. (Len(text) + 1) /\ b \in a .. hi
                   /\ Skipped(text, lo, Blanks) = a
                   /\ DigitsAt(text, a) = Trimmed(SubSeq(text, lo, hi))
                   /\ Len(DigitsAt(text, a)) = b + 1 - a
                   /\ hi < Len(text) => Skipped(text, b + 1, Blanks) = hi + 1
<1> DEFINE number == Trimmed(SubSeq(text, lo, hi))
<1>1. Len(text) \in Nat /\ lo \in Nat /\ hi \in Nat /\ lo >= 1 /\ hi <= Len(text)
  BY LenProperties
<1>2. number # <<>> /\ \A i \in DOMAIN number : number[i] \in Digits
  BY DEF AllDigits
<1>3. PICK a, b : TrimmedTo(text, lo, hi, a, b)
  BY <1>2, TrimmedIs
<1>4. /\ a \in lo .. hi /\ b \in a .. hi /\ number = SubSeq(text, a, b)
      /\ \A i \in lo .. (a - 1) : text[i] \in Blanks
      /\ \A i \in (b + 1) .. hi : text[i] \in Blanks
  BY <1>3 DEF TrimmedTo
<1> HIDE DEF number
<1>5. \A i \in a .. b : text[i] \in Digits
  <2> SUFFICES ASSUME NEW i \in a .. b PROVE text[i] \in Digits
    OBVIOUS
  <2>1. SubSeq(text, a, b) = [j \in 1 .. (b - a + 1) |-> text[a + j - 1]]
    BY <1>1, <1>4
  <2>2. i - a + 1 \in 1 .. (b - a + 1) /\ a + (i - a + 1) - 1 = i
    BY <1>1, <1>4
  <2>3. i - a + 1 \in DOMAIN number /\ number[i - a + 1] = text[i]
    BY <1>4, <2>1, <2>2
  <2> QED BY <1>2, <2>3
<1>6. /\ a \in 1 .. (Len(text) + 1) /\ a \in a .. b /\ a \in lo .. (Len(text) + 1)
      /\ b + 1 \in 1 .. (Len(text) + 1) /\ b + 1 \in a .. (Len(text) + 1) /\ (b + 1) - 1 = b
      /\ hi + 1 \in (b + 1) .. (Len(text) + 1) /\ (hi + 1) - 1 = hi
      /\ b + 1 = hi + 1 \/ b + 1 \in (b + 1) .. hi
  BY <1>1, <1>4
<1>7. SpanEnds(text, lo, Blanks, a)
  <2>1. text[a] \notin Blanks
    BY <1>5, <1>6, KindsOfCharacters
  <2> QED BY <1>4, <1>6, <2>1 DEF SpanEnds
<1>8. hi + 1 = Len(text) + 1 \/ (text[hi + 1] \in Operators /\ text[hi + 1] \notin Digits /\ text[hi + 1] \notin Blanks)
  BY <1>1, KindsOfCharacters
<1>9. SpanEnds(text, a, Digits, b + 1)
  <2>1. b + 1 = Len(text) + 1 \/ text[b + 1] \notin Digits
    BY <1>4, <1>6, <1>8, KindsOfCharacters
  <2> QED BY <1>5, <1>6, <2>1 DEF SpanEnds
<1>10. SpanEnds(text, b + 1, Blanks, hi + 1)
  BY <1>4, <1>6, <1>8 DEF SpanEnds
<1>11. Skipped(text, lo, Blanks) = a
  BY <1>7, SpanTo
<1>12. DigitsAt(text, a) = number /\ Len(DigitsAt(text, a)) = b + 1 - a
  <2>1. Span(text, a, Digits) = SubSeq(text, a, (b + 1) - 1) /\ Len(Span(text, a, Digits)) = (b + 1) - a
    BY <1>6, <1>9, SpanTo
  <2> QED BY <1>4, <1>6, <2>1 DEF DigitsAt
<1>13. Skipped(text, b + 1, Blanks) = hi + 1
  BY <1>6, <1>10, SpanTo
<1> QED BY <1>4, <1>6, <1>11, <1>12, <1>13 DEF number

(* calc finds both numbers and the operator in one argument, whatever blanks are around them. *)
LEMMA OneArgumentIs ==
  ASSUME NEW text \in Seq(Nat), NEW at \in 1 .. Len(text), text[at] \in Operators, NEW left, NEW right,
         left = Trimmed(SubSeq(text, 1, at - 1)), right = Trimmed(SubSeq(text, at + 1, Len(text))),
         AllDigits(left), AllDigits(right), Len(left) < MaxDigits
  PROVE  OneArgument(text) = Operation(DecimalValue(left), text[at], DecimalValue(right))
<1> DEFINE L == Len(text)
<1>1. /\ L \in Nat /\ 1 \in 1 .. (L + 1) /\ at - 1 \in (1 - 1) .. L /\ (at - 1) + 1 = at /\ at - 1 < L
      /\ at + 1 \in 1 .. (L + 1) /\ L \in ((at + 1) - 1) .. L /\ at \in DOMAIN text
  BY LenProperties
<1>2. PICK a, b : /\ a \in 1 .. (L + 1) /\ b \in a .. (at - 1)
                  /\ Skipped(text, 1, Blanks) = a
                  /\ DigitsAt(text, a) = left /\ Len(left) = b + 1 - a
                  /\ Skipped(text, b + 1, Blanks) = at
  BY <1>1, DigitsOfPart
<1>3. PICK c, d : /\ Skipped(text, at + 1, Blanks) = c
                  /\ DigitsAt(text, c) = right
  BY <1>1, DigitsOfPart
<1>4. left # <<>> /\ right # <<>>
  BY DEF AllDigits
<1>5. a + Len(left) = b + 1
  BY <1>2
<1>6. ~(Len(left) >= MaxDigits)
  <2>1. Len(left) \in Int /\ MaxDigits \in Int
    BY <1>1, <1>2, CommandLineAssumption
  <2> QED BY <2>1
<1>7. CharAt(text, at) = text[at]
  BY <1>1 DEF CharAt
<1> QED BY <1>2, <1>3, <1>4, <1>5, <1>6, <1>7, Zenon DEF OneArgument

(* A signed word is written as an integer, with and without a sign in front. *)
LEMMA DecimalSays ==
  ASSUME NEW n \in Nat, 2 * n < Word
  PROVE  /\ SaysInteger(Decimal(n), n)
         /\ n > 0 => SaysInteger(<<Minus>> \o Decimal(n), -n)
<1> DEFINE text == Unsigned(n)
           longer == <<Minus>> \o text
<1>1. Decimal(n) = text
  BY DEF Signed, Decimal
<1>2. Spells(text, n)
  BY UnsignedSpells
<1>3. text \in Seq(Digits) /\ Len(text) \in Nat /\ Value(text) = n
  BY <1>2, LenProperties DEF Spells
<1>4. text # <<>> /\ text[1] # Minus /\ IntegerIn(text) = n
  BY <1>2, SpellsFacts
<1>5. AllDigits(text)
  <2>1. DOMAIN text = 1 .. Len(text) /\ \A i \in 1 .. Len(text) : text[i] \in Digits
    BY <1>3, ElementOfSeq, LenProperties
  <2> HIDE DEF text
  <2> QED BY <1>4, <2>1 DEF AllDigits
<1>6. text \in Seq(Nat)
  BY <1>3, SeqMonotonic DEF Digits
<1>7. ~(n < 0) /\ (n > 0 => -n < 0 /\ -(-n) = n)
  OBVIOUS
<1>8. text = Unsigned(n)
  OBVIOUS
<1> HIDE DEF text
<1>9. SaysInteger(text, n)
  <2>1. Len(text) <= Len(Unsigned(n)) + 0
    BY <1>3, <1>8
  <2> HIDE DEF AllDigits
  <2> QED BY <1>4, <1>5, <1>7, <2>1 DEF SaysInteger
<1>10. longer[1] = Minus /\ Tail(longer) = text /\ Len(longer) = Len(text) + 1
  BY <1>6, MinusBefore
<1> HIDE DEF longer
<1>11. ASSUME n > 0 PROVE SaysInteger(longer, -n)
  <2>1. IntegerIn(longer) = -n
    BY <1>3, <1>10 DEF IntegerIn
  <2>2. AllDigits(IF longer[1] = Minus THEN Tail(longer) ELSE longer)
    BY <1>5, <1>10
  <2>3. (IF -n < 0 THEN -(-n) ELSE -n) = n /\ (IF -n < 0 THEN 1 ELSE 0) = 1
    BY <1>7, <1>11
  <2>4. Len(longer) <= Len(Unsigned(n)) + 1
    BY <1>3, <1>8, <1>10
  <2> QED BY <2>1, <2>2, <2>3, <2>4 DEF SaysInteger
<1> QED BY <1>1, <1>9, <1>11 DEF longer

(* The power that wraps is the exact one as long as that one fits.          *)
PowerSteps(base, times, f) ==
  /\ Power(base, times) = f[times] /\ f[0] = 1 /\ f \in [0 .. times -> Nat]
  /\ \A n \in 1 .. times : f[n] = (f[n - 1] * base) % Word

(* The loop of calc that multiplies words.                                  *)
LEMMA PowerBySteps ==
  ASSUME NEW base \in Nat, NEW N \in Nat
  PROVE  \E f : PowerSteps(base, N, f)
<1> DEFINE Body(value, n) == (value * base) % Word
           step == [n \in 1 .. N |-> [value \in Nat |-> Body(value, n)]]
           Loop(f) == f = [n \in 0 .. N |-> IF n = 0 THEN 1 ELSE Body(f[n - 1], n)]
<1>1. N \in Nat /\ 1 \in Nat /\ Word \in Nat \ {0}
  BY WordIsPositive
<1> HIDE DEF Word
<1>3. ASSUME NEW value \in Nat, NEW n \in 1 .. N PROVE Body(value, n) \in Nat
  <2>1. value * base \in Nat
    OBVIOUS
  <2> QED BY <1>1, <2>1, DivMod
<1> HIDE DEF Body
<1>4. step \in [1 .. N -> [Nat -> Nat]]
  BY <1>3
<1>5. PICK g : LoopHistory(Nat, 1, N, step, g)
  <2> HIDE DEF step
  <2> QED BY <1>1, <1>4, LoopRuns
<1>6. Loop(g)
  <2>1. g \in [0 .. N -> Nat] /\ g[0] = 1 /\ \A n \in 1 .. N : g[n] = step[n][g[n - 1]]
    BY <1>5 DEF LoopHistory
  <2>2. /\ \A n \in 0 .. N : n # 0 => n \in 1 .. N
        /\ \A n \in 1 .. N : n - 1 \in 0 .. N
    BY <1>1
  <2>3. \A n \in 1 .. N : g[n] = Body(g[n - 1], n)
    BY <2>1, <2>2
  <2> QED BY <2>1, <2>2, <2>3
<1> DEFINE f == CHOOSE h : Loop(h)
<1>7. Loop(f)
  <2> HIDE DEF Loop
  <2> QED BY <1>6
<1>8. Power(base, N) = f[N]
  BY DEF Power, Body
<1> HIDE DEF f
<1>9. \A n \in 1 .. N : f[n] = Body(f[n - 1], n)
  <2>1. \A n \in 1 .. N : n # 0 /\ n \in 0 .. N
    BY <1>1
  <2> QED BY <1>7, <2>1
<1>10. LoopHistory(Nat, 1, N, step, f)
  <2>1. 0 \in 0 .. N
    BY <1>1
  <2>2. f = [n \in 0 .. N |-> f[n]] /\ f[0] = 1
    BY <1>7, <2>1
  <2>3. Follows(Nat, 1, N, step, f)
    BY <2>2, <1>9 DEF Follows
  <2> HIDE DEF step
  <2> QED BY <1>1, <1>4, <2>3, LoopIs
<1>11. f \in [0 .. N -> Nat] /\ f[0] = 1
  BY <1>10 DEF LoopHistory
<1>12. \A n \in 1 .. N : f[n] = (f[n - 1] * base) % Word
  BY <1>9 DEF Body
<1> QED BY <1>1, <1>8, <1>11, <1>12 DEF PowerSteps

BoundedSteps(base, times, f) ==
  /\ PowerUpTo(base, times) = f[times] /\ f[0] = 1 /\ f \in [0 .. times -> Nat]
  /\ \A n \in 1 .. times : f[n] = IF f[n - 1] * base <= Word THEN f[n - 1] * base ELSE Word

(* The same loop with a bound in place of the wrap.                         *)
LEMMA PowerUpToBySteps ==
  ASSUME NEW base \in Nat, NEW N \in Nat
  PROVE  \E f : BoundedSteps(base, N, f)
<1> DEFINE Body(value, n) == Bounded(value * base)
           step == [n \in 1 .. N |-> [value \in Nat |-> Body(value, n)]]
           Loop(f) == f = [n \in 0 .. N |-> IF n = 0 THEN 1 ELSE Body(f[n - 1], n)]
<1>1. N \in Nat /\ 1 \in Nat /\ Word \in Nat
  BY WordIsPositive
<1> HIDE DEF Word
<1>2. \A value \in Nat : /\ Bounded(value * base) \in Nat
                         /\ Bounded(value * base) = IF value * base <= Word THEN value * base ELSE Word
  <2> SUFFICES ASSUME NEW value \in Nat
               PROVE  /\ Bounded(value * base) \in Nat
                      /\ Bounded(value * base) = IF value * base <= Word THEN value * base ELSE Word
    OBVIOUS
  <2> DEFINE product == value * base
  <2>1. product \in Nat
    OBVIOUS
  <2> HIDE DEF product
  <2>2. Bounded(product) = IF product <= Word THEN product ELSE Word
    BY <1>1, <2>1, MinOfTwo DEF Bounded
  <2> QED BY <1>1, <2>1, <2>2 DEF product
<1>3. ASSUME NEW value \in Nat, NEW n \in 1 .. N PROVE Body(value, n) \in Nat
  BY <1>2
<1> HIDE DEF Body
<1>4. step \in [1 .. N -> [Nat -> Nat]]
  BY <1>3
<1>5. PICK g : LoopHistory(Nat, 1, N, step, g)
  <2> HIDE DEF step
  <2> QED BY <1>1, <1>4, LoopRuns
<1>6. Loop(g)
  <2>1. g \in [0 .. N -> Nat] /\ g[0] = 1 /\ \A n \in 1 .. N : g[n] = step[n][g[n - 1]]
    BY <1>5 DEF LoopHistory
  <2>2. /\ \A n \in 0 .. N : n # 0 => n \in 1 .. N
        /\ \A n \in 1 .. N : n - 1 \in 0 .. N
    BY <1>1
  <2>3. \A n \in 1 .. N : g[n] = Body(g[n - 1], n)
    BY <2>1, <2>2
  <2> QED BY <2>1, <2>2, <2>3
<1> DEFINE f == CHOOSE h : Loop(h)
<1>7. Loop(f)
  <2> HIDE DEF Loop
  <2> QED BY <1>6
<1>8. PowerUpTo(base, N) = f[N]
  BY DEF PowerUpTo, Body
<1> HIDE DEF f
<1>9. \A n \in 1 .. N : f[n] = Body(f[n - 1], n)
  <2>1. \A n \in 1 .. N : n # 0 /\ n \in 0 .. N
    BY <1>1
  <2> QED BY <1>7, <2>1
<1>10. LoopHistory(Nat, 1, N, step, f)
  <2>1. 0 \in 0 .. N
    BY <1>1
  <2>2. f = [n \in 0 .. N |-> f[n]] /\ f[0] = 1
    BY <1>7, <2>1
  <2>3. Follows(Nat, 1, N, step, f)
    BY <2>2, <1>9 DEF Follows
  <2> HIDE DEF step
  <2> QED BY <1>1, <1>4, <2>3, LoopIs
<1>11. f \in [0 .. N -> Nat] /\ f[0] = 1
  BY <1>10 DEF LoopHistory
<1>12. ASSUME NEW n \in 1 .. N
       PROVE  f[n] = IF f[n - 1] * base <= Word THEN f[n - 1] * base ELSE Word
  <2>1. f[n] = Bounded(f[n - 1] * base)
    BY <1>9 DEF Body
  <2>2. f[n - 1] \in Nat
    BY <1>1, <1>11
  <2> QED BY <1>2, <2>1, <2>2
<1> QED BY <1>1, <1>8, <1>11, <1>12 DEF BoundedSteps

(* As long as the bounded power fits a word, nothing has wrapped.           *)
LEMMA PowerIsExact ==
  ASSUME NEW base \in Nat, NEW N \in Nat, PowerUpTo(base, N) < Word
  PROVE  Power(base, N) = PowerUpTo(base, N) /\ PowerUpTo(base, N) \in Nat
<1>1. PICK f : PowerSteps(base, N, f)
  BY PowerBySteps
<1>2. PICK g : BoundedSteps(base, N, g)
  BY PowerUpToBySteps
<1>3. /\ Power(base, N) = f[N] /\ f[0] = 1
      /\ \A n \in 1 .. N : f[n] = (f[n - 1] * base) % Word
  BY <1>1 DEF PowerSteps
<1>4. /\ PowerUpTo(base, N) = g[N] /\ g[0] = 1 /\ g \in [0 .. N -> Nat]
      /\ \A n \in 1 .. N : g[n] = IF g[n - 1] * base <= Word THEN g[n - 1] * base ELSE Word
  BY <1>2 DEF BoundedSteps
<1>5. Word \in Nat /\ Word > 1
  <2>1. HexDigits \in Nat /\ HexDigits # 0 /\ HexDigits - 1 \in Nat /\ (HexDigits - 1) + 1 = HexDigits
    BY TextsAssumption
  <2>2. Word = 16 * SixteenTo(HexDigits - 1) /\ SixteenTo(HexDigits - 1) \in Nat \ {0}
    BY <2>1, PowersOfSixteen DEF Word
  <2> QED BY <2>2
<1> HIDE DEF Word, Power, PowerUpTo
<1> DEFINE S == {n \in 0 .. N : g[n] <= Word /\ (g[n] < Word => f[n] = g[n]) /\ (g[n] = Word => base >= 1)}
<1>6. 0 \in S
  BY <1>3, <1>4, <1>5
<1>7. ASSUME NEW n \in 1 .. N, n - 1 \in S PROVE n \in S
  <2> DEFINE a == g[n - 1]
             b == g[n]
             product == a * base
  <2>1. n \in 0 .. N /\ n - 1 \in 0 .. N
    OBVIOUS
  <2>2. /\ a \in Nat /\ a <= Word /\ (a < Word => f[n - 1] = a) /\ (a = Word => base >= 1)
        /\ b = IF product <= Word THEN product ELSE Word
        /\ f[n] = (f[n - 1] * base) % Word
    BY <1>3, <1>4, <1>7, <2>1
  <2>3. product \in Nat
    BY <2>2
  <2>4. b = Word => base >= 1
    <3> SUFFICES ASSUME b = Word, base = 0 PROVE FALSE
      OBVIOUS
    <3> HIDE DEF a
    <3>1. product = 0
      BY <2>2
    <3> HIDE DEF product, b
    <3> QED BY <1>5, <2>2, <3>1
  <2>5. ASSUME b < Word PROVE f[n] = b
    <3>1. a < Word
      <4> SUFFICES ASSUME a = Word PROVE FALSE
        BY <1>5, <2>2
      <4>1. 1 * Word <= base * Word
        BY <1>5, <2>2, ProductMonotone
      <4> HIDE DEF a
      <4>2. base * Word = product
        BY <1>5, <2>2
      <4> HIDE DEF product, b
      <4> QED BY <1>5, <2>2, <2>3, <2>5, <4>1, <4>2
    <3> HIDE DEF product, b
    <3>2. b = product
      BY <1>5, <2>2, <2>3, <2>5
    <3>3. f[n] = product % Word
      BY <2>2, <3>1 DEF product
    <3>4. product % Word = product
      BY <1>5, <2>3, <2>5, <3>2, ModSmall
    <3> QED BY <3>2, <3>3, <3>4
  <2>6. b <= Word
    <3> HIDE DEF product, b
    <3> QED BY <1>5, <2>2, <2>3
  <2> QED BY <2>1, <2>4, <2>5, <2>6
<1>8. N \in S
  <2> HIDE DEF S
  <2>1. \A n \in 0 .. N : n \in S
    BY <1>6, <1>7, LoopKeeps
  <2> QED BY <2>1
<1> QED BY <1>3, <1>4, <1>8

(* Each operator writes its exact result when that is a signed word.        *)
LEMMA ResultSays ==
  ASSUME NEW left \in Words, NEW right \in Words, NEW op \in Operators, op = Slash => right # 0,
         IsSigned(Exact(left, op, right))
  PROVE  SaysInteger(Result(left, op, right), Exact(left, op, right))
<1> DEFINE exact == Exact(left, op, right)
<1>1. left \in Nat /\ right \in Nat /\ Word \in Nat \ {0}
  BY WordIsPositive
<1>2. 2 * exact < Word /\ 2 * exact > -Word
  BY DEF IsSigned
<1>3. op = Plus \/ op = Minus \/ op = Times \/ op = Slash \/ op = Caret
  BY DEF Operators
<1>4. ASSUME exact \in Nat PROVE (exact % Word) = exact /\ SaysInteger(Decimal(exact), exact)
  <2> HIDE DEF exact
  <2>1. exact < Word
    BY <1>1, <1>2, <1>4
  <2>2. (exact % Word) = exact
    BY <1>1, <1>4, <2>1, ModSmall
  <2> QED BY <1>2, <1>4, <2>2, DecimalSays
<1>5. CASE op = Plus
  <2>1. exact = left + right /\ Result(left, op, right) = Decimal((left + right) % Word)
    BY <1>5 DEF Exact, Result, Plus, Minus, Times, Slash, Caret
  <2> HIDE DEF exact
  <2> QED BY <1>1, <1>4, <2>1 DEF exact
<1>6. CASE op = Times
  <2>1. exact = left * right /\ Result(left, op, right) = Decimal((left * right) % Word)
    BY <1>6 DEF Exact, Result, Plus, Minus, Times, Slash, Caret
  <2>2. exact \in Nat
    BY <1>1, <2>1
  <2> HIDE DEF exact
  <2> QED BY <1>4, <2>1, <2>2 DEF exact
<1>7. CASE op = Slash
  <2>1. exact = left \div right /\ Result(left, op, right) = Decimal(left \div right)
    BY <1>7 DEF Exact, Result, Plus, Minus, Times, Slash, Caret
  <2>2. exact \in Nat
    BY <1>1, <1>7, <2>1, DivMod
  <2> HIDE DEF exact
  <2> QED BY <1>4, <2>1, <2>2 DEF exact
<1>8. CASE op = Minus
  <2>1. /\ exact = left - right
        /\ Result(left, op, right) = IF left >= right THEN Decimal(left - right) ELSE <<Minus>> \o Decimal(right - left)
    BY <1>8 DEF Exact, Result, Plus, Minus, Times, Slash, Caret
  <2>2. CASE left >= right
    <3>1. exact \in Nat /\ Result(left, op, right) = Decimal(exact)
      BY <1>1, <2>1, <2>2
    <3> HIDE DEF exact
    <3> QED BY <1>4, <3>1 DEF exact
  <2>3. CASE ~(left >= right)
    <3> DEFINE n == right - left
    <3>1. n \in Nat /\ n > 0 /\ exact = -n /\ Result(left, op, right) = <<Minus>> \o Decimal(n)
      BY <1>1, <2>1, <2>3
    <3> HIDE DEF n, exact
    <3>2. 2 * n < Word
      BY <1>1, <1>2, <3>1
    <3>3. SaysInteger(<<Minus>> \o Decimal(n), -n)
      BY <3>1, <3>2, DecimalSays
    <3> QED BY <3>1, <3>3 DEF exact
  <2> QED BY <2>2, <2>3
<1>9. CASE op = Caret
  <2>1. exact = PowerUpTo(left, right) /\ Result(left, op, right) = Decimal(Power(left, right))
    BY <1>9 DEF Exact, Result, Plus, Minus, Times, Slash, Caret
  <2> HIDE DEF PowerUpTo, Power
  <2>2. PowerUpTo(left, right) \in Nat
    <3>1. PICK f : BoundedSteps(left, right, f)
      BY <1>1, PowerUpToBySteps
    <3> QED BY <1>1, <3>1 DEF BoundedSteps
  <2>3. PowerUpTo(left, right) < Word
    <3> HIDE DEF exact
    <3> QED BY <1>1, <1>2, <2>1, <2>2
  <2>4. Power(left, right) = exact
    <3> HIDE DEF exact
    <3> QED BY <1>1, <2>1, <2>3, PowerIsExact
  <2> HIDE DEF exact
  <2> QED BY <1>4, <2>1, <2>2, <2>4 DEF exact
<1> QED BY <1>3, <1>5, <1>6, <1>7, <1>8, <1>9

(* calc does the operation that is asked for.                               *)
LEMMA calcDoes ==
  ASSUME NEW left \in Seq(Digits), NEW right \in Seq(Digits), NEW op \in Operators,
         Value(left) < Word, Value(right) < Word,
         Asked = {Operation(DecimalValue(left), op, DecimalValue(right))}, cmd_calc
  PROVE  IF op = Slash /\ Value(right) = 0 THEN reply'.says = "division_by_zero"
         ELSE /\ reply'.says = "="
              /\ IsSigned(Exact(Value(left), op, Value(right))) =>
                   SaysInteger(reply'.shows[1], Exact(Value(left), op, Value(right)))
<1> DEFINE a == Value(left)
           b == Value(right)
           do == Operation(a, op, b)
<1>1. DecimalValue(left) = a /\ DecimalValue(right) = b
  BY ReadsWhatFits
<1>2. a \in Words /\ b \in Words
  <2>1. DecimalValue(left) \in Words /\ DecimalValue(right) \in Words
    BY DecimalValueIsWord
  <2> QED BY <1>1, <2>1
<1>3. Asked = {do}
  BY <1>1
<1> HIDE DEF a, b
<1>4. do.error = "" /\ do.left = a /\ do.op = op /\ do.right = b
  BY DEF Operation
<1> HIDE DEF do
<1>5. Calculates(do)
  <2>1. Asked # {}
    BY <1>3
  <2>2. \E x \in Asked : Calculates(x)
    BY <2>1, Zenon DEF cmd_calc
  <2> QED BY <1>3, <2>2
<1>6. CASE op = Slash /\ b = 0
  <2>1. Says("division_by_zero")
    BY <1>4, <1>5, <1>6, Zenon DEF Calculates
  <2>2. reply'.says = "division_by_zero"
    BY <2>1 DEF Says, Shows
  <2> QED BY <1>6, <2>2 DEF a, b
<1>7. CASE ~(op = Slash /\ b = 0)
  <2>1. Shows("=", <<Result(a, op, b)>>)
    BY <1>4, <1>5, <1>7, Zenon DEF Calculates
  <2>2. reply'.says = "=" /\ reply'.shows[1] = Result(a, op, b)
    BY <2>1 DEF Shows
  <2>3. IsSigned(Exact(a, op, b)) => SaysInteger(Result(a, op, b), Exact(a, op, b))
    BY <1>2, <1>7, ResultSays
  <2> QED BY <1>7, <2>2, <2>3 DEF a, b
<1> QED BY <1>6, <1>7

(* An argument of digits is read whole.                                     *)
LEMMA DigitsOnly ==
  ASSUME NEW text \in Seq(Nat), AllDigits(text)
  PROVE  text \in Seq(Digits) /\ DigitsAt(text, 1) = text /\ IsNumber(text) /\ Number(text) = DecimalValue(text)
<1> DEFINE L == Len(text)
<1>1. L \in Nat /\ text = [i \in 1 .. L |-> text[i]] /\ DOMAIN text = 1 .. L
  BY LenProperties
<1>2. text # <<>> /\ \A i \in 1 .. L : text[i] \in Digits
  BY <1>1 DEF AllDigits
<1>3. text \in Seq(Digits)
  <2>1. text \in [1 .. L -> Digits]
    BY <1>1, <1>2
  <2>2. \A k \in Nat : \A s \in [1 .. k -> Digits] : s \in Seq(Digits)
    OBVIOUS
  <2> QED BY <1>1, <2>1, <2>2
<1>4. SpanEnds(text, 1, Digits, L + 1)
  <2>1. L + 1 \in 1 .. (L + 1) /\ (L + 1) - 1 = L
    BY <1>1
  <2> QED BY <1>2, <2>1 DEF SpanEnds
<1>5. Span(text, 1, Digits) = SubSeq(text, 1, L)
  <2>1. 1 \in 1 .. (Len(text) + 1) /\ (L + 1) - 1 = L
    BY <1>1
  <2> HIDE DEF L
  <2> QED BY <1>4, <2>1, SpanTo
<1>6. SubSeq(text, 1, L) = text
  <2>1. L - 1 + 1 = L /\ \A i \in 1 .. L : 1 + i - 1 = i
    BY <1>1
  <2>2. SubSeq(text, 1, L) = [i \in 1 .. L |-> text[1 + i - 1]]
    <3> HIDE DEF L
    <3> QED BY <1>1, <2>1
  <2> HIDE DEF L
  <2>3. SubSeq(text, 1, L) = [i \in 1 .. L |-> text[i]]
    BY <2>1, <2>2
  <2> QED BY <1>1, <2>3
<1>7. DigitsAt(text, 1) = text
  BY <1>5, <1>6 DEF DigitsAt
<1> QED BY <1>2, <1>3, <1>7 DEF IsNumber, Number

(* calc answers exactly when it has found both numbers and the operator.    *)
LEMMA ExactReply ==
  ASSUME cmd_calc, NEW left \in Seq(Nat), NEW right \in Seq(Nat), NEW op,
         AllDigits(left) /\ AllDigits(right) /\ op \in Operators =>
           Asked = {Operation(DecimalValue(left), op, DecimalValue(right))}
  PROVE  AnswersExactly(reply', left, op, right)
<1>1. CASE /\ AllDigits(left) /\ AllDigits(right) /\ op \in Operators
           /\ Value(left) < Word /\ Value(right) < Word
  <2>1. left \in Seq(Digits) /\ right \in Seq(Digits)
    BY <1>1, DigitsOnly
  <2>2. Asked = {Operation(DecimalValue(left), op, DecimalValue(right))}
    BY <1>1
  <2>3. IF op = Slash /\ Value(right) = 0 THEN reply'.says = "division_by_zero"
        ELSE /\ reply'.says = "="
             /\ IsSigned(Exact(Value(left), op, Value(right))) =>
                  SaysInteger(reply'.shows[1], Exact(Value(left), op, Value(right)))
    BY <1>1, <2>1, <2>2, calcDoes
  <2> QED BY <2>3, Zenon DEF AnswersExactly
<1>2. CASE ~(/\ AllDigits(left) /\ AllDigits(right) /\ op \in Operators
             /\ Value(left) < Word /\ Value(right) < Word)
  BY <1>2, Zenon DEF AnswersExactly
<1> QED BY <1>1, <1>2

(* What stands on either side of the operator, without blanks, is a text.   *)
LEMMA TrimmedIsText ==
  ASSUME NEW text \in Seq(Nat), NEW at \in 1 .. Len(text)
  PROVE  /\ Trimmed(SubSeq(text, 1, at - 1)) \in Seq(Nat)
         /\ Trimmed(SubSeq(text, at + 1, Len(text))) \in Seq(Nat)
<1>1. /\ Len(text) \in Nat /\ 1 \in 1 .. (Len(text) + 1) /\ at - 1 \in (1 - 1) .. Len(text)
      /\ at + 1 \in 1 .. (Len(text) + 1) /\ Len(text) \in ((at + 1) - 1) .. Len(text)
  BY LenProperties
<1>2. ASSUME NEW lo \in 1 .. (Len(text) + 1), NEW hi \in (lo - 1) .. Len(text)
      PROVE  Trimmed(SubSeq(text, lo, hi)) \in Seq(Nat)
  <2>1. CASE Trimmed(SubSeq(text, lo, hi)) = <<>>
    <3>1. <<>> \in Seq(Nat)
      OBVIOUS
    <3> QED BY <2>1, <3>1
  <2>2. CASE Trimmed(SubSeq(text, lo, hi)) # <<>>
    <3>1. PICK a, b : TrimmedTo(text, lo, hi, a, b)
      BY <2>2, TrimmedIs
    <3>2. a \in lo .. hi /\ b \in a .. hi /\ Trimmed(SubSeq(text, lo, hi)) = SubSeq(text, a, b)
      BY <3>1 DEF TrimmedTo
    <3>3. \A i \in a .. b : i \in 1 .. Len(text)
      BY <1>1, <3>2
    <3>4. \A i \in a .. b : text[i] \in Nat
      BY <3>3, ElementOfSeq
    <3>5. SubSeq(text, a, b) \in Seq(Nat)
      <4>1. a \in Nat /\ b \in Nat
        BY <1>1, <3>2
      <4>2. a \in Int /\ b \in Int
        BY <4>1
      <4> QED BY <4>2, <3>4, SubSeqProperties
    <3> QED BY <3>2, <3>5
  <2> QED BY <2>1, <2>2
<1> QED BY <1>1, <1>2

(* No handler changes which command it is.                                  *)
LEMMA HandlerKeepsCommand ==
  ASSUME Handler
  PROVE  command' = command
BY DEF Handler, NoSuchCommand, cmd_help, HelpOfUnset, cmd_echo, cmd_calc, cmd_colorshell, cmd_quit,
  cmd_shutdown, cmd_halt, cmd_debug, cmd_ticks, cmd_meminfo, cmd_alloc, cmd_runtime, cmd_strlen, cmd_strcmp,
  cmd_strncmp, cmd_pageinfo, cmd_elsewhere, FaultsInMemory, Answered, Stop

(* The answer to calc comes from its handler.                               *)
LEMMA calcIsAsked ==
  ASSUME Handler, command = "calc", pc' = "answered"
  PROVE  cmd_calc
BY DEF Handler, NoSuchCommand, cmd_help, HelpOfUnset, cmd_echo, cmd_colorshell, cmd_quit,
  cmd_shutdown, cmd_halt, cmd_debug, cmd_ticks, cmd_meminfo, cmd_alloc, cmd_runtime, cmd_strlen, cmd_strcmp,
  cmd_strncmp, cmd_pageinfo, cmd_elsewhere, FaultsInMemory, Runs, Elsewhere, TakeMemory, None

(* Its handler answers exactly, in either form.                             *)
LEMMA calcAnswers ==
  ASSUME Fits, cmd_calc
  PROVE  CalcIsExact'
<1>1. UNCHANGED <<buffer, argv>>
  BY DEF cmd_calc, Answered
<1>2. argc' = argc /\ (\A i : Argument(i)' = Argument(i))
  BY <1>1, ArgumentsKept
<1>3. pc = "run"
  BY DEF cmd_calc, Runs
<1>4. Characters \subseteq Nat
  BY CharactersAreText
<1>5. ASSUME argc = 4, Len(Argument(3)) = 1
      PROVE  AnswersExactly(reply', Argument(2), Argument(3)[1], Argument(4))
  <2>1. Given(3) /\ 3 \in Nat /\ 2 \in 1 .. (3 + 1) /\ 4 \in 1 .. (3 + 1)
    BY <1>5 DEF Given
  <2>2. Argument(2) \in Seq(Characters) /\ Argument(4) \in Seq(Characters)
    BY <1>3, <2>1, GivenAre
  <2> DEFINE left == Argument(2)
             right == Argument(4)
             op == Argument(3)[1]
  <2>3. left \in Seq(Nat) /\ right \in Seq(Nat)
    BY <1>4, <2>2, SeqMonotonic
  <2>4. Asked = {ThreeArguments(left, Argument(3), right)}
    <3>1. Asked = {ThreeArguments(x, y, z) : x \in {left}, y \in {Argument(3)}, z \in {right}}
      BY <1>5 DEF Asked
    <3> QED BY <3>1
  <2>5. AllDigits(left) /\ AllDigits(right) /\ op \in Operators =>
          Asked = {Operation(DecimalValue(left), op, DecimalValue(right))}
    <3> SUFFICES ASSUME AllDigits(left), AllDigits(right), op \in Operators
                 PROVE  Asked = {Operation(DecimalValue(left), op, DecimalValue(right))}
      OBVIOUS
    <3> HIDE DEF left, right
    <3>1. IsNumber(left) /\ IsNumber(right) /\ Number(left) = DecimalValue(left) /\ Number(right) = DecimalValue(right)
      BY <2>3, DigitsOnly
    <3>2. ThreeArguments(left, Argument(3), right) = Operation(Number(left), op, Number(right))
      BY <1>5, <3>1, Zenon DEF ThreeArguments
    <3> QED BY <2>4, <3>1, <3>2
  <2> HIDE DEF left, right, op
  <2>6. AnswersExactly(reply', left, op, right)
    BY <2>3, <2>5, ExactReply
  <2> QED BY <2>6 DEF left, right, op
<1>6. ASSUME argc = 2, NEW at \in DOMAIN Argument(2),
             Len(Trimmed(SubSeq(Argument(2), 1, at - 1))) < MaxDigits
      PROVE  AnswersExactly(reply', Trimmed(SubSeq(Argument(2), 1, at - 1)), Argument(2)[at],
                            Trimmed(SubSeq(Argument(2), at + 1, Len(Argument(2)))))
  <2>1. Given(1) /\ 1 \in Nat /\ 2 \in 1 .. (1 + 1)
    BY <1>6 DEF Given
  <2>2. Argument(2) \in Seq(Characters)
    BY <1>3, <2>1, GivenAre
  <2> DEFINE text == Argument(2)
             left == Trimmed(SubSeq(text, 1, at - 1))
             right == Trimmed(SubSeq(text, at + 1, Len(text)))
             op == text[at]
  <2>3. text \in Seq(Nat)
    BY <1>4, <2>2, SeqMonotonic
  <2>4. Asked = {OneArgument(text)}
    <3>1. Asked = {OneArgument(x) : x \in {text}}
      BY <1>6 DEF Asked
    <3> QED BY <3>1
  <2>5. at \in DOMAIN text /\ Len(left) < MaxDigits
    BY <1>6
  <2> HIDE DEF text
  <2>6. at \in 1 .. Len(text) /\ Len(text) \in Nat
    BY <2>3, <2>5, LenProperties
  <2>7. left = Trimmed(SubSeq(text, 1, at - 1)) /\ right = Trimmed(SubSeq(text, at + 1, Len(text))) /\ op = text[at]
    OBVIOUS
  <2>8. left \in Seq(Nat) /\ right \in Seq(Nat)
    BY <2>3, <2>6, TrimmedIsText
  <2> HIDE DEF left, right, op
  <2>9. AllDigits(left) /\ AllDigits(right) /\ op \in Operators =>
          Asked = {Operation(DecimalValue(left), op, DecimalValue(right))}
    <3> SUFFICES ASSUME AllDigits(left), AllDigits(right), op \in Operators
                 PROVE  Asked = {Operation(DecimalValue(left), op, DecimalValue(right))}
      OBVIOUS
    <3>1. OneArgument(text) = Operation(DecimalValue(left), text[at], DecimalValue(right))
      BY <2>3, <2>5, <2>6, <2>7, OneArgumentIs
    <3> QED BY <2>4, <2>7, <3>1
  <2>10. AnswersExactly(reply', left, op, right)
    BY <2>8, <2>9, ExactReply
  <2> QED BY <2>10 DEF text, left, right, op
<1>7. CalcIsExact' = (pc' = "answered" /\ command' = "calc" =>
        /\ argc = 4 /\ Len(Argument(3)) = 1 => AnswersExactly(reply', Argument(2), Argument(3)[1], Argument(4))
        /\ argc = 2 =>
             \A at \in DOMAIN Argument(2) :
               LET left  == Trimmed(SubSeq(Argument(2), 1, at - 1))
                   right == Trimmed(SubSeq(Argument(2), at + 1, Len(Argument(2))))
               IN  Len(left) < MaxDigits => AnswersExactly(reply', left, Argument(2)[at], right))
  BY <1>2 DEF CalcIsExact
<1> QED BY <1>5, <1>6, <1>7

(* An exact answer stays so until the next prompt.                          *)
LEMMA CalcKept ==
  ASSUME Fits, CalcIsExact, [Next]_vars
  PROVE  CalcIsExact'
<1>1. CASE pc' # "answered"
  BY <1>1 DEF CalcIsExact
<1>2. CASE Handler /\ pc' = "answered"
  <2>1. CASE command' = "calc"
    <3>1. command = "calc"
      BY <1>2, <2>1, HandlerKeepsCommand
    <3> QED BY <1>2, <3>1, calcIsAsked, calcAnswers
  <2>2. CASE command' # "calc"
    BY <2>2 DEF CalcIsExact
  <2> QED BY <2>1, <2>2
<1>3. CASE UNCHANGED vars
  BY <1>3, Zenon DEF vars, CalcIsExact, Argument, argc
<1>4. CASE Tokenize \/ LookUp \/ LookUpUnset
  <2>1. pc' # "answered"
    BY <1>4 DEF Tokenize, SkipBlank, EndOfLine, OpenQuote, StartWord, InWord, Ends, Goes, LookUp, LookUpUnset, Stop
  <2> QED BY <1>1, <2>1
<1>5. CASE ShowsPrompt \/ \E typed \in Lines : Enter(typed)
  BY <1>1, <1>5 DEF ShowsPrompt, Enter
<1> QED BY <1>1, <1>2, <1>3, <1>4, <1>5 DEF Next, Work

(* calc is exact, in either form, whenever the numbers and the result fit                  *)
(* (shell_commands.c:61-192).                                                              *)
THEOREM CalcAlwaysExact == Spec => []CalcIsExact
<1>1. Init => CalcIsExact
  BY DEF Init, CalcIsExact
<1> QED BY <1>1, FitsAlways, CalcKept, PTL DEF Spec
=============================================================================
