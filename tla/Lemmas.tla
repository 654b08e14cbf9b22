------------------------------- MODULE Lemmas -------------------------------
(***************************************************************************)
(* Lemmas that the proofs of several components rest on and that the        *)
(* provers do not know: products and divisions by a number that is a        *)
(* parameter, least elements, induction and loops, two-level tables.        *)
(***************************************************************************)
EXTENDS Naturals, WellFoundedInduction, TLAPS

(* Multiplication by a constant preserves and reflects the order: page      *)
(* numbers and page addresses are ordered alike.                            *)
LEMMA ProductMonotone ==
  ASSUME NEW a \in Nat, NEW b \in Nat, NEW n \in Nat, a <= b
  PROVE  a * n <= b * n
<1> DEFINE d == b - a
<1>1. d \in Nat /\ b = a + d
  OBVIOUS
<1> HIDE DEF d
<1>2. (a + d) * n = a * n + d * n /\ d * n \in Nat /\ a * n \in Nat
  BY <1>1
<1> QED BY <1>1, <1>2

(* The converse: products are ordered only if their factors are.           *)
LEMMA ProductReflects ==
  ASSUME NEW a \in Nat, NEW b \in Nat, NEW n \in Nat, a * n < b * n
  PROVE  a < b
<1> SUFFICES ASSUME b <= a PROVE b * n <= a * n
  OBVIOUS
<1> QED BY ProductMonotone

(* A larger factor gives a larger product.                                 *)
LEMMA ProductStrict ==
  ASSUME NEW a \in Nat, NEW b \in Nat, NEW n \in Nat \ {0}, a < b
  PROVE  a * n < b * n
<1>1. (a + 1) * n <= b * n
  BY ProductMonotone
<1>2. (a + 1) * n = a * n + n /\ a * n \in Nat
  OBVIOUS
<1> QED BY <1>1, <1>2

(* What division and remainder mean.                                        *)
LEMMA DivMod ==
  ASSUME NEW a \in Nat, NEW n \in Nat \ {0}
  PROVE  /\ a \div n \in Nat
         /\ a % n \in Nat /\ a % n < n
         /\ a = (a \div n) * n + (a % n)
         /\ (a \div n) * n <= a
OBVIOUS

(* A sum that does not wrap is its own remainder.                          *)
LEMMA ModSmall ==
  ASSUME NEW a \in Nat, NEW n \in Nat \ {0}, a < n
  PROVE  a % n = a
OBVIOUS

(* Rounding down gives the multiple of the unit at or below.                *)
LEMMA RoundDown ==
  ASSUME NEW a \in Nat, NEW n \in Nat \ {0}
  PROVE  /\ a - (a % n) \in Nat
         /\ a - (a % n) <= a /\ a < a - (a % n) + n
         /\ a - (a % n) = (a \div n) * n
BY DivMod

(* Rounding up with a sum that wraps at a size gives a number below it, and  *)
(* when the sum does not wrap, one that is less than a unit above.           *)
LEMMA RoundUp ==
  ASSUME NEW a \in Nat, NEW n \in Nat \ {0}, NEW size \in Nat \ {0}
  PROVE  LET sum == (a + n - 1) % size
             up == sum - (sum % n)
         IN  /\ up \in 0 .. (size - 1)
             /\ a + n <= size => a <= up /\ up < a + n
<1> DEFINE last == a + n - 1
           sum == last % size
           up == sum - (sum % n)
<1>1. last \in Nat /\ (a + n <= size => last < size)
  OBVIOUS
<1>2. sum \in Nat /\ sum < size /\ (last < size => sum = last)
  <2> HIDE DEF last
  <2> QED BY <1>1, DivMod, ModSmall
<1>3. sum % n \in Nat /\ sum % n < n /\ up \in Nat /\ up <= sum
  <2> HIDE DEF sum
  <2> QED BY <1>2, DivMod
<1>4. up \in 0 .. (size - 1)
  <2> HIDE DEF sum, up
  <2> QED BY <1>2, <1>3
<1>5. a + n <= size => a <= up /\ up < a + n
  <2> HIDE DEF sum
  <2> QED BY <1>1, <1>2, <1>3
<1> QED BY <1>4, <1>5

LEMMA ShorterRange ==
  ASSUME NEW lo \in Nat, NEW m \in Nat, NEW n \in Nat, m <= n
  PROVE  lo .. (m - 1) \subseteq lo .. (n - 1)
OBVIOUS

(* The order of the naturals as a relation.                                 *)
Less == OpToRel(<, Nat)

(* A non-empty set of naturals has a least element.                         *)
LEMMA LeastNatural ==
  ASSUME NEW S \in SUBSET Nat, S # {}
  PROVE  \E x \in S : \A y \in S : x <= y
<1>1. Less = {ss \in Nat \X Nat : ss[1] < ss[2]}
  BY Zenon DEF Less, OpToRel
<1>2. IsWellFoundedOn(Less, Nat)
  BY NatLessThanWellFounded DEF Less
<1>3. PICK x \in S : \A y \in S : <<y, x>> \notin Less
  BY <1>2, WFMin
<1>4. \A y \in S : <<y, x>> \in Less <=> y < x
  BY <1>1
<1>5. \A y \in S : ~ (y < x)
  BY <1>3, <1>4, Zenon
<1>6. \A y \in S : y \in Nat /\ x \in Nat
  OBVIOUS
<1> QED BY <1>5, <1>6

(* A number in mixed radix has one quotient and one remainder.              *)
LEMMA QuotientAndRest ==
  ASSUME NEW q \in Nat, NEW r \in Nat, NEW n \in Nat \ {0}, r < n
  PROVE  (q * n + r) \div n = q /\ (q * n + r) % n = r
<1> DEFINE a == q * n + r
           p == a \div n
           s == a % n
<1>1. q * n \in Nat /\ a \in Nat /\ a = q * n + r
  OBVIOUS
<1>2. p \in Nat /\ s \in Nat /\ s < n /\ a = p * n + s
  <2> HIDE DEF a
  <2> QED BY <1>1, DivMod
<1> HIDE DEF a, p, s
<1>3. ~(p < q)
  <2> SUFFICES ASSUME p < q PROVE FALSE
    OBVIOUS
  <2>1. (p + 1) * n <= q * n /\ (p + 1) * n = p * n + n
    BY <1>2, ProductMonotone
  <2> QED BY <1>1, <1>2, <2>1
<1>4. ~(q < p)
  <2> SUFFICES ASSUME q < p PROVE FALSE
    OBVIOUS
  <2>1. (q + 1) * n <= p * n /\ (q + 1) * n = q * n + n
    BY <1>2, ProductMonotone
  <2> QED BY <1>1, <1>2, <2>1
<1>5. p = q
  BY <1>2, <1>3, <1>4
<1>6. s = r
  BY <1>1, <1>2, <1>5
<1> QED BY <1>5, <1>6 DEF a, p, s

(* A number below a product has a quotient and a remainder of its own.      *)
LEMMA QuotientInRange ==
  ASSUME NEW size \in Nat, NEW n \in Nat \ {0}, NEW a \in 0 .. (size * n - 1)
  PROVE  /\ a \in Nat /\ a \div n \in 0 .. (size - 1) /\ a % n \in 0 .. (n - 1)
         /\ a = (a \div n) * n + (a % n)
<1> DEFINE q == a \div n
           r == a % n
<1>1. a \in Nat /\ a < size * n
  BY DivMod
<1>2. q \in Nat /\ r \in Nat /\ r < n /\ a = q * n + r /\ q * n <= a
  BY <1>1, DivMod
<1> HIDE DEF q, r
<1>3. q < size
  BY <1>1, <1>2, ProductReflects
<1> QED BY <1>1, <1>2, <1>3 DEF q, r

(* The converse: quotient and remainder make a number below the product.    *)
LEMMA PlaceInRange ==
  ASSUME NEW size \in Nat, NEW n \in Nat \ {0}, NEW q \in 0 .. (size - 1), NEW r \in 0 .. (n - 1)
  PROVE  q * n + r \in 0 .. (size * n - 1) /\ (q * n + r) \div n = q /\ (q * n + r) % n = r
<1>1. (q + 1) * n <= size * n
  BY ProductMonotone
<1>2. (q + 1) * n = q * n + n /\ q * n \in Nat /\ size * n \in Nat
  OBVIOUS
<1>3. q * n + r \in 0 .. (size * n - 1)
  BY <1>1, <1>2
<1> QED BY <1>3, QuotientAndRest

(* What stands a whole unit behind a place has a larger quotient.           *)
LEMMA QuotientBeyond ==
  ASSUME NEW q \in Nat, NEW n \in Nat \ {0}, NEW r \in Nat, n <= r
  PROVE  (q * n + r) \div n > q
<1> DEFINE a == q * n + r
           p == a \div n
<1>1. q * n \in Nat /\ a \in Nat /\ a = q * n + r /\ (q + 1) * n = q * n + n
  OBVIOUS
<1>2. p \in Nat /\ a % n < n /\ a % n \in Nat /\ a = p * n + (a % n)
  <2> HIDE DEF a
  <2> QED BY <1>1, DivMod
<1> SUFFICES ASSUME p <= q PROVE FALSE
  BY <1>2
<1> HIDE DEF a, p
<1>3. p * n <= q * n /\ p * n \in Nat
  BY <1>2, ProductMonotone
<1> QED BY <1>1, <1>2, <1>3

(* A product is divided exactly.                                           *)
LEMMA QuotientOfProduct ==
  ASSUME NEW q \in Nat, NEW n \in Nat \ {0}
  PROVE  (q * n) \div n = q
<1>1. (q * n + 0) \div n = q
  BY QuotientAndRest
<1> QED BY <1>1

(* A quotient counts the whole units that fit.                              *)
LEMMA WholeUnits ==
  ASSUME NEW a \in Nat, NEW n \in Nat \ {0}, NEW k \in Nat
  PROVE  k < a \div n <=> (k + 1) * n <= a
<1> DEFINE q == a \div n
<1>1. q \in Nat /\ a % n \in Nat /\ a % n < n /\ a = q * n + (a % n)
  BY DivMod
<1> HIDE DEF q
<1>2. (k + 1) * n \in Nat /\ q * n \in Nat /\ (q + 1) * n = q * n + n
  BY <1>1
<1>3. ASSUME k < q PROVE (k + 1) * n <= a
  <2>1. (k + 1) * n <= q * n
    BY <1>1, <1>3, ProductMonotone
  <2> QED BY <1>1, <1>2, <2>1
<1>4. ASSUME (k + 1) * n <= a PROVE k < q
  <2>1. (k + 1) * n < (q + 1) * n
    BY <1>1, <1>2, <1>4
  <2>2. k + 1 < q + 1
    BY <1>1, <2>1, ProductReflects
  <2> QED BY <1>1, <2>2
<1> QED BY <1>3, <1>4 DEF q

(* Induction, for a set of naturals.                                        *)
LEMMA Induction ==
  ASSUME NEW S, 0 \in S, \A n \in Nat : n \in S => n + 1 \in S
  PROVE  \A n \in Nat : n \in S
<1> DEFINE bad == {n \in Nat : n \notin S}
<1>1. SUFFICES ASSUME bad # {} PROVE FALSE
  OBVIOUS
<1>2. PICK least \in bad : \A n \in bad : least <= n
  <2>1. bad \in SUBSET Nat
    OBVIOUS
  <2> HIDE DEF bad
  <2> QED BY <1>1, <2>1, LeastNatural
<1>3. least \in Nat /\ least # 0 /\ least - 1 \in Nat /\ (least - 1) + 1 = least /\ ~(least <= least - 1)
  BY <1>2
<1>4. least - 1 \notin bad
  BY <1>2, <1>3
<1>5. least - 1 \in S
  BY <1>3, <1>4
<1> QED BY <1>2, <1>3, <1>5

(* A loop over 1 .. N whose steps are functions on X has a history.         *)
LoopHistory(X, base, N, step, after) ==
  /\ after \in [0 .. N -> X] /\ after[0] = base
  /\ \A n \in 1 .. N : after[n] = step[n][after[n - 1]]

LEMMA LoopRuns ==
  ASSUME NEW X, NEW base \in X, NEW N \in Nat, NEW step \in [1 .. N -> [X -> X]]
  PROVE  \E after : LoopHistory(X, base, N, step, after)
<1> DEFINE Runs(g, n) == /\ g \in [0 .. n -> X] /\ g[0] = base
                         /\ \A m \in 1 .. n : g[m] = step[m][g[m - 1]]
           S == {n \in Nat : n <= N => \E g : Runs(g, n)}
<1>1. 0 \in S
  <2>1. Runs([m \in 0 .. 0 |-> base], 0)
    OBVIOUS
  <2> QED BY <2>1
<1>2. \A n \in Nat : n \in S => n + 1 \in S
  <2> SUFFICES ASSUME NEW n \in Nat, n \in S, n + 1 <= N PROVE \E g : Runs(g, n + 1)
    BY SMTT(30)
  <2>0. /\ n \in 0 .. n /\ n + 1 \in 1 .. N /\ n + 1 # 0 /\ (n + 1) - 1 = n /\ n # n + 1
        /\ n <= N /\ n + 1 \in 0 .. (n + 1) /\ 0 \in 0 .. n /\ 0 \in 0 .. (n + 1)
        /\ \A m \in 0 .. (n + 1) : m # n + 1 => m \in 0 .. n
        /\ \A m \in 0 .. n : m # n + 1 /\ m \in 0 .. (n + 1)
        /\ \A m \in 1 .. (n + 1) : m # n + 1 => m \in 1 .. n /\ m \in 0 .. n /\ m - 1 \in 0 .. n
    <3> HIDE DEF S, Runs
    <3> QED OBVIOUS
  <2>1. PICK g : Runs(g, n)
    BY <2>0
  <2> DEFINE next == step[n + 1][g[n]]
             h == [m \in 0 .. (n + 1) |-> IF m = n + 1 THEN next ELSE g[m]]
  <2>2. g \in [0 .. n -> X] /\ g[0] = base /\ \A m \in 1 .. n : g[m] = step[m][g[m - 1]]
    BY <2>1
  <2>3. next \in X
    BY <2>0, <2>2
  <2>4. h \in [0 .. (n + 1) -> X]
    <3> HIDE DEF next, S, Runs
    <3> QED BY <2>0, <2>2, <2>3, Zenon
  <2>5. h[n + 1] = next /\ \A m \in 0 .. n : h[m] = g[m]
    <3> HIDE DEF next, S, Runs
    <3> QED BY <2>0, Zenon
  <2> HIDE DEF h
  <2>6. h[0] = base
    BY <2>0, <2>2, <2>5, Zenon
  <2>7. ASSUME NEW m \in 1 .. (n + 1) PROVE h[m] = step[m][h[m - 1]]
    <3> HIDE DEF S, Runs
    <3>1. CASE m = n + 1
      <4>1. h[m] = step[m][g[n]] /\ h[m - 1] = g[n]
        BY <2>0, <2>5, <3>1, Zenon
      <4> QED BY <4>1
    <3>2. CASE m # n + 1
      <4>1. h[m] = g[m] /\ h[m - 1] = g[m - 1] /\ g[m] = step[m][g[m - 1]]
        BY <2>0, <2>2, <2>5, <3>2, Zenon
      <4> QED BY <4>1
    <3> QED BY <3>1, <3>2
  <2> QED BY <2>4, <2>6, <2>7
<1>3. \A n \in Nat : n \in S
  <2> HIDE DEF S
  <2> QED BY <1>1, <1>2, Induction
<1> QED BY <1>3 DEF LoopHistory

(* What holds at the start of such a history and through each of its steps. *)
LEMMA LoopKeeps ==
  ASSUME NEW N \in Nat, NEW S, 0 \in S, \A n \in 1 .. N : n - 1 \in S => n \in S
  PROVE  \A n \in 0 .. N : n \in S
<1> DEFINE T == {n \in Nat : n <= N => n \in S}
<1>1. 0 \in T
  OBVIOUS
<1>2. ASSUME NEW n \in Nat, n \in T PROVE n + 1 \in T
  <2> SUFFICES ASSUME n + 1 <= N PROVE n + 1 \in S
    OBVIOUS
  <2>1. n + 1 \in 1 .. N /\ (n + 1) - 1 = n /\ n <= N
    OBVIOUS
  <2> QED BY <1>2, <2>1
<1>3. \A n \in Nat : n \in T
  <2> HIDE DEF T
  <2> QED BY <1>1, <1>2, Induction
<1> QED BY <1>3

(* A function that follows such steps as long as it stays in X does.        *)
Follows(X, base, N, step, f) ==
  /\ f = [n \in 0 .. N |-> f[n]] /\ f[0] = base
  /\ \A n \in 1 .. N : f[n - 1] \in X => f[n] = step[n][f[n - 1]]

LEMMA LoopIs ==
  ASSUME NEW X, NEW base \in X, NEW N \in Nat, NEW step \in [1 .. N -> [X -> X]], NEW f,
         Follows(X, base, N, step, f)
  PROVE  LoopHistory(X, base, N, step, f)
<1>1. PICK g : LoopHistory(X, base, N, step, g)
  BY LoopRuns
<1>2. /\ g \in [0 .. N -> X] /\ g[0] = base /\ \A n \in 1 .. N : g[n] = step[n][g[n - 1]]
      /\ \A n \in 1 .. N : n - 1 \in 0 .. N
  BY <1>1 DEF LoopHistory
<1>3. f = [n \in 0 .. N |-> f[n]] /\ f[0] = base /\ \A n \in 1 .. N : f[n - 1] \in X => f[n] = step[n][f[n - 1]]
  BY DEF Follows
<1>4. \A n \in 1 .. N : f[n - 1] = g[n - 1] => f[n] = g[n]
  BY <1>2, <1>3
<1>5. \A n \in 0 .. N : f[n] = g[n]
  <2> DEFINE S == {n \in 0 .. N : f[n] = g[n]}
  <2>1. 0 \in S
    BY <1>2, <1>3
  <2>2. ASSUME NEW n \in 1 .. N, n - 1 \in S PROVE n \in S
    BY <1>4, <2>2
  <2>3. \A n \in 0 .. N : n \in S
    <3> HIDE DEF S
    <3> QED BY <2>1, <2>2, LoopKeeps
  <2> QED BY <2>3
<1>6. f = g
  BY <1>2, <1>3, <1>5
<1> QED BY <1>1, <1>6

-----------------------------------------------------------------------------
(* Recursion along a rank.                                                  *)

(* Whatever passes from all lower ranks to a place holds everywhere.        *)
LEMMA RankInduction ==
  ASSUME NEW D, NEW rank \in [D -> Nat], NEW S,
         \A d \in D : (\A e \in D : rank[e] < rank[d] => e \in S) => d \in S
  PROVE  \A d \in D : d \in S
<1> DEFINE L == {n \in Nat : \A d \in D : rank[d] < n => d \in S}
<1>1. 0 \in L
  <2>1. \A d \in D : ~(rank[d] < 0)
    OBVIOUS
  <2> QED BY <2>1
<1>2. ASSUME NEW n \in Nat, n \in L PROVE n + 1 \in L
  <2> SUFFICES ASSUME NEW d \in D, rank[d] < n + 1 PROVE d \in S
    OBVIOUS
  <2>1. \A e \in D : rank[e] \in Nat /\ rank[d] \in Nat
    OBVIOUS
  <2>2. \A e \in D : rank[e] < rank[d] => rank[e] < n
    BY <2>1
  <2>3. \A e \in D : rank[e] < rank[d] => e \in S
    BY <1>2, <2>2
  <2> QED BY <2>3
<1>3. \A n \in Nat : n \in L
  <2> HIDE DEF L
  <2> QED BY <1>1, <1>2, Induction
<1>4. \A d \in D : rank[d] + 1 \in Nat /\ rank[d] < rank[d] + 1
  OBVIOUS
<1> QED BY <1>3, <1>4

(* A function whose value at each place is made of its values at places of  *)
(* lower rank is defined, one rank after the other.                         *)
DefinedByRank(X, D, step, f) == f \in [D -> X] /\ \A d \in D : f[d] = step[d][f]

MadeOfLower(X, D, rank, step) ==
  \A d \in D : \A f, g \in [D -> X] :
    (\A e \in D : rank[e] < rank[d] => f[e] = g[e]) => step[d][f] = step[d][g]

LEMMA RecursionByRank ==
  ASSUME NEW X, X # {}, NEW D, NEW rank \in [D -> Nat], NEW N \in Nat, \A d \in D : rank[d] < N,
         NEW step \in [D -> [[D -> X] -> X]], MadeOfLower(X, D, rank, step)
  PROVE  \E f : DefinedByRank(X, D, step, f)
<1> DEFINE F == [D -> X]
           Done(f, n) == f \in F /\ \A d \in D : rank[d] < n => f[d] = step[d][f]
           S == {n \in Nat : \E f : Done(f, n)}
<1>1. 0 \in S
  <2>1. PICK x \in X : TRUE
    OBVIOUS
  <2>2. [d \in D |-> x] \in F
    OBVIOUS
  <2>3. \A d \in D : ~(rank[d] < 0)
    OBVIOUS
  <2>4. Done([d \in D |-> x], 0)
    <3> HIDE DEF F
    <3> QED BY <2>2, <2>3
  <2> QED BY <2>4
<1>2. ASSUME NEW n \in Nat, n \in S PROVE n + 1 \in S
  <2>1. PICK f : Done(f, n)
    BY <1>2
  <2> DEFINE g == [d \in D |-> IF rank[d] < n THEN f[d] ELSE step[d][f]]
  <2>2. f \in F /\ (\A d \in D : step[d][f] \in X) /\ \A d \in D : rank[d] < n => f[d] = step[d][f]
    BY <2>1
  <2>3. g \in F /\ \A d \in D : g[d] = IF rank[d] < n THEN f[d] ELSE step[d][f]
    <3> HIDE DEF S, Done
    <3> QED BY <2>2
  <2> HIDE DEF g
  <2>4. ASSUME NEW d \in D, rank[d] < n + 1 PROVE g[d] = step[d][g]
    <3>1. \A e \in D : rank[e] \in Nat /\ rank[d] \in Nat
      OBVIOUS
    <3>2. \A e \in D : rank[e] < rank[d] => rank[e] < n
      BY <2>4, <3>1
    <3>3. \A e \in D : rank[e] < rank[d] => g[e] = f[e]
      BY <2>3, <3>2
    <3>4. f \in [D -> X] /\ g \in [D -> X]
      BY <2>2, <2>3
    <3>5. step[d][g] = step[d][f]
      BY <3>3, <3>4 DEF MadeOfLower
    <3> QED BY <2>2, <2>3, <3>5
  <2>5. Done(g, n + 1)
    BY <2>3, <2>4
  <2> QED BY <2>5
<1>3. \A n \in Nat : n \in S
  <2> HIDE DEF S
  <2> QED BY <1>1, <1>2, Induction
<1>4. PICK f : Done(f, N)
  <2>1. N \in S
    <3> HIDE DEF S
    <3> QED BY <1>3
  <2> HIDE DEF Done
  <2> QED BY <2>1
<1> QED BY <1>4 DEF DefinedByRank

-----------------------------------------------------------------------------
(* Two-level tables: an entry of the upper level names a lower table, or    *)
(* none.                                                                   *)

Lookup(top, tables, none, i, j) == IF top[i] = none THEN none ELSE tables[top[i]][j]

(* Writing one entry of a table that is named once changes what is found in *)
(* one place.                                                              *)
LEMMA LookupAfterWrite ==
  ASSUME NEW top, NEW tables, NEW none, NEW value, NEW i, NEW j, NEW k, NEW l,
         top[i] # none, top[i] \in DOMAIN tables, j \in DOMAIN tables[top[i]],
         top[k] = top[i] => k = i
  PROVE  LET after == [tables EXCEPT ![top[i]][j] = value]
         IN  Lookup(top, after, none, k, l) =
               IF k = i /\ l = j THEN value ELSE Lookup(top, tables, none, k, l)
<1> DEFINE after == [tables EXCEPT ![top[i]][j] = value]
<1>1. after[top[i]] = [tables[top[i]] EXCEPT ![j] = value]
  OBVIOUS
<1>2. CASE k = i
  BY <1>1, <1>2 DEF Lookup
<1>3. CASE k # i
  <2>1. after[top[k]] = tables[top[k]]
    BY <1>3
  <2> QED BY <1>3, <2>1 DEF Lookup
<1> QED BY <1>2, <1>3

(* Adding a table with one entry where there was none changes what is found *)
(* in one place, whatever stood where the table is put.                     *)
LEMMA LookupAfterTable ==
  ASSUME NEW top, NEW tables, NEW none, NEW value, NEW i, NEW j, NEW k, NEW l,
         NEW S, NEW table, NEW after, NEW topAfter,
         table # none, j \in S, l \in S, top[i] = none, topAfter[i] = table,
         after = [t \in DOMAIN tables \cup {table} |->
                    IF t = table THEN [s \in S |-> none] ELSE tables[t]],
         k # i => topAfter[k] = top[k],
         top[k] # none => top[k] \in DOMAIN tables /\ top[k] # table
  PROVE  Lookup(topAfter, [after EXCEPT ![table][j] = value], none, k, l) =
           IF k = i /\ l = j THEN value ELSE Lookup(top, tables, none, k, l)
<1> DEFINE written == [after EXCEPT ![table][j] = value]
<1>1. written[table] = [[s \in S |-> none] EXCEPT ![j] = value]
  OBVIOUS
<1>2. \A t \in DOMAIN tables : t # table => written[t] = tables[t]
  OBVIOUS
<1> HIDE DEF written
<1>3. CASE k = i
  <2>1. written[table][l] = IF l = j THEN value ELSE none
    BY <1>1
  <2> QED BY <1>3, <2>1 DEF Lookup, written
<1>4. CASE k # i
  <2>1. CASE top[k] = none
    BY <1>4, <2>1 DEF Lookup, written
  <2>2. CASE top[k] # none
    BY <1>2, <1>4, <2>2 DEF Lookup, written
  <2> QED BY <2>1, <2>2
<1> QED BY <1>3, <1>4
=============================================================================
