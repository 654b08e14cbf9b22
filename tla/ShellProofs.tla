----------------------------- MODULE ShellProofs ----------------------------
(***************************************************************************)
(* Theorems about the line editor, for every size of the line and of the   *)
(* history, every alphabet and every screen: the line is always a C string *)
(* that fits its array, the keys edit it as LineEditing promises, and the   *)
(* screen shows it.  The loops of terminal.c are handled as the history of *)
(* their states (LoopRuns of Lemmas).                                  *)
(***************************************************************************)
EXTENDS Shell, Lemmas, SequenceTheorems

(* The first n characters of an array, and what makes them a C string.      *)
LineOf(array, n) == [i \in 1 .. n |-> array[i - 1]]

LineHolds(array, n, place) ==
  /\ array \in Buffers /\ n \in Positions /\ place \in 0 .. n
  /\ array[n] = Nul /\ \A i \in 0 .. (n - 1) : array[i] # Nul

LEMMA SizeFacts ==
  /\ BufferSize \in Nat /\ BufferSize >= 2 /\ HistorySize \in Nat /\ HistorySize >= 1
  /\ Positions = 0 .. (BufferSize - 1) /\ Slots = 0 .. (HistorySize - 1)
  /\ Nul \notin Chars /\ 0 \in Positions
BY ShellAssumption DEF Positions, Slots

LEMMA TextFacts ==
  ASSUME NEW text \in Text
  PROVE  /\ text \in Seq(Chars) /\ Len(text) \in Positions /\ Len(text) \in Nat
         /\ text = [i \in 1 .. Len(text) |-> text[i]]
         /\ \A i \in 1 .. Len(text) : text[i] \in Chars
<1>1. PICK n \in Positions : text \in [1 .. n -> Chars]
  BY DEF Text
<1>2. n \in Nat
  BY SizeFacts
<1>3. text \in Seq(Chars) /\ Len(text) = n
  BY <1>1, <1>2
<1> QED BY <1>1, <1>2, <1>3

LEMMA LineIsText ==
  ASSUME NEW array, NEW n, NEW place, LineHolds(array, n, place)
  PROVE  LineOf(array, n) \in Text /\ Len(LineOf(array, n)) = n /\ LineOf(array, n) \in Seq(Chars)
<1>1. /\ array \in [Positions -> Chars \cup {Nul}] /\ n \in Positions /\ n \in Nat
      /\ \A i \in 0 .. (n - 1) : array[i] # Nul
  BY SizeFacts DEF LineHolds, Buffers
<1>2. \A i \in 1 .. n : i - 1 \in Positions /\ i - 1 \in 0 .. (n - 1)
  BY <1>1, SizeFacts
<1>3. \A i \in 1 .. n : array[i - 1] \in Chars
  BY <1>1, <1>2
<1>4. LineOf(array, n) \in [1 .. n -> Chars]
  BY <1>3 DEF LineOf
<1> QED BY <1>1, <1>4 DEF Text

(* strlen finds the terminator of the line.                                 *)
LEMMA StringFound ==
  ASSUME NEW array, NEW n, NEW place, LineHolds(array, n, place)
  PROVE  StringIn(array) = LineOf(array, n)
<1> DEFINE ends == {i \in Positions : array[i] = Nul}
<1>1. n \in ends /\ \A i \in ends : i \in Nat /\ n <= i /\ n \in Nat
  BY SizeFacts DEF LineHolds
<1>2. \A m \in ends : (\A i \in ends : m <= i) => m = n
  BY <1>1
<1>3. Min(ends) = n
  BY <1>1, <1>2, Zenon DEF Min
<1> QED BY <1>3 DEF StringIn, LineOf

-----------------------------------------------------------------------------
(* The loops over shell_buffer.                                             *)

(* shell_insert_char moves the rest of the line with its terminator.        *)
LEMMA InsertedHolds ==
  ASSUME LineHolds(buffer, length, cursor), length < BufferSize - 1, NEW char \in Chars
  PROVE  /\ LineHolds(Inserted(char), length + 1, cursor + 1)
         /\ LineOf(Inserted(char), length + 1) = InsertAt(LineOf(buffer, length), cursor + 1, char)
<1> DEFINE new == Inserted(char)
           line == LineOf(buffer, length)
<1>1. /\ buffer \in [Positions -> Chars \cup {Nul}] /\ length \in Nat /\ cursor \in Nat
      /\ length \in Positions /\ cursor <= length /\ length + 1 \in Positions
      /\ buffer[length] = Nul /\ \A i \in 0 .. (length - 1) : buffer[i] # Nul
  BY SizeFacts DEF LineHolds, Buffers
<1>2. /\ \A i \in 0 .. (length + 1) : i \in Positions
      /\ \A i \in Positions : i \in (cursor + 1) .. (length + 1) => i - 1 \in Positions
  BY <1>1, SizeFacts
<1>3. \A i \in Positions : new[i] = IF i = cursor THEN char
                                    ELSE IF i \in (cursor + 1) .. (length + 1) THEN buffer[i - 1] ELSE buffer[i]
  BY DEF Inserted
<1>4. new \in Buffers
  <2>1. \A i \in Positions : (IF i = cursor THEN char
           ELSE IF i \in (cursor + 1) .. (length + 1) THEN buffer[i - 1] ELSE buffer[i]) \in Chars \cup {Nul}
    BY <1>1, <1>2
  <2> QED BY <2>1 DEF Inserted, Buffers
<1>5. new[length + 1] = Nul
  <2>1. length + 1 # cursor /\ length + 1 \in (cursor + 1) .. (length + 1) /\ (length + 1) - 1 = length
    BY <1>1
  <2> QED BY <1>1, <1>3, <2>1
<1>6. \A i \in 0 .. length : new[i] # Nul
  <2> SUFFICES ASSUME NEW i \in 0 .. length PROVE new[i] # Nul
    OBVIOUS
  <2>1. i \in Positions
    BY <1>1, <1>2
  <2>2. CASE i = cursor
    BY <1>3, <2>1, <2>2, SizeFacts
  <2>3. CASE i < cursor
    <3>1. i \notin (cursor + 1) .. (length + 1) /\ i # cursor /\ i \in 0 .. (length - 1)
      BY <1>1, <2>3
    <3> QED BY <1>1, <1>3, <2>1, <3>1
  <2>4. CASE i > cursor
    <3>1. i \in (cursor + 1) .. (length + 1) /\ i # cursor /\ i - 1 \in 0 .. (length - 1)
      BY <1>1, <2>4
    <3> QED BY <1>1, <1>3, <2>1, <3>1
  <2> QED BY <1>1, <2>2, <2>3, <2>4
<1>7. LineHolds(new, length + 1, cursor + 1)
  <2>1. (length + 1) - 1 = length /\ cursor + 1 \in 0 .. (length + 1)
    BY <1>1
  <2> HIDE DEF new
  <2> QED BY <1>1, <1>4, <1>5, <1>6, <2>1 DEF LineHolds
<1>8. LineOf(new, length + 1) = InsertAt(line, cursor + 1, char)
  <2> DEFINE head == SubSeq(line, 1, (cursor + 1) - 1)
             tail == SubSeq(line, cursor + 1, Len(line))
  <2>1. line \in Seq(Chars) /\ Len(line) = length /\ \A i \in 1 .. length : line[i] = buffer[i - 1] /\ line[i] \in Chars
    <3>1. line \in Seq(Chars) /\ Len(line) = length
      BY LineIsText
    <3> QED BY <3>1, ElementOfSeq DEF LineOf
  <2> HIDE DEF line, new
  <2>2. head \in Seq(Chars) /\ Len(head) = cursor /\ \A i \in 1 .. cursor : head[i] = line[i]
    <3>1. (cursor + 1) - 1 = cursor /\ \A i \in 1 .. cursor : line[i] \in Chars
      BY <1>1, <2>1
    <3>2. /\ SubSeq(line, 1, cursor) \in Seq(Chars)
          /\ Len(SubSeq(line, 1, cursor)) = IF 1 <= cursor THEN cursor - 1 + 1 ELSE 0
          /\ \A i \in 1 .. cursor - 1 + 1 : SubSeq(line, 1, cursor)[i] = line[1 + i - 1]
      BY <1>1, <3>1, SubSeqProperties
    <3> QED BY <1>1, <3>1, <3>2
  <2>3. tail \in Seq(Chars) /\ Len(tail) = length - cursor /\ \A i \in 1 .. (length - cursor) : tail[i] = line[cursor + i]
    <3>1. \A i \in (cursor + 1) .. length : line[i] \in Chars
      BY <1>1, <2>1
    <3>2. /\ SubSeq(line, cursor + 1, length) \in Seq(Chars)
          /\ Len(SubSeq(line, cursor + 1, length)) = IF cursor + 1 <= length THEN length - (cursor + 1) + 1 ELSE 0
          /\ \A i \in 1 .. length - (cursor + 1) + 1 : SubSeq(line, cursor + 1, length)[i] = line[(cursor + 1) + i - 1]
      BY <1>1, <3>1, SubSeqProperties
    <3>3. length - (cursor + 1) + 1 = length - cursor /\ \A i \in Nat : (cursor + 1) + i - 1 = cursor + i
      BY <1>1
    <3> QED BY <1>1, <2>1, <3>2, <3>3
  <2>4. InsertAt(line, cursor + 1, char) = head \o <<char>> \o tail
    BY DEF InsertAt
  <2> HIDE DEF head, tail
  <2> DEFINE front == head \o <<char>>
  <2>5. <<char>> \in Seq(Chars) /\ Len(<<char>>) = 1 /\ <<char>>[1] = char
    OBVIOUS
  <2>6. /\ front \in Seq(Chars) /\ Len(front) = cursor + 1
        /\ \A i \in 1 .. (cursor + 1) : front[i] = IF i <= cursor THEN line[i] ELSE char
    <3>1. /\ front \in Seq(Chars) /\ Len(front) = Len(head) + Len(<<char>>)
          /\ \A i \in 1 .. Len(head) + Len(<<char>>) :
               front[i] = IF i <= Len(head) THEN head[i] ELSE <<char>>[i - Len(head)]
      BY <2>2, <2>5, ConcatProperties
    <3> QED BY <1>1, <2>2, <2>5, <3>1
  <2> HIDE DEF front
  <2>7. /\ front \o tail \in Seq(Chars) /\ Len(front \o tail) = length + 1
        /\ \A i \in 1 .. (length + 1) : (front \o tail)[i] = IF i <= cursor + 1 THEN front[i] ELSE tail[i - (cursor + 1)]
    <3>1. /\ front \o tail \in Seq(Chars) /\ Len(front \o tail) = Len(front) + Len(tail)
          /\ \A i \in 1 .. Len(front) + Len(tail) :
               (front \o tail)[i] = IF i <= Len(front) THEN front[i] ELSE tail[i - Len(front)]
      BY <2>3, <2>6, ConcatProperties
    <3> QED BY <1>1, <2>3, <2>6, <3>1
  <2>8. LineOf(new, length + 1) \in Seq(Chars) /\ Len(LineOf(new, length + 1)) = length + 1
    BY <1>7, LineIsText
  <2>9. ASSUME NEW i \in 1 .. (length + 1) PROVE LineOf(new, length + 1)[i] = (front \o tail)[i]
    <3>1. LineOf(new, length + 1)[i] = new[i - 1] /\ i - 1 \in Positions
      BY <1>1, <1>2 DEF LineOf
    <3>2. CASE i <= cursor
      <4>1. i - 1 # cursor /\ i - 1 \notin (cursor + 1) .. (length + 1) /\ i \in 1 .. length /\ i <= cursor + 1
        BY <1>1, <3>2
      <4>2. new[i - 1] = line[i]
        BY <1>3, <2>1, <3>1, <4>1
      <4>3. i \in 1 .. (cursor + 1)
        BY <1>1, <3>2
      <4> QED BY <2>6, <2>7, <3>1, <3>2, <4>1, <4>2, <4>3
    <3>3. CASE i = cursor + 1
      <4>1. i - 1 = cursor /\ i \in 1 .. (cursor + 1) /\ i <= cursor + 1 /\ ~(i <= cursor)
        BY <1>1, <3>3
      <4> QED BY <1>3, <2>6, <2>7, <3>1, <4>1
    <3>4. CASE i > cursor + 1
      <4>1. /\ i - 1 # cursor /\ i - 1 \in (cursor + 1) .. (length + 1) /\ ~(i <= cursor + 1)
            /\ i - (cursor + 1) \in 1 .. (length - cursor) /\ cursor + (i - (cursor + 1)) = i - 1
            /\ i - 1 \in 1 .. length /\ (i - 1) - 1 = i - 2
        BY <1>1, <3>4
      <4>2. new[i - 1] = buffer[(i - 1) - 1]
        BY <1>3, <3>1, <4>1
      <4>3. tail[i - (cursor + 1)] = line[i - 1]
        BY <2>3, <4>1
      <4> QED BY <2>1, <2>7, <3>1, <4>1, <4>2, <4>3
    <3>5. i <= cursor \/ i = cursor + 1 \/ i > cursor + 1
      BY <1>1
    <3> QED BY <3>2, <3>3, <3>4, <3>5
  <2>10. LineOf(new, length + 1) = front \o tail
    BY <2>7, <2>8, <2>9, SeqEqual
  <2> QED BY <2>4, <2>10 DEF front
<1> QED BY <1>7, <1>8

(* shell_backspace and shell_delete_forward close the gap, terminator and all. *)
LEMMA RemovedHolds ==
  ASSUME LineHolds(buffer, length, cursor), NEW position \in 0 .. (length - 1), NEW place \in 0 .. (length - 1)
  PROVE  /\ LineHolds(RemovedAt(position), length - 1, place)
         /\ LineOf(RemovedAt(position), length - 1) = RemoveAt(LineOf(buffer, length), position + 1)
<1> DEFINE new == RemovedAt(position)
           line == LineOf(buffer, length)
<1>1. /\ buffer \in [Positions -> Chars \cup {Nul}] /\ length \in Nat /\ length >= 1
      /\ length \in Positions /\ length - 1 \in Positions /\ length - 1 \in Nat
      /\ position \in Nat /\ position < length
      /\ buffer[length] = Nul /\ \A i \in 0 .. (length - 1) : buffer[i] # Nul
  BY SizeFacts DEF LineHolds, Buffers
<1>2. /\ \A i \in 0 .. length : i \in Positions
      /\ \A i \in position .. (length - 1) : i + 1 \in Positions
  BY <1>1, SizeFacts
<1>3. \A i \in Positions : new[i] = IF i \in position .. (length - 1) THEN buffer[i + 1] ELSE buffer[i]
  BY DEF RemovedAt
<1>4. new \in Buffers
  <2>1. \A i \in Positions : (IF i \in position .. (length - 1) THEN buffer[i + 1] ELSE buffer[i]) \in Chars \cup {Nul}
    BY <1>1, <1>2
  <2> QED BY <2>1 DEF RemovedAt, Buffers
<1>5. new[length - 1] = Nul
  <2>1. length - 1 \in position .. (length - 1) /\ (length - 1) + 1 = length
    BY <1>1
  <2> QED BY <1>1, <1>3, <2>1
<1>6. ASSUME NEW i \in 0 .. (length - 2) PROVE new[i] # Nul
  <2>1. i \in Positions /\ i \in 0 .. (length - 1) /\ i + 1 \in 0 .. (length - 1)
    BY <1>1, SizeFacts
  <2> QED BY <1>1, <1>3, <2>1
<1>7. LineHolds(new, length - 1, place)
  <2>1. (length - 1) - 1 = length - 2
    BY <1>1
  <2> HIDE DEF new
  <2> QED BY <1>1, <1>4, <1>5, <1>6, <2>1 DEF LineHolds
<1>8. LineOf(new, length - 1) = RemoveAt(line, position + 1)
  <2> DEFINE head == SubSeq(line, 1, (position + 1) - 1)
             tail == SubSeq(line, (position + 1) + 1, Len(line))
  <2>1. line \in Seq(Chars) /\ Len(line) = length /\ \A i \in 1 .. length : line[i] = buffer[i - 1] /\ line[i] \in Chars
    <3>1. line \in Seq(Chars) /\ Len(line) = length
      BY LineIsText
    <3> QED BY <3>1, ElementOfSeq DEF LineOf
  <2> HIDE DEF line, new
  <2>2. head \in Seq(Chars) /\ Len(head) = position /\ \A i \in 1 .. position : head[i] = line[i]
    <3>1. (position + 1) - 1 = position /\ \A i \in 1 .. position : line[i] \in Chars
      BY <1>1, <2>1
    <3>2. /\ SubSeq(line, 1, position) \in Seq(Chars)
          /\ Len(SubSeq(line, 1, position)) = IF 1 <= position THEN position - 1 + 1 ELSE 0
          /\ \A i \in 1 .. position - 1 + 1 : SubSeq(line, 1, position)[i] = line[1 + i - 1]
      BY <1>1, <3>1, SubSeqProperties
    <3> QED BY <1>1, <3>1, <3>2
  <2>3. /\ tail \in Seq(Chars) /\ Len(tail) = length - (position + 1)
        /\ \A i \in 1 .. (length - (position + 1)) : tail[i] = line[(position + 1) + i]
    <3>0. (position + 1) + 1 = position + 2
      BY <1>1
    <3>1. \A i \in (position + 2) .. length : line[i] \in Chars
      BY <1>1, <2>1
    <3>2. /\ SubSeq(line, position + 2, length) \in Seq(Chars)
          /\ Len(SubSeq(line, position + 2, length)) = IF position + 2 <= length THEN length - (position + 2) + 1 ELSE 0
          /\ \A i \in 1 .. length - (position + 2) + 1 : SubSeq(line, position + 2, length)[i] = line[(position + 2) + i - 1]
      BY <1>1, <3>1, SubSeqProperties
    <3>3. length - (position + 2) + 1 = length - (position + 1) /\ \A i \in Nat : (position + 2) + i - 1 = (position + 1) + i
      BY <1>1
    <3> QED BY <1>1, <2>1, <3>0, <3>2, <3>3
  <2>4. RemoveAt(line, position + 1) = head \o tail
    BY DEF RemoveAt
  <2> HIDE DEF head, tail
  <2>5. /\ head \o tail \in Seq(Chars) /\ Len(head \o tail) = length - 1
        /\ \A i \in 1 .. (length - 1) : (head \o tail)[i] = IF i <= position THEN head[i] ELSE tail[i - position]
    <3>1. /\ head \o tail \in Seq(Chars) /\ Len(head \o tail) = Len(head) + Len(tail)
          /\ \A i \in 1 .. Len(head) + Len(tail) :
               (head \o tail)[i] = IF i <= Len(head) THEN head[i] ELSE tail[i - Len(head)]
      BY <2>2, <2>3, ConcatProperties
    <3>2. position + (length - (position + 1)) = length - 1
      BY <1>1
    <3> QED BY <2>2, <2>3, <3>1, <3>2
  <2>6. LineOf(new, length - 1) \in Seq(Chars) /\ Len(LineOf(new, length - 1)) = length - 1
    BY <1>7, LineIsText
  <2>7. ASSUME NEW i \in 1 .. (length - 1) PROVE LineOf(new, length - 1)[i] = (head \o tail)[i]
    <3>1. LineOf(new, length - 1)[i] = new[i - 1] /\ i - 1 \in Positions
      BY <1>1, <1>2 DEF LineOf
    <3>2. CASE i <= position
      <4>1. i - 1 \notin position .. (length - 1) /\ i \in 1 .. length /\ i \in 1 .. position
        BY <1>1, <3>2
      <4>2. new[i - 1] = line[i]
        BY <1>3, <2>1, <3>1, <4>1
      <4> QED BY <2>2, <2>5, <3>1, <3>2, <4>1, <4>2
    <3>3. CASE i > position
      <4>1. /\ i - 1 \in position .. (length - 1) /\ ~(i <= position) /\ (i - 1) + 1 = i
            /\ i - position \in 1 .. (length - (position + 1)) /\ (position + 1) + (i - position) = i + 1
            /\ i + 1 \in 1 .. length /\ (i + 1) - 1 = i
        BY <1>1, <3>3
      <4>2. new[i - 1] = buffer[i]
        BY <1>3, <3>1, <4>1
      <4>3. tail[i - position] = buffer[i]
        BY <2>1, <2>3, <4>1
      <4> QED BY <2>5, <3>1, <4>1, <4>2, <4>3
    <3>4. i <= position \/ i > position
      BY <1>1
    <3> QED BY <3>2, <3>3, <3>4
  <2>8. LineOf(new, length - 1) = head \o tail
    BY <2>5, <2>6, <2>7, SeqEqual
  <2> QED BY <2>4, <2>8
<1> QED BY <1>7, <1>8

(* strcpy of a line of the history or of the saved one.                     *)
LEMMA CopiedHolds ==
  ASSUME buffer \in Buffers, NEW text \in Text, NEW place \in 0 .. Len(text)
  PROVE  LineHolds(Copied(text), Len(text), place) /\ LineOf(Copied(text), Len(text)) = text
<1>1. /\ Len(text) \in Positions /\ Len(text) \in Nat /\ text = [i \in 1 .. Len(text) |-> text[i]]
      /\ \A i \in 1 .. Len(text) : text[i] \in Chars
  BY TextFacts
<1>2. \A i \in Positions : i < Len(text) => i + 1 \in 1 .. Len(text)
  BY <1>1, SizeFacts
<1>3. \A i \in Positions : Copied(text)[i] = IF i < Len(text) THEN text[i + 1]
                                             ELSE IF i = Len(text) THEN Nul ELSE buffer[i]
  BY DEF Copied
<1>4. Copied(text) \in Buffers
  <2>1. \A i \in Positions : (IF i < Len(text) THEN text[i + 1]
                              ELSE IF i = Len(text) THEN Nul ELSE buffer[i]) \in Chars \cup {Nul}
    BY <1>1, <1>2 DEF Buffers
  <2> QED BY <2>1 DEF Copied, Buffers
<1>5. Copied(text)[Len(text)] = Nul
  BY <1>1, <1>3
<1>6. \A i \in 0 .. (Len(text) - 1) : i \in Positions /\ i < Len(text)
  BY <1>1, SizeFacts
<1>7. \A i \in 0 .. (Len(text) - 1) : Copied(text)[i] # Nul
  BY <1>1, <1>2, <1>3, <1>6, SizeFacts
<1>8. LineOf(Copied(text), Len(text)) = [i \in 1 .. Len(text) |-> text[i]]
  <2>1. ASSUME NEW i \in 1 .. Len(text) PROVE Copied(text)[i - 1] = text[i]
    <3>1. i - 1 \in Positions /\ i - 1 < Len(text) /\ (i - 1) + 1 = i
      BY <1>1, SizeFacts
    <3> QED BY <1>3, <3>1
  <2> QED BY <2>1 DEF LineOf
<1> QED BY <1>1, <1>4, <1>5, <1>7, <1>8 DEF LineHolds

(* The empty line of a new prompt.                                          *)
LEMMA EmptyHolds ==
  ASSUME NEW array \in Buffers
  PROVE  LineHolds([array EXCEPT ![0] = Nul], 0, 0) /\ LineOf([array EXCEPT ![0] = Nul], 0) = <<>>
<1>1. [array EXCEPT ![0] = Nul] \in Buffers /\ [array EXCEPT ![0] = Nul][0] = Nul
  BY SizeFacts DEF Buffers
<1> QED BY <1>1, SizeFacts DEF LineHolds, LineOf

LEMMA TokenizedIsArray ==
  ASSUME NEW array \in Buffers
  PROVE  Tokenized(array) \in Buffers
BY DEF Tokenized, Buffers

-----------------------------------------------------------------------------
(* The ring of the history.                                                 *)

IndexOf(n, fromNewest) == (n - 1 - fromNewest + HistorySize) % HistorySize
RecentOf(ring, c, n) == [i \in 1 .. c |-> ring[IndexOf(n, i - 1)]]
RingHolds(ring, c, n) == ring \in [Slots -> Text] /\ c \in 0 .. HistorySize /\ n \in Slots

LEMMA IndexValue ==
  ASSUME NEW n \in Slots, NEW k \in Slots
  PROVE  /\ IndexOf(n, k) = IF k < n THEN n - 1 - k ELSE n - 1 - k + HistorySize
         /\ IndexOf(n, k) \in Slots
<1>1. n \in Nat /\ n < HistorySize /\ k \in Nat /\ k < HistorySize /\ HistorySize \in Nat \ {0}
  BY SizeFacts
<1>2. CASE k < n
  <2> DEFINE rest == n - 1 - k
  <2>1. rest \in Nat /\ rest < HistorySize /\ n - 1 - k + HistorySize = 1 * HistorySize + rest
    BY <1>1, <1>2
  <2> HIDE DEF rest
  <2>2. (1 * HistorySize + rest) % HistorySize = rest
    BY <1>1, <2>1, QuotientAndRest
  <2> QED BY <1>1, <1>2, <2>1, <2>2, SizeFacts DEF rest, IndexOf
<1>3. CASE ~(k < n)
  <2> DEFINE sum == n - 1 - k + HistorySize
  <2>1. sum \in Nat /\ sum < HistorySize
    BY <1>1, <1>3
  <2> HIDE DEF sum
  <2>2. (sum % HistorySize) = sum
    BY <1>1, <2>1, ModSmall
  <2> QED BY <1>1, <1>3, <2>1, <2>2, SizeFacts DEF sum, IndexOf
<1> QED BY <1>2, <1>3

LEMMA RecentIsLines ==
  ASSUME NEW ring, NEW c, NEW n, RingHolds(ring, c, n)
  PROVE  /\ RecentOf(ring, c, n) \in Seq(Text) /\ Len(RecentOf(ring, c, n)) = c /\ c \in Nat
         /\ \A i \in 1 .. c : /\ i - 1 \in Slots /\ IndexOf(n, i - 1) \in Slots
                              /\ RecentOf(ring, c, n)[i] = ring[IndexOf(n, i - 1)]
                              /\ ring[IndexOf(n, i - 1)] \in Text
<1>1. ring \in [Slots -> Text] /\ c \in Nat /\ c <= HistorySize /\ n \in Slots
  BY SizeFacts DEF RingHolds
<1>2. \A i \in 1 .. c : i - 1 \in Slots
  BY <1>1, SizeFacts
<1>3. \A i \in 1 .. c : IndexOf(n, i - 1) \in Slots
  BY <1>1, <1>2, IndexValue
<1>4. \A i \in 1 .. c : ring[IndexOf(n, i - 1)] \in Text
  BY <1>1, <1>3
<1>5. RecentOf(ring, c, n) \in [1 .. c -> Text]
  BY <1>4 DEF RecentOf
<1> QED BY <1>1, <1>2, <1>3, <1>4, <1>5 DEF RecentOf

(* A line that is added takes the oldest place and becomes the newest.      *)
LEMMA RingAdds ==
  ASSUME NEW ring, NEW c, NEW n, RingHolds(ring, c, n), NEW text \in Text
  PROVE  LET added == [ring EXCEPT ![n] = text]
             more  == IF c < HistorySize THEN c + 1 ELSE c
             after == (n + 1) % HistorySize
         IN  /\ RingHolds(added, more, after)
             /\ RecentOf(added, more, after)
                  = SubSeq(<<text>> \o RecentOf(ring, c, n), 1,
                           IF c < HistorySize THEN c + 1 ELSE HistorySize)
<1> DEFINE added == [ring EXCEPT ![n] = text]
           more  == IF c < HistorySize THEN c + 1 ELSE c
           after == (n + 1) % HistorySize
           old == RecentOf(ring, c, n)
           all == <<text>> \o old
<1>1. /\ ring \in [Slots -> Text] /\ c \in Nat /\ c <= HistorySize /\ n \in Slots
      /\ n \in Nat /\ n < HistorySize /\ HistorySize \in Nat \ {0}
  BY SizeFacts DEF RingHolds
<1>2. after = IF n + 1 < HistorySize THEN n + 1 ELSE 0
  <2>1. CASE n + 1 < HistorySize
    BY <1>1, <2>1, ModSmall
  <2>2. CASE ~(n + 1 < HistorySize)
    <3>1. n + 1 = 1 * HistorySize + 0 /\ (1 * HistorySize + 0) % HistorySize = 0
      BY <1>1, <2>2, QuotientAndRest
    <3> QED BY <2>2, <3>1
  <2> QED BY <2>1, <2>2
<1> HIDE DEF after
<1>3. after \in Slots /\ after \in Nat
  BY <1>1, <1>2, SizeFacts
<1>4. more \in Nat /\ more <= HistorySize /\ more >= 1 /\ more <= c + 1
      /\ more = (IF c < HistorySize THEN c + 1 ELSE HistorySize)
  BY <1>1
<1>5. added \in [Slots -> Text] /\ added[n] = text /\ \A s \in Slots : s # n => added[s] = ring[s]
  BY <1>1
<1>6. RingHolds(added, more, after)
  BY <1>3, <1>4, <1>5, SizeFacts DEF RingHolds
<1>7. /\ old \in Seq(Text) /\ Len(old) = c
      /\ \A i \in 1 .. c : i - 1 \in Slots /\ old[i] = ring[IndexOf(n, i - 1)] /\ IndexOf(n, i - 1) \in Slots
  BY RecentIsLines
<1> HIDE DEF added, more
<1>8. /\ RecentOf(added, more, after) \in Seq(Text) /\ Len(RecentOf(added, more, after)) = more
      /\ \A i \in 1 .. more : /\ i - 1 \in Slots
                              /\ RecentOf(added, more, after)[i] = added[IndexOf(after, i - 1)]
  BY <1>6, RecentIsLines
<1> HIDE DEF old
<1>9. /\ all \in Seq(Text) /\ Len(all) = c + 1
      /\ \A i \in 1 .. (c + 1) : all[i] = IF i <= 1 THEN text ELSE old[i - 1]
  <2>1. <<text>> \in Seq(Text) /\ Len(<<text>>) = 1 /\ <<text>>[1] = text
    OBVIOUS
  <2>2. /\ all \in Seq(Text) /\ Len(all) = Len(<<text>>) + Len(old)
        /\ \A i \in 1 .. Len(<<text>>) + Len(old) : all[i] = IF i <= Len(<<text>>) THEN <<text>>[i] ELSE old[i - Len(<<text>>)]
    BY <1>7, <2>1, ConcatProperties
  <2>3. Len(<<text>>) + Len(old) = c + 1
    BY <1>1, <1>7, <2>1
  <2>4. \A i \in 1 .. (c + 1) : i <= 1 => i = 1
    BY <1>1
  <2> QED BY <2>1, <2>2, <2>3, <2>4
<1> HIDE DEF all
<1>10. /\ SubSeq(all, 1, more) \in Seq(Text) /\ Len(SubSeq(all, 1, more)) = more
       /\ \A i \in 1 .. more : SubSeq(all, 1, more)[i] = all[i]
  <2>1. \A i \in 1 .. more : i \in 1 .. Len(all)
    BY <1>1, <1>4, <1>9
  <2>2. \A i \in 1 .. more : all[i] \in Text
    BY <1>9, <2>1, ElementOfSeq
  <2>3. /\ SubSeq(all, 1, more) \in Seq(Text)
        /\ Len(SubSeq(all, 1, more)) = IF 1 <= more THEN more - 1 + 1 ELSE 0
        /\ \A i \in 1 .. more - 1 + 1 : SubSeq(all, 1, more)[i] = all[1 + i - 1]
    BY <1>4, <2>2, SubSeqProperties
  <2>4. more - 1 + 1 = more /\ 1 <= more /\ \A i \in 1 .. more : 1 + i - 1 = i
    BY <1>4
  <2> QED BY <2>3, <2>4
<1>11. ASSUME NEW i \in 1 .. more
       PROVE  RecentOf(added, more, after)[i] = SubSeq(all, 1, more)[i]
  <2>1. i \in Nat /\ i >= 1 /\ i - 1 \in Slots /\ i <= c + 1 /\ i <= HistorySize
    <3>1. i - 1 \in Slots
      BY <1>8
    <3> QED BY <1>1, <1>4, <3>1
  <2>2. IndexOf(after, i - 1) = IF i - 1 < after THEN after - 1 - (i - 1) ELSE after - 1 - (i - 1) + HistorySize
    BY <1>3, <2>1, IndexValue
  <2>3. CASE i = 1
    <3>1. IndexOf(after, i - 1) = n
      BY <1>1, <1>2, <2>2, <2>3
    <3>2. i \in 1 .. (c + 1) /\ i <= 1
      BY <1>1, <2>3
    <3> QED BY <1>5, <1>8, <1>9, <1>10, <3>1, <3>2
  <2>4. CASE i # 1
    <3>1. /\ i - 1 \in 1 .. c /\ (i - 1) - 1 \in Slots /\ i \in 1 .. (c + 1) /\ ~(i <= 1)
      BY <1>1, <2>1, <2>4, SizeFacts
    <3>2. IndexOf(n, (i - 1) - 1) = IF (i - 1) - 1 < n THEN n - 1 - ((i - 1) - 1) ELSE n - 1 - ((i - 1) - 1) + HistorySize
      BY <1>1, <3>1, IndexValue
    <3>3. IndexOf(after, i - 1) = IndexOf(n, (i - 1) - 1) /\ IndexOf(after, i - 1) # n
      BY <1>1, <1>2, <2>1, <2>2, <2>4, <3>2
    <3>4. old[i - 1] = ring[IndexOf(n, (i - 1) - 1)] /\ IndexOf(n, (i - 1) - 1) \in Slots
      BY <1>7, <3>1
    <3> QED BY <1>5, <1>8, <1>9, <1>10, <3>1, <3>3, <3>4
  <2> QED BY <2>3, <2>4
<1>12. RecentOf(added, more, after) = SubSeq(all, 1, more)
  BY <1>8, <1>10, <1>11, SeqEqual
<1> QED BY <1>4, <1>6, <1>12 DEF all, old, added, more, after

-----------------------------------------------------------------------------
(* The steps of the editor and those of LineEditing.                        *)

SavedHolds ==
  /\ saved \in [text : Text, length : Positions, cursor : Positions]
  /\ Len(saved.text) = saved.length /\ saved.cursor <= saved.length

LEMMA SoundParts ==
  EditorSound <=> /\ LineHolds(buffer, length, cursor) /\ RingHolds(history, count, nextIndex)
                  /\ viewIndex \in -1 .. (count - 1) /\ SavedHolds
BY DEF EditorSound, LineHolds, RingHolds, SavedHolds

(* What LineEditing sees of a state.                                        *)
LEMMA Seen ==
  /\ Line = LineOf(buffer, length) /\ Recent = RecentOf(history, count, nextIndex)
  /\ Line' = LineOf(buffer', length') /\ Recent' = RecentOf(history', count', nextIndex')
BY DEF Line, Recent, LineOf, RecentOf, IndexOf, PhysicalIndex

(* The facts about a state that the steps use.                              *)
LEMMA StateFacts ==
  ASSUME EditorSound
  PROVE  /\ LineHolds(buffer, length, cursor) /\ RingHolds(history, count, nextIndex) /\ SavedHolds
         /\ viewIndex \in Int /\ -1 <= viewIndex /\ viewIndex < count
         /\ buffer \in Buffers /\ length \in Nat /\ length < BufferSize /\ cursor \in Nat /\ cursor <= length
         /\ count \in Nat /\ count <= HistorySize
         /\ Line \in Text /\ Len(Line) = length /\ Len(Recent) = count
<1>1. /\ LineHolds(buffer, length, cursor) /\ RingHolds(history, count, nextIndex) /\ SavedHolds
      /\ viewIndex \in -1 .. (count - 1)
  BY SoundParts
<1>2. Line \in Text /\ Len(Line) = length
  BY <1>1, Seen, LineIsText
<1>3. Len(Recent) = count
  BY <1>1, Seen, RecentIsLines
<1> QED BY <1>1, <1>2, <1>3, SizeFacts DEF LineHolds, RingHolds

(* A step that edits the line and leaves the history alone.                 *)
LEMMA EditedLine ==
  ASSUME EditorSound, NEW array, NEW n, NEW place, LineHolds(array, n, place),
         buffer' = array, length' = n, cursor' = place, UNCHANGED <<ringVars, saved>>,
         viewIndex' \in -1 .. (count - 1)
  PROVE  /\ EditorSound' /\ Line' = LineOf(array, n) /\ Recent' = Recent /\ Draft' = Draft
         /\ count' = count
<1>1. /\ history' = history /\ count' = count /\ nextIndex' = nextIndex /\ saved' = saved
  BY DEF ringVars
<1>2. (EditorSound <=> /\ LineHolds(buffer, length, cursor) /\ RingHolds(history, count, nextIndex)
                       /\ viewIndex \in -1 .. (count - 1) /\ SavedHolds)'
  BY DEF EditorSound, LineHolds, RingHolds, SavedHolds
<1>3. LineHolds(buffer, length, cursor)' /\ RingHolds(history, count, nextIndex)' /\ SavedHolds'
  BY <1>1, StateFacts DEF LineHolds, RingHolds, SavedHolds
<1> QED BY <1>1, <1>2, <1>3, Seen DEF Draft

LEMMA InsertMaps ==
  ASSUME EditorSound, NEW char \in Chars, InsertChar(char)
  PROVE  EditorSound' /\ Editing!Type(char)
<1>1. /\ length < BufferSize - 1 /\ viewIndex' = -1 /\ UNCHANGED <<ringVars, saved>>
      /\ buffer' = Inserted(char) /\ length' = length + 1 /\ cursor' = cursor + 1
  BY StateFacts, SizeFacts DEF InsertChar, BufferFull, ShowsLine, ShowsLineOn
<1>2. /\ LineHolds(Inserted(char), length + 1, cursor + 1)
      /\ LineOf(Inserted(char), length + 1) = InsertAt(Line, cursor + 1, char)
  BY <1>1, StateFacts, InsertedHolds, Seen
<1>3. viewIndex' \in -1 .. (count - 1)
  BY <1>1, StateFacts
<1>4. /\ EditorSound' /\ Line' = InsertAt(Line, cursor + 1, char) /\ Recent' = Recent /\ Draft' = Draft
  BY <1>1, <1>2, <1>3, EditedLine
<1>5. Len(Line) < BufferSize - 1 /\ viewIndex' + 1 = 0
  BY <1>1, StateFacts
<1>6. Editing!InsertAt(Line, cursor + 1, char) = InsertAt(Line, cursor + 1, char)
  BY DEF InsertAt, Editing!InsertAt
<1> QED BY <1>1, <1>4, <1>5, <1>6 DEF Editing!Type, Editing!Line

(* The line that a full buffer loses, for some character that was typed.     *)
LEMMA OverflowMaps ==
  ASSUME EditorSound, Overflow
  PROVE  EditorSound' /\ \E char \in Chars : Editing!Type(char)
<1>1. /\ length >= BufferSize - 1 /\ viewIndex' = -1 /\ UNCHANGED <<ringVars, saved>>
      /\ buffer' = [buffer EXCEPT ![0] = Nul] /\ length' = 0 /\ cursor' = 0
  BY DEF Overflow, BufferFull, PromptsAfter
<1>2. LineHolds([buffer EXCEPT ![0] = Nul], 0, 0) /\ LineOf([buffer EXCEPT ![0] = Nul], 0) = <<>>
  BY StateFacts, EmptyHolds
<1>3. viewIndex' \in -1 .. (count - 1)
  BY <1>1, StateFacts
<1>4. EditorSound' /\ Line' = <<>> /\ Recent' = Recent /\ Draft' = Draft
  BY <1>1, <1>2, <1>3, EditedLine
<1>5. ~(Len(Line) < BufferSize - 1) /\ viewIndex' + 1 = 0 /\ length >= 1
  BY <1>1, StateFacts, SizeFacts
<1>6. \E char \in Chars : TRUE
  BY <1>5, StateFacts, TextFacts
<1> QED BY <1>1, <1>4, <1>5, <1>6 DEF Editing!Type, Editing!Line

LEMMA BackspaceMaps ==
  ASSUME EditorSound, BackspaceKey
  PROVE  EditorSound' /\ Editing!Erase
<1>1. /\ viewIndex' = -1 /\ UNCHANGED <<ringVars, saved>> /\ viewIndex' + 1 = 0
      /\ viewIndex' \in -1 .. (count - 1)
  BY StateFacts DEF BackspaceKey
<1>2. CASE cursor = 0 \/ length = 0
  <2>1. cursor = 0 /\ UNCHANGED <<buffer, length, cursor>>
    BY <1>2, StateFacts DEF BackspaceKey
  <2>2. EditorSound' /\ Line' = LineOf(buffer, length) /\ Recent' = Recent /\ Draft' = Draft
    BY <1>1, <2>1, StateFacts, EditedLine
  <2> QED BY <1>1, <2>1, <2>2, Seen DEF Editing!Erase
<1>3. CASE ~(cursor = 0 \/ length = 0)
  <2>1. buffer' = RemovedAt(cursor - 1) /\ length' = length - 1 /\ cursor' = cursor - 1
    BY <1>3 DEF BackspaceKey, ShowsLine, ShowsLineOn
  <2>2. cursor - 1 \in 0 .. (length - 1) /\ (cursor - 1) + 1 = cursor /\ cursor # 0
    BY <1>3, StateFacts
  <2>3. /\ LineHolds(RemovedAt(cursor - 1), length - 1, cursor - 1)
        /\ LineOf(RemovedAt(cursor - 1), length - 1) = RemoveAt(Line, (cursor - 1) + 1)
    BY <2>2, StateFacts, RemovedHolds, Seen
  <2>4. /\ EditorSound' /\ Recent' = Recent /\ Draft' = Draft
        /\ Line' = LineOf(RemovedAt(cursor - 1), length - 1)
    BY <1>1, <2>1, <2>3, EditedLine
  <2>5. Editing!RemoveAt(Line, cursor) = RemoveAt(Line, cursor)
    BY DEF RemoveAt, Editing!RemoveAt
  <2> QED BY <1>1, <2>1, <2>2, <2>3, <2>4, <2>5 DEF Editing!Erase, Editing!Line
<1> QED BY <1>2, <1>3

LEMMA DeleteMaps ==
  ASSUME EditorSound, DeleteForward
  PROVE  EditorSound' /\ Editing!Delete
<1>1. /\ cursor < length /\ UNCHANGED <<ringVars, viewIndex, saved>>
      /\ buffer' = RemovedAt(cursor) /\ length' = length - 1 /\ cursor' = cursor
  BY DEF DeleteForward, ShowsLine, ShowsLineOn
<1>2. cursor \in 0 .. (length - 1) /\ viewIndex' \in -1 .. (count - 1) /\ cursor < Len(Line)
  BY <1>1, StateFacts
<1>3. /\ LineHolds(RemovedAt(cursor), length - 1, cursor)
      /\ LineOf(RemovedAt(cursor), length - 1) = RemoveAt(Line, cursor + 1)
  BY <1>2, StateFacts, RemovedHolds, Seen
<1>4. EditorSound' /\ Recent' = Recent /\ Draft' = Draft /\ Line' = LineOf(RemovedAt(cursor), length - 1)
  BY <1>1, <1>2, <1>3, EditedLine
<1>5. Editing!RemoveAt(Line, cursor + 1) = RemoveAt(Line, cursor + 1)
  BY DEF RemoveAt, Editing!RemoveAt
<1> QED BY <1>1, <1>2, <1>3, <1>4, <1>5 DEF Editing!Delete, Editing!Line

LEMMA MoveMaps ==
  ASSUME EditorSound, MoveLeft \/ MoveRight \/ MoveHome \/ MoveEnd
  PROVE  EditorSound' /\ Editing!Move
<1>1. PICK place : MovesTo(place) /\ \/ place = cursor - 1 /\ cursor > 0
                                     \/ place = cursor + 1 /\ cursor < length
                                     \/ place = 0 \/ place = length
  BY DEF MoveLeft, MoveRight, MoveHome, MoveEnd
<1>2. place \in 0 .. length /\ place \in {0, cursor - 1, cursor + 1, Len(Line)} \cap (0 .. Len(Line))
  BY <1>1, StateFacts
<1>3. /\ UNCHANGED <<ringVars, viewIndex, saved>> /\ buffer' = buffer /\ length' = length /\ cursor' = place
  BY <1>1 DEF MovesTo, ShowsLine, ShowsLineOn
<1>4. LineHolds(buffer, length, place) /\ viewIndex' \in -1 .. (count - 1)
  BY <1>2, <1>3, StateFacts DEF LineHolds
<1>5. EditorSound' /\ Recent' = Recent /\ Draft' = Draft /\ Line' = LineOf(buffer, length)
  BY <1>3, <1>4, EditedLine
<1> QED BY <1>2, <1>3, <1>5, Seen DEF Editing!Move

LEMMA OlderMaps ==
  ASSUME EditorSound, HistoryPrev
  PROVE  EditorSound' /\ Editing!Older
<1> DEFINE old == history[PhysicalIndex(viewIndex + 1)]
           kept == [text |-> StringIn(buffer), length |-> length, cursor |-> cursor]
<1>1. /\ count > 0 /\ viewIndex < count - 1 /\ viewIndex' = viewIndex + 1 /\ UNCHANGED ringVars
      /\ saved' = (IF viewIndex = -1 THEN kept ELSE saved)
      /\ buffer' = Copied(old) /\ length' = Len(old) /\ cursor' = Len(old)
  BY DEF HistoryPrev, SetLineOn, ShowsLineOn
<1>2. /\ viewIndex + 2 \in 1 .. count /\ (viewIndex + 2) - 1 = viewIndex + 1
      /\ viewIndex + 1 + 1 = viewIndex + 2 /\ viewIndex' \in -1 .. (count - 1)
      /\ (viewIndex = -1 <=> viewIndex + 1 = 0) /\ viewIndex + 1 < Len(Recent)
  BY <1>1, StateFacts
<1>3. /\ old \in Text /\ Recent[viewIndex + 1 + 1] = old
  <2>1. PhysicalIndex(viewIndex + 1) = IndexOf(nextIndex, (viewIndex + 2) - 1)
    BY <1>2 DEF PhysicalIndex, IndexOf
  <2>2. /\ RecentOf(history, count, nextIndex)[viewIndex + 2] = history[IndexOf(nextIndex, (viewIndex + 2) - 1)]
        /\ history[IndexOf(nextIndex, (viewIndex + 2) - 1)] \in Text
    BY <1>2, StateFacts, RecentIsLines
  <2> QED BY <1>2, <2>1, <2>2, Seen
<1>4. kept.text = Line /\ kept \in [text : Text, length : Positions, cursor : Positions]
  <2>1. StringIn(buffer) = Line /\ Line \in Text
    BY StateFacts, StringFound, Seen
  <2>2. length \in Positions /\ cursor \in Positions
    BY StateFacts, SizeFacts
  <2> QED BY <2>1, <2>2
<1>5. /\ SavedHolds'
      /\ Draft' = (IF viewIndex = -1 THEN [text |-> Line, cursor |-> cursor] ELSE Draft)
  <2>1. CASE viewIndex = -1
    <3>1. saved' = kept /\ kept.text = Line /\ kept.cursor = cursor /\ kept.length = length
      BY <1>1, <1>4, <2>1
    <3> HIDE DEF kept
    <3> QED BY <1>4, <2>1, <3>1, StateFacts DEF SavedHolds, Draft
  <2>2. CASE viewIndex # -1
    BY <1>1, <2>2, StateFacts DEF SavedHolds, Draft
  <2> QED BY <2>1, <2>2
<1> HIDE DEF old, kept
<1>6. LineHolds(Copied(old), Len(old), Len(old)) /\ LineOf(Copied(old), Len(old)) = old
  <2>1. Len(old) \in 0 .. Len(old)
    BY <1>3, TextFacts
  <2> QED BY <1>3, <2>1, StateFacts, CopiedHolds
<1>7. EditorSound' /\ Line' = old /\ Recent' = Recent
  <2>1. history' = history /\ count' = count /\ nextIndex' = nextIndex
    BY <1>1 DEF ringVars
  <2>2. LineHolds(buffer, length, cursor)' /\ RingHolds(history, count, nextIndex)'
    BY <1>1, <1>6, <2>1, StateFacts DEF LineHolds, RingHolds
  <2>3. EditorSound'
    BY <1>2, <1>5, <2>1, <2>2 DEF EditorSound, LineHolds, RingHolds, SavedHolds
  <2> QED BY <1>1, <1>6, <2>1, <2>3, Seen
<1> QED BY <1>1, <1>2, <1>3, <1>5, <1>7 DEF Editing!Older, Editing!Line

LEMMA NewerMaps ==
  ASSUME EditorSound, HistoryNext
  PROVE  EditorSound' /\ Editing!Newer
<1> SUFFICES EditorSound' /\ Editing!Newer
  OBVIOUS
<1>1. /\ viewIndex # -1 /\ viewIndex' = viewIndex - 1 /\ UNCHANGED <<ringVars, saved>>
      /\ viewIndex + 1 > 0 /\ (viewIndex' + 1) = (viewIndex + 1) - 1
      /\ viewIndex' \in -1 .. (count - 1) /\ (viewIndex > 0 <=> viewIndex + 1 # 1)
  <2>1. viewIndex # -1 /\ viewIndex' = viewIndex - 1 /\ UNCHANGED <<ringVars, saved>>
    BY DEF HistoryNext
  <2>2. viewIndex \in -1 .. (count - 1) /\ count \in Nat
    BY StateFacts
  <2>3. viewIndex \in 0 .. (count - 1) /\ viewIndex - 1 \in -1 .. (count - 1)
    BY <2>1, <2>2
  <2> QED BY <2>1, <2>2, <2>3
<1>2. CASE viewIndex > 0
  <2> DEFINE old == history[PhysicalIndex(viewIndex - 1)]
  <2>1. buffer' = Copied(old) /\ length' = Len(old) /\ cursor' = Len(old)
    BY <1>2 DEF HistoryNext, SetLineOn, ShowsLineOn
  <2>2. viewIndex \in 1 .. count /\ (viewIndex + 1) - 1 = viewIndex
    BY <1>2, StateFacts
  <2>3. old \in Text /\ Recent[(viewIndex + 1) - 1] = old
    <3>1. PhysicalIndex(viewIndex - 1) = IndexOf(nextIndex, viewIndex - 1)
      BY DEF PhysicalIndex, IndexOf
    <3>2. /\ RecentOf(history, count, nextIndex)[viewIndex] = history[IndexOf(nextIndex, viewIndex - 1)]
          /\ history[IndexOf(nextIndex, viewIndex - 1)] \in Text
      BY <2>2, StateFacts, RecentIsLines
    <3> QED BY <2>2, <3>1, <3>2, Seen
  <2> HIDE DEF old
  <2>4. LineHolds(Copied(old), Len(old), Len(old)) /\ LineOf(Copied(old), Len(old)) = old
    <3>1. Len(old) \in 0 .. Len(old)
      BY <2>3, TextFacts
    <3> QED BY <2>3, <3>1, StateFacts, CopiedHolds
  <2>5. EditorSound' /\ Line' = old /\ Recent' = Recent /\ Draft' = Draft
    BY <1>1, <2>1, <2>4, EditedLine
  <2> QED BY <1>1, <1>2, <2>1, <2>3, <2>5 DEF Editing!Newer, Editing!Line
<1>3. CASE ~(viewIndex > 0)
  <2>1. /\ buffer' = Copied(saved.text) /\ length' = saved.length /\ cursor' = saved.cursor
    BY <1>3 DEF HistoryNext, ShowsLineOn
  <2>2. saved.text \in Text /\ Len(saved.text) = saved.length /\ saved.cursor \in 0 .. Len(saved.text)
    BY StateFacts, SizeFacts DEF SavedHolds
  <2>3. /\ LineHolds(Copied(saved.text), saved.length, saved.cursor)
        /\ LineOf(Copied(saved.text), saved.length) = saved.text
    BY <2>2, StateFacts, CopiedHolds
  <2>4. EditorSound' /\ Line' = saved.text /\ Recent' = Recent /\ Draft' = Draft
    BY <1>1, <2>1, <2>3, EditedLine
  <2>5. Draft.text = saved.text /\ Draft.cursor = saved.cursor
    BY DEF Draft
  <2> QED BY <1>1, <1>3, <2>1, <2>4, <2>5 DEF Editing!Newer, Editing!Line
<1> QED BY <1>2, <1>3

(* Enter remembers the line as LineEditing does.                            *)
LEMMA LineIsAdded ==
  ASSUME EditorSound, EnterLine
  PROVE  /\ RingHolds(history', count', nextIndex') /\ Recent' = Editing!Remembered
         /\ viewIndex' = -1 /\ SavedHolds' /\ Draft' = Editing!NoDraft
<1>1. /\ HistoryAdd(StringIn([buffer EXCEPT ![length] = Nul]))
      /\ viewIndex' = -1 /\ saved' = NothingSaved
  BY DEF EnterLine
<1>2. [buffer EXCEPT ![length] = Nul] = buffer
  <2>1. buffer \in [Positions -> Chars \cup {Nul}] /\ length \in Positions /\ buffer[length] = Nul
    BY StateFacts DEF LineHolds, Buffers
  <2> QED BY <2>1
<1>3. StringIn(buffer) = Line /\ Line \in Text
  BY StateFacts, StringFound, Seen
<1>4. HistoryAdd(Line)
  BY <1>1, <1>2, <1>3
<1>5. SavedHolds' /\ Draft' = Editing!NoDraft
  <2>1. <<>> \in Text /\ Len(<<>>) = 0
    <3>1. <<>> \in [1 .. 0 -> Chars]
      OBVIOUS
    <3> QED BY <3>1, SizeFacts DEF Text
  <2>2. saved' = [text |-> <<>>, length |-> 0, cursor |-> 0]
    BY <1>1 DEF NothingSaved
  <2> QED BY <2>1, <2>2, SizeFacts DEF SavedHolds, Draft, Editing!NoDraft
<1>6. /\ Recent = RecentOf(history, count, nextIndex) /\ Len(Recent) = count /\ Recent \in Seq(Text)
      /\ RingHolds(history, count, nextIndex) /\ count \in Nat
      /\ (count > 0 => Recent[1] = history[Newest])
  <2>1. count > 0 => 1 \in 1 .. count /\ 1 - 1 = 0
    BY StateFacts
  <2>2. count > 0 => RecentOf(history, count, nextIndex)[1] = history[IndexOf(nextIndex, 0)]
    BY <2>1, StateFacts, RecentIsLines
  <2>3. Newest = IndexOf(nextIndex, 0)
    BY DEF Newest, PhysicalIndex, IndexOf
  <2> QED BY <2>2, <2>3, Seen, StateFacts, RecentIsLines
<1>7. Recent # <<>> <=> count > 0
  <2>1. count = 0 <=> Recent = <<>>
    BY <1>6, EmptySeq
  <2> QED BY <1>6, <2>1
<1>8. CASE Line = <<>> \/ (count > 0 /\ history[Newest] = Line)
  <2>1. history' = history /\ count' = count /\ nextIndex' = nextIndex
    BY <1>4, <1>8 DEF HistoryAdd, ringVars
  <2>2. Editing!Remembered = Recent
    BY <1>6, <1>7, <1>8 DEF Editing!Remembered
  <2> QED BY <1>1, <1>5, <1>6, <2>1, <2>2, Seen
<1>9. CASE ~(Line = <<>> \/ (count > 0 /\ history[Newest] = Line))
  <2>1. /\ history' = [history EXCEPT ![nextIndex] = Line] /\ nextIndex' = (nextIndex + 1) % HistorySize
        /\ count' = IF count < HistorySize THEN count + 1 ELSE count
    BY <1>4, <1>9 DEF HistoryAdd
  <2>2. /\ RingHolds(history', count', nextIndex')
        /\ RecentOf(history', count', nextIndex')
             = SubSeq(<<Line>> \o Recent, 1, IF count < HistorySize THEN count + 1 ELSE HistorySize)
    BY <1>3, <1>6, <2>1, RingAdds
  <2>3. Editing!Remembered = SubSeq(<<Line>> \o Recent, 1, IF count < HistorySize THEN count + 1 ELSE HistorySize)
    BY <1>6, <1>7, <1>9 DEF Editing!Remembered
  <2> QED BY <1>1, <1>5, <2>2, <2>3, Seen
<1> QED BY <1>8, <1>9

LEMMA SubmitMaps ==
  ASSUME EditorSound, Enter
  PROVE  EditorSound' /\ Editing!Submit
<1>1. /\ EnterLine /\ buffer' = [Tokenized(buffer) EXCEPT ![0] = Nul] /\ length' = 0 /\ cursor' = 0
  BY DEF Enter, PromptsAfter
<1>2. Tokenized(buffer) \in Buffers
  BY StateFacts, TokenizedIsArray
<1>3. LineHolds(buffer', length', cursor') /\ Line' = <<>>
  BY <1>1, <1>2, EmptyHolds, Seen
<1>4. /\ RingHolds(history', count', nextIndex') /\ Recent' = Editing!Remembered
      /\ viewIndex' = -1 /\ SavedHolds' /\ Draft' = Editing!NoDraft
  BY <1>1, LineIsAdded
<1>5. EditorSound'
  <2>1. viewIndex' \in -1 .. (count' - 1)
    <3>1. \A total \in 0 .. HistorySize : -1 \in -1 .. (total - 1)
      BY SizeFacts
    <3>2. count' \in 0 .. HistorySize
      BY <1>4 DEF RingHolds
    <3> QED BY <1>4, <3>1, <3>2
  <2> QED BY <1>3, <1>4, <2>1 DEF EditorSound, LineHolds, RingHolds, SavedHolds
<1>6. viewIndex' + 1 = 0
  BY <1>4
<1> QED BY <1>1, <1>3, <1>4, <1>5, <1>6 DEF Editing!Submit, Editing!Line

LEMMA StopMaps ==
  ASSUME EditorSound, EnterFaults
  PROVE  EditorSound' /\ Editing!SubmitAndStop
<1>1. EnterLine /\ UNCHANGED <<buffer, length, cursor>>
  BY DEF EnterFaults
<1>2. LineHolds(buffer', length', cursor') /\ Line' = Line
  BY <1>1, StateFacts, Seen
<1>3. /\ RingHolds(history', count', nextIndex') /\ Recent' = Editing!Remembered
      /\ viewIndex' = -1 /\ SavedHolds' /\ Draft' = Editing!NoDraft
  BY <1>1, LineIsAdded
<1>4. EditorSound'
  <2>1. viewIndex' \in -1 .. (count' - 1)
    <3>1. \A total \in 0 .. HistorySize : -1 \in -1 .. (total - 1)
      BY SizeFacts
    <3>2. count' \in 0 .. HistorySize
      BY <1>3 DEF RingHolds
    <3> QED BY <1>3, <3>1, <3>2
  <2> QED BY <1>2, <1>3, <2>1 DEF EditorSound, LineHolds, RingHolds, SavedHolds
<1>5. viewIndex' + 1 = 0
  BY <1>3
<1> QED BY <1>1, <1>2, <1>3, <1>4, <1>5 DEF Editing!SubmitAndStop

LEMMA NothingMaps ==
  ASSUME EditorSound, UNCHANGED <<buffer, length, cursor, ringVars, viewIndex, saved>>
  PROVE  EditorSound' /\ UNCHANGED Editing!vars
<1>1. LineHolds(buffer, length, cursor) /\ viewIndex' \in -1 .. (count - 1)
  BY StateFacts
<1>2. EditorSound' /\ Recent' = Recent /\ Draft' = Draft /\ Line' = LineOf(buffer, length)
  BY <1>1, EditedLine
<1> QED BY <1>2, Seen DEF Editing!vars

-----------------------------------------------------------------------------
(* The theorems about what the keys edit.                                   *)

(* The empty line of the first prompt.                                      *)
LEMMA Initially == Init => EditorSound /\ Editing!Init
<1> SUFFICES ASSUME Init PROVE EditorSound /\ Editing!Init
  OBVIOUS
<1>1. /\ buffer = [i \in Positions |-> Nul] /\ length = 0 /\ cursor = 0
      /\ history = [i \in Slots |-> <<>>] /\ count = 0 /\ nextIndex = 0
      /\ viewIndex = -1 /\ saved = [text |-> <<>>, length |-> 0, cursor |-> 0]
  BY DEF Init, NothingSaved
<1>2. <<>> \in Text /\ Len(<<>>) = 0
  <2>1. <<>> \in [1 .. 0 -> Chars]
    OBVIOUS
  <2> QED BY <2>1, SizeFacts DEF Text
<1>3. EditorSound
  <2>1. buffer \in Buffers /\ history \in [Slots -> Text]
    BY <1>1, <1>2 DEF Buffers
  <2>2. 0 \in Slots /\ 0 \in Positions /\ 0 \in 0 .. HistorySize /\ -1 \in -1 .. (0 - 1)
    BY SizeFacts
  <2>3. buffer[length] = Nul /\ 0 .. (length - 1) = {}
    BY <1>1, <2>2
  <2> QED BY <1>1, <1>2, <2>1, <2>2, <2>3 DEF EditorSound
<1>4. Line = <<>> /\ Recent = <<>>
  BY <1>1 DEF Line, Recent
<1>5. Draft = Editing!NoDraft /\ viewIndex + 1 = 0
  BY <1>1 DEF Draft, Editing!NoDraft
<1> QED BY <1>1, <1>3, <1>4, <1>5 DEF Editing!Init

(* Each key maps to a step of LineEditing, or to none.                      *)
LEMMA StepMaps ==
  ASSUME EditorSound, [Next]_vars
  PROVE  EditorSound' /\ [Editing!Next]_(Editing!vars)
<1>1. CASE Edit
  BY <1>1, InsertMaps, BackspaceMaps, DeleteMaps, MoveMaps DEF Edit, Editing!Next
<1>2. CASE Overflow \/ HistoryPrev \/ HistoryNext \/ Enter \/ EnterFaults
  BY <1>2, OverflowMaps, OlderMaps, NewerMaps, SubmitMaps, StopMaps DEF Editing!Next
<1>3. CASE UnknownKey \/ UNCHANGED vars
  <2>1. UNCHANGED <<buffer, length, cursor, ringVars, viewIndex, saved>>
    BY <1>3 DEF UnknownKey, vars, ringVars
  <2> QED BY <2>1, NothingMaps
<1> QED BY <1>1, <1>2, <1>3 DEF Next

(* The state that keys edit is sound, whatever is on the screen.            *)
THEOREM EditorIsSound == Spec => []EditorSound
BY Initially, StepMaps, PTL DEF Spec

(* The buffer is a C string of the length beside it, and the saved line is,   *)
(* for every size of the arrays: no loop of the editor reads or writes       *)
(* behind them (shell.c:38-54, 126-166).                                     *)
THEOREM LineIsString == Spec => []BufferIsString
<1>1. EditorSound => BufferIsString
  <2> SUFFICES ASSUME EditorSound PROVE BufferIsString
    OBVIOUS
  <2>1. StringIn(buffer) = Line /\ Len(Line) = length /\ cursor <= length
    BY StateFacts, StringFound, Seen
  <2> QED BY <2>1, StateFacts DEF BufferIsString, SavedHolds
<1> QED BY <1>1, EditorIsSound, PTL

(* The loops over the array, the ring and the saved line do what a user of    *)
(* the editor may rely on (shell.c:79-231).                                  *)
THEOREM EditorImplementsSpec == Spec => ImplementsLineEditing
<1>1. Init => Editing!Init
  BY Initially
<1>2. EditorSound /\ [Next]_vars => [Editing!Next]_(Editing!vars)
  BY StepMaps
<1> QED BY <1>1, <1>2, EditorIsSound, PTL DEF Spec, ImplementsLineEditing, Editing!Spec

-----------------------------------------------------------------------------
(* The screen.  A cell's index grows from left to right and from row to row. *)

LEMMA ScreenFacts ==
  /\ Width \in Nat /\ Height \in Nat /\ 1 <= Width /\ 1 <= Height
  /\ Width * Height \in Nat /\ 1 <= Width * Height
  /\ Cells \subseteq Nat /\ \A i \in Nat : i \in Cells <=> i < Width * Height
<1>1. Width \in Nat /\ Height \in Nat /\ 1 <= Width /\ 1 <= Height
  BY ScreenAssumption
<1>2. Width * Height \in Nat /\ 1 <= Width * Height
  <2>1. 1 * 1 <= 1 * Height /\ 1 * Height <= Width * Height
    BY <1>1, ProductMonotone
  <2> QED BY <1>1, <2>1
<1> DEFINE size == Width * Height
<1> HIDE DEF size
<1>3. (size \in Nat) => (0 .. (size - 1) \subseteq Nat /\ \A i \in Nat : i \in 0 .. (size - 1) <=> i < size)
  OBVIOUS
<1> QED BY <1>1, <1>2, <1>3 DEF Cells, size

LEMMA ScreenParts ==
  ASSUME NEW on \in Screen
  PROVE  /\ on = [cells |-> on.cells, row |-> on.row, col |-> on.col]
         /\ on.cells \in [Cells -> Glyphs] /\ on.row \in Nat /\ on.col \in Nat /\ on.col < Width
         /\ CursorIndex(on) \in Nat /\ on.row * Width \in Nat
<1>1. /\ on = [cells |-> on.cells, row |-> on.row, col |-> on.col]
      /\ on.cells \in [Cells -> Glyphs] /\ on.row \in Nat /\ on.col \in 0 .. (Width - 1)
  BY DEF Screen
<1>2. on.row * Width \in Nat
  BY <1>1, ScreenFacts
<1> QED BY <1>1, <1>2, ScreenFacts DEF CursorIndex

LEMMA MadeScreen ==
  ASSUME NEW cells \in [Cells -> Glyphs], NEW row \in Nat, NEW col \in Nat, col < Width
  PROVE  [cells |-> cells, row |-> row, col |-> col] \in Screen
<1>1. col \in 0 .. (Width - 1)
  BY ScreenFacts
<1> QED BY <1>1 DEF Screen

LEMMA RowStarts ==
  ASSUME NEW on \in Screen
  PROVE  [on EXCEPT !.row = @ + 1, !.col = 0] = [cells |-> on.cells, row |-> on.row + 1, col |-> 0]
<1> DEFINE C == [Cells -> Glyphs]
           K == 0 .. (Width - 1)
           below == [on EXCEPT !.row = @ + 1]
<1>1. on \in [cells : C, row : Nat, col : K]
  BY DEF Screen
<1> HIDE DEF C, K
<1>2. [on EXCEPT !.row = @ + 1, !.col = 0] = [below EXCEPT !.col = 0]
  BY <1>1
<1>3. below = [cells |-> on.cells, row |-> on.row + 1, col |-> on.col]
  BY <1>1
<1> HIDE DEF below
<1>4. [below EXCEPT !.col = 0] = [cells |-> on.cells, row |-> on.row + 1, col |-> 0]
  BY <1>3
<1> QED BY <1>2, <1>4

(* A glyph goes to the cell at the cursor, if there is one.                  *)
LEMMA GlyphShown ==
  ASSUME NEW on \in Screen, NEW glyph \in Glyphs
  PROVE  /\ Shown(on, glyph) \in Screen
         /\ Shown(on, glyph).row = on.row /\ Shown(on, glyph).col = on.col
         /\ \A i \in Cells : Shown(on, glyph).cells[i] = IF i = CursorIndex(on) THEN glyph ELSE on.cells[i]
<1>1. CASE CursorIndex(on) \in Cells
  <2> DEFINE cells == [on.cells EXCEPT ![CursorIndex(on)] = glyph]
  <2>1. Shown(on, glyph) = [on EXCEPT !.cells = cells]
    BY <1>1 DEF Shown
  <2>2. cells \in [Cells -> Glyphs] /\ \A i \in Cells : cells[i] = IF i = CursorIndex(on) THEN glyph ELSE on.cells[i]
    BY ScreenParts
  <2> HIDE DEF cells
  <2>3. Shown(on, glyph) = [cells |-> cells, row |-> on.row, col |-> on.col]
    BY <2>1, ScreenParts
  <2> QED BY <2>2, <2>3, ScreenParts, MadeScreen
<1>2. CASE CursorIndex(on) \notin Cells
  BY <1>2 DEF Shown
<1> QED BY <1>1, <1>2

LEMMA CursorAdvances ==
  ASSUME NEW on \in Screen
  PROVE  /\ Advanced(on) \in Screen /\ Advanced(on).cells = on.cells
         /\ CursorIndex(Advanced(on)) = CursorIndex(on) + 1
<1>1. CASE on.col + 1 >= Width
  <2>1. Advanced(on) = [cells |-> on.cells, row |-> on.row + 1, col |-> 0]
    BY <1>1, RowStarts DEF Advanced
  <2>2. on.col + 1 = Width /\ 0 < Width /\ on.row + 1 \in Nat
    BY <1>1, ScreenParts, ScreenFacts
  <2>3. (on.row + 1) * Width = on.row * Width + Width
    BY ScreenParts, ScreenFacts
  <2>4. CursorIndex(Advanced(on)) = (on.row + 1) * Width + 0
    BY <2>1 DEF CursorIndex
  <2>5. CursorIndex(Advanced(on)) = CursorIndex(on) + 1
    BY <2>2, <2>3, <2>4, ScreenParts, ScreenFacts DEF CursorIndex
  <2> QED BY <2>1, <2>2, <2>5, ScreenParts, MadeScreen
<1>2. CASE ~(on.col + 1 >= Width)
  <2>1. Advanced(on) = [cells |-> on.cells, row |-> on.row, col |-> on.col + 1]
    BY <1>2, ScreenParts DEF Advanced
  <2>2. on.col + 1 \in Nat /\ on.col + 1 < Width
    BY <1>2, ScreenParts, ScreenFacts
  <2>3. CursorIndex(Advanced(on)) = CursorIndex(on) + 1
    <3>1. CursorIndex(Advanced(on)) = on.row * Width + (on.col + 1)
      BY <2>1 DEF CursorIndex
    <3>2. CursorIndex(on) = on.row * Width + on.col
      BY DEF CursorIndex
    <3> QED BY <3>1, <3>2, ScreenParts
  <2> QED BY <2>1, <2>2, <2>3, ScreenParts, MadeScreen
<1> QED BY <1>1, <1>2

LEMMA GlyphWritten ==
  ASSUME NEW on \in Screen, NEW glyph \in Glyphs
  PROVE  /\ WriteChar(on, glyph) \in Screen
         /\ CursorIndex(WriteChar(on, glyph)) = CursorIndex(on) + 1
         /\ \A i \in Cells :
              WriteChar(on, glyph).cells[i] = IF i = CursorIndex(on) THEN glyph ELSE on.cells[i]
<1>1. WriteChar(on, glyph) = Advanced(Shown(on, glyph))
  BY ScreenAssumption DEF WriteChar
<1>2. CursorIndex(Shown(on, glyph)) = CursorIndex(on)
  BY GlyphShown DEF CursorIndex
<1> QED BY <1>1, <1>2, GlyphShown, CursorAdvances

(* Below the cursor the screen is blank.                                     *)
BlankBelow(on) == \A i \in Cells : i >= CursorIndex(on) => on.cells[i] = Blank

LEMMA LineFed ==
  ASSUME NEW on \in Screen
  PROVE  LineFeed(on) \in Screen /\ (BlankBelow(on) => BlankBelow(LineFeed(on)))
<1>1. CASE on.row + 1 >= Height
  <2>1. LineFeed(on) = [cells |-> Scrolled(on.cells), row |-> Height - 1, col |-> 0]
    BY <1>1 DEF LineFeed
  <2>2. Scrolled(on.cells) \in [Cells -> Glyphs]
    BY ScreenParts, ScreenAssumption DEF Scrolled
  <2>3. Height - 1 \in Nat /\ 0 \in Nat /\ 0 < Width
    BY ScreenFacts
  <2>4. LineFeed(on) \in Screen
    BY <2>1, <2>2, <2>3, MadeScreen
  <2>5. CursorIndex(LineFeed(on)) + Width = Width * Height
    <3>1. CursorIndex(LineFeed(on)) = (Height - 1) * Width + 0
      BY <2>1 DEF CursorIndex
    <3>2. (Height - 1) * Width + Width = Width * Height /\ (Height - 1) * Width \in Nat
      BY <2>3, ScreenFacts
    <3> QED BY <3>1, <3>2
  <2>6. ASSUME NEW i \in Cells, i >= CursorIndex(LineFeed(on)) PROVE LineFeed(on).cells[i] = Blank
    <3>1. i + Width >= Width * Height /\ i + Width \in Nat
      BY <2>4, <2>5, <2>6, ScreenFacts, ScreenParts
    <3>2. i + Width \notin Cells
      BY <3>1, ScreenFacts
    <3> QED BY <2>1, <3>2 DEF Scrolled
  <2> QED BY <2>4, <2>6 DEF BlankBelow
<1>2. CASE ~(on.row + 1 >= Height)
  <2>1. LineFeed(on) = [cells |-> on.cells, row |-> on.row + 1, col |-> 0]
    BY <1>2, RowStarts DEF LineFeed
  <2>2. on.row + 1 \in Nat /\ 0 < Width
    BY ScreenParts, ScreenFacts
  <2>3. CursorIndex(LineFeed(on)) >= CursorIndex(on)
    <3>1. CursorIndex(LineFeed(on)) = (on.row + 1) * Width + 0
      BY <2>1 DEF CursorIndex
    <3>2. (on.row + 1) * Width = on.row * Width + Width
      BY ScreenParts, ScreenFacts
    <3> QED BY <3>1, <3>2, ScreenParts, ScreenFacts DEF CursorIndex
  <2>4. LineFeed(on) \in Screen
    BY <2>1, <2>2, ScreenParts, MadeScreen
  <2>5. \A i \in Cells : i >= CursorIndex(LineFeed(on)) => i >= CursorIndex(on)
    BY <2>3, <2>4, ScreenFacts, ScreenParts
  <2> QED BY <2>1, <2>4, <2>5 DEF BlankBelow
<1> QED BY <1>1, <1>2

LEMMA CharWritten ==
  ASSUME NEW on \in Screen, NEW char \in Glyphs \cup {NewLine}
  PROVE  WriteChar(on, char) \in Screen /\ (BlankBelow(on) => BlankBelow(WriteChar(on, char)))
<1>1. CASE char = NewLine
  BY <1>1, LineFed DEF WriteChar
<1>2. CASE char \in Glyphs
  <2> DEFINE new == WriteChar(on, char)
  <2>1. /\ new \in Screen /\ CursorIndex(new) = CursorIndex(on) + 1
        /\ \A i \in Cells : new.cells[i] = IF i = CursorIndex(on) THEN char ELSE on.cells[i]
    BY <1>2, GlyphWritten
  <2> HIDE DEF new
  <2>2. \A i \in Cells : i >= CursorIndex(new) => i >= CursorIndex(on) /\ i # CursorIndex(on)
    BY <2>1, ScreenFacts, ScreenParts
  <2>3. BlankBelow(on) => BlankBelow(new)
    BY <2>1, <2>2 DEF BlankBelow
  <2> QED BY <2>1, <2>3 DEF new
<1> QED BY <1>1, <1>2

(* terminal_write, character by character.                                   *)
LEMMA WriteRuns ==
  ASSUME NEW on \in Screen, NEW text \in Seq(Glyphs \cup {NewLine})
  PROVE  \E after \in [0 .. Len(text) -> Screen] :
           /\ after[0] = on
           /\ \A n \in 1 .. Len(text) : after[n] = WriteChar(after[n - 1], text[n])
           /\ Write(on, text) = after[Len(text)]
<1> DEFINE size == Len(text)
           step == [n \in 1 .. size |-> [s \in Screen |-> WriteChar(s, text[n])]]
           Loop(f) == f = [n \in 0 .. size |-> IF n = 0 THEN on ELSE WriteChar(f[n - 1], text[n])]
<1>1. size \in Nat /\ \A n \in 1 .. size : text[n] \in Glyphs \cup {NewLine}
  OBVIOUS
<1> HIDE DEF size
<1>2. step \in [1 .. size -> [Screen -> Screen]]
  BY <1>1, CharWritten
<1>3. PICK g : LoopHistory(Screen, on, size, step, g)
  <2> HIDE DEF step, Loop
  <2> QED BY <1>1, <1>2, LoopRuns
<1>4. /\ \A n \in 1 .. size : n - 1 \in 0 .. size /\ n \in 0 .. size /\ n # 0
      /\ \A n \in 0 .. size : n # 0 => n \in 1 .. size
      /\ 0 \in 0 .. size /\ size \in 0 .. size
  BY <1>1
<1>5. \A n \in 1 .. size : g[n] = WriteChar(g[n - 1], text[n])
  BY <1>3, <1>4 DEF LoopHistory
<1>6. Loop(g)
  BY <1>3, <1>4, <1>5 DEF LoopHistory
<1> DEFINE f == CHOOSE h : Loop(h)
<1>7. Loop(f)
  <2> HIDE DEF Loop
  <2> QED BY <1>6
<1>8. Write(on, text) = f[size]
  BY DEF Write, size
<1> HIDE DEF f
<1>9. f[0] = on /\ \A n \in 1 .. size : f[n] = WriteChar(f[n - 1], text[n])
  BY <1>4, <1>7
<1>10. \A n \in Nat : n \in {m \in Nat : m <= size => f[m] \in Screen}
  <2> DEFINE S == {m \in Nat : m <= size => f[m] \in Screen}
  <2>1. 0 \in S
    BY <1>9
  <2>2. ASSUME NEW n \in Nat, n \in S PROVE n + 1 \in S
    <3> SUFFICES ASSUME n + 1 <= size PROVE f[n + 1] \in Screen
      OBVIOUS
    <3>1. n <= size /\ n + 1 \in 1 .. size /\ (n + 1) - 1 = n
      BY <1>1
    <3>2. f[n] \in Screen /\ f[n + 1] = WriteChar(f[n], text[n + 1])
      BY <1>9, <2>2, <3>1
    <3> QED BY <1>1, <3>1, <3>2, CharWritten
  <2> HIDE DEF S
  <2>3. \A n \in Nat : n \in S
    BY <2>1, <2>2, Induction
  <2> QED BY <2>3 DEF S
<1>11. f \in [0 .. size -> Screen]
  <2>1. \A n \in 0 .. size : f[n] \in Screen
    BY <1>1, <1>10
  <2>2. \E e : f = [n \in 0 .. size |-> e[n]]
    BY <1>7
  <2> QED BY <2>1, <1>7
<1> QED BY <1>8, <1>9, <1>11 DEF size

LEMMA Written ==
  ASSUME NEW on \in Screen, NEW text \in Seq(Glyphs \cup {NewLine})
  PROVE  Write(on, text) \in Screen /\ (BlankBelow(on) => BlankBelow(Write(on, text)))
<1> DEFINE size == Len(text)
<1>1. size \in Nat /\ \A n \in 1 .. size : text[n] \in Glyphs \cup {NewLine}
  OBVIOUS
<1>2. PICK after \in [0 .. size -> Screen] :
        /\ after[0] = on /\ \A n \in 1 .. size : after[n] = WriteChar(after[n - 1], text[n])
        /\ Write(on, text) = after[size]
  BY WriteRuns
<1> HIDE DEF size
<1> DEFINE S == {n \in Nat : n <= size /\ BlankBelow(on) => BlankBelow(after[n])}
<1>3. 0 \in S
  BY <1>2
<1>4. ASSUME NEW n \in Nat, n \in S PROVE n + 1 \in S
  <2> SUFFICES ASSUME n + 1 <= size, BlankBelow(on) PROVE BlankBelow(after[n + 1])
    OBVIOUS
  <2>1. n <= size /\ n \in 0 .. size /\ n + 1 \in 1 .. size /\ (n + 1) - 1 = n
    BY <1>1
  <2>2. after[n] \in Screen /\ BlankBelow(after[n]) /\ after[n + 1] = WriteChar(after[n], text[n + 1])
    BY <1>2, <1>4, <2>1
  <2> QED BY <1>1, <2>1, <2>2, CharWritten
<1> HIDE DEF S
<1>5. \A n \in Nat : n \in S
  BY <1>3, <1>4, Induction
<1>6. BlankBelow(on) => BlankBelow(after[size])
  BY <1>1, <1>5 DEF S
<1> QED BY <1>1, <1>2, <1>6

(* A text without line feeds fills the cells from the cursor on.             *)
LEMMA GlyphsWritten ==
  ASSUME NEW on \in Screen, NEW text \in Seq(Glyphs)
  PROVE  /\ Write(on, text) \in Screen /\ CursorIndex(Write(on, text)) = CursorIndex(on) + Len(text)
         /\ \A i \in Cells :
              Write(on, text).cells[i] = IF i \in CursorIndex(on) .. (CursorIndex(on) + Len(text) - 1)
                                         THEN text[i - CursorIndex(on) + 1] ELSE on.cells[i]
<1> DEFINE size == Len(text)
           start == CursorIndex(on)
           Drawn(new, n) == /\ CursorIndex(new) = start + n
                            /\ \A i \in Cells : new.cells[i] = IF i \in start .. (start + n - 1)
                                                               THEN text[i - start + 1] ELSE on.cells[i]
<1>1. size \in Nat /\ \A n \in 1 .. size : text[n] \in Glyphs
  OBVIOUS
<1>2. PICK after \in [0 .. size -> Screen] :
        /\ after[0] = on /\ \A n \in 1 .. size : after[n] = WriteChar(after[n - 1], text[n])
        /\ Write(on, text) = after[size]
  <2>1. text \in Seq(Glyphs \cup {NewLine})
    OBVIOUS
  <2> QED BY <2>1, WriteRuns
<1>3. start \in Nat
  BY ScreenParts
<1> HIDE DEF size, start
<1> DEFINE S == {n \in Nat : n <= size => Drawn(after[n], n)}
<1>4. 0 \in S
  <2>1. start + 0 = start /\ start .. (start + 0 - 1) = {}
    BY <1>3
  <2> QED BY <1>2, <2>1 DEF start
<1>5. ASSUME NEW n \in Nat, n \in S PROVE n + 1 \in S
  <2> SUFFICES ASSUME n + 1 <= size PROVE Drawn(after[n + 1], n + 1)
    OBVIOUS
  <2> DEFINE old == after[n]
             new == after[n + 1]
  <2>1. n <= size /\ n \in 0 .. size /\ n + 1 \in 1 .. size /\ (n + 1) - 1 = n
    BY <1>1
  <2>2. old \in Screen /\ Drawn(old, n) /\ new = WriteChar(old, text[n + 1]) /\ text[n + 1] \in Glyphs
    BY <1>1, <1>2, <1>5, <2>1
  <2> HIDE DEF old, new, Drawn, S
  <2>3. /\ CursorIndex(new) = CursorIndex(old) + 1
        /\ \A i \in Cells : new.cells[i] = IF i = CursorIndex(old) THEN text[n + 1] ELSE old.cells[i]
    BY <2>2, GlyphWritten
  <2>4. CursorIndex(old) = start + n
    BY <2>2 DEF Drawn
  <2>5. CursorIndex(new) = start + (n + 1)
    BY <1>3, <2>3, <2>4
  <2>6. ASSUME NEW i \in Cells
        PROVE  new.cells[i] = IF i \in start .. (start + (n + 1) - 1) THEN text[i - start + 1] ELSE on.cells[i]
    <3>1. i \in Nat
      BY ScreenFacts
    <3>2. CASE i = start + n
      <4>1. i \in start .. (start + (n + 1) - 1) /\ i - start + 1 = n + 1
        BY <1>3, <3>2
      <4> QED BY <2>3, <2>4, <3>2, <4>1
    <3>3. CASE i # start + n
      <4>1. i \in start .. (start + (n + 1) - 1) <=> i \in start .. (start + n - 1)
        BY <1>3, <3>1, <3>3
      <4>2. new.cells[i] = old.cells[i]
        BY <2>3, <2>4, <3>3
      <4> QED BY <2>2, <4>1, <4>2 DEF Drawn
    <3> QED BY <3>2, <3>3
  <2> QED BY <2>5, <2>6 DEF Drawn, new
<1> HIDE DEF S
<1>6. \A n \in Nat : n \in S
  BY <1>4, <1>5, Induction
<1>7. Drawn(after[size], size)
  BY <1>1, <1>6 DEF S
<1> QED BY <1>1, <1>2, <1>7 DEF size, start

(* terminal_backspace only blanks cells.                                     *)
OnlyBlanks(on, new) == \A i \in Cells : new.cells[i] \in {on.cells[i], Blank}

LEMMA SteppedBack ==
  ASSUME NEW on \in Screen
  PROVE  Backspace(on) \in Screen /\ OnlyBlanks(on, Backspace(on))
<1> DEFINE back == IF on.col > 0 THEN [on EXCEPT !.col = @ - 1]
                   ELSE IF on.row > 0 THEN [on EXCEPT !.row = @ - 1, !.col = Width - 1]
                   ELSE on
<1>1. back \in Screen /\ back.cells = on.cells
  <2>1. CASE on.col > 0
    <3>1. back = [cells |-> on.cells, row |-> on.row, col |-> on.col - 1]
      BY <2>1, ScreenParts
    <3>2. on.col - 1 \in Nat /\ on.col - 1 < Width
      BY <2>1, ScreenParts, ScreenFacts
    <3> HIDE DEF back
    <3> QED BY <3>1, <3>2, ScreenParts, MadeScreen
  <2>2. CASE ~(on.col > 0) /\ on.row > 0
    <3> DEFINE C == [Cells -> Glyphs]
               K == 0 .. (Width - 1)
               above == [on EXCEPT !.row = @ - 1]
    <3>1. on \in [cells : C, row : Nat, col : K]
      BY DEF Screen
    <3> HIDE DEF C, K
    <3>2. back = [above EXCEPT !.col = Width - 1]
      BY <2>2, <3>1
    <3> HIDE DEF back
    <3>3. above = [cells |-> on.cells, row |-> on.row - 1, col |-> on.col]
      BY <3>1
    <3> HIDE DEF above
    <3>4. back = [cells |-> on.cells, row |-> on.row - 1, col |-> Width - 1]
      BY <3>2, <3>3
    <3>5. on.row - 1 \in Nat /\ Width - 1 \in Nat /\ Width - 1 < Width
      BY <2>2, ScreenParts, ScreenFacts
    <3> QED BY <3>4, <3>5, ScreenParts, MadeScreen
  <2>3. CASE ~(on.col > 0) /\ ~(on.row > 0)
    BY <2>3
  <2> QED BY <2>1, <2>2, <2>3
<1>2. Backspace(on) = Shown(back, Blank)
  BY DEF Backspace
<1> HIDE DEF back
<1>3. \A i \in Cells : Shown(back, Blank).cells[i] \in {on.cells[i], Blank}
  BY <1>1, GlyphShown, ScreenAssumption
<1> QED BY <1>1, <1>2, <1>3, GlyphShown, ScreenAssumption DEF OnlyBlanks

LEMMA SteppedBackOver ==
  ASSUME NEW on \in Screen, NEW steps \in Nat
  PROVE  Backspaces(on, steps) \in Screen /\ OnlyBlanks(on, Backspaces(on, steps))
<1> DEFINE step == [n \in 1 .. steps |-> [s \in Screen |-> Backspace(s)]]
           Loop(f) == f = [n \in 0 .. steps |-> IF n = 0 THEN on ELSE Backspace(f[n - 1])]
<1>1. step \in [1 .. steps -> [Screen -> Screen]]
  BY SteppedBack
<1>2. PICK g : LoopHistory(Screen, on, steps, step, g)
  <2> HIDE DEF step, Loop
  <2> QED BY <1>1, LoopRuns
<1>3. /\ \A n \in 1 .. steps : n - 1 \in 0 .. steps /\ n \in 0 .. steps /\ n # 0
      /\ \A n \in 0 .. steps : n # 0 => n \in 1 .. steps
      /\ 0 \in 0 .. steps /\ steps \in 0 .. steps
  OBVIOUS
<1>4. \A n \in 1 .. steps : g[n] = Backspace(g[n - 1])
  BY <1>2, <1>3 DEF LoopHistory
<1>5. Loop(g)
  BY <1>2, <1>3, <1>4 DEF LoopHistory
<1> DEFINE f == CHOOSE h : Loop(h)
<1>6. Loop(f)
  <2> HIDE DEF Loop
  <2> QED BY <1>5
<1>7. Backspaces(on, steps) = f[steps]
  BY DEF Backspaces
<1> HIDE DEF f
<1>8. f[0] = on /\ \A n \in 1 .. steps : f[n] = Backspace(f[n - 1])
  BY <1>3, <1>6
<1> DEFINE S == {n \in Nat : n <= steps => f[n] \in Screen /\ OnlyBlanks(on, f[n])}
<1> HIDE DEF Loop, step
<1>9. 0 \in S
  BY <1>8 DEF OnlyBlanks
<1>10. ASSUME NEW n \in Nat, n \in S PROVE n + 1 \in S
  <2> SUFFICES ASSUME n + 1 <= steps PROVE f[n + 1] \in Screen /\ OnlyBlanks(on, f[n + 1])
    OBVIOUS
  <2>1. n <= steps /\ n + 1 \in 1 .. steps /\ (n + 1) - 1 = n
    OBVIOUS
  <2>2. f[n] \in Screen /\ OnlyBlanks(on, f[n]) /\ f[n + 1] = Backspace(f[n])
    BY <1>8, <1>10, <2>1
  <2>3. f[n + 1] \in Screen /\ OnlyBlanks(f[n], f[n + 1])
    BY <2>2, SteppedBack
  <2>4. OnlyBlanks(on, f[n + 1])
    BY <2>2, <2>3, Zenon DEF OnlyBlanks
  <2> QED BY <2>3, <2>4
<1> HIDE DEF S
<1>11. \A n \in Nat : n \in S
  BY <1>9, <1>10, Induction
<1>12. f[steps] \in Screen /\ OnlyBlanks(on, f[steps])
  BY <1>11 DEF S
<1> QED BY <1>7, <1>12

(* terminal_set_cursor_index moves the cursor and nothing else.              *)
LEMMA CursorSet ==
  ASSUME NEW on \in Screen, NEW index \in Nat
  PROVE  /\ SetCursor(on, index) \in Screen /\ SetCursor(on, index).cells = on.cells
         /\ index < Width * Height => CursorIndex(SetCursor(on, index)) = index
<1> DEFINE i == IF index >= Width * Height THEN Width * Height - 1 ELSE index
           C == [Cells -> Glyphs]
           K == 0 .. (Width - 1)
           moved == [on EXCEPT !.row = i \div Width]
<1>1. i \in Nat /\ (index < Width * Height => i = index)
  <2> DEFINE size == Width * Height
  <2>1. size \in Nat /\ 1 <= size
    BY ScreenFacts
  <2> HIDE DEF size
  <2>2. (IF index >= size THEN size - 1 ELSE index) \in Nat /\ (index < size => ~(index >= size))
    BY <2>1
  <2> QED BY <2>2 DEF size
<1>2. SetCursor(on, index) = [on EXCEPT !.row = i \div Width, !.col = i % Width]
  BY DEF SetCursor
<1> HIDE DEF i
<1>3. on \in [cells : C, row : Nat, col : K]
  BY DEF Screen
<1> HIDE DEF C, K
<1>4. SetCursor(on, index) = [moved EXCEPT !.col = i % Width]
  BY <1>2, <1>3
<1>5. moved = [cells |-> on.cells, row |-> i \div Width, col |-> on.col]
  BY <1>3
<1> HIDE DEF moved
<1>6. SetCursor(on, index) = [cells |-> on.cells, row |-> i \div Width, col |-> (i % Width)]
  BY <1>4, <1>5
<1>7. i \div Width \in Nat /\ (i % Width) \in Nat /\ (i % Width) < Width /\ i = (i \div Width) * Width + (i % Width)
  BY <1>1, ScreenAssumption, DivMod
<1>8. CursorIndex(SetCursor(on, index)) = i
  BY <1>6, <1>7 DEF CursorIndex
<1> QED BY <1>1, <1>6, <1>7, <1>8, ScreenParts, MadeScreen

-----------------------------------------------------------------------------
(* What shell_refresh_line writes: the prompt, the line, and blanks where a  *)
(* longer line was.                                                         *)
RestLength(n) == IF lastRendered > n THEN lastRendered - n ELSE 0
Rest(n) == IF lastRendered > n THEN Blanks(lastRendered - n) ELSE <<>>
Drawing(array, n) == (Prompt \o LineOf(array, n)) \o Rest(n)

LEMMA PromptFacts == Prompt \in Seq(Glyphs) /\ Len(Prompt) \in Nat /\ \A k \in 1 .. Len(Prompt) : Prompt[k] \in Glyphs
BY ShellAssumption

(* One text behind another.                                                  *)
Join(both, a, b) ==
  /\ Len(both) = Len(a) + Len(b)
  /\ \A k \in 1 .. Len(a) : both[k] = a[k]
  /\ \A k \in 1 .. Len(b) : both[Len(a) + k] = b[k]

LEMMA Joined ==
  ASSUME NEW a \in Seq(Glyphs), NEW b \in Seq(Glyphs)
  PROVE  a \o b \in Seq(Glyphs) /\ Join(a \o b, a, b)
<1>1. a \o b \in Seq(Glyphs) /\ Len(a \o b) = Len(a) + Len(b)
  OBVIOUS
<1>2. \A k \in 1 .. Len(a) + Len(b) : (a \o b)[k] = IF k <= Len(a) THEN a[k] ELSE b[k - Len(a)]
  BY ConcatProperties
<1>3. \A k \in 1 .. Len(a) : k \in 1 .. Len(a) + Len(b) /\ k <= Len(a)
  OBVIOUS
<1>4. \A k \in 1 .. Len(b) : Len(a) + k \in 1 .. Len(a) + Len(b) /\ ~(Len(a) + k <= Len(a)) /\ (Len(a) + k) - Len(a) = k
  OBVIOUS
<1> QED BY <1>1, <1>2, <1>3, <1>4 DEF Join

LEMMA DrawingIs ==
  ASSUME NEW array, NEW n, NEW place, LineHolds(array, n, place), lastRendered \in Nat
  PROVE  /\ Drawing(array, n) \in Seq(Glyphs) /\ n \in Nat
         /\ Len(Drawing(array, n)) = Len(Prompt) + n + RestLength(n)
         /\ \A k \in 1 .. Len(Prompt) : Drawing(array, n)[k] = Prompt[k]
         /\ \A k \in 1 .. n : Drawing(array, n)[Len(Prompt) + k] = array[k - 1]
         /\ \A k \in 1 .. Len(Drawing(array, n)) : k > Len(Prompt) + n => Drawing(array, n)[k] = Blank
<1> DEFINE line == LineOf(array, n)
           rest == Rest(n)
           P == Len(Prompt)
           r == RestLength(n)
<1>1. n \in Nat
  BY SizeFacts DEF LineHolds
<1>2. line \in Seq(Glyphs) /\ Len(line) = n /\ \A k \in 1 .. n : line[k] = array[k - 1]
  <2>1. LineOf(array, n) \in Seq(Chars) /\ Len(LineOf(array, n)) = n
    BY LineIsText
  <2> QED BY <1>1, <2>1, ShellAssumption DEF LineOf
<1>3. r \in Nat /\ rest \in Seq(Glyphs) /\ Len(rest) = r /\ \A k \in 1 .. r : rest[k] = Blank
  <2>1. CASE lastRendered > n
    <3>1. r \in Nat /\ r = lastRendered - n /\ rest = [k \in 1 .. r |-> Blank]
      BY <1>1, <2>1 DEF Rest, Blanks, RestLength
    <3> HIDE DEF r, rest
    <3> QED BY <3>1, ScreenAssumption
  <2>2. CASE ~(lastRendered > n)
    <3>1. r = 0 /\ rest = <<>>
      BY <2>2 DEF Rest, RestLength
    <3> HIDE DEF r, rest
    <3> QED BY <3>1
  <2> QED BY <2>1, <2>2
<1>4. Prompt \in Seq(Glyphs) /\ P \in Nat
  BY PromptFacts
<1> DEFINE both == Prompt \o line
<1>5. Drawing(array, n) = both \o rest
  BY DEF Drawing
<1> HIDE DEF line, rest, r, P
<1>6. /\ both \in Seq(Glyphs) /\ Len(both) = P + n
      /\ \A k \in 1 .. P : both[k] = Prompt[k]
      /\ \A m \in 1 .. n : both[P + m] = line[m]
  <2>1. both \in Seq(Glyphs) /\ Join(both, Prompt, line)
    BY <1>2, <1>4, Joined
  <2> HIDE DEF both
  <2> QED BY <1>2, <2>1 DEF P, Join
<1> HIDE DEF both
<1>7. /\ Drawing(array, n) \in Seq(Glyphs) /\ Len(Drawing(array, n)) = P + n + r
      /\ \A k \in 1 .. (P + n) : Drawing(array, n)[k] = both[k]
      /\ \A k \in 1 .. r : Drawing(array, n)[P + n + k] = rest[k]
  <2>1. both \o rest \in Seq(Glyphs) /\ Join(both \o rest, both, rest)
    BY <1>3, <1>6, Joined
  <2>2. Drawing(array, n) \in Seq(Glyphs) /\ Join(Drawing(array, n), both, rest)
    BY <1>5, <2>1
  <2> QED BY <1>3, <1>6, <2>2 DEF Join
<1>8. /\ \A k \in 1 .. P : k \in 1 .. (P + n)
      /\ \A k \in 1 .. n : P + k \in 1 .. (P + n)
      /\ \A k \in 1 .. (P + n + r) : k > P + n => k - (P + n) \in 1 .. r /\ P + n + (k - (P + n)) = k
  BY <1>1, <1>3, <1>4
<1>9. \A k \in 1 .. P : Drawing(array, n)[k] = Prompt[k]
  BY <1>6, <1>7, <1>8
<1>10. \A k \in 1 .. n : Drawing(array, n)[P + k] = array[k - 1]
  BY <1>2, <1>6, <1>7, <1>8
<1>11. \A k \in 1 .. (P + n + r) : k > P + n => Drawing(array, n)[k] = Blank
  BY <1>3, <1>7, <1>8
<1> QED BY <1>1, <1>7, <1>9, <1>10, <1>11 DEF P, r

(* What shell_refresh_line leaves on the screen.                             *)
Redrawn(on, new, array, n, place) ==
  LET first == promptStart + Len(Prompt) IN
  /\ new \in Screen
  /\ first + place < Width * Height => CursorIndex(new) = first + place
  /\ promptStart \in Cells =>
       /\ \A i \in Cells : i < promptStart => new.cells[i] = on.cells[i]
       /\ \A k \in 1 .. Len(Prompt) : promptStart + k - 1 \in Cells => new.cells[promptStart + k - 1] = Prompt[k]
       /\ \A k \in 1 .. n : first + k - 1 \in Cells => new.cells[first + k - 1] = array[k - 1]
       /\ \A i \in Cells : i >= first + n =>
            new.cells[i] = IF i < first + lastRendered THEN Blank ELSE on.cells[i]

LEMMA LineRefreshed ==
  ASSUME NEW on \in Screen, NEW array, NEW n, NEW place, LineHolds(array, n, place),
         promptStart \in Nat, lastRendered \in Nat
  PROVE  Redrawn(on, Refreshed(on, array, n, place), array, n, place)
<1> DEFINE P == Len(Prompt)
           first == promptStart + P
           text == Drawing(array, n)
           L == Len(text)
           from == SetCursor(on, promptStart)
           written == Write(from, text)
           new == SetCursor(written, first + place)
           r == RestLength(n)
<1>1. /\ text \in Seq(Glyphs) /\ n \in Nat /\ L = P + n + r
      /\ \A k \in 1 .. P : text[k] = Prompt[k]
      /\ \A k \in 1 .. n : text[P + k] = array[k - 1]
      /\ \A k \in 1 .. L : k > P + n => text[k] = Blank
  <2>1. /\ Drawing(array, n) \in Seq(Glyphs) /\ n \in Nat
        /\ Len(Drawing(array, n)) = Len(Prompt) + n + RestLength(n)
        /\ \A k \in 1 .. Len(Prompt) : Drawing(array, n)[k] = Prompt[k]
        /\ \A k \in 1 .. n : Drawing(array, n)[Len(Prompt) + k] = array[k - 1]
        /\ \A k \in 1 .. Len(Drawing(array, n)) : k > Len(Prompt) + n => Drawing(array, n)[k] = Blank
    BY DrawingIs
  <2> QED BY <2>1
<1>2. /\ P \in Nat /\ L \in Nat /\ place \in Nat /\ first \in Nat /\ first + place \in Nat
      /\ r \in Nat /\ r = (IF lastRendered > n THEN lastRendered - n ELSE 0)
  <2>1. place \in Nat
    BY <1>1 DEF LineHolds
  <2>2. r \in Nat /\ r = (IF lastRendered > n THEN lastRendered - n ELSE 0)
    BY <1>1 DEF RestLength
  <2> HIDE DEF r
  <2> QED BY <1>1, <2>1, <2>2, PromptFacts
<1>3. Refreshed(on, array, n, place) = new
  BY DEF Refreshed, Drawing, Rest, LineOf
<1>4. from \in Screen /\ from.cells = on.cells /\ (promptStart < Width * Height => CursorIndex(from) = promptStart)
  BY CursorSet
<1> HIDE DEF text, from
<1>5. /\ written \in Screen
      /\ \A i \in Cells : written.cells[i] = IF i \in CursorIndex(from) .. (CursorIndex(from) + L - 1)
                                             THEN text[i - CursorIndex(from) + 1] ELSE from.cells[i]
  BY <1>1, <1>4, GlyphsWritten
<1> HIDE DEF written
<1>6. /\ new \in Screen /\ new.cells = written.cells
      /\ first + place < Width * Height => CursorIndex(new) = first + place
  <2> HIDE DEF first
  <2> QED BY <1>2, <1>5, CursorSet
<1> HIDE DEF new, L, r, P
<1>7. first = promptStart + P
  OBVIOUS
<1> HIDE DEF first
<1>8. ASSUME promptStart \in Cells
      PROVE  /\ \A i \in Cells : i < promptStart => new.cells[i] = on.cells[i]
             /\ \A k \in 1 .. P : promptStart + k - 1 \in Cells => new.cells[promptStart + k - 1] = Prompt[k]
             /\ \A k \in 1 .. n : first + k - 1 \in Cells => new.cells[first + k - 1] = array[k - 1]
             /\ \A i \in Cells : i >= first + n =>
                  new.cells[i] = IF i < first + lastRendered THEN Blank ELSE on.cells[i]
  <2>1. CursorIndex(from) = promptStart
    BY <1>4, <1>8, ScreenFacts
  <2>2. \A i \in Cells : new.cells[i] = IF i \in promptStart .. (promptStart + L - 1)
                                        THEN text[i - promptStart + 1] ELSE on.cells[i]
    BY <1>4, <1>5, <1>6, <2>1
  <2>3. P + n <= L
    BY <1>1, <1>2
  <2>4. \A i \in Cells : i < promptStart => i \notin promptStart .. (promptStart + L - 1)
    BY ScreenFacts
  <2>5. \A k \in 1 .. P : /\ promptStart + k - 1 \in promptStart .. (promptStart + L - 1)
                          /\ (promptStart + k - 1) - promptStart + 1 = k
    BY <1>1, <1>2, <1>7, <2>3
  <2>6. \A k \in 1 .. n : /\ first + k - 1 \in promptStart .. (promptStart + L - 1)
                          /\ (first + k - 1) - promptStart + 1 = P + k
    BY <1>1, <1>2, <1>7, <2>3
  <2>7. ASSUME NEW i \in Cells, i >= first + n
        PROVE  new.cells[i] = IF i < first + lastRendered THEN Blank ELSE on.cells[i]
    <3>1. i \in Nat
      BY ScreenFacts
    <3>2. CASE i < first + lastRendered
      <4>1. /\ i \in promptStart .. (promptStart + L - 1) /\ i - promptStart + 1 \in 1 .. L
            /\ i - promptStart + 1 > P + n
        BY <1>1, <1>2, <1>7, <2>7, <3>1, <3>2
      <4> QED BY <1>1, <2>2, <3>2, <4>1
    <3>3. CASE ~(i < first + lastRendered)
      <4>1. i \notin promptStart .. (promptStart + L - 1)
        BY <1>1, <1>2, <1>7, <2>7, <3>1, <3>3
      <4> QED BY <2>2, <3>3, <4>1
    <3> QED BY <3>2, <3>3
  <2>8. \A k \in 1 .. P : promptStart + k - 1 \in Cells => new.cells[promptStart + k - 1] = Prompt[k]
    BY <1>1, <2>2, <2>5
  <2>9. \A k \in 1 .. n : first + k - 1 \in Cells => new.cells[first + k - 1] = array[k - 1]
    <3> QED BY <1>1, <2>2, <2>6
  <2> QED BY <2>2, <2>4, <2>7, <2>8, <2>9
<1> QED BY <1>3, <1>6, <1>8 DEF P, first, Redrawn

(* The screen shows the prompt and the line, with nothing behind them.       *)
Drawn(on, start, array, n, place) ==
  /\ start + Len(Prompt) + n < Width * Height =>
       /\ \A k \in 1 .. Len(Prompt) : on.cells[start + k - 1] = Prompt[k]
       /\ \A k \in 1 .. n : on.cells[start + Len(Prompt) + k - 1] = array[k - 1]
       /\ CursorIndex(on) = start + Len(Prompt) + place
  /\ start \in Cells =>
       \A i \in Cells : i >= start + Len(Prompt) + n => on.cells[i] = Blank

DrawSound ==
  /\ promptStart \in Nat /\ screen \in Screen /\ littered \in BOOLEAN /\ halted \in BOOLEAN
  /\ lastRendered = length
  /\ ~littered /\ ~halted => Drawn(screen, promptStart, buffer, length, cursor)

LEMMA DrawnShows ==
  ASSUME NEW on, NEW start \in Nat, NEW array, NEW n \in Nat, NEW place,
         Drawn(on, start, array, n, place)
  PROVE  LET end == start + Len(Prompt) + n IN
         /\ end < Width * Height =>
              /\ \A k \in 1 .. Len(Prompt) : on.cells[start + k - 1] = Prompt[k]
              /\ \A k \in 1 .. n : on.cells[start + Len(Prompt) + k - 1] = array[k - 1]
              /\ \A i \in end .. (Width * Height - 1) : on.cells[i] = Blank
              /\ CursorIndex(on) = start + Len(Prompt) + place
         /\ start \in Cells => \A i \in Cells : i >= end => on.cells[i] = Blank
<1> DEFINE size == Width * Height
           P == Len(Prompt)
           end == start + P + n
<1>1. P \in Nat /\ size \in Nat
  BY PromptFacts, ScreenFacts
<1>2. end < size => start < size /\ \A i \in end .. (size - 1) : i \in Nat /\ i < size /\ i >= end
  <2> HIDE DEF P, size
  <2> QED BY <1>1
<1>3. end < size => start \in Cells /\ \A i \in end .. (size - 1) : i \in Cells /\ i >= end
  BY <1>2, ScreenFacts
<1> QED BY <1>3 DEF Drawn

(* After shell_refresh_line it does, if only blanks were written before.     *)
LEMMA LineDrawn ==
  ASSUME NEW on \in Screen, NEW new \in Screen, NEW start \in Nat, NEW before \in Nat,
         NEW array, NEW n \in Nat, NEW place \in 0 .. n,
         start + Len(Prompt) + place < Width * Height => CursorIndex(new) = start + Len(Prompt) + place,
         start \in Cells =>
           /\ \A k \in 1 .. Len(Prompt) : start + k - 1 \in Cells => new.cells[start + k - 1] = Prompt[k]
           /\ \A k \in 1 .. n : start + Len(Prompt) + k - 1 \in Cells =>
                new.cells[start + Len(Prompt) + k - 1] = array[k - 1]
           /\ \A i \in Cells : i >= start + Len(Prompt) + n =>
                new.cells[i] = IF i < start + Len(Prompt) + before THEN Blank ELSE on.cells[i],
         start \in Cells => \A i \in Cells : i >= start + Len(Prompt) + before => on.cells[i] = Blank
  PROVE  Drawn(new, start, array, n, place)
<1> DEFINE size == Width * Height
           P == Len(Prompt)
<1>1. P \in Nat /\ size \in Nat /\ place \in Nat /\ place <= n
  BY PromptFacts, ScreenFacts
<1>2. ASSUME start + P + n < size
      PROVE  /\ start < size /\ start + P + place < size
             /\ \A k \in 1 .. P : start + k - 1 \in Nat /\ start + k - 1 < size
             /\ \A k \in 1 .. n : start + P + k - 1 \in Nat /\ start + P + k - 1 < size
  <2> HIDE DEF P, size
  <2> QED BY <1>1, <1>2
<1>3. ASSUME start + P + n < size
      PROVE  /\ start \in Cells /\ start + P + place < size
             /\ \A k \in 1 .. P : start + k - 1 \in Cells
             /\ \A k \in 1 .. n : start + P + k - 1 \in Cells
  BY <1>2, <1>3, ScreenFacts
<1>4. ASSUME start \in Cells, NEW i \in Cells, i >= start + P + n PROVE new.cells[i] = Blank
  <2>1. i \in Nat
    BY ScreenFacts
  <2>2. ~(i < start + P + before) => i >= start + P + before
    <3> HIDE DEF P
    <3> QED BY <1>1, <2>1
  <2> QED BY <1>4, <2>2
<1> QED BY <1>3, <1>4 DEF Drawn

(* A line drawn by a key, and what the key leaves above the prompt.          *)
LEMMA LineShown ==
  ASSUME DrawSound, EditorSound, EditorSound', NEW on \in Screen, OnlyBlanks(screen, on),
         ShowsLineOn(on, buffer', length', cursor')
  PROVE  /\ DrawSound'
         /\ promptStart \in Cells => \A i \in Cells : i < promptStart => screen'.cells[i] = on.cells[i]
<1>1. PICK array, n, place : array = buffer' /\ n = length' /\ place = cursor'
  OBVIOUS
<1>2. LineHolds(array, n, place)
  BY <1>1, SoundParts DEF EditorSound, LineHolds
<1>3. /\ screen' = Refreshed(on, array, n, place) /\ lastRendered' = n
      /\ promptStart' = promptStart /\ littered' = littered /\ halted' = halted
  BY <1>1 DEF ShowsLineOn
<1>4. /\ promptStart \in Nat /\ length \in Nat /\ lastRendered = length /\ n \in Nat /\ place \in 0 .. n
      /\ littered \in BOOLEAN /\ halted \in BOOLEAN
  BY <1>2, StateFacts, SizeFacts DEF DrawSound, LineHolds
<1> DEFINE new == Refreshed(on, array, n, place)
           first == promptStart + Len(Prompt)
<1>5. /\ new \in Screen
      /\ first + place < Width * Height => CursorIndex(new) = first + place
      /\ promptStart \in Cells =>
           /\ \A i \in Cells : i < promptStart => new.cells[i] = on.cells[i]
           /\ \A k \in 1 .. Len(Prompt) : promptStart + k - 1 \in Cells => new.cells[promptStart + k - 1] = Prompt[k]
           /\ \A k \in 1 .. n : first + k - 1 \in Cells => new.cells[first + k - 1] = array[k - 1]
           /\ \A i \in Cells : i >= first + n =>
                new.cells[i] = IF i < first + lastRendered THEN Blank ELSE on.cells[i]
  <2>1. Redrawn(on, new, array, n, place)
    BY <1>2, <1>4, LineRefreshed
  <2> HIDE DEF new
  <2> QED BY <2>1 DEF Redrawn
<1> HIDE DEF new
<1>6. ASSUME ~littered, ~halted PROVE Drawn(new, promptStart, array, n, place)
  <2>1. Drawn(screen, promptStart, buffer, length, cursor)
    BY <1>6 DEF DrawSound
  <2>2. promptStart \in Cells => \A i \in Cells : i >= first + length => screen.cells[i] = Blank
    BY <2>1 DEF Drawn
  <2>3. promptStart \in Cells => \A i \in Cells : i >= first + length => on.cells[i] = Blank
    BY <2>2 DEF OnlyBlanks
  <2> QED BY <1>4, <1>5, <2>3, LineDrawn
<1>7. screen' = new
  BY <1>3 DEF new
<1>8. DrawSound'
  BY <1>1, <1>3, <1>4, <1>5, <1>6, <1>7 DEF DrawSound
<1> QED BY <1>5, <1>7, <1>8

(* A prompt after something was written.                                     *)
LEMMA PromptShown ==
  ASSUME NEW on \in Screen, NEW array \in Buffers, PromptsAfter(on, array), halted' \in BOOLEAN
  PROVE  DrawSound'
<1> DEFINE new == Write(on, Prompt)
           start == CursorIndex(on)
           P == Len(Prompt)
           bare == \A i \in Cells : i >= start + P => on.cells[i] = Blank
<1>1. /\ promptStart' = start /\ screen' = new /\ lastRendered' = 0 /\ length' = 0 /\ cursor' = 0
      /\ littered' = (\E i \in Cells : i >= CursorIndex(on) + Len(Prompt) /\ on.cells[i] # Blank)
  BY DEF PromptsAfter
<1>2. littered' \in BOOLEAN /\ (~littered' => bare)
  BY <1>1, Zenon
<1>3. start \in Nat /\ P \in Nat /\ Width * Height \in Nat
  BY ScreenParts, PromptFacts, ScreenFacts
<1>4. /\ new \in Screen /\ CursorIndex(new) = start + P
      /\ \A i \in Cells : new.cells[i] = IF i \in start .. (start + P - 1) THEN Prompt[i - start + 1] ELSE on.cells[i]
  BY PromptFacts, GlyphsWritten
<1> HIDE DEF new, start, P
<1>5. /\ \A k \in 1 .. P : start + k - 1 \in start .. (start + P - 1) /\ (start + k - 1) - start + 1 = k
      /\ \A i \in Nat : i >= start + P => i \notin start .. (start + P - 1)
  BY <1>3
<1>6. \A i \in Cells : i >= start + P => new.cells[i] = on.cells[i]
  BY <1>4, <1>5, ScreenFacts
<1>7. \A k \in 1 .. P : start + k - 1 \in Cells => new.cells[start + k - 1] = Prompt[k]
  BY <1>4, <1>5
<1>8. ASSUME bare, NEW array2 PROVE Drawn(new, start, array2, 0, 0)
  <2>1. start + P + 0 = start + P
    BY <1>3
  <2>2. ASSUME start + P < Width * Height PROVE \A k \in 1 .. P : start + k - 1 \in Cells
    <3> DEFINE size == Width * Height
    <3>1. \A k \in 1 .. P : start + k - 1 \in Nat /\ start + k - 1 < size
      <4>1. size \in Nat /\ start + P < size
        BY <1>3, <2>2
      <4> HIDE DEF size
      <4> QED BY <1>3, <4>1
    <3> QED BY <3>1, ScreenFacts
  <2>3. start \in Cells => \A i \in Cells : i >= start + P => new.cells[i] = Blank
    BY <1>6, <1>8
  <2>4. start + P < Width * Height => \A k \in 1 .. P : new.cells[start + k - 1] = Prompt[k]
    BY <1>7, <2>2
  <2>5. 1 .. 0 = {}
    OBVIOUS
  <2> QED BY <1>4, <2>1, <2>3, <2>4, <2>5 DEF Drawn, P
<1>9. ~littered' => Drawn(screen', promptStart', buffer', length', cursor')
  BY <1>1, <1>2, <1>8
<1> QED BY <1>1, <1>2, <1>3, <1>4, <1>9 DEF DrawSound

(* What a command may have left on the screen.                               *)
LEMMA ClearedScreen ==
  ASSUME NEW on
  PROVE  Clear(on) \in Screen /\ BlankBelow(Clear(on))
<1> DEFINE blanks == [i \in Cells |-> Blank]
<1>1. blanks \in [Cells -> Glyphs] /\ \A i \in Cells : blanks[i] = Blank
  BY ScreenAssumption
<1>2. Clear(on) = [cells |-> blanks, row |-> 0, col |-> 0]
  BY DEF Clear
<1> HIDE DEF blanks
<1>3. 0 \in Nat /\ 0 < Width
  BY ScreenFacts
<1> QED BY <1>1, <1>2, <1>3, MadeScreen DEF BlankBelow

LEMMA RunsLeaveScreens ==
  ASSUME DrawSound
  PROVE  Entered \in Screen /\ \A after \in Ran \cup {Clear(Entered)} : after \in Screen
<1>1. Entered \in Screen
  BY LineFed DEF DrawSound, Entered
<1>2. \A output \in Outputs : output \in Seq(Glyphs \cup {NewLine})
  BY ShellAssumption
<1>3. \A output \in Outputs : Write(Entered, output) \in Screen
  BY <1>1, <1>2, Written
<1> QED BY <1>1, <1>3, ClearedScreen DEF Ran

-----------------------------------------------------------------------------
(* What each key draws.                                                      *)

LEMMA EditDraws ==
  ASSUME EditorSound, EditorSound', DrawSound, Edit
  PROVE  DrawSound' /\ (promptStart \in Cells => KeepsAbove)
<1>1. \/ ShowsLineOn(screen, buffer', length', cursor')
      \/ UNCHANGED <<buffer, length, cursor, screen, promptStart, lastRendered, littered, halted>>
  BY DEF Edit, InsertChar, BackspaceKey, DeleteForward, MoveLeft, MoveRight, MoveHome, MoveEnd,
         MovesTo, ShowsLine, ShowsLineOn
<1>2. CASE ShowsLineOn(screen, buffer', length', cursor')
  <2>1. screen \in Screen /\ OnlyBlanks(screen, screen)
    BY DEF DrawSound, OnlyBlanks
  <2>2. /\ DrawSound'
        /\ promptStart \in Cells => \A i \in Cells : i < promptStart => screen'.cells[i] = screen.cells[i]
    BY <1>2, <2>1, LineShown
  <2> QED BY <2>2 DEF KeepsAbove, Above
<1>3. CASE UNCHANGED <<buffer, length, cursor, screen, promptStart, lastRendered, littered, halted>>
  BY <1>3 DEF DrawSound, KeepsAbove, Above
<1> QED BY <1>1, <1>2, <1>3

LEMMA BrowsingDraws ==
  ASSUME EditorSound, EditorSound', DrawSound, HistoryPrev \/ HistoryNext
  PROVE  DrawSound'
<1>1. CASE HistoryPrev
  <2>1. ShowsLineOn(screen, buffer', length', cursor')
    BY <1>1 DEF HistoryPrev, SetLineOn, ShowsLineOn
  <2>2. screen \in Screen /\ OnlyBlanks(screen, screen)
    BY DEF DrawSound, OnlyBlanks
  <2> QED BY <2>1, <2>2, LineShown
<1>2. CASE HistoryNext
  <2>1. ShowsLineOn(ClearedOnScreen, buffer', length', cursor')
    BY <1>2 DEF HistoryNext, SetLineOn, ShowsLineOn
  <2>2. screen \in Screen /\ length \in Nat
    BY StateFacts DEF DrawSound
  <2>3. ClearedOnScreen \in Screen /\ OnlyBlanks(screen, ClearedOnScreen)
    BY <2>2, SteppedBackOver DEF ClearedOnScreen
  <2> QED BY <2>1, <2>3, LineShown
<1> QED BY <1>1, <1>2

LEMMA PromptDraws ==
  ASSUME EditorSound, DrawSound, Overflow \/ Enter
  PROVE  DrawSound'
<1>1. halted' \in BOOLEAN
  BY DEF DrawSound, Overflow, Enter
<1>2. CASE Overflow
  <2>1. PromptsAfter(Write(screen, Complaint), buffer) /\ buffer \in Buffers
    BY <1>2, StateFacts DEF Overflow
  <2>2. Write(screen, Complaint) \in Screen
    BY Written, ShellAssumption DEF DrawSound
  <2> QED BY <1>1, <2>1, <2>2, PromptShown
<1>3. CASE Enter
  <2>1. PICK after \in Ran \cup {Clear(Entered)} : PromptsAfter(after, Tokenized(buffer))
    BY <1>3 DEF Enter
  <2>2. after \in Screen /\ Tokenized(buffer) \in Buffers
    BY RunsLeaveScreens, StateFacts, TokenizedIsArray
  <2> QED BY <1>1, <2>1, <2>2, PromptShown
<1> QED BY <1>2, <1>3

LEMMA StopDraws ==
  ASSUME DrawSound, EnterFaults \/ UnknownKey
  PROVE  DrawSound'
<1>1. CASE EnterFaults
  <2>1. screen' \in Screen /\ halted' = TRUE /\ UNCHANGED <<length, promptStart, lastRendered, littered>>
    BY <1>1, RunsLeaveScreens DEF EnterFaults
  <2> QED BY <2>1 DEF DrawSound
<1>2. CASE UnknownKey
  <2>1. littered' = TRUE /\ UNCHANGED <<length, promptStart, lastRendered, halted>>
    BY <1>2 DEF UnknownKey
  <2>2. screen' \in Screen
    BY <1>2, Written, ShellAssumption DEF UnknownKey, DrawSound
  <2> QED BY <2>1, <2>2 DEF DrawSound
<1> QED BY <1>1, <1>2

LEMMA StepDraws ==
  ASSUME EditorSound, DrawSound, [Next]_vars
  PROVE  EditorSound' /\ DrawSound'
<1>1. EditorSound'
  BY StepMaps
<1>2. CASE UNCHANGED vars
  BY <1>1, <1>2 DEF vars, DrawSound
<1> QED BY <1>1, <1>2, EditDraws, BrowsingDraws, PromptDraws, StopDraws DEF Next

(* The first prompt stands below what the kernel wrote while it booted.      *)
LEMMA FirstPrompt == Init => DrawSound
<1> SUFFICES ASSUME Init PROVE DrawSound
  OBVIOUS
<1>1. PICK output \in Outputs :
        LET booted == Write(Clear([row |-> 0]), output) IN
        promptStart = CursorIndex(booted) /\ screen = Write(booted, Prompt)
  BY DEF Init
<1> DEFINE booted == Write(Clear([row |-> 0]), output)
           P == Len(Prompt)
<1>2. booted \in Screen /\ BlankBelow(booted)
  BY ClearedScreen, Written, ShellAssumption
<1>3. promptStart = CursorIndex(booted) /\ screen = Write(booted, Prompt)
  BY <1>1
<1> HIDE DEF booted
<1>4. /\ screen \in Screen /\ CursorIndex(screen) = promptStart + P
      /\ \A i \in Cells : screen.cells[i] = IF i \in promptStart .. (promptStart + P - 1)
                                            THEN Prompt[i - promptStart + 1] ELSE booted.cells[i]
  BY <1>2, <1>3, PromptFacts, GlyphsWritten
<1>5. promptStart \in Nat /\ P \in Nat
  BY <1>2, <1>3, ScreenParts, PromptFacts
<1> HIDE DEF P
<1>6. /\ \A k \in 1 .. P : /\ promptStart + k - 1 \in promptStart .. (promptStart + P - 1)
                           /\ (promptStart + k - 1) - promptStart + 1 = k
      /\ \A i \in Nat : i >= promptStart + P => i \notin promptStart .. (promptStart + P - 1) /\ i >= promptStart
      /\ promptStart + P + 0 = promptStart + P
  BY <1>5
<1>7. \A k \in 1 .. P : promptStart + k - 1 \in Cells => screen.cells[promptStart + k - 1] = Prompt[k]
  BY <1>4, <1>6
<1>8. \A i \in Cells : i >= promptStart + P => screen.cells[i] = Blank
  BY <1>2, <1>3, <1>4, <1>6, ScreenFacts DEF BlankBelow
<1>9. promptStart + P < Width * Height => \A k \in 1 .. P : promptStart + k - 1 \in Cells
  <2> DEFINE size == Width * Height
  <2>1. size \in Nat
    BY ScreenFacts
  <2> HIDE DEF size
  <2>2. promptStart + P < size => \A k \in 1 .. P : promptStart + k - 1 \in Nat /\ promptStart + k - 1 < size
    BY <1>5, <2>1
  <2> QED BY <2>2, ScreenFacts DEF size
<1>10. 1 .. 0 = {}
  OBVIOUS
<1>11. Drawn(screen, promptStart, buffer, 0, 0)
  BY <1>4, <1>6, <1>7, <1>8, <1>9, <1>10 DEF Drawn, P
<1>12. length = 0 /\ cursor = 0 /\ lastRendered = 0 /\ littered = FALSE /\ halted = FALSE
  BY DEF Init
<1> QED BY <1>4, <1>5, <1>11, <1>12 DEF DrawSound

-----------------------------------------------------------------------------
(* The theorems about what the screen shows.                                *)

(* The parts make the invariant that MCShell checks.                         *)
LEMMA SoundState == EditorSound /\ DrawSound => StateSound /\ LineOnScreen
<1> SUFFICES ASSUME EditorSound, DrawSound PROVE StateSound /\ LineOnScreen
  OBVIOUS
<1>1. TypeOK
  <2>1. /\ lastRendered \in Positions /\ cursor \in Positions /\ promptStart \in Nat
        /\ screen \in Screen /\ littered \in BOOLEAN /\ halted \in BOOLEAN
    <3>1. length \in Positions /\ length \in Nat /\ cursor \in 0 .. length
      BY SizeFacts DEF EditorSound
    <3>2. cursor \in Positions
      BY <3>1, SizeFacts
    <3> QED BY <3>1, <3>2 DEF DrawSound
  <2>2. viewIndex \in -1 .. (HistorySize - 1)
    BY StateFacts, SizeFacts
  <2> QED BY <2>1, <2>2 DEF TypeOK, EditorSound
<1>2. ~littered /\ ~halted =>
        /\ LineEnd < Width * Height =>
             /\ \A i \in 1 .. Len(Prompt) : screen.cells[promptStart + i - 1] = Prompt[i]
             /\ \A i \in 1 .. length : screen.cells[promptStart + Len(Prompt) + i - 1] = buffer[i - 1]
             /\ \A i \in LineEnd .. (Width * Height - 1) : screen.cells[i] = Blank
             /\ CursorIndex(screen) = promptStart + Len(Prompt) + cursor
        /\ promptStart \in Cells => \A i \in Cells : i >= LineEnd => screen.cells[i] = Blank
  <2>1. promptStart \in Nat /\ length \in Nat
    BY StateFacts DEF DrawSound
  <2> QED BY <2>1, DrawnShows DEF DrawSound, LineEnd
<1>3. LineOnScreen
  BY <1>2 DEF LineOnScreen
<1>4. ScreenSound
  BY <1>2, <1>3 DEF ScreenSound, DrawSound
<1> QED BY <1>1, <1>3, <1>4 DEF StateSound

(* The arrays, the history and the screen fit each other: what the refresh of *)
(* the line has to blank is what it drew last (shell.c:109-124).             *)
THEOREM StateIsSound == Spec => []StateSound
<1>1. Spec => [](EditorSound /\ DrawSound)
  BY Initially, FirstPrompt, StepDraws, PTL DEF Spec
<1> QED BY <1>1, SoundState, PTL

(* The screen shows the prompt, the line and the cursor, and nothing of what  *)
(* was there before, for every width and height, as long as the line ends     *)
(* above the lower edge (shell.c:109-124).                                   *)
THEOREM LineIsOnScreen == Spec => []LineOnScreen
<1>1. StateSound => LineOnScreen
  BY DEF StateSound, ScreenSound
<1> QED BY <1>1, StateIsSound, PTL

(* Editing a line never changes what stands above the prompt                  *)
(* (shell.c:109-190).                                                        *)
THEOREM EditingKeepsOutput == Spec => EditKeepsOutput
<1>1. Spec => [](EditorSound /\ DrawSound)
  BY Initially, FirstPrompt, StepDraws, PTL DEF Spec
<1>2. (EditorSound /\ DrawSound) /\ [Next]_vars
        => [(promptStart \in Cells /\ ~KeepsAbove) => (~Edit)]_vars
  BY StepMaps, EditDraws
<1> QED BY <1>1, <1>2, PTL DEF Spec, EditKeepsOutput
=============================================================================
