---------------------------- MODULE LoaderProofs ----------------------------
(***************************************************************************)
(* Theorems about the boot stages, for every disk geometry, size of stage   *)
(* 2, size of the kernel and memory map: what the read loops keep across     *)
(* tracks and heads, and what collect_e820 stores.                          *)
(***************************************************************************)
EXTENDS Loader, Lemmas, SequenceTheorems

-----------------------------------------------------------------------------
(* Positions on the disk.                                                  *)

Positions == [cylinder : Nat, head : 0 .. (Heads - 1), sector : 1 .. SectorsPerTrack]

LEMMA Geometry ==
  /\ SectorsPerTrack \in Nat \ {0} /\ Heads \in Nat \ {0} /\ SegmentSectors \in Nat \ {0}
  /\ Stage2Sectors \in Nat \ {0} /\ Stage2Sectors <= SegmentSectors
  /\ KernelSectors \in Nat \ {0} /\ MaxEntries \in Nat \ {0}
  /\ KernelStart \in Nat /\ KernelStart >= 1
<1>1. Stage2Sectors \in Nat \ {0} /\ SegmentSectors \in Nat \ {0} /\ Stage2Sectors <= SegmentSectors
  BY GeometryAssumption
<1> QED BY <1>1, GeometryAssumption DEF KernelStart

LEMMA SectorIsNat ==
  ASSUME NEW p \in Positions
  PROVE  SectorAt(p) \in Nat
<1>1. p.cylinder \in Nat /\ p.head \in Nat /\ p.sector \in Nat
  BY Geometry DEF Positions
<1> DEFINE track == p.cylinder * Heads + p.head
<1>2. track \in Nat
  BY <1>1, Geometry
<1>3. track * SectorsPerTrack \in Nat
  <2> HIDE DEF track
  <2> QED BY <1>2, Geometry
<1> HIDE DEF track
<1> QED BY <1>1, <1>3 DEF SectorAt, track

(* lba_to_chs_from_kernel_start gives the cylinder, head and sector of the  *)
(* sector it is asked for.                                                  *)
LEMMA PositionIsExact ==
  ASSUME NEW number \in Nat, number >= 1
  PROVE  PositionOf(number) \in Positions /\ SectorAt(PositionOf(number)) = number
<1> DEFINE before == number - 1
           track == before \div SectorsPerTrack
           rest == before % SectorsPerTrack
           cylinder == track \div Heads
           head == track % Heads
<1>1. before \in Nat /\ number = before + 1
  OBVIOUS
<1>2. track \in Nat /\ rest \in Nat /\ rest < SectorsPerTrack /\ before = track * SectorsPerTrack + rest
  <2> HIDE DEF before
  <2> QED BY <1>1, Geometry, DivMod
<1>3. cylinder \in Nat /\ head \in Nat /\ head < Heads /\ track = cylinder * Heads + head
  <2> HIDE DEF track
  <2> QED BY <1>2, Geometry, DivMod
<1>4. PositionOf(number) = Start(cylinder, head, rest + 1)
  BY DEF PositionOf
<1> HIDE DEF before, track, rest, cylinder, head
<1>5. head \in 0 .. (Heads - 1) /\ rest + 1 \in 1 .. SectorsPerTrack
  BY <1>2, <1>3, Geometry
<1>6. SectorAt(PositionOf(number)) = track * SectorsPerTrack + (rest + 1)
  BY <1>3, <1>4 DEF SectorAt, Start
<1>7. track * SectorsPerTrack \in Nat
  BY <1>2, Geometry
<1> DEFINE product == track * SectorsPerTrack
<1>8. SectorAt(PositionOf(number)) = product + (rest + 1) /\ before = product + rest /\ product \in Nat
  BY <1>2, <1>6, <1>7
<1> HIDE DEF product
<1> QED BY <1>1, <1>2, <1>3, <1>4, <1>5, <1>8 DEF Positions, Start

(* The end of the read loops moves to the next sector of the disk, across   *)
(* the ends of tracks and cylinders.                                        *)
LEMMA FollowingIsNext ==
  ASSUME NEW p \in Positions
  PROVE  Following(p) \in Positions /\ SectorAt(Following(p)) = SectorAt(p) + 1
<1> DEFINE first == p.cylinder * Heads
<1>1. /\ p.cylinder \in Nat /\ p.head \in 0 .. (Heads - 1) /\ p.sector \in 1 .. SectorsPerTrack
      /\ p = [cylinder |-> p.cylinder, head |-> p.head, sector |-> p.sector]
  BY DEF Positions
<1>2. first \in Nat /\ (p.cylinder + 1) * Heads = first + Heads
  BY <1>1, Geometry
<1>3. SectorAt(p) = (first + p.head) * SectorsPerTrack + p.sector
  BY DEF SectorAt
<1> HIDE DEF first
<1>4. CASE p.sector < SectorsPerTrack
  <2>1. Following(p) = [cylinder |-> p.cylinder, head |-> p.head, sector |-> p.sector + 1]
    BY <1>1, <1>4 DEF Following
  <2>2. SectorAt(Following(p)) = (first + p.head) * SectorsPerTrack + (p.sector + 1)
    BY <2>1 DEF SectorAt, first
  <2> DEFINE product == (first + p.head) * SectorsPerTrack
  <2>3. product \in Nat
    BY <1>1, <1>2, Geometry
  <2>4. SectorAt(p) = product + p.sector /\ SectorAt(Following(p)) = product + (p.sector + 1)
    BY <1>3, <2>2
  <2> HIDE DEF product
  <2>5. p.sector + 1 \in 1 .. SectorsPerTrack /\ p.sector \in Nat
    BY <1>1, <1>4, Geometry
  <2> QED BY <1>1, <2>1, <2>3, <2>4, <2>5 DEF Positions
<1>5. CASE p.sector = SectorsPerTrack /\ p.head + 1 < Heads
  <2>1. Following(p) = Start(p.cylinder, p.head + 1, 1)
    BY <1>5, Geometry DEF Following
  <2>2. SectorAt(Following(p)) = (first + (p.head + 1)) * SectorsPerTrack + 1
    BY <2>1 DEF SectorAt, Start, first
  <2> DEFINE track == first + p.head
             product == track * SectorsPerTrack
  <2>3. track \in Nat /\ first + (p.head + 1) = track + 1
    BY <1>1, <1>2, Geometry
  <2> HIDE DEF track
  <2>4. (track + 1) * SectorsPerTrack = product + SectorsPerTrack /\ product \in Nat
    BY <2>3, Geometry
  <2>5. SectorAt(p) = product + SectorsPerTrack /\ SectorAt(Following(p)) = product + SectorsPerTrack + 1
    BY <1>3, <1>5, <2>2, <2>3, <2>4 DEF track
  <2> HIDE DEF product
  <2>6. p.head + 1 \in 0 .. (Heads - 1) /\ 1 \in 1 .. SectorsPerTrack
    BY <1>1, <1>5, Geometry
  <2> QED BY <1>1, <2>1, <2>4, <2>5, <2>6, Geometry DEF Positions, Start
<1>6. CASE p.sector = SectorsPerTrack /\ ~(p.head + 1 < Heads)
  <2>1. Following(p) = Start(p.cylinder + 1, 0, 1)
    BY <1>6, Geometry DEF Following
  <2>2. SectorAt(Following(p)) = ((p.cylinder + 1) * Heads + 0) * SectorsPerTrack + 1
    BY <2>1 DEF SectorAt, Start
  <2> DEFINE track == first + p.head
             product == track * SectorsPerTrack
  <2>3. track \in Nat /\ first + Heads + 0 = track + 1
    BY <1>1, <1>2, <1>6, Geometry
  <2> HIDE DEF track
  <2>4. (track + 1) * SectorsPerTrack = product + SectorsPerTrack /\ product \in Nat
    BY <2>3, Geometry
  <2>5. SectorAt(p) = product + SectorsPerTrack /\ SectorAt(Following(p)) = product + SectorsPerTrack + 1
    BY <1>2, <1>3, <1>6, <2>2, <2>3, <2>4 DEF track
  <2> HIDE DEF product
  <2>6. p.cylinder + 1 \in Nat /\ 0 \in 0 .. (Heads - 1) /\ 1 \in 1 .. SectorsPerTrack
    BY <1>1, Geometry
  <2> QED BY <2>1, <2>4, <2>5, <2>6, Geometry DEF Positions, Start
<1>7. p.sector < SectorsPerTrack \/ p.sector = SectorsPerTrack
  BY <1>1, Geometry
<1> QED BY <1>4, <1>5, <1>6, <1>7

(* bx counts the sectors that were read, until it wraps.                    *)
LEMMA OffsetCounts ==
  ASSUME NEW n \in Nat
  PROVE  ((n % SegmentSectors) + 1) % SegmentSectors = (n + 1) % SegmentSectors
<1> DEFINE q == n \div SegmentSectors
           r == n % SegmentSectors
<1>1. q \in Nat /\ r \in Nat /\ r < SegmentSectors /\ n = q * SegmentSectors + r
  BY Geometry, DivMod
<1> SUFFICES (r + 1) % SegmentSectors = (n + 1) % SegmentSectors
  OBVIOUS
<1> HIDE DEF q, r
<1>2. CASE r + 1 < SegmentSectors
  <2>1. (q * SegmentSectors + (r + 1)) % SegmentSectors = r + 1
    BY <1>1, <1>2, Geometry, QuotientAndRest
  <2>2. q * SegmentSectors + (r + 1) = n + 1
    BY <1>1, Geometry
  <2>3. (r + 1) % SegmentSectors = r + 1
    BY <1>1, <1>2, Geometry, ModSmall
  <2> QED BY <2>1, <2>2, <2>3
<1>3. CASE r + 1 = SegmentSectors
  <2>1. ((q + 1) * SegmentSectors + 0) % SegmentSectors = 0 /\ (1 * SegmentSectors + 0) % SegmentSectors = 0
    BY <1>1, Geometry, QuotientAndRest
  <2>2. (q + 1) * SegmentSectors + 0 = n + 1 /\ 1 * SegmentSectors + 0 = r + 1
    BY <1>1, <1>3, Geometry
  <2> QED BY <2>1, <2>2
<1> QED BY <1>1, <1>2, <1>3, Geometry

-----------------------------------------------------------------------------
(* The memory map.                                                         *)

Entry == [id : Nat, length : Nat]

LEMMA Maps ==
  ASSUME NEW map \in FirmwareMaps
  PROVE  /\ map \in Seq(Entry) /\ Len(map) \in Nat \ {0}
         /\ \A n \in 1 .. Len(map) : map[n] \in Entry
<1>1. map \in Seq(Entry) /\ map # <<>>
  BY GeometryAssumption DEF Entry
<1> QED BY <1>1, EmptySeq, ElementOfSeq, LenProperties

(* What Kept computes: collect_e820's loop over the map.                     *)
Keeping(map, kept) ==
  /\ kept \in [0 .. Len(map) -> Seq(Entry)] /\ kept[0] = <<>>
  /\ \A n \in 1 .. Len(map) :
       kept[n] = IF map[n].length = 0 THEN kept[n - 1] ELSE Append(kept[n - 1], map[n])

LEMMA KeptIsKeeping ==
  ASSUME NEW map \in FirmwareMaps
  PROVE  Keeping(map, Kept(map))
<1> DEFINE size == Len(map)
           After(n, s) == IF map[n].length = 0 THEN s ELSE Append(s, map[n])
           step == [n \in 1 .. size |-> [s \in Seq(Entry) |-> After(n, s)]]
           Loop(f) == f = [n \in 0 .. size |->
             IF n = 0 THEN <<>>
             ELSE IF map[n].length = 0 THEN f[n - 1] ELSE Append(f[n - 1], map[n])]
<1>1. size \in Nat /\ \A n \in 1 .. size : map[n] \in Entry
  BY Maps
<1>2. <<>> \in Seq(Entry)
  BY EmptySeq
<1>3. \A n \in 1 .. size : \A s \in Seq(Entry) : After(n, s) \in Seq(Entry)
  BY <1>1, AppendProperties
<1> HIDE DEF size
<1>4. step \in [1 .. size -> [Seq(Entry) -> Seq(Entry)]]
  <2> HIDE DEF After
  <2> QED BY <1>3
<1>5. PICK g : LoopHistory(Seq(Entry), <<>>, size, step, g)
  <2> HIDE DEF step
  <2> QED BY <1>1, <1>2, <1>4, LoopRuns
<1>6. /\ \A n \in 1 .. size : n - 1 \in 0 .. size /\ n \in 0 .. size /\ n # 0
      /\ \A n \in 0 .. size : n # 0 => n \in 1 .. size
      /\ 0 \in 0 .. size
      /\ \A n \in Nat : n + 1 <= size => n <= size /\ n + 1 \in 1 .. size /\ (n + 1) - 1 = n
      /\ \A n \in 0 .. size : n \in Nat /\ n <= size
  BY <1>1
<1>7. /\ g \in [0 .. size -> Seq(Entry)] /\ g[0] = <<>>
      /\ \A n \in 1 .. size : g[n] = step[n][g[n - 1]]
  BY <1>5 DEF LoopHistory
<1>8. \A n \in 1 .. size : g[n] = After(n, g[n - 1])
  <2> HIDE DEF After
  <2> QED BY <1>6, <1>7
<1>9. Loop(g)
  <2> HIDE DEF step
  <2> QED BY <1>6, <1>7, <1>8
<1> DEFINE f == CHOOSE h : Loop(h)
<1>10. Loop(f)
  <2> HIDE DEF Loop
  <2> QED BY <1>9
<1>11. Kept(map) = f
  BY DEF Kept, size
<1> HIDE DEF f, step
<1>12. f[0] = <<>> /\ \A n \in 1 .. size : f[n] = After(n, f[n - 1])
  BY <1>6, <1>10
<1>13. \A n \in Nat : n \in {m \in Nat : m <= size => f[m] \in Seq(Entry)}
  <2> DEFINE S == {m \in Nat : m <= size => f[m] \in Seq(Entry)}
  <2> HIDE DEF Loop, After
  <2>1. 0 \in S
    BY <1>2, <1>12
  <2>2. ASSUME NEW n \in Nat, n \in S PROVE n + 1 \in S
    <3> SUFFICES ASSUME n + 1 <= size PROVE f[n + 1] \in Seq(Entry)
      OBVIOUS
    <3>1. f[n] \in Seq(Entry) /\ f[n + 1] = After(n + 1, f[n]) /\ n + 1 \in 1 .. size
      BY <1>6, <1>12, <2>2
    <3> QED BY <1>3, <3>1
  <2> HIDE DEF S
  <2>3. \A n \in Nat : n \in S
    BY <2>1, <2>2, Induction
  <2> QED BY <2>3 DEF S
<1>14. f \in [0 .. size -> Seq(Entry)]
  <2>1. \A n \in 0 .. size : f[n] \in Seq(Entry)
    BY <1>6, <1>13
  <2>2. f = [n \in 0 .. size |-> f[n]]
    BY <1>10
  <2> HIDE DEF Loop
  <2> QED BY <2>1, <2>2
<1> QED BY <1>11, <1>12, <1>14 DEF Keeping, size

(* One sequence continues another.                                         *)
LEMMA PrefixByElements ==
  ASSUME NEW S, NEW s \in Seq(S), NEW t \in Seq(S),
         Len(s) <= Len(t), \A i \in 1 .. Len(s) : s[i] = t[i]
  PROVE  IsPrefix(s, t)
<1> DEFINE cut == SubSeq(t, 1, Len(s))
<1>1. Len(s) \in Nat /\ Len(t) \in Nat /\ \A i \in 1 .. Len(s) : t[i] \in S
  BY LenProperties, ElementOfSeq
<1>2. cut \in Seq(S) /\ Len(cut) = Len(s) /\ \A i \in 1 .. Len(s) : cut[i] = t[i]
  BY <1>1
<1>3. cut = s
  <2> HIDE DEF cut
  <2> QED BY <1>2, SeqEqual
<1>4. SubSeq(s, 1, Len(s)) = s
  BY SubSeqFull
<1> QED BY <1>3, <1>4 DEF IsPrefix

(* What is kept of the first entries of a map is where what is kept of all  *)
(* of them begins.                                                          *)
LEMMA KeptIsPrefix ==
  ASSUME NEW map \in FirmwareMaps, NEW n \in 0 .. Len(map)
  PROVE  IsPrefix(Kept(map)[n], Nonempty(map))
<1> DEFINE kept == Kept(map)
           size == Len(map)
           Starts(s, t) == Len(s) <= Len(t) /\ \A i \in 1 .. Len(s) : s[i] = t[i]
           S == {d \in Nat : n + d <= size => Starts(kept[n], kept[n + d])}
<1>1. /\ kept \in [0 .. size -> Seq(Entry)]
      /\ \A m \in 1 .. size : kept[m] = IF map[m].length = 0 THEN kept[m - 1] ELSE Append(kept[m - 1], map[m])
  BY KeptIsKeeping DEF Keeping
<1>2. size \in Nat /\ \A m \in 1 .. size : map[m] \in Entry
  BY Maps
<1>3. n \in 0 .. size
  OBVIOUS
<1> HIDE DEF kept, size
<1>4. 0 \in S
  <2>1. kept[n] \in Seq(Entry)
    BY <1>1, <1>3
  <2>2. n + 0 = n /\ Len(kept[n]) \in Nat
    BY <1>2, <1>3, <2>1, LenProperties
  <2> QED BY <2>2
<1>5. ASSUME NEW d \in Nat, d \in S PROVE d + 1 \in S
  <2> SUFFICES ASSUME n + (d + 1) <= size PROVE Starts(kept[n], kept[n + (d + 1)])
    OBVIOUS
  <2>1. /\ n + d <= size /\ n + d \in 0 .. size /\ n + (d + 1) \in 1 .. size
        /\ (n + (d + 1)) - 1 = n + d
    BY <1>2, <1>3
  <2> DEFINE m == n + (d + 1)
  <2>2. /\ kept[n] \in Seq(Entry) /\ kept[n + d] \in Seq(Entry) /\ map[m] \in Entry
        /\ Starts(kept[n], kept[n + d])
        /\ kept[m] = IF map[m].length = 0 THEN kept[n + d] ELSE Append(kept[n + d], map[m])
    BY <1>1, <1>2, <1>3, <1>5, <2>1
  <2> HIDE DEF m
  <2>3. Starts(kept[n], kept[m])
    <3>1. Len(kept[n]) \in Nat /\ Len(kept[n + d]) \in Nat
      BY <2>2, LenProperties
    <3>2. CASE map[m].length = 0
      BY <2>2, <3>2
    <3>3. CASE map[m].length # 0
      <4>1. /\ Len(Append(kept[n + d], map[m])) = Len(kept[n + d]) + 1
            /\ \A i \in 1 .. Len(kept[n + d]) : Append(kept[n + d], map[m])[i] = kept[n + d][i]
        BY <2>2, <3>1, AppendProperties
      <4>2. \A i \in 1 .. Len(kept[n]) : i \in 1 .. Len(kept[n + d])
        BY <2>2, <3>1
      <4> QED BY SMTT(30), <2>2, <3>1, <3>3, <4>1, <4>2
    <3> QED BY <3>2, <3>3
  <2> QED BY <2>3 DEF m
<1>6. size - n \in S
  <2>1. \A d \in Nat : d \in S
    <3> HIDE DEF S
    <3> QED BY <1>4, <1>5, Induction
  <2>2. size - n \in Nat
    BY <1>2, <1>3
  <2> HIDE DEF S
  <2> QED BY <2>1, <2>2
<1>7. Starts(kept[n], kept[size])
  <2>1. n + (size - n) = size
    BY <1>2, <1>3
  <2> QED BY <1>2, <1>6, <2>1
<1>8. kept[n] \in Seq(Entry) /\ kept[size] \in Seq(Entry)
  BY <1>1, <1>2, <1>3
<1>9. IsPrefix(kept[n], kept[size])
  BY <1>7, <1>8, PrefixByElements
<1> QED BY <1>9 DEF kept, size, Nonempty

-----------------------------------------------------------------------------
(* The read loops.                                                         *)

(* Reading, of any position, number of sectors left and offset.             *)
ReadingAt(p, rest, o, first, count, memory) ==
  /\ p \in Positions /\ rest \in Nat /\ o \in Offsets /\ memory \in [Offsets -> Nat]
  /\ rest <= count
  /\ SectorAt(p) = first + (count - rest)
  /\ o = (count - rest) % SegmentSectors
  /\ count <= SegmentSectors => \A i \in 1 .. (count - rest) : memory[i - 1] = first + i - 1

(* A pass of a read loop puts the next sector where it belongs, as long as  *)
(* the image fits the segment, and moves on to the one after it.            *)
LEMMA PassReads ==
  ASSUME NEW p, NEW rest, NEW o, NEW first \in Nat, NEW count \in Nat, NEW memory,
         ReadingAt(p, rest, o, first, count, memory), rest > 0
  PROVE  ReadingAt(Following(p), rest - 1, (o + 1) % SegmentSectors, first, count,
                   [memory EXCEPT ![o] = SectorAt(p)])
<1> DEFINE done == count - rest
           after == [memory EXCEPT ![o] = SectorAt(p)]
<1>1. /\ p \in Positions /\ rest \in Nat \ {0} /\ o \in Offsets /\ memory \in [Offsets -> Nat]
      /\ rest <= count /\ SectorAt(p) = first + done /\ o = done % SegmentSectors
      /\ count <= SegmentSectors => \A i \in 1 .. done : memory[i - 1] = first + i - 1
  BY DEF ReadingAt
<1>2. done \in Nat /\ count - (rest - 1) = done + 1 /\ rest - 1 \in Nat /\ rest - 1 <= count /\ done < count
  BY <1>1
<1> HIDE DEF done
<1>3. Following(p) \in Positions /\ SectorAt(Following(p)) = first + (done + 1)
  <2>1. Following(p) \in Positions /\ SectorAt(Following(p)) = SectorAt(p) + 1
    BY <1>1, FollowingIsNext
  <2> QED BY <1>1, <1>2, <2>1
<1>4. (o + 1) % SegmentSectors = (done + 1) % SegmentSectors
  BY <1>1, <1>2, OffsetCounts
<1>5. (o + 1) % SegmentSectors \in Offsets
  <2>1. o + 1 \in Nat
    BY <1>1, Geometry DEF Offsets
  <2> DEFINE n == o + 1
  <2> HIDE DEF n
  <2>2. n % SegmentSectors \in Nat /\ n % SegmentSectors < SegmentSectors
    BY <2>1, Geometry, DivMod DEF n
  <2>3. n % SegmentSectors \in Offsets
    BY <2>2, Geometry DEF Offsets
  <2> QED BY <2>3 DEF n
<1>6. after \in [Offsets -> Nat]
  BY <1>1, SectorIsNat
<1>7. ASSUME count <= SegmentSectors, NEW i \in 1 .. (done + 1)
      PROVE  after[i - 1] = first + i - 1
  <2>1. o = done
    BY SMTT(30), <1>1, <1>2, <1>7, Geometry, ModSmall
  <2>2. i - 1 \in Offsets /\ (i # done + 1 => i \in 1 .. done /\ i - 1 # done)
    BY <1>2, <1>7, Geometry DEF Offsets
  <2>3. CASE i = done + 1
    <3>1. i - 1 = o
      BY <1>2, <2>1, <2>3
    <3>2. after[i - 1] = SectorAt(p)
      BY <1>1, <3>1
    <3> QED BY <1>1, <1>2, <2>3, <3>2
  <2>4. CASE i # done + 1
    <3>1. after[i - 1] = memory[i - 1]
      BY <1>1, <2>1, <2>2, <2>4
    <3> QED BY <1>1, <1>7, <2>2, <2>4, <3>1
  <2> QED BY <2>3, <2>4
<1> HIDE DEF after
<1>8. ReadingAt(Following(p), rest - 1, (o + 1) % SegmentSectors, first, count, after)
  BY <1>2, <1>3, <1>4, <1>5, <1>6, <1>7 DEF ReadingAt
<1> QED BY <1>8 DEF after

(* A read loop begins with nothing read.                                    *)
LEMMA ReadingBegins ==
  ASSUME NEW p \in Positions, NEW first \in Nat, NEW count \in Nat, SectorAt(p) = first,
         NEW memory \in [Offsets -> Nat]
  PROVE  ReadingAt(p, count, 0, first, count, memory)
<1>1. count - count = 0 /\ 0 % SegmentSectors = 0 /\ 0 \in Offsets
  BY Geometry, ModSmall DEF Offsets
<1>2. 1 .. 0 = {}
  OBVIOUS
<1> QED BY <1>1, <1>2 DEF ReadingAt

(* The read loop of a state.                                                *)
LEMMA ReadingIsAt ==
  ASSUME TypeOK, NEW first, NEW count, NEW memory, memory \in [Offsets -> Nat]
  PROVE  Reading(first, count, memory) <=> ReadingAt(position, left, offset, first, count, memory)
BY DEF TypeOK, Reading, ReadingAt, Positions

-----------------------------------------------------------------------------
(* The invariant.                                                          *)

(* What collect_e820 has stored.                                            *)
MapSound ==
  /\ firmware \in FirmwareMaps /\ next \in 1 .. (Len(firmware) + 1) /\ entries \in Seq(Entry)
  /\ pc = "stage1" => next = 1
  /\ pc \in {"stage1", "e820"} => next <= Len(firmware) /\ Len(entries) < MaxEntries
  /\ entries = Kept(firmware)[next - 1] /\ Len(entries) <= MaxEntries

(* What the two stages have read.                                           *)
ImagesSound ==
  /\ stage2 \in [Offsets -> Nat] /\ temp \in [Offsets -> Nat] /\ kernel \in Seq(Nat)
  /\ position \in Positions /\ left \in Nat /\ offset \in Offsets
  /\ pc = "stage1" => ReadingAt(position, left, offset, 2, Stage2Sectors, stage2)
  /\ Stage2Whole
  /\ pc = "stage2" => ReadingAt(position, left, offset, KernelStart, KernelSectors, temp)
  /\ pc = "copy" /\ KernelSectors <= SegmentSectors =>
       \A i \in 1 .. KernelSectors : temp[i - 1] = KernelStart + i - 1
  /\ KernelSectors <= SegmentSectors => KernelWhole

Places == {"stage1", "e820", "stage2", "copy", "kernel", "hung"}

LEMMA InductiveParts == Inductive <=> pc \in Places /\ MapSound /\ ImagesSound
<1>1. TypeOK <=> /\ pc \in Places
                 /\ position \in Positions /\ left \in Nat /\ offset \in Offsets
                 /\ stage2 \in [Offsets -> Nat] /\ temp \in [Offsets -> Nat] /\ kernel \in Seq(Nat)
                 /\ firmware \in FirmwareMaps /\ next \in 1 .. (Len(firmware) + 1)
                 /\ entries \in Seq(Entry)
  BY DEF TypeOK, Places, Positions, Entry
<1>2. ASSUME TypeOK
      PROVE  /\ Reading(2, Stage2Sectors, stage2) <=>
                  ReadingAt(position, left, offset, 2, Stage2Sectors, stage2)
             /\ Reading(KernelStart, KernelSectors, temp) <=>
                  ReadingAt(position, left, offset, KernelStart, KernelSectors, temp)
  BY <1>2, <1>1, ReadingIsAt
<1> QED BY <1>1, <1>2 DEF Inductive, MapSound, ImagesSound

LEMMA Initially == Init => Inductive
<1> SUFFICES ASSUME Init PROVE Inductive
  OBVIOUS
<1>1. pc = "stage1" /\ pc \in Places
  BY DEF Init, Places
<1>2. MapSound
  <2>1. firmware \in FirmwareMaps /\ next = 1 /\ entries = <<>>
    BY DEF Init
  <2>2. Len(firmware) \in Nat \ {0} /\ Len(entries) = 0 /\ entries \in Seq(Entry)
    BY <2>1, Maps, EmptySeq
  <2>3. Kept(firmware)[0] = <<>> /\ next - 1 = 0
    BY <2>1, KeptIsKeeping DEF Keeping
  <2> QED BY <2>1, <2>2, <2>3, Geometry DEF MapSound
<1>3. ImagesSound
  <2>1. /\ position = Start(0, 0, 2) /\ left = Stage2Sectors /\ offset = 0 /\ kernel = <<>>
        /\ stage2 \in [Offsets -> Nat] /\ temp \in [Offsets -> Nat]
    BY DEF Init
  <2>2. Start(0, 0, 2) \in Positions /\ SectorAt(Start(0, 0, 2)) = 2
    <3>1. 0 \in 0 .. (Heads - 1)
      BY Geometry
    <3>2. 2 \in 1 .. SectorsPerTrack
      BY SecondSectorAssumption, Geometry
    <3>3. 0 * Heads = 0 /\ 0 * SectorsPerTrack = 0
      BY Geometry
    <3> QED BY <3>1, <3>2, <3>3 DEF Start, Positions, SectorAt
  <2>3. ReadingAt(position, left, offset, 2, Stage2Sectors, stage2)
    BY <2>1, <2>2, ReadingBegins, Geometry
  <2>4. Stage2Whole /\ KernelWhole /\ pc # "stage2" /\ pc # "copy"
    BY <1>1 DEF Stage2Whole, KernelWhole
  <2>5. kernel \in Seq(Nat)
    BY <2>1, EmptySeq
  <2> QED BY <1>1, <2>1, <2>3, <2>4, <2>5 DEF ImagesSound, ReadingAt
<1> QED BY <1>1, <1>2, <1>3, InductiveParts

(* Every step stores the next entry of the map, or none.                    *)
LEMMA MapPreserved ==
  ASSUME MapSound, pc \in Places, Next
  PROVE  MapSound'
<1>1. /\ firmware \in FirmwareMaps /\ next \in 1 .. (Len(firmware) + 1) /\ entries \in Seq(Entry)
      /\ pc = "stage1" => next = 1
      /\ pc \in {"stage1", "e820"} => next <= Len(firmware) /\ Len(entries) < MaxEntries
      /\ entries = Kept(firmware)[next - 1] /\ Len(entries) <= MaxEntries
      /\ Len(firmware) \in Nat \ {0} /\ Len(entries) \in Nat
  BY Maps, LenProperties DEF MapSound
<1>2. CASE E820Entry
  <2>1. pc = "e820" /\ entries' = Stored /\ next' = next + 1 /\ firmware' = firmware
    BY <1>2 DEF E820Entry
  <2>2. next \in 1 .. Len(firmware) /\ next' \in 1 .. (Len(firmware) + 1) /\ next' - 1 = next
    BY <1>1, <2>1
  <2>3. AskedEntry = firmware[next] /\ AskedEntry \in Entry
    BY <1>1, <2>2, Maps DEF AskedEntry
  <2>4. Kept(firmware)[next] = IF firmware[next].length = 0 THEN Kept(firmware)[next - 1]
                               ELSE Append(Kept(firmware)[next - 1], firmware[next])
    BY <1>1, <2>2, KeptIsKeeping DEF Keeping
  <2>5. Stored = Kept(firmware)[next]
    BY <1>1, <2>3, <2>4 DEF Stored
  <2>6. /\ entries' \in Seq(Entry)
        /\ Len(entries') = IF AskedEntry.length = 0 THEN Len(entries) ELSE Len(entries) + 1
    BY <1>1, <2>1, <2>3, AppendProperties DEF Stored
  <2>7. Len(entries') <= MaxEntries
    BY <1>1, <2>1, <2>6, Geometry
  <2>8. pc' \in {"stage1", "e820"} => /\ pc' = "e820" /\ next # Len(firmware)
                                      /\ (AskedEntry.length = 0 \/ Len(entries') < MaxEntries)
    <3>1. CASE NoMore
      BY <1>2, <3>1 DEF E820Entry, StartReading
    <3>2. CASE ~NoMore
      <4>1. pc' = "e820"
        BY <1>2, <2>1, <3>2 DEF E820Entry
      <4>2. next # Len(firmware) /\ (AskedEntry.length = 0 \/ ~(Len(entries') >= MaxEntries))
        BY <2>1, <3>2 DEF NoMore
      <4>3. Len(entries') \in Nat
        BY <1>1, <2>6
      <4> QED BY <4>1, <4>2, <4>3, Geometry
    <3> QED BY <3>1, <3>2
  <2>9. pc' \in {"stage1", "e820"} => next' <= Len(firmware) /\ Len(entries') < MaxEntries
    BY <1>1, <2>1, <2>2, <2>6, <2>8
  <2>10. pc' # "stage1"
    BY <2>8
  <2> QED BY <1>1, <2>1, <2>2, <2>5, <2>6, <2>7, <2>9, <2>10 DEF MapSound
<1>3. CASE ~E820Entry
  <2>1. UNCHANGED <<firmware, next, entries>>
    BY <1>3 DEF Next, Boot, ReadStage2, StartStage2, ReadKernel, LoadDone, CopyKernel, DiskError, E820Fails
  <2>2. pc' \in {"stage1", "e820"} => pc \in {"stage1", "e820"}
    BY <1>3 DEF Next, Boot, ReadStage2, StartStage2, ReadKernel, LoadDone, CopyKernel, DiskError,
                E820Fails, StartReading
  <2>3. pc' = "stage1" => pc = "stage1"
    BY <1>3 DEF Next, Boot, ReadStage2, StartStage2, ReadKernel, LoadDone, CopyKernel, DiskError,
                E820Fails, StartReading
  <2> QED BY <1>1, <2>1, <2>2, <2>3 DEF MapSound
<1> QED BY <1>2, <1>3

-----------------------------------------------------------------------------
(* The images, one lemma per stage.                                         *)

LEMMA Stage2Preserved ==
  ASSUME ImagesSound, ReadStage2 \/ StartStage2
  PROVE  ImagesSound'
<1>1. /\ stage2 \in [Offsets -> Nat] /\ temp \in [Offsets -> Nat] /\ kernel \in Seq(Nat)
      /\ position \in Positions /\ left \in Nat /\ offset \in Offsets
      /\ pc = "stage1" /\ ReadingAt(position, left, offset, 2, Stage2Sectors, stage2)
  BY DEF ImagesSound, ReadStage2, StartStage2
<1>2. CASE ReadStage2
  <2>1. /\ left > 0 /\ position' = Following(position) /\ left' = left - 1
        /\ offset' = (offset + 1) % SegmentSectors
        /\ stage2' = [stage2 EXCEPT ![offset] = SectorAt(position)]
        /\ pc' = "stage1" /\ UNCHANGED <<temp, kernel>>
    BY <1>1, <1>2 DEF ReadStage2, ReadsOne
  <2>2. ReadingAt(position', left', offset', 2, Stage2Sectors, stage2')
    BY <1>1, <2>1, PassReads, Geometry
  <2> QED BY <1>1, <2>1, <2>2 DEF ImagesSound, ReadingAt, Stage2Whole, KernelWhole
<1>3. CASE StartStage2
  <2>1. left = 0 /\ pc' = "e820" /\ UNCHANGED <<diskVars, kernel>>
    BY <1>3 DEF StartStage2
  <2>2. \A i \in 1 .. Stage2Sectors : stage2[i - 1] = i + 1
    <3>1. Stage2Sectors - left = Stage2Sectors /\ Stage2Sectors <= SegmentSectors
      BY <2>1, Geometry
    <3>2. \A i \in 1 .. Stage2Sectors : stage2[i - 1] = 2 + i - 1
      BY <1>1, <3>1 DEF ReadingAt
    <3>3. \A i \in 1 .. Stage2Sectors : 2 + i - 1 = i + 1
      BY Geometry
    <3> QED BY <3>2, <3>3
  <2> QED BY <1>1, <2>1, <2>2 DEF ImagesSound, diskVars, Stage2Whole, KernelWhole
<1> QED BY <1>2, <1>3

LEMMA MapStepKeepsImages ==
  ASSUME ImagesSound, E820Entry \/ E820Fails
  PROVE  ImagesSound'
<1>1. /\ stage2 \in [Offsets -> Nat] /\ temp \in [Offsets -> Nat] /\ kernel \in Seq(Nat)
      /\ position \in Positions /\ left \in Nat /\ offset \in Offsets
      /\ pc = "e820" /\ \A i \in 1 .. Stage2Sectors : stage2[i - 1] = i + 1
  BY DEF ImagesSound, E820Entry, E820Fails, Stage2Whole
<1>2. CASE StartReading
  <2>1. /\ pc' = "stage2" /\ position' = PositionOf(KernelStart) /\ left' = KernelSectors
        /\ offset' = 0 /\ UNCHANGED <<stage2, temp, kernel>>
    BY <1>2 DEF StartReading, E820Entry, E820Fails
  <2>2. position' \in Positions /\ SectorAt(position') = KernelStart
    BY <2>1, PositionIsExact, Geometry
  <2>3. ReadingAt(position', left', offset', KernelStart, KernelSectors, temp')
    BY <1>1, <2>1, <2>2, ReadingBegins, Geometry
  <2> QED BY <1>1, <2>1, <2>3 DEF ImagesSound, ReadingAt, Stage2Whole, KernelWhole
<1>3. CASE ~StartReading
  <2>1. UNCHANGED <<pc, diskVars, kernel>>
    BY <1>3 DEF E820Entry, E820Fails
  <2> QED BY <1>1, <2>1 DEF ImagesSound, diskVars, Stage2Whole, KernelWhole
<1> QED BY <1>2, <1>3

LEMMA KernelPreserved ==
  ASSUME ImagesSound, ReadKernel \/ LoadDone \/ CopyKernel \/ DiskError
  PROVE  ImagesSound'
<1>1. /\ stage2 \in [Offsets -> Nat] /\ temp \in [Offsets -> Nat] /\ kernel \in Seq(Nat)
      /\ position \in Positions /\ left \in Nat /\ offset \in Offsets
      /\ pc = "stage2" => ReadingAt(position, left, offset, KernelStart, KernelSectors, temp)
      /\ pc = "copy" /\ KernelSectors <= SegmentSectors =>
           \A i \in 1 .. KernelSectors : temp[i - 1] = KernelStart + i - 1
      /\ pc \notin {"stage1", "hung"} => \A i \in 1 .. Stage2Sectors : stage2[i - 1] = i + 1
  BY DEF ImagesSound, Stage2Whole
<1>2. CASE ReadKernel
  <2>1. /\ left > 0 /\ position' = Following(position) /\ left' = left - 1
        /\ offset' = (offset + 1) % SegmentSectors
        /\ temp' = [temp EXCEPT ![offset] = SectorAt(position)]
        /\ pc = "stage2" /\ pc' = "stage2" /\ UNCHANGED <<stage2, kernel>>
    BY <1>2 DEF ReadKernel, ReadsOne
  <2>2. ReadingAt(position', left', offset', KernelStart, KernelSectors, temp')
    BY <1>1, <2>1, PassReads, Geometry
  <2> QED BY <1>1, <2>1, <2>2 DEF ImagesSound, ReadingAt, Stage2Whole, KernelWhole
<1>3. CASE LoadDone
  <2>1. left = 0 /\ pc = "stage2" /\ pc' = "copy" /\ UNCHANGED <<diskVars, kernel>>
    BY <1>3 DEF LoadDone
  <2>2. KernelSectors <= SegmentSectors => \A i \in 1 .. KernelSectors : temp[i - 1] = KernelStart + i - 1
    <3>1. KernelSectors - left = KernelSectors
      BY <2>1, Geometry
    <3> QED BY <1>1, <2>1, <3>1 DEF ReadingAt
  <2> QED BY <1>1, <2>1, <2>2 DEF ImagesSound, diskVars, Stage2Whole, KernelWhole
<1>4. CASE CopyKernel
  <2> DEFINE Copied(i) == IF i - 1 \in Offsets THEN temp[i - 1] ELSE 0
  <2>1. /\ pc = "copy" /\ pc' = "kernel" /\ UNCHANGED diskVars
        /\ kernel' = [i \in 1 .. KernelSectors |-> Copied(i)]
    BY <1>4 DEF CopyKernel
  <2>2. \A i \in 1 .. KernelSectors : Copied(i) \in Nat
    BY <1>1
  <2>3. KernelSectors <= SegmentSectors => \A i \in 1 .. KernelSectors : Copied(i) = KernelStart + i - 1
    <3>1. KernelSectors <= SegmentSectors => \A i \in 1 .. KernelSectors : i - 1 \in Offsets
      BY Geometry DEF Offsets
    <3> QED BY <1>1, <2>1, <3>1
  <2> HIDE DEF Copied
  <2>4. kernel' \in Seq(Nat)
    BY <2>1, <2>2, Geometry, SeqDef
  <2>5. KernelSectors <= SegmentSectors =>
          kernel' = [i \in 1 .. KernelSectors |-> KernelStart + i - 1]
    BY <2>1, <2>3
  <2> QED BY <1>1, <2>1, <2>4, <2>5 DEF ImagesSound, diskVars, Stage2Whole, KernelWhole
<1>5. CASE DiskError
  <2>1. pc' = "hung" /\ UNCHANGED <<diskVars, kernel>>
    BY <1>5 DEF DiskError
  <2> QED BY <1>1, <2>1 DEF ImagesSound, diskVars, Stage2Whole, KernelWhole
<1> QED BY <1>2, <1>3, <1>4, <1>5

-----------------------------------------------------------------------------

(* The inductive invariant holds in every state: how far the read loops are, *)
(* what they have read and which entries of the map are stored (boot.asm,    *)
(* loader2.asm).                                                            *)
THEOREM StateIsSound == Spec => []Inductive
<1> DEFINE Sound == pc \in Places /\ MapSound /\ ImagesSound
<1>1. Inductive <=> Sound
  BY InductiveParts
<1>2. Init => Inductive
  BY Initially
<1>3. Sound /\ [Next]_vars => Sound'
  <2>1. ASSUME Sound, Next PROVE Sound'
    <3>1. pc' \in Places
      BY <2>1 DEF Places, Next, Boot, ReadStage2, StartStage2, E820Entry, ReadKernel, LoadDone,
                  CopyKernel, DiskError, E820Fails, StartReading
    <3>2. MapSound'
      BY <2>1, MapPreserved
    <3>3. ImagesSound'
      BY <2>1, Stage2Preserved, MapStepKeepsImages, KernelPreserved DEF Next, Boot
    <3> QED BY <3>1, <3>2, <3>3
  <2>2. ASSUME Sound, UNCHANGED vars PROVE Sound'
    BY <2>2 DEF vars, MapSound, ImagesSound, Stage2Whole, KernelWhole
  <2> QED BY <2>1, <2>2
<1> HIDE DEF Sound
<1> QED BY <1>1, <1>2, <1>3, PTL DEF Spec

(* What is jumped to is whole and in order: the second stage always, and the *)
(* kernel whenever it fits the segment it is read into, whatever the          *)
(* geometry of the disk (boot.asm:39-73; loader2.asm:46-140, 228-244).        *)
THEOREM LoadedImagesAreWhole ==
  ASSUME KernelSectors <= SegmentSectors
  PROVE  Spec => []ImagesWhole
<1>1. Inductive => ImagesWhole
  BY DEF Inductive, ImagesWhole
<1> QED BY <1>1, StateIsSound, PTL

(* A kernel of any size is started by a whole second stage.                   *)
THEOREM SecondStageIsWhole == Spec => []Stage2Whole
BY StateIsSound, PTL DEF Inductive

(* The kernel finds the first entries the BIOS reported, in order, without    *)
(* the empty ones and not more than it has room for (loader2.asm:142-187).     *)
THEOREM StoredMapIsFaithful == Spec => []MapIsFaithful
<1>1. Inductive => MapIsFaithful
  <2> SUFFICES ASSUME Inductive PROVE MapIsFaithful
    OBVIOUS
  <2>1. MapSound
    BY InductiveParts
  <2>2. /\ firmware \in FirmwareMaps /\ next \in 1 .. (Len(firmware) + 1)
        /\ entries = Kept(firmware)[next - 1] /\ Len(entries) <= MaxEntries
    BY <2>1 DEF MapSound
  <2>3. next - 1 \in 0 .. Len(firmware)
    BY <2>2, Maps
  <2>4. IsPrefix(entries, Nonempty(firmware))
    BY <2>2, <2>3, KeptIsPrefix
  <2>5. next = Len(firmware) + 1 => entries = Nonempty(firmware)
    <3>1. next = Len(firmware) + 1 => next - 1 = Len(firmware)
      BY <2>2, Maps
    <3> QED BY <2>2, <3>1 DEF Nonempty
  <2> QED BY <2>2, <2>4, <2>5 DEF MapIsFaithful
<1> QED BY <1>1, StateIsSound, PTL
=============================================================================
