--------------------------- MODULE KernelHeapProofs -------------------------
(***************************************************************************)
(* Theorems about the kernel heap, for every memory the frame allocator    *)
(* leaves, every request and page tables of every size.  Everything        *)
(* follows from the invariant Inductive of KernelHeap.                     *)
(***************************************************************************)
EXTENDS KernelHeap, Lemmas, SequenceTheorems, FiniteSetTheorems

-----------------------------------------------------------------------------
(* Address arithmetic.                                                     *)

(* Rounding up in 32 bits gives an address, also when it wraps.            *)
LEMMA AlignUpIsNat ==
  ASSUME NEW a \in Nat, NEW n \in Nat \ {0}
  PROVE  AlignUp(a, n) \in Nat
<1>1. AlignUp(a, n) \in Address
  BY RoundUp, AddrSpaceAssumption DEF AlignUp, Address
<1>2. Address \subseteq Nat
  BY AddrSpaceAssumption DEF Address
<1> QED BY <1>1, <1>2

(* Rounding up does not go down, unless it wraps.                          *)
LEMMA AlignUpIsAbove ==
  ASSUME NEW a \in Nat, NEW n \in Nat \ {0}, a + n <= AddrSpace
  PROVE  a <= AlignUp(a, n) /\ AlignUp(a, n) < a + n
BY RoundUp, AddrSpaceAssumption DEF AlignUp

(* PHYS_TO_VIRT does not wrap for an address in the early mapping.         *)
LEMMA PhysToVirtEarly ==
  ASSUME NEW a \in Nat, a <= EarlyLimit
  PROVE  PhysToVirt(a) = a + VirtBase
BY AddrSpaceAssumption, LayoutAssumption, PageSizeAssumption, ModSmall DEF PhysToVirt

-----------------------------------------------------------------------------
(* Page tables.                                                            *)

(* The least element of a set of frames, which is what the frame allocator  *)
(* hands out for a single page.                                            *)
LEMMA MinIsLeast ==
  ASSUME NEW S \in SUBSET Nat, S # {}
  PROVE  Min(S) \in S /\ \A x \in S : Min(S) <= x
BY LeastNatural DEF Min

(* A page number is a directory index and a slot.                           *)
LEMMA PageParts ==
  ASSUME NEW page \in Page
  PROVE  /\ page \in Nat /\ DirOf(page) \in Dirs /\ SlotOf(page) \in Slots
         /\ page = DirOf(page) * TableEntries + SlotOf(page)
BY QuotientInRange, TableAssumption DEF Page, DirOf, SlotOf, Dirs, Slots

(* While the kernel's table maps the first frames to themselves, paging.c    *)
(* reaches exactly what lies in them.                                      *)
LEMMA DirectMapArrives ==
  ASSUME NEW dir, NEW tables, NEW frame \in Slots,
         dir[KernelDir] = BootTable, tables[BootTable] = [s \in Slots |-> s]
  PROVE  Access(dir, tables, frame) = "arrives"
<1> DEFINE page == PhysToVirtPage(frame)
<1>1. page \in Page /\ DirOf(page) = KernelDir /\ SlotOf(page) = frame
  BY SMTT(30), PlaceInRange, TableAssumption DEF PhysToVirtPage, Page, DirOf, SlotOf, Slots
<1>2. Walk(dir, tables, page) = frame
  BY <1>1, FrameAssumption DEF Walk, Slots
<1> QED BY <1>1, <1>2 DEF Access

(* Writing one entry of a table that one directory entry names changes the  *)
(* translation of one page.                                                *)
LEMMA WalkWithEntry ==
  ASSUME NEW dir, NEW tables, NEW page \in Page, NEW entry, NEW table, NEW q \in Page,
         dir[DirOf(page)] = table, table \in DOMAIN tables, table # NoFrame,
         tables[table] \in [Slots -> Entry],
         dir[DirOf(q)] = table => DirOf(q) = DirOf(page)
  PROVE  /\ q = page => Walk(dir, WithEntry(tables, table, SlotOf(page), entry), q) = entry
         /\ q # page => Walk(dir, WithEntry(tables, table, SlotOf(page), entry), q) = Walk(dir, tables, q)
<1>1. SlotOf(page) \in DOMAIN tables[table]
  BY PageParts
<1>2. Walk(dir, WithEntry(tables, table, SlotOf(page), entry), q) =
        IF DirOf(q) = DirOf(page) /\ SlotOf(q) = SlotOf(page) THEN entry ELSE Walk(dir, tables, q)
  BY <1>1, LookupAfterWrite DEF Walk, WithEntry, Lookup
<1> QED BY <1>2, PageParts

(* Adding a table with one entry to a directory entry that had none changes *)
(* the translation of one page, whatever the frame of the table held.      *)
LEMMA WalkWithTable ==
  ASSUME NEW dir, NEW tables, NEW page \in Page, NEW entry, NEW table \in Frames, NEW q \in Page,
         NEW dirAfter,
         dir[DirOf(page)] = NoFrame, dirAfter[DirOf(page)] = table,
         DirOf(q) # DirOf(page) => dirAfter[DirOf(q)] = dir[DirOf(q)],
         dir[DirOf(q)] # NoFrame => dir[DirOf(q)] \in DOMAIN tables /\ dir[DirOf(q)] # table
  PROVE  LET after == WithEntry(WithTable(tables, table), table, SlotOf(page), entry)
         IN  /\ q = page => Walk(dirAfter, after, q) = entry
             /\ q # page => Walk(dirAfter, after, q) = Walk(dir, tables, q)
<1>1. table # NoFrame /\ SlotOf(q) \in Slots /\ SlotOf(page) \in Slots
  BY FrameAssumption, PageParts
<1>2. Walk(dirAfter, WithEntry(WithTable(tables, table), table, SlotOf(page), entry), q) =
        IF DirOf(q) = DirOf(page) /\ SlotOf(q) = SlotOf(page) THEN entry ELSE Walk(dir, tables, q)
  BY <1>1, LookupAfterTable DEF Walk, WithEntry, WithTable, Lookup
<1> QED BY <1>2, PageParts

(* The types of the tables after either.                                    *)
LEMMA WithTableTyped ==
  ASSUME NEW tables, NEW table, \A t \in DOMAIN tables : tables[t] \in [Slots -> Entry]
  PROVE  /\ DOMAIN WithTable(tables, table) = DOMAIN tables \cup {table}
         /\ \A t \in DOMAIN WithTable(tables, table) : WithTable(tables, table)[t] \in [Slots -> Entry]
         /\ \A t \in DOMAIN tables : t # table => WithTable(tables, table)[t] = tables[t]
BY DEF WithTable, Entry

(* Behind the direct map PHYS_TO_VIRT leads to the pages of other directory *)
(* entries, so a frame that none of them maps is not reached.              *)
LEMMA BehindDirectMapPage ==
  ASSUME NEW frame \in Frames, frame \notin Slots, PhysToVirtPage(frame) \in Page
  PROVE  DirOf(PhysToVirtPage(frame)) \notin {0, KernelDir}
<1>1. frame \in Nat /\ TableEntries <= frame /\ KernelDir \in Nat \ {0} /\ TableEntries \in Nat \ {0}
  BY FrameAssumption, TableAssumption DEF Slots
<1>2. DirOf(PhysToVirtPage(frame)) > KernelDir /\ DirOf(PhysToVirtPage(frame)) \in Nat
  BY <1>1, QuotientBeyond, PageParts DEF DirOf, PhysToVirtPage, Dirs
<1> QED BY <1>1, <1>2

LEMMA BehindDirectMap ==
  ASSUME NEW dir, NEW tables, NEW frame \in Frames, frame \notin Slots,
         \A page \in Page : DirOf(page) \notin {0, KernelDir} => Walk(dir, tables, page) # frame
  PROVE  Access(dir, tables, frame) # "arrives"
BY BehindDirectMapPage, FrameAssumption DEF Access

-----------------------------------------------------------------------------
(* The layout of the kernel's address space, and sizes.                    *)

LEMMA Layout ==
  /\ HeapStart \in Nat /\ HeapEnd \in Nat /\ TestPage \in Nat /\ HeapStart < HeapEnd
  /\ 0 \in Dirs /\ KernelDir \in Dirs /\ KernelDir # 0
  /\ BootTable \in Slots /\ BootTable \in Frames /\ BootTable # NoFrame
  /\ Slots \subseteq Frames /\ Frames \subseteq Nat /\ NoFrame \notin Frames
BY HeapAssumption, TableAssumption, FrameAssumption DEF Page, Dirs, Slots

(* A page of the heap, or maptest's.                                        *)
LEMMA ClientPage ==
  ASSUME NEW page \in ClientPages
  PROVE  /\ page \in Page /\ DirOf(page) \in Dirs /\ SlotOf(page) \in Slots
         /\ DirOf(page) \notin {0, KernelDir}
<1>1. page \in (HeapStart .. HeapEnd) \cup {TestPage}
  BY Layout DEF ClientPages
<1>2. page \in Page
  BY <1>1, HeapAssumption, Layout, TableAssumption DEF Page
<1> QED BY <1>1, <1>2, HeapAssumption, PageParts

LEMMA PagesOfHeap ==
  ASSUME NEW page \in Nat, page <= HeapEnd
  PROVE  page \in Page
BY HeapAssumption, TableAssumption DEF Page

(* Addresses of heap pages fit 32 bits.                                     *)
LEMMA PageAddresses ==
  ASSUME NEW page \in Nat, page <= HeapEnd
  PROVE  page * PageSize \in Units /\ page * PageSize <= HeapEnd * PageSize
<1>1. HeapEnd \in Nat /\ HeapEnd + 1 <= DirEntries * TableEntries /\ DirEntries * TableEntries \in Nat
  BY HeapAssumption, TableAssumption DEF Page
<1>2. page * PageSize <= HeapEnd * PageSize /\ page * PageSize \in Nat /\ HeapEnd * PageSize \in Nat
  BY <1>1, ProductMonotone, PageSizeAssumption
<1>3. (HeapEnd + 1) * PageSize <= (DirEntries * TableEntries) * PageSize
  BY <1>1, ProductMonotone, PageSizeAssumption
<1>4. (HeapEnd + 1) * PageSize = HeapEnd * PageSize + PageSize
  BY <1>1, PageSizeAssumption
<1> QED BY <1>2, <1>3, <1>4, HeapAssumption, AddrSpaceAssumption, PageSizeAssumption DEF Units

(* A size is rounded up to a multiple of the alignment, which leaves room    *)
(* for one more unit below the top of the address space.                   *)
LEMMA RoundedLeavesRoom ==
  ASSUME NEW a \in Nat
  PROVE  AlignUp(a, HeapAlign) \in Nat /\ AlignUp(a, HeapAlign) + HeapAlign <= AddrSpace
<1> DEFINE sum == (a + HeapAlign - 1) % AddrSpace
           q == sum \div HeapAlign
           n == AddrSpace \div HeapAlign
<1>0. HeapAlign \in Nat \ {0} /\ AddrSpace \in Nat \ {0} /\ a + HeapAlign - 1 \in Nat
  BY HeapAlignAssumption, AddrSpaceAssumption
<1>1. sum \in Nat /\ sum < AddrSpace
  BY <1>0, DivMod
<1>2. q \in Nat /\ sum = q * HeapAlign + (sum % HeapAlign) /\ sum % HeapAlign \in Nat
      /\ q * HeapAlign <= sum
  <2> HIDE DEF sum
  <2> QED BY <1>0, <1>1, DivMod
<1>3. n \in Nat /\ AddrSpace = n * HeapAlign
  BY <1>0, DivMod, HeapAssumption
<1>4. AlignUp(a, HeapAlign) = sum - (sum % HeapAlign)
  BY DEF AlignUp
<1> HIDE DEF sum, q, n
<1>5. q * HeapAlign \in Nat /\ AlignUp(a, HeapAlign) = q * HeapAlign
  BY <1>0, <1>1, <1>2, <1>4
<1>6. q < n
  BY <1>0, <1>1, <1>2, <1>3, ProductReflects
<1>7. (q + 1) * HeapAlign <= n * HeapAlign /\ (q + 1) * HeapAlign = q * HeapAlign + HeapAlign
  BY <1>0, <1>2, <1>3, <1>6, ProductMonotone
<1> QED BY <1>3, <1>5, <1>7

(* What a request counts for after it was rounded, also when that wraps.    *)
LEMMA RoundedIsEnough ==
  ASSUME NEW asked \in Units
  PROVE  /\ Rounded(asked) \in Units /\ Promised(asked) \in Nat
         /\ Promised(asked) <= Rounded(asked)
         /\ Promised(asked) <= asked
         /\ RoundsToZero(asked) => Rounded(asked) = 0
         /\ Rounded(asked) <= AlignUp(Rounded(asked), HeapAlign)
         /\ AlignUp(Rounded(asked), HeapAlign) \in Nat
<1>0. HeapAlign \in Nat \ {0} /\ AddrSpace \in Nat \ {0} /\ asked \in Nat /\ asked < AddrSpace
  BY HeapAlignAssumption, AddrSpaceAssumption DEF Units
<1>1. Rounded(asked) \in Nat /\ Rounded(asked) + HeapAlign <= AddrSpace
  BY <1>0, RoundedLeavesRoom DEF Rounded
<1>2. Rounded(asked) <= AlignUp(Rounded(asked), HeapAlign) /\ AlignUp(Rounded(asked), HeapAlign) \in Nat
  BY <1>0, <1>1, AlignUpIsAbove, AlignUpIsNat
<1>3. CASE asked + HeapAlign <= AddrSpace
  <2>1. asked <= Rounded(asked)
    BY <1>0, <1>3, AlignUpIsAbove DEF Rounded
  <2>2. Promised(asked) = asked /\ ~RoundsToZero(asked)
    BY <1>0, <1>3 DEF Promised, RoundsToZero
  <2> QED BY <1>0, <1>1, <1>2, <2>1, <2>2 DEF Units
<1>4. CASE ~(asked + HeapAlign <= AddrSpace)
  <2> DEFINE sum == (asked + HeapAlign - 1) % AddrSpace
  <2>1. CASE HeapAlign <= AddrSpace
    <3>1. asked + HeapAlign - 1 = (asked + HeapAlign - 1 - AddrSpace) + AddrSpace
          /\ asked + HeapAlign - 1 - AddrSpace \in Nat /\ asked + HeapAlign - 1 - AddrSpace < HeapAlign
      BY <1>0, <1>4
    <3> DEFINE r == asked + HeapAlign - 1 - AddrSpace
    <3>2. r < AddrSpace /\ r \in Nat
      BY <1>0, <1>4, <2>1
    <3> HIDE DEF r
    <3>3. (1 * AddrSpace + r) % AddrSpace = r
      BY <1>0, <3>2, QuotientAndRest
    <3>4. sum = r
      BY <1>0, <3>1, <3>3 DEF r
    <3>5. r % HeapAlign = r
      BY <1>0, <3>1, <3>2, ModSmall DEF r
    <3>6. Rounded(asked) = 0
      BY <3>2, <3>4, <3>5 DEF Rounded, AlignUp
    <3> QED BY <1>0, <1>1, <1>2, <1>4, <3>6 DEF Promised, RoundsToZero, Units
  <2>2. CASE ~(HeapAlign <= AddrSpace)
    BY <1>0, <1>1, <2>2
  <2> QED BY <2>1, <2>2
<1> QED BY <1>3, <1>4

(* heap_grow takes at least MEMORY_HEAP_GROW_PAGES pages, and enough of them *)
(* for the block it was asked for and a header, unless the sum wraps.      *)
LEMMA PagesAreEnough ==
  ASSUME NEW size \in Nat
  PROVE  /\ PagesNeeded(size) \in Nat /\ GrowPages <= PagesNeeded(size)
         /\ size + HeaderSize + PageSize <= AddrSpace =>
              size + HeaderSize <= PagesNeeded(size) * PageSize
<1> DEFINE bytes == (size + HeaderSize) % AddrSpace
           sum == (bytes + PageSize - 1) % AddrSpace
           pages == sum \div PageSize
<1>0. /\ HeaderSize \in Nat \ {0} /\ GrowPages \in Nat \ {0} /\ PageSize \in Nat \ {0}
      /\ AddrSpace \in Nat \ {0} /\ size + HeaderSize \in Nat
  BY HeapAssumption, PageSizeAssumption, AddrSpaceAssumption
<1>1. bytes \in Nat
  BY <1>0, DivMod
<1>2. sum \in Nat
  <2> HIDE DEF bytes
  <2>1. bytes + PageSize - 1 \in Nat
    BY <1>0, <1>1
  <2> QED BY <1>0, <2>1, DivMod
<1>3. pages \in Nat /\ sum % PageSize \in Nat /\ sum % PageSize < PageSize
      /\ sum = pages * PageSize + (sum % PageSize)
  <2> HIDE DEF sum
  <2> QED BY <1>0, <1>2, DivMod
<1>4. PagesNeeded(size) = IF pages < GrowPages THEN GrowPages ELSE pages
  BY DEF PagesNeeded
<1>5. ASSUME size + HeaderSize + PageSize <= AddrSpace
      PROVE  sum = size + HeaderSize + PageSize - 1
  <2>1. bytes = size + HeaderSize
    BY <1>0, <1>5, ModSmall
  <2>2. bytes + PageSize - 1 \in Nat /\ bytes + PageSize - 1 < AddrSpace
    <3> HIDE DEF bytes
    <3> QED BY <1>0, <1>5, <2>1
  <2>3. sum = bytes + PageSize - 1
    <3> HIDE DEF bytes
    <3> QED BY <1>0, <2>2, ModSmall
  <2> QED BY <2>1, <2>3
<1> HIDE DEF bytes, sum, pages
<1>6. PagesNeeded(size) \in Nat /\ GrowPages <= PagesNeeded(size) /\ pages <= PagesNeeded(size)
  BY <1>0, <1>3, <1>4
<1>7. pages * PageSize <= PagesNeeded(size) * PageSize
      /\ pages * PageSize \in Nat /\ PagesNeeded(size) * PageSize \in Nat
  BY <1>0, <1>3, <1>6, ProductMonotone
<1> QED BY <1>0, <1>3, <1>5, <1>6, <1>7

-----------------------------------------------------------------------------
(* The page tables.                                                        *)

\* The page tables without what their frames are used for.
TablesTyped ==
  /\ pd \in [Dirs -> Entry] /\ Tables(pd) \subseteq DOMAIN pt /\ DOMAIN pt \subseteq Frames
  /\ \A t \in DOMAIN pt : pt[t] \in [Slots -> Entry]
DirectMap == pd[0] = NoFrame /\ pd[KernelDir] = BootTable /\ pt[BootTable] = [s \in Slots |-> s]
TablesSingle == \A d, e \in Dirs : pd[d] = pd[e] /\ pd[d] # NoFrame => d = e

\* What paging_map_page does when it maps a page: the page gets the frame, no other page
\* changes, and at most one free frame becomes a table.
Remaps(page, frame) == \A q \in Page : Mapping(q)' = IF q = page THEN frame ELSE Mapping(q)
TakesTables(new, frame) ==
  /\ new \subseteq Slots \cap (free \ {frame})
  /\ Tables(pd)' = Tables(pd) \cup new
  /\ free' = (free \ {frame}) \ new

(* An entry is written in the table that the directory names.               *)
LEMMA EntryRemaps ==
  ASSUME TablesTyped, TablesSingle, NEW page \in ClientPages, NEW frame,
         pd[DirOf(page)] # NoFrame, pd' = pd,
         pt' = WithEntry(pt, pd[DirOf(page)], SlotOf(page), frame)
  PROVE  Remaps(page, frame)
<1> SUFFICES ASSUME NEW q \in Page PROVE Mapping(q)' = IF q = page THEN frame ELSE Mapping(q)
  BY DEF Remaps
<1> DEFINE table == pd[DirOf(page)]
           after == WithEntry(pt, table, SlotOf(page), frame)
<1>1. /\ page \in Page /\ DirOf(page) \in Dirs /\ DirOf(q) \in Dirs
  BY ClientPage, PageParts
<1>2. pd[DirOf(page)] = table /\ (pd[DirOf(q)] = table => DirOf(q) = DirOf(page))
  BY <1>1 DEF TablesSingle
<1>3. table \in DOMAIN pt /\ table # NoFrame /\ pt[table] \in [Slots -> Entry]
  BY <1>1 DEF TablesTyped, Tables
<1> HIDE DEF table
<1>4. /\ q = page => Walk(pd, after, q) = frame
      /\ q # page => Walk(pd, after, q) = Walk(pd, pt, q)
  BY ONLY <1>1, <1>2, <1>3, WalkWithEntry
<1> QED BY <1>4 DEF Mapping, table

(* A table is added for a page whose directory entry had none.              *)
LEMMA TableRemaps ==
  ASSUME TablesTyped, NEW page \in ClientPages, NEW frame, NEW table \in Frames \ Tables(pd),
         pd[DirOf(page)] = NoFrame, pd'[DirOf(page)] = table,
         \A d \in Dirs : d # DirOf(page) => pd'[d] = pd[d],
         pt' = WithEntry(WithTable(pt, table), table, SlotOf(page), frame)
  PROVE  Remaps(page, frame)
<1> SUFFICES ASSUME NEW q \in Page PROVE Mapping(q)' = IF q = page THEN frame ELSE Mapping(q)
  BY DEF Remaps
<1> DEFINE after == WithEntry(WithTable(pt, table), table, SlotOf(page), frame)
<1>1. page \in Page /\ DirOf(q) \in Dirs
  BY ClientPage, PageParts
<1>2. DirOf(q) # DirOf(page) => pd'[DirOf(q)] = pd[DirOf(q)]
  BY <1>1
<1>3. pd[DirOf(q)] # NoFrame => pd[DirOf(q)] \in DOMAIN pt /\ pd[DirOf(q)] # table
  BY <1>1 DEF TablesTyped, Tables
<1>4. /\ q = page => Walk(pd', after, q) = frame
      /\ q # page => Walk(pd', after, q) = Walk(pd, pt, q)
  BY <1>1, <1>2, <1>3, WalkWithTable
<1> QED BY <1>4 DEF Mapping

LEMMA MapsInTableEffect ==
  ASSUME TablesTyped, DirectMap, TablesSingle, NEW page \in ClientPages, NEW frame \in free,
         free \subseteq Frames, MapsInTable(page, frame, free \ {frame})
  PROVE  /\ TablesTyped' /\ DirectMap' /\ TablesSingle'
         /\ Remaps(page, frame) /\ TakesTables({}, frame)
         /\ dropped' = dropped \cup ({Mapping(page)} \ {NoFrame})
<1> DEFINE table == pd[DirOf(page)]
<1>1. /\ page \in Page /\ DirOf(page) \in Dirs /\ SlotOf(page) \in Slots
      /\ DirOf(page) \notin {0, KernelDir}
  BY ClientPage
<1>2. /\ pd' = pd /\ table # NoFrame /\ free' = free \ {frame}
      /\ pt' = WithEntry(pt, table, SlotOf(page), frame)
      /\ dropped' = dropped \cup ({Mapping(page)} \ {NoFrame})
  BY DEF MapsInTable, SetEntry
<1>3. table \in DOMAIN pt /\ frame \in Entry
  BY <1>1, <1>2 DEF TablesTyped, Tables, Entry
<1>4. /\ DOMAIN pt' = DOMAIN pt
      /\ \A t \in DOMAIN pt : pt'[t] \in [Slots -> Entry]
      /\ \A t \in DOMAIN pt : t # table => pt'[t] = pt[t]
  BY <1>1, <1>2, <1>3 DEF WithEntry, TablesTyped
<1>5. TablesTyped' /\ TablesSingle'
  BY <1>2, <1>4 DEF TablesTyped, TablesSingle
<1>6. BootTable # table /\ BootTable \in DOMAIN pt
  BY <1>1, <1>2, Layout DEF TablesSingle, DirectMap, TablesTyped, Tables
<1>7. DirectMap'
  BY <1>2, <1>4, <1>6 DEF DirectMap
<1>8. Remaps(page, frame)
  BY <1>2, EntryRemaps
<1> QED BY <1>2, <1>5, <1>7, <1>8 DEF TakesTables

LEMMA MapsInNewTableEffect ==
  ASSUME TablesTyped, DirectMap, TablesSingle, NEW page \in ClientPages, NEW frame \in free,
         free \subseteq Frames \ Tables(pd),
         \A q \in Page : DirOf(q) \notin {0, KernelDir} => Walk(pd, pt, q) \notin free,
         MapsInNewTable(page, frame, free \ {frame})
  PROVE  /\ TablesTyped' /\ DirectMap' /\ TablesSingle'
         /\ Remaps(page, frame) /\ (\E new \in SUBSET Frames : TakesTables(new, frame))
         /\ dropped' = dropped \cup ({Mapping(page)} \ {NoFrame})
<1> DEFINE pool == free \ {frame}
           table == Min(pool)
           with == WithTable(pt, table)
<1>1. /\ page \in Page /\ DirOf(page) \in Dirs /\ SlotOf(page) \in Slots
      /\ DirOf(page) \notin {0, KernelDir}
  BY ClientPage
<1>2. pool \subseteq Nat /\ pool # {} /\ pd[DirOf(page)] = NoFrame
  BY FrameAssumption DEF MapsInNewTable
<1>3. table \in pool
  BY <1>2, MinIsLeast
<1>4. /\ Access(pd, pt, table) = "arrives" /\ free' = pool \ {table}
      /\ SetEntry([pd EXCEPT ![DirOf(page)] = table], with, page, frame)
  BY DEF MapsInNewTable
<1>5. table \in Slots
  <2> HIDE DEF table
  <2> QED BY <1>3, <1>4, BehindDirectMap
<1>6. pd' = [pd EXCEPT ![DirOf(page)] = table] /\ pd'[DirOf(page)] = table
  BY <1>1, <1>4 DEF SetEntry, TablesTyped
<1>7. /\ pt' = WithEntry(with, table, SlotOf(page), frame)
      /\ dropped' = dropped \cup ({Mapping(page)} \ {NoFrame})
  BY <1>4, <1>6 DEF SetEntry
<1> HIDE DEF table
<1>8. /\ table \in Frames \ Tables(pd) /\ table # NoFrame /\ frame \in Entry
  BY <1>3, FrameAssumption DEF Entry
<1>9. /\ pd' \in [Dirs -> Entry] /\ Tables(pd') = Tables(pd) \cup {table}
      /\ \A d \in Dirs : pd'[d] = IF d = DirOf(page) THEN table ELSE pd[d]
  <2>1. /\ pd' \in [Dirs -> Entry]
        /\ \A d \in Dirs : pd'[d] = IF d = DirOf(page) THEN table ELSE pd[d]
    BY <1>1, <1>6, <1>8 DEF Entry, TablesTyped
  <2> QED BY <1>1, <1>2, <1>8, <2>1 DEF Tables
<1>10. /\ DOMAIN with = DOMAIN pt \cup {table}
       /\ \A t \in DOMAIN with : with[t] \in [Slots -> Entry]
       /\ \A t \in DOMAIN pt : t # table => with[t] = pt[t]
  BY WithTableTyped DEF TablesTyped
<1> HIDE DEF with
<1>11. /\ DOMAIN pt' = DOMAIN pt \cup {table}
       /\ \A t \in DOMAIN pt' : pt'[t] \in [Slots -> Entry]
       /\ \A t \in DOMAIN pt : t # table => pt'[t] = pt[t]
  <2> DEFINE after == WithEntry(with, table, SlotOf(page), frame)
  <2>1. pt' = after
    BY <1>7
  <2>2. /\ DOMAIN after = DOMAIN with
        /\ \A t \in DOMAIN with : after[t] \in [Slots -> Entry]
        /\ \A t \in DOMAIN with : t # table => after[t] = with[t]
    BY <1>1, <1>8, <1>10 DEF WithEntry
  <2> HIDE DEF after
  <2> QED BY <1>10, <2>1, <2>2
<1>12. TablesTyped'
  BY <1>8, <1>9, <1>11 DEF TablesTyped
<1>13. DirectMap'
  <2>1. BootTable \in Tables(pd)
    BY Layout DEF DirectMap, Tables
  <2> QED BY <1>1, <1>8, <1>9, <1>11, <2>1, Layout DEF DirectMap, TablesTyped
<1>14. TablesSingle'
  <2>1. \A d \in Dirs : pd[d] # table
    BY <1>8 DEF Tables
  <2> QED BY <1>9, <2>1 DEF TablesSingle
<1>15. Remaps(page, frame)
  <2>1. pd'[DirOf(page)] = table /\ \A d \in Dirs : d # DirOf(page) => pd'[d] = pd[d]
    BY <1>1, <1>9
  <2>2. pt' = WithEntry(WithTable(pt, table), table, SlotOf(page), frame)
    BY <1>7 DEF with
  <2> QED BY <1>2, <1>8, <2>1, <2>2, TableRemaps
<1>16. TakesTables({table}, frame)
  BY <1>3, <1>4, <1>5, <1>9 DEF TakesTables
<1> QED BY <1>7, <1>8, <1>12, <1>13, <1>14, <1>15, <1>16

LEMMA PagingParts ==
  ASSUME TypeOK, PagingSound
  PROVE  /\ TablesTyped /\ DirectMap /\ TablesSingle
         /\ memory \in Memories /\ memory.free \subseteq Frames \ {BootTable}
         /\ free \subseteq memory.free /\ free \subseteq Frames \ Tables(pd) /\ free \subseteq Nat
<1>1. memory \in Memories /\ memory.free \subseteq Frames \ {BootTable} /\ free \subseteq memory.free
  BY MemoriesAssumption DEF TypeOK
<1>2. free \subseteq Frames \ Tables(pd) /\ free \subseteq Nat
  BY <1>1, Layout DEF PagingSound
<1>3. TablesTyped /\ DirectMap /\ TablesSingle
  BY DEF TypeOK, PagingSound, TablesTyped, DirectMap, TablesSingle
<1> QED BY <1>1, <1>2, <1>3

\* What paging_map_page and the frame allocator do together, as a caller sees it.
Effect(page, frame, new) ==
  /\ TablesTyped' /\ DirectMap' /\ TablesSingle'
  /\ Remaps(page, frame) /\ TakesTables(new, frame)
  /\ dropped' = dropped \cup ({Mapping(page)} \ {NoFrame})

LEMMA MapsEffect ==
  ASSUME TypeOK, PagingSound, PagesOwned, NEW page \in ClientPages, NEW frame \in free,
         Maps(page, frame, free \ {frame})
  PROVE  \E new \in SUBSET Frames : Effect(page, frame, new)
<1>1. CASE MapsInTable(page, frame, free \ {frame})
  <2>1. Effect(page, frame, {})
    BY <1>1, PagingParts, MapsInTableEffect DEF Effect
  <2> QED BY <2>1
<1>2. CASE MapsInNewTable(page, frame, free \ {frame})
  <2>1. \A q \in Page : DirOf(q) \notin {0, KernelDir} => Walk(pd, pt, q) \notin free
    <3> SUFFICES ASSUME NEW q \in Page, DirOf(q) # KernelDir, Walk(pd, pt, q) \in free PROVE FALSE
      OBVIOUS
    <3>1. Mapping(q) = Walk(pd, pt, q) /\ Mapping(q) # NoFrame
      BY PagingParts, Layout DEF Mapping
    <3> QED BY <3>1 DEF PagesOwned, MappedPages
  <2> QED BY <1>2, <2>1, PagingParts, MapsInNewTableEffect DEF Effect
<1> QED BY <1>1, <1>2 DEF Maps

(* A page that is mapped keeps frames in one use each, and all of them      *)
(* accounted for.                                                          *)
LEMMA EffectKeepsFrames ==
  ASSUME TypeOK, PagingSound, PagesOwned, NEW page \in ClientPages, NEW frame \in free,
         \A f \in free : frame <= f, NEW new \in SUBSET Frames, Effect(page, frame, new),
         UNCHANGED <<stage, memory>>, stage = "boot" => page # TestPage
  PROVE  /\ PagingSound' /\ PagesOwned'
         /\ free' \subseteq free /\ dropped' \subseteq memory.free
<1>0. page \in Page /\ DirOf(page) \in Dirs /\ DirOf(page) # KernelDir /\ SlotOf(page) \in Slots
  BY ClientPage
<1>1. /\ memory.free \subseteq Frames \ {BootTable} /\ free \subseteq memory.free
      /\ free \subseteq Frames \ Tables(pd) /\ Frames \subseteq Nat /\ NoFrame \notin Frames
  BY PagingParts, Layout
<1>2. /\ new \subseteq Slots \cap (free \ {frame}) /\ Tables(pd') = Tables(pd) \cup new
      /\ free' = (free \ {frame}) \ new /\ dropped' = dropped \cup ({Mapping(page)} \ {NoFrame})
      /\ TablesTyped' /\ DirectMap' /\ TablesSingle'
  BY DEF Effect, TakesTables
<1>3. \A q \in Page : Mapping(q)' = IF q = page THEN frame ELSE Mapping(q)
  BY DEF Effect, Remaps
<1>4. page \in MappedPages <=> Mapping(page) # NoFrame
  BY <1>0 DEF MappedPages
<1>5. \A q : q \in MappedPages' <=> (q = page \/ q \in MappedPages)
  BY <1>0, <1>1, <1>3 DEF MappedPages
<1>6. \A q \in MappedPages : q # page => Mapping(q)' = Mapping(q) /\ Mapping(q) # Mapping(page)
  BY <1>3, <1>4 DEF PagesOwned, MappedPages
<1>7. \A q \in MappedPages : Mapping(q) \in memory.free \ (free \cup Tables(pd) \cup dropped)
  BY DEF PagesOwned
<1>8. dropped \subseteq memory.free /\ dropped \cap free = {} /\ dropped \cap Tables(pd) = {}
  BY DEF TypeOK, PagesOwned, PagingSound
<1>9. dropped' \subseteq memory.free /\ dropped' \cap free = {} /\ dropped' \cap Tables(pd) = {}
  BY <1>2, <1>4, <1>7, <1>8
<1>10. PagingSound'
  <2>1. Tables(pd') \subseteq (Slots \cap (memory.free \cup {BootTable})) \ (free' \cup dropped')
    BY <1>1, <1>2, <1>9 DEF PagingSound
  <2> QED BY <1>2, <2>1 DEF PagingSound, DirectMap, TablesSingle, TablesTyped
<1>11. \A q \in MappedPages' : Mapping(q)' \in memory.free \ (free' \cup Tables(pd') \cup dropped')
  <2> SUFFICES ASSUME NEW q \in MappedPages'
               PROVE  Mapping(q)' \in memory.free \ (free' \cup Tables(pd') \cup dropped')
    OBVIOUS
  <2>1. CASE q = page
    BY <1>0, <1>1, <1>2, <1>3, <1>9, <2>1
  <2>2. CASE q # page
    <3>1. q \in MappedPages
      BY <1>5, <2>2
    <3> QED BY <1>2, <1>6, <1>7, <2>2, <3>1
  <2> QED BY <2>1, <2>2
<1>12. \A p, q \in MappedPages' : Mapping(p)' = Mapping(q)' => p = q
  <2>1. \A q \in MappedPages : q # page => Mapping(q)' # frame
    BY <1>6, <1>7
  <2>2. Mapping(page)' = frame
    BY <1>0, <1>3
  <2>3. \A p, q \in MappedPages : Mapping(p) = Mapping(q) => p = q
    BY DEF PagesOwned
  <2> QED BY <1>5, <1>6, <2>1, <2>2, <2>3
<1>13. \A q \in MappedPages', f \in free' : Mapping(q)' < f
  <2> SUFFICES ASSUME NEW q \in MappedPages', NEW f \in free' PROVE Mapping(q)' < f
    OBVIOUS
  <2>1. f \in free /\ f # frame /\ frame <= f /\ f \in Nat /\ frame \in Nat
    BY <1>1, <1>2
  <2>2. CASE q = page
    BY <1>0, <1>3, <2>1, <2>2
  <2>3. CASE q # page
    <3>1. q \in MappedPages /\ Mapping(q)' = Mapping(q)
      BY <1>5, <1>6, <2>3
    <3> QED BY <2>1, <3>1 DEF PagesOwned
  <2> QED BY <2>2, <2>3
<1>14. MappedPages' \subseteq ClientPages' /\ (stage' = "boot" => TestPage \notin MappedPages')
       /\ dropped' \cap free' = {}
  <2>1. MappedPages' \subseteq ClientPages /\ ClientPages' = ClientPages
    BY <1>5 DEF PagesOwned, ClientPages
  <2> QED BY <1>2, <1>5, <1>9, <2>1 DEF PagesOwned
<1>15. PagesOwned'
  BY <1>11, <1>12, <1>13, <1>14 DEF PagesOwned
<1> QED BY <1>2, <1>9, <1>10, <1>15

LEMMA EffectKeepsAccounts ==
  ASSUME TypeOK, PagingSound, PagesOwned, FramesAccounted, cpu = "runs",
         NEW page \in ClientPages, NEW frame \in free,
         NEW new \in SUBSET Frames, Effect(page, frame, new), memory' = memory
  PROVE  FramesAccounted'
<1>1. /\ memory.free \subseteq Frames \ {BootTable} /\ free \subseteq memory.free
      /\ NoFrame \notin Frames
  BY PagingParts, Layout
<1>2. /\ new \subseteq Slots \cap (free \ {frame}) /\ Tables(pd') = Tables(pd) \cup new
      /\ free' = (free \ {frame}) \ new /\ dropped' = dropped \cup ({Mapping(page)} \ {NoFrame})
  BY DEF Effect, TakesTables
<1>3. \A q \in ClientPages : Mapping(q)' = IF q = page THEN frame ELSE Mapping(q)
  BY ClientPage DEF Effect, Remaps
<1>4. Frames = free \cup (Frames \ memory.free) \cup Tables(pd) \cup MappedFrames \cup dropped
  BY DEF FramesAccounted, ReservedFrames
<1>5. MappedFrames = {Mapping(q) : q \in ClientPages} \ {NoFrame}
      /\ MappedFrames' = {Mapping(q)' : q \in ClientPages} \ {NoFrame}
  BY DEF MappedFrames, ClientPages
<1>6. MappedFrames' \subseteq MappedFrames \cup {frame} /\ frame \in MappedFrames'
  BY <1>1, <1>3, <1>5
<1>7. MappedFrames \subseteq MappedFrames' \cup dropped'
  BY <1>2, <1>3, <1>5
<1>8. dropped' \subseteq dropped \cup MappedFrames /\ dropped \subseteq dropped'
  BY <1>2, <1>5
<1>9. Frames = free' \cup (Frames \ memory.free) \cup Tables(pd') \cup MappedFrames' \cup dropped'
  BY <1>1, <1>2, <1>4, <1>6, <1>7, <1>8
<1> QED BY <1>9 DEF FramesAccounted, ReservedFrames

LEMMA LeastFree ==
  ASSUME TypeOK, PagingSound, free # {}
  PROVE  Min(free) \in free /\ \A f \in free : Min(free) <= f
BY PagingParts, MinIsLeast

(* The page heap_grow maps next lies in the heap, and what it counts are    *)
(* naturals.                                                               *)
LEMMA HeapCounts ==
  ASSUME TypeOK, CallSound
  PROVE  /\ heapPage \in Nat /\ HeapStart <= heapPage /\ heapPage <= HeapEnd
         /\ call.done \in Nat /\ call.pages \in Nat
         /\ MappedEnd \in Nat /\ heapPage <= MappedEnd /\ MappedEnd <= HeapEnd
         /\ Growing => /\ NextPage \in HeapStart .. (HeapEnd - 1) /\ NextPage \in ClientPages
                       /\ NextPage # TestPage /\ NextPage = MappedEnd
<1>1. /\ heapPage \in Nat /\ HeapStart <= heapPage /\ heapPage <= HeapEnd
      /\ call.done \in Nat /\ call.pages \in Nat
  BY Layout DEF TypeOK
<1>4. MappedEnd \in Nat /\ heapPage <= MappedEnd /\ MappedEnd <= HeapEnd
  BY <1>1, Layout DEF CallSound, MappedEnd
<1>2. ASSUME Growing
      PROVE  NextPage \in HeapStart .. (HeapEnd - 1) /\ NextPage = MappedEnd
  BY <1>1, <1>2, Layout DEF CallSound, Growing, NextPage, MappedEnd
<1>3. TestPage \notin HeapStart .. (HeapEnd - 1)
  BY HeapAssumption, Layout
<1> QED BY <1>1, <1>2, <1>3, <1>4 DEF ClientPages

-----------------------------------------------------------------------------
(* What the steps have in common.                                          *)

\* A step that maps nothing.
Quiet ==
  /\ UNCHANGED <<memory, pd, pt, dropped>>
  /\ stage' \in {stage, "running"}
  /\ free' \subseteq free /\ (cpu' = "runs" => free' = free)
  /\ heapPage' \in Nat /\ heapPage <= heapPage'
  /\ MappedEnd' \in Nat /\ MappedEnd' <= MappedEnd

LEMMA QuietSteps ==
  ASSUME TypeOK, CallSound, Next, ~GrowMapsPage, ~MapTestMaps
  PROVE  Quiet
<1> USE DEF heapVars, results
<1>0. /\ heapPage \in Nat /\ call.done \in Nat /\ call.pages \in Nat
      /\ MappedEnd \in Nat /\ heapPage <= MappedEnd
      /\ stage \in {"boot", "running"} /\ Idle.pc = "idle"
  BY HeapCounts DEF TypeOK, Idle
<1>1. CASE EnableBackend
  <2>1. MappedEnd' = heapPage
    BY <1>0, <1>1 DEF EnableBackend, StartGrow, MappedEnd
  <2> QED BY <1>0, <1>1, <2>1 DEF EnableBackend, Quiet
<1>2. CASE GrowOutOfFrames \/ GrowWithoutTable
  <2>1. MappedEnd' = heapPage
    BY <1>0, <1>2 DEF GrowOutOfFrames, GrowWithoutTable, GrowFails, MappedEnd
  <2> QED BY <1>0, <1>2, <2>1 DEF GrowOutOfFrames, GrowWithoutTable, GrowFails, Quiet
<1>3. CASE GrowStops \/ MapTestStops
  <2>1. /\ UNCHANGED <<memory, pd, pt, dropped, stage, heapPage, call>> /\ free' \subseteq free
        /\ cpu' # "runs"
    BY <1>3 DEF GrowStops, MapTestStops, MapStops, Stop
  <2>2. MappedEnd' = MappedEnd
    BY <2>1 DEF MappedEnd
  <2> QED BY <1>0, <2>1, <2>2 DEF Quiet
<1>4. CASE GrowDone
  <2>1. MappedEnd' = heapPage + call.pages /\ MappedEnd = heapPage + call.pages
    <3>1. call' = Idle \/ call' = [call EXCEPT !.pc = "retry"]
      BY <1>4 DEF GrowDone
    <3>2. call'.pc # "grow"
      BY <1>0, <3>1 DEF TypeOK
    <3> QED BY <1>4, <3>2 DEF GrowDone, MappedEnd
  <2>2. heapPage' = heapPage + call.pages /\ stage' \in {stage, "running"}
        /\ UNCHANGED <<memory, free, pd, pt, dropped>>
    BY <1>4 DEF GrowDone
  <2> QED BY <1>0, <2>1, <2>2 DEF Quiet
<1>5. CASE KmallocRetries
  <2>1. MappedEnd' = heapPage /\ heapPage' = heapPage
    BY <1>0, <1>5 DEF KmallocRetries, MappedEnd
  <2> QED BY <1>0, <1>5, <2>1 DEF KmallocRetries, Quiet
<1>6. ASSUME NEW asked \in Sizes, Kmalloc(asked) PROVE Quiet
  <2>1. CASE KmallocNothing(asked)
    BY <1>0, <2>1 DEF KmallocNothing, Quiet, MappedEnd
  <2>2. CASE KmallocBootstrap(asked)
    BY <1>0, <2>2 DEF KmallocBootstrap, Quiet, MappedEnd
  <2>3. CASE KmallocFinds(asked)
    BY <1>0, <2>3 DEF KmallocFinds, Quiet, MappedEnd
  <2>4. CASE KmallocGrows(asked)
    <3>1. MappedEnd' = heapPage \/ MappedEnd' = MappedEnd
      BY <1>0, <2>4 DEF KmallocGrows, StartGrow, MappedEnd
    <3> QED BY <1>0, <2>4, <3>1 DEF KmallocGrows, Quiet
  <2> QED BY <1>6, <2>1, <2>2, <2>3, <2>4 DEF Kmalloc
<1>7. CASE MapTestFails \/ TestCopy \/ TestWrites
  BY <1>0, <1>7 DEF MapTestFails, TestCopy, TestWrites, Quiet, MappedEnd
<1> QED BY <1>1, <1>2, <1>3, <1>4, <1>5, <1>6, <1>7 DEF Next, GrowStep, MapTest

\* The types of the state that paging.c and pmm.c keep.
PagingTyped ==
  /\ memory \in Memories /\ free \subseteq memory.free /\ dropped \subseteq memory.free
  /\ pd \in [Dirs -> Entry] /\ Tables(pd) \subseteq DOMAIN pt
  /\ \A t \in DOMAIN pt : pt[t] \in [Slots -> Entry]

LEMMA QuietKeepsPaging ==
  ASSUME TypeOK, PagingSound, PagesOwned, PagesMapped, FramesAccounted, cpu = "runs", Quiet
  PROVE  PagingTyped' /\ PagingSound' /\ PagesOwned' /\ FramesAccounted'
<1> USE DEF Quiet
<1>1. PagingTyped'
  BY DEF TypeOK, PagingTyped
<1>2. PagingSound'
  BY DEF PagingSound
<1>3. MappedPages' = MappedPages /\ ClientPages' = ClientPages
      /\ \A page \in Page : Mapping(page)' = Mapping(page)
  BY DEF MappedPages, Mapping, ClientPages
<1>4. \A page \in MappedPages : page \in Page
  BY DEF MappedPages
<1>5. PagesOwned'
  BY <1>3, <1>4, PagingParts, Layout DEF PagesOwned
<1>6. FramesAccounted'
  BY <1>3 DEF FramesAccounted, ReservedFrames, MappedFrames, Mapping
<1> QED BY <1>1, <1>2, <1>5, <1>6

\* A step that maps a page.
MapStep(page) ==
  /\ free # {} /\ Maps(page, Min(free), free \ {Min(free)})
  /\ UNCHANGED <<stage, memory, cpu>>

LEMMA MapStepEffect ==
  ASSUME TypeOK, PagingSound, PagesOwned, FramesAccounted, cpu = "runs",
         NEW page \in ClientPages, MapStep(page), stage = "boot" => page # TestPage
  PROVE  /\ PagingTyped' /\ PagingSound' /\ PagesOwned' /\ FramesAccounted'
         /\ Remaps(page, Min(free)) /\ Min(free) # NoFrame /\ free' \subseteq free
<1>1. Min(free) \in free /\ \A f \in free : Min(free) <= f
  BY LeastFree DEF MapStep
<1>2. PICK new \in SUBSET Frames : Effect(page, Min(free), new)
  BY <1>1, MapsEffect DEF MapStep
<1>3. PagingSound' /\ PagesOwned' /\ free' \subseteq free /\ dropped' \subseteq memory.free
  BY <1>1, <1>2, EffectKeepsFrames DEF MapStep
<1>4. FramesAccounted'
  BY <1>1, <1>2, EffectKeepsAccounts DEF MapStep
<1>5. PagingTyped'
  BY <1>2, <1>3 DEF TypeOK, PagingTyped, Effect, TablesTyped, MapStep
<1>6. Min(free) # NoFrame
  BY <1>1, PagingParts, Layout
<1> QED BY <1>2, <1>3, <1>4, <1>5, <1>6 DEF Effect

LEMMA PagingPreserved ==
  ASSUME Inductive, Next
  PROVE  PagingTyped' /\ PagingSound' /\ PagesOwned' /\ FramesAccounted' /\ PagesMapped'
<1> USE DEF Inductive
<1>0. cpu = "runs"
  BY DEF Next, EnableBackend, GrowStep, GrowOutOfFrames, GrowWithoutTable, GrowMapsPage, GrowStops,
         GrowDone, Growing, KmallocRetries, MapTest, MapTestMaps, MapTestStops, MapTestFails,
         CanTest, CanCall, BetweenCalls, TestCopy, TestWrites, Kmalloc, KmallocNothing,
         KmallocBootstrap, KmallocFinds, KmallocGrows, Asks
<1>1. /\ heapPage \in Nat /\ HeapStart \in Nat /\ HeapStart <= heapPage /\ MappedEnd \in Nat
      /\ heapPage <= MappedEnd /\ MappedEnd <= HeapEnd
      /\ call.done \in Nat
  BY HeapCounts, Layout
<1>2. CASE GrowMapsPage
  <2>1. /\ Growing /\ MapStep(NextPage) /\ heapPage' = heapPage
        /\ call' = [call EXCEPT !.done = @ + 1]
    BY <1>2 DEF GrowMapsPage, MapStep, heapVars
  <2>2. NextPage \in ClientPages /\ NextPage # TestPage /\ NextPage = MappedEnd
    BY <2>1, HeapCounts
  <2>3. /\ PagingTyped' /\ PagingSound' /\ PagesOwned' /\ FramesAccounted'
        /\ Remaps(NextPage, Min(free)) /\ Min(free) # NoFrame
    BY <1>0, <2>1, <2>2, MapStepEffect
  <2>4. MappedEnd' = MappedEnd + 1
    BY <1>1, <2>1 DEF TypeOK, MappedEnd, Growing
  <2>5. PagesMapped'
    <3> SUFFICES ASSUME NEW page \in HeapStart .. (MappedEnd' - 1) PROVE Mapping(page)' # NoFrame
      BY DEF PagesMapped
    <3>1. page = NextPage \/ page \in HeapStart .. (MappedEnd - 1)
      BY <1>1, <2>1, <2>2, <2>4
    <3>2. page \in Page
      <4>1. page \in Nat /\ HeapStart <= page /\ page <= NextPage /\ NextPage <= HeapEnd
        BY <1>1, <2>1, <2>2, <3>1, HeapCounts, Layout
      <4>2. page <= HeapEnd
        BY <1>1, <4>1, HeapCounts, Layout, <2>1
      <4> QED BY <4>1, <4>2, PagesOfHeap
    <3> QED BY <2>3, <3>1, <3>2 DEF Remaps, PagesMapped
  <2> QED BY <2>3, <2>5
<1>3. CASE MapTestMaps
  <2>1. /\ stage = "running" /\ MapStep(TestPage) /\ heapPage' = heapPage /\ call' = call
    BY <1>3 DEF MapTestMaps, MapStep, CanTest, heapVars
  <2>2. TestPage \in ClientPages
    BY DEF ClientPages
  <2>3. /\ PagingTyped' /\ PagingSound' /\ PagesOwned' /\ FramesAccounted'
        /\ Remaps(TestPage, Min(free)) /\ Min(free) # NoFrame
    BY <1>0, <2>1, <2>2, MapStepEffect
  <2>4. PagesMapped'
    <3> SUFFICES ASSUME NEW page \in HeapStart .. (MappedEnd - 1) PROVE Mapping(page)' # NoFrame
      BY <2>1 DEF PagesMapped, MappedEnd
    <3>1. page \in Page
      <4>1. page \in Nat /\ page <= HeapEnd
        BY <1>1, Layout
      <4> QED BY <4>1, PagesOfHeap
    <3> QED BY <2>3, <3>1 DEF Remaps, PagesMapped
  <2> QED BY <2>3, <2>4
<1>4. CASE ~GrowMapsPage /\ ~MapTestMaps
  <2>1. Quiet
    BY <1>4, QuietSteps
  <2>2. PagingTyped' /\ PagingSound' /\ PagesOwned' /\ FramesAccounted'
    BY <1>0, <2>1, QuietKeepsPaging
  <2>3. PagesMapped'
    <3>1. /\ MappedEnd' \in Nat /\ MappedEnd' <= MappedEnd
          /\ pd' = pd /\ pt' = pt
      BY <2>1 DEF Quiet
    <3>2. HeapStart .. (MappedEnd' - 1) \subseteq HeapStart .. (MappedEnd - 1)
      BY <1>1, <3>1, ShorterRange
    <3> QED BY <3>1, <3>2 DEF PagesMapped, Mapping
  <2> QED BY <2>2, <2>3
<1> QED BY <1>2, <1>3, <1>4

-----------------------------------------------------------------------------
(* The list of blocks.                                                     *)

(* What lies before and behind an element of a sequence.                    *)
LEMMA AroundElement ==
  ASSUME NEW S, NEW s \in Seq(S), NEW i \in 1 .. Len(s)
  PROVE  /\ SubSeq(s, 1, i - 1) \in Seq(S) /\ Len(SubSeq(s, 1, i - 1)) = i - 1
         /\ \A j \in 1 .. (i - 1) : SubSeq(s, 1, i - 1)[j] = s[j]
         /\ SubSeq(s, i + 1, Len(s)) \in Seq(S) /\ Len(SubSeq(s, i + 1, Len(s))) = Len(s) - i
         /\ \A j \in 1 .. (Len(s) - i) : SubSeq(s, i + 1, Len(s))[j] = s[i + j]
<1> DEFINE front == SubSeq(s, 1, i - 1)
           back == SubSeq(s, i + 1, Len(s))
<1>0. Len(s) \in Nat /\ i \in Nat /\ 1 <= i /\ i <= Len(s) /\ \A j \in 1 .. Len(s) : s[j] \in S
  BY LenProperties, ElementOfSeq
<1>1. /\ front \in Seq(S) /\ Len(front) = i - 1 /\ \A j \in 1 .. (i - 1) : front[j] = s[j]
  <2>1. \A j \in 1 .. (i - 1) : s[j] \in S
    BY <1>0
  <2>2. /\ front \in Seq(S) /\ Len(front) = IF 1 <= i - 1 THEN i - 1 - 1 + 1 ELSE 0
        /\ \A j \in 1 .. (i - 1 - 1 + 1) : front[j] = s[1 + j - 1]
    BY <1>0, <2>1, SubSeqProperties
  <2> HIDE DEF front
  <2> QED BY <1>0, <2>2
<1>2. /\ back \in Seq(S) /\ Len(back) = Len(s) - i
      /\ \A j \in 1 .. (Len(s) - i) : back[j] = s[i + j]
  <2>1. \A j \in (i + 1) .. Len(s) : s[j] \in S
    BY <1>0
  <2>2. /\ back \in Seq(S) /\ Len(back) = IF i + 1 <= Len(s) THEN Len(s) - (i + 1) + 1 ELSE 0
        /\ \A j \in 1 .. (Len(s) - (i + 1) + 1) : back[j] = s[(i + 1) + j - 1]
    BY <1>0, <2>1, SubSeqProperties
  <2> HIDE DEF back
  <2> QED BY <1>0, <2>2
<1> QED BY <1>1, <1>2

(* A concatenation, part by part.                                          *)
LEMMA ConcatParts ==
  ASSUME NEW S, NEW u \in Seq(S), NEW v \in Seq(S)
  PROVE  /\ u \o v \in Seq(S) /\ Len(u \o v) = Len(u) + Len(v)
         /\ \A j \in 1 .. Len(u) : (u \o v)[j] = u[j]
         /\ \A j \in 1 .. Len(v) : (u \o v)[Len(u) + j] = v[j]
<1> DEFINE r == u \o v
           m == Len(u)
           n == Len(v)
<1>1. m \in Nat /\ n \in Nat
  BY LenProperties
<1>2. /\ r \in Seq(S) /\ Len(r) = m + n
      /\ \A j \in 1 .. (m + n) : r[j] = IF j <= m THEN u[j] ELSE v[j - m]
  BY ConcatProperties
<1> HIDE DEF r, m, n
<1>3. ASSUME NEW j \in 1 .. m PROVE r[j] = u[j]
  <2>1. j \in 1 .. (m + n) /\ j <= m
    BY <1>1
  <2> QED BY <1>2, <2>1
<1>4. ASSUME NEW j \in 1 .. n PROVE r[m + j] = v[j]
  <2> DEFINE k == m + j
  <2>1. k \in 1 .. (m + n) /\ ~(k <= m) /\ k - m = j
    BY <1>1
  <2> HIDE DEF k
  <2>2. r[k] = v[k - m]
    BY <1>2, <2>1
  <2> QED BY <2>1, <2>2 DEF k
<1> QED BY <1>2, <1>3, <1>4 DEF r, m, n

\* Replaced, for any sequence: one element is replaced by a few.
Spliced(s, i, pieces) == SubSeq(s, 1, i - 1) \o pieces \o SubSeq(s, i + 1, Len(s))

LEMMA ReplaceByOne ==
  ASSUME NEW S, NEW s \in Seq(S), NEW i \in 1 .. Len(s), NEW one \in Seq(S), Len(one) = 1
  PROVE  LET r == Spliced(s, i, one) IN
         /\ r \in Seq(S) /\ Len(r) = Len(s) /\ r[i] = one[1]
         /\ \A j \in 1 .. (i - 1) : r[j] = s[j]
         /\ \A j \in (i + 1) .. Len(s) : r[j] = s[j]
<1> DEFINE front == SubSeq(s, 1, i - 1)
           back == SubSeq(s, i + 1, Len(s))
           with == front \o one
           r == Spliced(s, i, one)
<1>0. Len(s) \in Nat /\ i \in Nat /\ 1 <= i /\ i <= Len(s)
  BY LenProperties
<1>1. front \in Seq(S) /\ Len(front) = i - 1 /\ \A j \in 1 .. (i - 1) : front[j] = s[j]
  BY AroundElement
<1>2. back \in Seq(S) /\ Len(back) = Len(s) - i /\ \A j \in 1 .. (Len(s) - i) : back[j] = s[i + j]
  BY AroundElement
<1> HIDE DEF front, back
<1>4. /\ with \in Seq(S) /\ Len(with) = Len(front) + Len(one)
      /\ \A j \in 1 .. Len(front) : with[j] = front[j]
      /\ \A j \in 1 .. Len(one) : with[Len(front) + j] = one[j]
  <2>1. front \in Seq(S) /\ one \in Seq(S)
    BY <1>1
  <2> QED BY ONLY <2>1, ConcatParts
<1> HIDE DEF with
<1>5. /\ r \in Seq(S) /\ Len(r) = Len(with) + Len(back)
      /\ \A j \in 1 .. Len(with) : r[j] = with[j]
      /\ \A j \in 1 .. Len(back) : r[Len(with) + j] = back[j]
  <2>1. with \in Seq(S) /\ back \in Seq(S)
    BY <1>2, <1>4
  <2>2. r = with \o back
    BY DEF with, front, back, Spliced
  <2> QED BY ONLY <2>1, <2>2, ConcatParts
<1> HIDE DEF r
<1>6. Len(with) = i /\ Len(r) = Len(s)
  BY <1>0, <1>1, <1>2, <1>4, <1>5
<1>7. r[i] = one[1]
  <2>1. i = Len(front) + 1 /\ 1 \in 1 .. Len(one) /\ i \in 1 .. Len(with)
    BY <1>0, <1>1, <1>6
  <2> QED BY <1>4, <1>5, <2>1
<1>8. ASSUME NEW j \in 1 .. (i - 1) PROVE r[j] = s[j]
  <2>1. j \in 1 .. Len(front) /\ j \in 1 .. Len(with)
    BY <1>0, <1>1, <1>6
  <2> QED BY <1>1, <1>4, <1>5, <2>1
<1>9. ASSUME NEW j \in (i + 1) .. Len(s) PROVE r[j] = s[j]
  <2>1. j - i \in 1 .. Len(back) /\ Len(with) + (j - i) = j /\ i + (j - i) = j
    BY <1>0, <1>2, <1>6
  <2>2. r[Len(with) + (j - i)] = back[j - i]
    BY <1>5, <2>1
  <2> QED BY <1>2, <2>1, <2>2
<1> QED BY <1>5, <1>6, <1>7, <1>8, <1>9 DEF r

LEMMA ReplaceByTwo ==
  ASSUME NEW S, NEW s \in Seq(S), NEW i \in 1 .. Len(s), NEW pair \in Seq(S), Len(pair) = 2
  PROVE  LET r == Spliced(s, i, pair) IN
         /\ r \in Seq(S) /\ Len(r) = Len(s) + 1
         /\ r[i] = pair[1] /\ r[i + 1] = pair[2]
         /\ \A j \in 1 .. (i - 1) : r[j] = s[j]
         /\ \A j \in (i + 1) .. Len(s) : r[j + 1] = s[j]
<1> DEFINE front == SubSeq(s, 1, i - 1)
           back == SubSeq(s, i + 1, Len(s))
           with == front \o pair
           r == Spliced(s, i, pair)
<1>0. Len(s) \in Nat /\ i \in Nat /\ 1 <= i /\ i <= Len(s)
  BY LenProperties
<1>1. front \in Seq(S) /\ Len(front) = i - 1 /\ \A j \in 1 .. (i - 1) : front[j] = s[j]
  BY AroundElement
<1>2. back \in Seq(S) /\ Len(back) = Len(s) - i /\ \A j \in 1 .. (Len(s) - i) : back[j] = s[i + j]
  BY AroundElement
<1> HIDE DEF front, back
<1>4. /\ with \in Seq(S) /\ Len(with) = Len(front) + Len(pair)
      /\ \A j \in 1 .. Len(front) : with[j] = front[j]
      /\ \A j \in 1 .. Len(pair) : with[Len(front) + j] = pair[j]
  <2>1. front \in Seq(S) /\ pair \in Seq(S)
    BY <1>1
  <2> QED BY ONLY <2>1, ConcatParts
<1> HIDE DEF with
<1>5. /\ r \in Seq(S) /\ Len(r) = Len(with) + Len(back)
      /\ \A j \in 1 .. Len(with) : r[j] = with[j]
      /\ \A j \in 1 .. Len(back) : r[Len(with) + j] = back[j]
  <2>1. with \in Seq(S) /\ back \in Seq(S)
    BY <1>2, <1>4
  <2>2. r = with \o back
    BY DEF with, front, back, Spliced
  <2> QED BY ONLY <2>1, <2>2, ConcatParts
<1> HIDE DEF r
<1>6. Len(with) = i + 1 /\ Len(r) = Len(s) + 1
  BY <1>0, <1>1, <1>2, <1>4, <1>5
<1>7. r[i] = pair[1] /\ r[i + 1] = pair[2]
  <2>1. /\ i = Len(front) + 1 /\ i + 1 = Len(front) + 2
        /\ 1 \in 1 .. Len(pair) /\ 2 \in 1 .. Len(pair)
        /\ i \in 1 .. Len(with) /\ i + 1 \in 1 .. Len(with)
    BY <1>0, <1>1, <1>6
  <2>2. with[Len(front) + 1] = pair[1] /\ with[Len(front) + 2] = pair[2]
    BY <1>4, <2>1
  <2> QED BY <1>5, <2>1, <2>2
<1>8. ASSUME NEW j \in 1 .. (i - 1) PROVE r[j] = s[j]
  <2>1. j \in 1 .. Len(front) /\ j \in 1 .. Len(with)
    BY <1>0, <1>1, <1>6
  <2> QED BY <1>1, <1>4, <1>5, <2>1
<1>9. ASSUME NEW j \in (i + 1) .. Len(s) PROVE r[j + 1] = s[j]
  <2>1. j - i \in 1 .. Len(back) /\ Len(with) + (j - i) = j + 1 /\ i + (j - i) = j
    BY <1>0, <1>2, <1>6
  <2>2. r[Len(with) + (j - i)] = back[j - i]
    BY <1>5, <2>1
  <2> QED BY <1>2, <2>1, <2>2
<1> QED BY <1>5, <1>6, <1>7, <1>8, <1>9 DEF r

Blocks == [at : Units, size : Units, free : BOOLEAN]

\* What BlocksTile and BlocksApart say of a list that is not empty.
Tiles(list, start, end) ==
  /\ list[1].at = start /\ BlockEnd(list[Len(list)]) = end
  /\ \A i \in 1 .. (Len(list) - 1) : BlockEnd(list[i]) = list[i + 1].at
Apart(list) == \A i, j \in 1 .. Len(list) : i < j => BlockEnd(list[i]) <= list[j].at

\* All blocks of a list but those at the given places are in the other list.
Keeps(list, other, places) ==
  \A i \in 1 .. Len(list) : i \notin places => \E j \in 1 .. Len(other) : other[j] = list[i]

LEMMA BlockEnds ==
  ASSUME NEW b \in Blocks
  PROVE  /\ b.at \in Nat /\ b.size \in Nat /\ BlockEnd(b) \in Nat
         /\ b.at + HeaderSize <= BlockEnd(b) /\ b.at < BlockEnd(b)
         /\ BlockEnd(b) = b.at + HeaderSize + b.size
BY HeapAssumption, AddrSpaceAssumption DEF Blocks, Units, BlockEnd

(* Every block ends within the heap.                                       *)
LEMMA BlocksEnd ==
  ASSUME NEW list \in Seq(Blocks), NEW start, NEW end \in Nat,
         Tiles(list, start, end), Apart(list), NEW i \in 1 .. Len(list)
  PROVE  BlockEnd(list[i]) <= end
<1>1. Len(list) \in Nat /\ i <= Len(list) /\ Len(list) \in 1 .. Len(list)
  BY LenProperties
<1>2. list[i] \in Blocks /\ list[Len(list)] \in Blocks
  BY <1>1, ElementOfSeq
<1>3. CASE i = Len(list)
  BY <1>2, <1>3, BlockEnds DEF Tiles
<1>4. CASE i < Len(list)
  <2>1. BlockEnd(list[i]) <= list[Len(list)].at
    BY <1>1, <1>4 DEF Apart
  <2> QED BY <1>2, <2>1, BlockEnds DEF Tiles
<1> QED BY <1>1, <1>3, <1>4

(* A block is marked as used, or split first: the list still tiles the heap *)
(* and keeps the other blocks.                                             *)
LEMMA MarkBlock ==
  ASSUME NEW s \in Seq(Blocks), NEW i \in 1 .. Len(s), NEW one \in Seq(Blocks), Len(one) = 1, NEW start, NEW end,
         Tiles(s, start, end), Apart(s), one[1].at = s[i].at, one[1].size = s[i].size
  PROVE  LET r == Spliced(s, i, one)
         IN  /\ r \in Seq(Blocks) /\ Tiles(r, start, end) /\ Apart(r)
             /\ i \in 1 .. Len(r) /\ r[i] = one[1]
             /\ Keeps(s, r, {i}) /\ Keeps(r, s, {i})
<1> DEFINE r == Spliced(s, i, one)
<1>1. /\ r \in Seq(Blocks) /\ Len(r) = Len(s) /\ r[i] = one[1]
      /\ \A j \in 1 .. (i - 1) : r[j] = s[j]
      /\ \A j \in (i + 1) .. Len(s) : r[j] = s[j]
  BY ReplaceByOne
<1> HIDE DEF r
<1>2. Len(s) \in Nat /\ i \in Nat /\ 1 <= i /\ i <= Len(s)
  BY LenProperties
<1>3. \A j \in 1 .. Len(s) : j # i => r[j] = s[j]
  <2> SUFFICES ASSUME NEW j \in 1 .. Len(s), j # i PROVE r[j] = s[j]
    OBVIOUS
  <2>1. j \in 1 .. (i - 1) \/ j \in (i + 1) .. Len(s)
    BY <1>2
  <2> QED BY <1>1, <2>1
<1>4. \A j \in 1 .. Len(s) : r[j].at = s[j].at /\ BlockEnd(r[j]) = BlockEnd(s[j])
  BY <1>1, <1>3 DEF BlockEnd
<1>5. 1 \in 1 .. Len(s) /\ Len(s) \in 1 .. Len(s)
      /\ \A j \in 1 .. (Len(s) - 1) : j \in 1 .. Len(s) /\ j + 1 \in 1 .. Len(s)
  BY <1>2
<1>6. Tiles(r, start, end)
  BY <1>1, <1>4, <1>5 DEF Tiles
<1>7. Apart(r)
  BY <1>1, <1>4 DEF Apart
<1>8. Keeps(s, r, {i}) /\ Keeps(r, s, {i})
  BY <1>1, <1>3 DEF Keeps
<1> QED BY <1>1, <1>6, <1>7, <1>8 DEF r

LEMMA SplitBlock ==
  ASSUME NEW s \in Seq(Blocks), NEW i \in 1 .. Len(s), NEW pair \in Seq(Blocks), Len(pair) = 2,
         NEW start, NEW end, Tiles(s, start, end), Apart(s),
         pair[1].at = s[i].at, BlockEnd(pair[1]) = pair[2].at,
         BlockEnd(pair[2]) = BlockEnd(s[i])
  PROVE  LET r == Spliced(s, i, pair)
         IN  /\ r \in Seq(Blocks) /\ Tiles(r, start, end) /\ Apart(r)
             /\ i \in 1 .. Len(r) /\ r[i] = pair[1]
             /\ i + 1 \in 1 .. Len(r) /\ r[i + 1] = pair[2]
             /\ Keeps(s, r, {i}) /\ Keeps(r, s, {i, i + 1})
<1> DEFINE r == Spliced(s, i, pair)
           p == pair[1]
           q == pair[2]
           was(j) == IF j <= i THEN j ELSE j - 1
<1>1. /\ r \in Seq(Blocks) /\ Len(r) = Len(s) + 1 /\ r[i] = p /\ r[i + 1] = q
      /\ \A j \in 1 .. (i - 1) : r[j] = s[j]
      /\ \A j \in (i + 1) .. Len(s) : r[j + 1] = s[j]
  BY ReplaceByTwo
<1> HIDE DEF r
<1>11. p \in Blocks /\ q \in Blocks /\ p.at = s[i].at /\ BlockEnd(p) = q.at
       /\ BlockEnd(q) = BlockEnd(s[i])
  <2>1. 1 \in 1 .. Len(pair) /\ 2 \in 1 .. Len(pair)
    OBVIOUS
  <2>2. p \in Blocks /\ q \in Blocks
    BY ONLY <2>1, ElementOfSeq
  <2> QED BY <2>2
<1> HIDE DEF p, q
<1>2. Len(s) \in Nat /\ i \in Nat /\ 1 <= i /\ i <= Len(s)
  BY LenProperties
<1>3. ASSUME NEW j \in 1 .. Len(r)
      PROVE  /\ was(j) \in 1 .. Len(s)
             /\ j < i => was(j) = j /\ r[j] = s[j]
             /\ j > i + 1 => was(j) = j - 1 /\ r[j] = s[j - 1]
             /\ j = i \/ j = i + 1 => was(j) = i
  <2>1. CASE j < i
    <3>1. j \in 1 .. (i - 1)
      BY <1>2, <2>1
    <3> QED BY <1>1, <1>2, <2>1, <3>1
  <2>2. CASE j > i + 1
    <3> DEFINE h == j - 1
    <3>1. h \in (i + 1) .. Len(s) /\ h + 1 = j
      BY <1>1, <1>2, <2>2
    <3>2. was(j) = h /\ was(j) \in 1 .. Len(s)
      BY <1>1, <1>2, <2>2
    <3> HIDE DEF h
    <3>3. r[j] = s[h]
      BY <1>1, <3>1
    <3> QED BY <1>2, <2>2, <3>2, <3>3 DEF h
  <2>3. CASE j = i \/ j = i + 1
    BY <1>1, <1>2, <2>3
  <2> QED BY <1>2, <2>1, <2>2, <2>3
<1>4. \A j \in 1 .. Len(s) : /\ s[j] \in Blocks /\ s[j].at \in Nat
                             /\ BlockEnd(s[j]) \in Nat
  BY ElementOfSeq, BlockEnds
<1>5. /\ p.at \in Nat /\ q.at \in Nat /\ BlockEnd(q) \in Nat /\ p.at <= q.at /\ q.at <= BlockEnd(q)
  BY <1>11, BlockEnds
<1>6. ASSUME NEW j \in 1 .. Len(r)
      PROVE  /\ s[was(j)].at <= r[j].at /\ BlockEnd(r[j]) <= BlockEnd(s[was(j)])
             /\ r[j].at \in Nat /\ BlockEnd(r[j]) \in Nat
             /\ j # i + 1 => r[j].at = s[was(j)].at
             /\ j # i => BlockEnd(r[j]) = BlockEnd(s[was(j)])
  <2> HIDE DEF was
  <2>1. CASE j < i \/ j > i + 1
    <3>1. r[j] = s[was(j)] /\ was(j) \in 1 .. Len(s)
      BY <1>3, <2>1
    <3> QED BY <1>4, <3>1
  <2>2. CASE j = i
    <3>1. was(j) = i /\ r[j] = p
      BY <1>1, <1>3, <2>2
    <3> QED BY <1>2, <1>4, <1>5, <1>11, <2>2, <3>1
  <2>3. CASE j = i + 1
    <3>1. was(j) = i
      BY <1>3, <2>3
    <3>2. r[j] = q
      BY <1>1, <2>3
    <3>3. j # i
      BY <1>2, <2>3
    <3> QED BY <1>4, <1>5, <1>11, <2>3, <3>1, <3>2, <3>3
  <2> QED BY <1>2, <2>1, <2>2, <2>3
<1>7. Tiles(r, start, end)
  <2>1. /\ 1 \in 1 .. Len(r) /\ was(1) = 1 /\ 1 # i + 1
        /\ Len(r) \in 1 .. Len(r) /\ was(Len(r)) = Len(s) /\ Len(r) # i
    BY <1>1, <1>2
  <2>2. r[1].at = start /\ BlockEnd(r[Len(r)]) = end
    <3> HIDE DEF was
    <3> QED BY <1>6, <2>1 DEF Tiles
  <2>3. ASSUME NEW j \in 1 .. (Len(r) - 1) PROVE BlockEnd(r[j]) = r[j + 1].at
    <3>1. CASE j = i
      BY <1>1, <1>11, <3>1
    <3>2. CASE j # i
      <4>1. /\ j \in 1 .. Len(r) /\ j + 1 \in 1 .. Len(r) /\ j + 1 # i + 1
            /\ was(j) \in 1 .. (Len(s) - 1) /\ was(j + 1) = was(j) + 1
        BY <1>1, <1>2, <3>2
      <4> HIDE DEF was
      <4>2. BlockEnd(r[j]) = BlockEnd(s[was(j)]) /\ r[j + 1].at = s[was(j + 1)].at
        BY <1>6, <3>2, <4>1
      <4>3. BlockEnd(s[was(j)]) = s[was(j) + 1].at
        BY <4>1 DEF Tiles
      <4> QED BY <4>1, <4>2, <4>3
    <3> QED BY <3>1, <3>2
  <2> QED BY <2>2, <2>3 DEF Tiles
<1>8. Apart(r)
  <2> SUFFICES ASSUME NEW a \in 1 .. Len(r), NEW b \in 1 .. Len(r), a < b
               PROVE  BlockEnd(r[a]) <= r[b].at
    BY DEF Apart
  <2>1. CASE a = i /\ b = i + 1
    BY <1>1, <1>5, <1>11, <2>1
  <2>2. CASE ~(a = i /\ b = i + 1)
    <3>1. was(a) \in 1 .. Len(s) /\ was(b) \in 1 .. Len(s) /\ was(a) < was(b)
      BY <1>1, <1>2, <2>2
    <3> HIDE DEF was
    <3>2. BlockEnd(s[was(a)]) <= s[was(b)].at
      BY <3>1 DEF Apart
    <3>3. BlockEnd(r[a]) <= BlockEnd(s[was(a)]) /\ s[was(b)].at <= r[b].at
          /\ BlockEnd(r[a]) \in Nat /\ r[b].at \in Nat
      BY <1>6
    <3>4. BlockEnd(s[was(a)]) \in Nat /\ s[was(b)].at \in Nat
      BY <1>4, <3>1
    <3> QED BY SMTT(30), <3>2, <3>3, <3>4
  <2> QED BY <2>1, <2>2
<1>9. ASSUME NEW j \in 1 .. Len(s), j # i PROVE \E k \in 1 .. Len(r) : r[k] = s[j]
  <2>1. CASE j < i
    <3>1. j \in 1 .. (i - 1) /\ j \in 1 .. Len(r)
      BY <1>1, <1>2, <2>1
    <3> QED BY <1>1, <3>1
  <2>2. CASE j > i
    <3>1. j \in (i + 1) .. Len(s) /\ j + 1 \in 1 .. Len(r)
      BY <1>1, <1>2, <2>2
    <3>2. r[j + 1] = s[j]
      BY <1>1, <3>1
    <3> QED BY <3>1, <3>2
  <2> QED BY <1>2, <1>9, <2>1, <2>2
<1>10. i \in 1 .. Len(r) /\ i + 1 \in 1 .. Len(r)
  BY <1>1, <1>2
<1>12. ASSUME NEW k \in 1 .. Len(r), k # i, k # i + 1
       PROVE  \E j \in 1 .. Len(s) : r[k] = s[j]
  <2>1. was(k) \in 1 .. Len(s) /\ (k < i => was(k) = k /\ r[k] = s[k])
        /\ (k > i + 1 => was(k) = k - 1 /\ r[k] = s[k - 1])
    BY <1>3
  <2>2. k < i \/ k > i + 1
    BY <1>2, <1>12
  <2> HIDE DEF was
  <2>3. r[k] = s[was(k)]
    BY <2>1, <2>2
  <2> QED BY <2>1, <2>3
<1>13. Keeps(s, r, {i}) /\ Keeps(r, s, {i, i + 1})
  BY <1>9, <1>12 DEF Keeps
<1> QED BY <1>1, <1>7, <1>8, <1>10, <1>13 DEF r, p, q

(* A region is added at the end of the heap.                               *)
LEMMA AddRegion ==
  ASSUME NEW s \in Seq(Blocks), NEW b \in Blocks, NEW start \in Nat, NEW middle \in Nat,
         IF s = <<>> THEN middle = start ELSE Tiles(s, start, middle),
         Apart(s), b.at = middle
  PROVE  LET r == Append(s, b)
         IN  /\ r \in Seq(Blocks) /\ r # <<>> /\ Tiles(r, start, BlockEnd(b)) /\ Apart(r)
             /\ \A j \in 1 .. Len(s) : j \in 1 .. Len(r) /\ r[j] = s[j]
             /\ Len(r) \in 1 .. Len(r) /\ r[Len(r)] = b
<1> DEFINE r == Append(s, b)
<1>0. Len(s) \in Nat /\ \A j \in 1 .. Len(s) : s[j] \in Blocks
  BY LenProperties, ElementOfSeq
<1>1. /\ r \in Seq(Blocks) /\ Len(r) = Len(s) + 1 /\ r[Len(r)] = b
      /\ \A j \in 1 .. Len(s) : r[j] = s[j]
  BY AppendProperties
<1> HIDE DEF r
<1>2. r # <<>> /\ Len(r) \in 1 .. Len(r) /\ \A j \in 1 .. Len(s) : j \in 1 .. Len(r) /\ j < Len(r)
  BY <1>0, <1>1
<1>3. CASE s = <<>>
  <2>1. Len(s) = 0 /\ Len(r) = 1 /\ r[1] = b
    BY <1>1, <1>3
  <2> QED BY <1>1, <1>2, <1>3, <2>1 DEF Tiles, Apart, r
<1>4. CASE s # <<>>
  <2>1. Len(s) \in 1 .. Len(s) /\ 1 \in 1 .. Len(s)
    BY <1>0, <1>4, EmptySeq
  <2>2. r[1].at = start /\ BlockEnd(r[Len(r)]) = BlockEnd(b)
    BY <1>1, <1>4, <2>1 DEF Tiles
  <2>3. ASSUME NEW j \in 1 .. (Len(r) - 1) PROVE BlockEnd(r[j]) = r[j + 1].at
    <3>1. CASE j = Len(s)
      BY <1>1, <1>4, <2>1, <3>1 DEF Tiles
    <3>2. CASE j # Len(s)
      <4>1. j \in 1 .. (Len(s) - 1) /\ j \in 1 .. Len(s) /\ j + 1 \in 1 .. Len(s)
        BY <1>0, <1>1, <3>2
      <4> QED BY <1>1, <1>4, <4>1 DEF Tiles
    <3> QED BY <3>1, <3>2
  <2>4. ASSUME NEW i \in 1 .. Len(r), NEW j \in 1 .. Len(r), i < j
        PROVE  BlockEnd(r[i]) <= r[j].at
    <3>1. i \in 1 .. Len(s) /\ r[i] = s[i]
      BY <1>0, <1>1, <2>4
    <3>2. CASE j \in 1 .. Len(s)
      BY <1>1, <2>4, <3>1, <3>2 DEF Apart
    <3>3. CASE j = Len(r)
      BY <1>1, <1>4, <3>1, <3>3, BlocksEnd
    <3> QED BY <1>0, <1>1, <3>2, <3>3
  <2>5. Tiles(r, start, BlockEnd(b)) /\ Apart(r)
    BY <2>2, <2>3, <2>4 DEF Tiles, Apart
  <2> QED BY <1>1, <1>2, <2>5 DEF r
<1> QED BY <1>3, <1>4

(* The blocks and where they lie, in the terms of the lemmas above.        *)
LEMMA BlocksShape ==
  ASSUME TypeOK, CallSound
  PROVE  /\ blocks \in Seq(Blocks) /\ Len(blocks) \in Nat /\ DOMAIN blocks = 1 .. Len(blocks)
         /\ \A i \in DOMAIN blocks : blocks[i] \in Blocks
         /\ BlocksTile <=> IF blocks = <<>> THEN heapPage = HeapStart
                           ELSE Tiles(blocks, HeapStart * PageSize, heapPage * PageSize)
         /\ BlocksApart <=> Apart(blocks)
         /\ heapPage * PageSize \in Units /\ HeapStart * PageSize \in Nat
         /\ heapPage * PageSize <= HeapEnd * PageSize
<1>1. blocks \in Seq(Blocks)
  BY DEF TypeOK, Blocks
<1>2. /\ Len(blocks) \in Nat /\ DOMAIN blocks = 1 .. Len(blocks)
      /\ \A i \in 1 .. Len(blocks) : blocks[i] \in Blocks
  BY <1>1, LenProperties, ElementOfSeq
<1>3. heapPage * PageSize \in Units /\ HeapStart * PageSize \in Nat
      /\ heapPage * PageSize <= HeapEnd * PageSize
  BY HeapCounts, PageAddresses, Layout, PageSizeAssumption
<1> QED BY <1>1, <1>2, <1>3 DEF BlocksTile, BlocksApart, Tiles, Apart

\* What kmalloc does to the list when it takes a block.
Takes(i, size, asked) ==
  /\ i \in DOMAIN blocks /\ blocks[i].free /\ size <= blocks[i].size
  /\ blocks' \in Seq(Blocks) /\ blocks' # <<>>
  /\ Tiles(blocks', HeapStart * PageSize, heapPage * PageSize) /\ Apart(blocks')
  /\ i \in DOMAIN blocks' /\ ~blocks'[i].free
  /\ blocks'[i].at = blocks[i].at /\ size <= blocks'[i].size
  /\ \A j \in DOMAIN blocks : j # i => \E k \in DOMAIN blocks' : blocks'[k] = blocks[j]
  /\ \A k \in DOMAIN blocks' :
       \/ ~blocks'[k].free \/ blocks'[k].size > 0
       \/ \E j \in DOMAIN blocks : blocks'[k] = blocks[j]
  /\ Hand(blocks[i].at + HeaderSize, asked)

LEMMA TakeEffect ==
  ASSUME TypeOK, CallSound, BlocksTile, BlocksApart, NEW size \in Nat, NEW asked,
         size <= AlignUp(size, HeapAlign), AlignUp(size, HeapAlign) \in Nat,
         TakeBlock(size, asked)
  PROVE  \E i \in DOMAIN blocks : Takes(i, size, asked)
<1> DEFINE i == Min(Fitting(size))
           b == blocks[i]
           taken == AlignUp(size, HeapAlign)
           pieces == Pieces(b, size)
           start == HeapStart * PageSize
           end == heapPage * PageSize
<1>1. /\ Fitting(size) # {} /\ blocks' = Replaced(i, pieces)
      /\ Hand(b.at + HeaderSize, asked)
  BY DEF TakeBlock
<1>2. /\ blocks \in Seq(Blocks) /\ Len(blocks) \in Nat /\ DOMAIN blocks = 1 .. Len(blocks)
      /\ \A j \in DOMAIN blocks : blocks[j] \in Blocks
      /\ Apart(blocks) /\ end \in Units
  BY BlocksShape
<1>3. i \in Fitting(size)
  <2>1. Fitting(size) \subseteq Nat
    BY <1>2 DEF Fitting
  <2> QED BY <1>1, <2>1, MinIsLeast
<1>4. i \in 1 .. Len(blocks) /\ b.free /\ size <= b.size /\ b \in Blocks
  BY <1>2, <1>3 DEF Fitting
<1>5. Tiles(blocks, start, end)
  <2>1. blocks # <<>>
    BY <1>2, <1>3 DEF Fitting
  <2> QED BY <2>1, BlocksShape
<1>6. BlockEnd(b) <= end /\ end \in Nat /\ end < AddrSpace /\ AddrSpace \in Nat
  BY <1>2, <1>4, <1>5, BlocksEnd, AddrSpaceAssumption DEF Units
<1>7. blocks' = Spliced(blocks, i, pieces)
  BY <1>1 DEF Replaced, Spliced
<1> HIDE DEF i, start, end
<1>8. CASE b.size <= taken + HeaderSize + MinSplit
  <2>1. /\ pieces \in Seq(Blocks) /\ Len(pieces) = 1
        /\ pieces[1].at = b.at /\ pieces[1].size = b.size /\ ~pieces[1].free
    <3> DEFINE p == [b EXCEPT !.free = FALSE]
    <3>1. p \in Blocks /\ p.at = b.at /\ p.size = b.size /\ ~p.free
      BY <1>4 DEF Blocks
    <3>2. pieces = <<p>>
      BY <1>8 DEF Pieces
    <3> HIDE DEF p, pieces
    <3> QED BY <3>1, <3>2
  <2> HIDE DEF pieces
  <2>2. /\ blocks' \in Seq(Blocks)
        /\ Tiles(blocks', start, end) /\ Apart(blocks')
        /\ i \in 1 .. Len(blocks') /\ blocks'[i] = pieces[1]
        /\ Keeps(blocks, blocks', {i}) /\ Keeps(blocks', blocks, {i})
    <3>1. /\ blocks \in Seq(Blocks) /\ i \in 1 .. Len(blocks)
          /\ Tiles(blocks, start, end) /\ Apart(blocks)
          /\ pieces \in Seq(Blocks) /\ Len(pieces) = 1
          /\ pieces[1].at = blocks[i].at /\ pieces[1].size = blocks[i].size
      BY <1>2, <1>4, <1>5, <2>1
    <3> QED BY ONLY <3>1, <1>7, MarkBlock
  <2>3. blocks' # <<>> /\ DOMAIN blocks' = 1 .. Len(blocks')
    BY <2>2, LenProperties, EmptySeq
  <2>4. /\ \A j \in DOMAIN blocks : j # i => \E k \in DOMAIN blocks' : blocks'[k] = blocks[j]
        /\ \A k \in DOMAIN blocks' : k # i => \E j \in DOMAIN blocks : blocks'[k] = blocks[j]
    BY <1>2, <2>2, <2>3 DEF Keeps
  <2>5. /\ blocks'[i].at = blocks[i].at /\ ~blocks'[i].free /\ size <= blocks'[i].size
        /\ i \in DOMAIN blocks
    BY <1>2, <1>4, <2>1, <2>2
  <2>6. Takes(i, size, asked)
    BY <1>1, <1>4, <2>2, <2>3, <2>4, <2>5 DEF Takes, start, end
  <2> QED BY <2>5, <2>6
<1>9. CASE ~(b.size <= taken + HeaderSize + MinSplit)
  <2>1. /\ pieces \in Seq(Blocks) /\ Len(pieces) = 2
        /\ pieces[1].at = b.at /\ pieces[1].size = taken /\ ~pieces[1].free
        /\ BlockEnd(pieces[1]) = pieces[2].at /\ BlockEnd(pieces[2]) = BlockEnd(b)
        /\ pieces[2].size > 0
    <3> DEFINE p == [at |-> b.at, size |-> taken, free |-> FALSE]
               q == [at |-> b.at + HeaderSize + taken,
                     size |-> b.size - taken - HeaderSize, free |-> TRUE]
    <3>1. /\ b.at \in Nat /\ b.size \in Nat /\ HeaderSize \in Nat /\ MinSplit \in Nat /\ taken \in Nat
          /\ BlockEnd(b) = b.at + HeaderSize + b.size
      BY <1>4, BlockEnds, HeapAssumption
    <3>2. pieces = <<p, q>>
      BY <1>9 DEF Pieces
    <3> HIDE DEF b, taken, pieces
    <3>3. /\ b.at \in Units /\ taken \in Units /\ b.at + HeaderSize + taken \in Units
          /\ b.size - taken - HeaderSize \in Units
      BY <1>6, <1>9, <3>1 DEF Units
    <3>4. /\ p \in Blocks /\ q \in Blocks
          /\ p.at = b.at /\ p.size = taken /\ ~p.free
      BY <3>3 DEF Blocks
    <3>5. BlockEnd(p) = q.at /\ BlockEnd(q) = BlockEnd(b) /\ q.size > 0
      BY <1>9, <3>1 DEF BlockEnd
    <3> HIDE DEF p, q
    <3>6. pieces[1] = p /\ pieces[2] = q /\ Len(pieces) = 2 /\ pieces \in Seq(Blocks)
      BY <3>2, <3>4
    <3> QED BY <3>4, <3>5, <3>6
  <2> HIDE DEF pieces
  <2>2. /\ blocks' \in Seq(Blocks)
        /\ Tiles(blocks', start, end) /\ Apart(blocks')
        /\ i \in 1 .. Len(blocks') /\ blocks'[i] = pieces[1]
        /\ blocks'[i + 1] = pieces[2]
        /\ Keeps(blocks, blocks', {i}) /\ Keeps(blocks', blocks, {i, i + 1})
    <3>1. /\ blocks \in Seq(Blocks) /\ i \in 1 .. Len(blocks)
          /\ Tiles(blocks, start, end) /\ Apart(blocks)
          /\ pieces \in Seq(Blocks) /\ Len(pieces) = 2
          /\ pieces[1].at = blocks[i].at /\ BlockEnd(pieces[1]) = pieces[2].at
          /\ BlockEnd(pieces[2]) = BlockEnd(blocks[i])
      BY <1>2, <1>4, <1>5, <2>1
    <3> QED BY ONLY <3>1, <1>7, SplitBlock
  <2>3. blocks' # <<>> /\ DOMAIN blocks' = 1 .. Len(blocks')
    BY <1>2, <2>2, LenProperties, EmptySeq
  <2>4. /\ blocks'[i].at = blocks[i].at /\ ~blocks'[i].free /\ size <= blocks'[i].size
        /\ i \in DOMAIN blocks
    BY <1>2, <1>4, <2>1, <2>2
  <2>5. ASSUME NEW k \in DOMAIN blocks'
        PROVE  \/ ~blocks'[k].free \/ blocks'[k].size > 0
               \/ \E j \in DOMAIN blocks : blocks'[k] = blocks[j]
    BY <1>2, <2>1, <2>2, <2>3 DEF Keeps
  <2>6. \A j \in DOMAIN blocks : j # i => \E k \in DOMAIN blocks' : blocks'[k] = blocks[j]
    BY <1>2, <2>2, <2>3 DEF Keeps
  <2>7. Takes(i, size, asked)
    BY <1>1, <1>4, <2>2, <2>3, <2>4, <2>5, <2>6 DEF Takes, start, end
  <2> QED BY <2>4, <2>7
<1> QED BY <1>8, <1>9

(* Memory handed out by the heap ends before the heap does.                 *)
LEMMA BlockAddress ==
  ASSUME TypeOK, CallSound, BlocksTile, BlocksApart, NEW i \in DOMAIN blocks
  PROVE  /\ blocks[i].at \in Units /\ blocks[i].size \in Units
         /\ HeapStart * PageSize <= blocks[i].at
         /\ BlockEnd(blocks[i]) <= heapPage * PageSize
         /\ BlockEnd(blocks[i]) = blocks[i].at + HeaderSize + blocks[i].size
         /\ blocks[i].at + HeaderSize \in Units /\ blocks[i].at + HeaderSize # 0
<1> DEFINE start == HeapStart * PageSize
           end == heapPage * PageSize
<1>1. /\ blocks \in Seq(Blocks) /\ Len(blocks) \in Nat /\ i \in 1 .. Len(blocks)
      /\ blocks[i] \in Blocks /\ Apart(blocks) /\ end \in Units /\ start \in Nat
  BY BlocksShape
<1>2. Tiles(blocks, start, end)
  <2>1. blocks # <<>>
    BY <1>1
  <2> QED BY <2>1, BlocksShape
<1> HIDE DEF start, end
<1>3. end \in Nat /\ end < AddrSpace /\ AddrSpace \in Nat
  BY <1>1, AddrSpaceAssumption DEF Units
<1>4. BlockEnd(blocks[i]) <= end
  BY <1>1, <1>2, <1>3, BlocksEnd
<1>5. start <= blocks[i].at
  <2>1. 1 \in 1 .. Len(blocks) /\ blocks[1] \in Blocks
    BY <1>1, ElementOfSeq
  <2>2. blocks[1].at = start
    BY <1>2 DEF Tiles
  <2>3. CASE i = 1
    BY <1>1, <2>2, <2>3
  <2>4. CASE i # 1
    <3>1. BlockEnd(blocks[1]) <= blocks[i].at
      BY <1>1, <2>1, <2>4 DEF Apart
    <3> QED BY <1>1, <2>1, <2>2, <3>1, BlockEnds
  <2> QED BY <2>3, <2>4
<1>6. /\ blocks[i].at \in Nat /\ blocks[i].size \in Nat /\ HeaderSize \in Nat \ {0}
      /\ BlockEnd(blocks[i]) = blocks[i].at + HeaderSize + blocks[i].size
  BY <1>1, BlockEnds, HeapAssumption
<1>7. blocks[i].at \in Units /\ blocks[i].size \in Units
  BY <1>1 DEF Blocks
<1>8. blocks[i].at + HeaderSize \in Units /\ blocks[i].at + HeaderSize # 0
  BY <1>3, <1>4, <1>6 DEF Units
<1> QED BY <1>4, <1>5, <1>6, <1>7, <1>8 DEF start, end

\* The properties of the list of blocks and of what is handed out.
ListSound ==
  /\ blocks \in Seq(Blocks) /\ BlocksTile /\ BlocksApart /\ FreeBlocksHold
  /\ handed \subseteq [at : Units, size : Units] /\ HandedSound
InUseStay ==
  \A i \in DOMAIN blocks : ~blocks[i].free => \E j \in DOMAIN blocks' : blocks'[j] = blocks[i]

LEMMA TakeKeepsList ==
  ASSUME TypeOK, CallSound, BlocksTile, BlocksApart, FreeBlocksHold, HandedSound, backend,
         NEW asked \in Units, TakeBlock(Rounded(asked), asked), UNCHANGED <<backend, heapPage>>
  PROVE  ListSound' /\ InUseStay /\ answer'.at # 0 /\ answer' \in [at : Units, size : Units]
<1> DEFINE size == Rounded(asked)
<1>1. /\ size \in Nat /\ size <= AlignUp(size, HeapAlign) /\ AlignUp(size, HeapAlign) \in Nat
      /\ Promised(asked) \in Nat /\ Promised(asked) <= size
  BY RoundedIsEnough DEF Units
<1> HIDE DEF size
<1>2. PICK i \in DOMAIN blocks : Takes(i, size, asked)
  BY <1>1, TakeEffect DEF size
<1> DEFINE new == [at |-> blocks[i].at + HeaderSize, size |-> asked]
<1>3. handed' = handed \cup {new} /\ answer' = new
  BY <1>2 DEF Takes, Hand, Returns
<1>4. new \in [at : Units, size : Units] /\ new.at # 0
  BY BlockAddress
<1>5. blocks' \in Seq(Blocks) /\ BlocksTile' /\ BlocksApart'
  <2>1. blocks' \in Seq(Blocks) /\ DOMAIN blocks' = 1 .. Len(blocks')
    BY <1>2, LenProperties DEF Takes
  <2> QED BY <1>2, <2>1 DEF Takes, BlocksTile, BlocksApart, Tiles, Apart
<1>6. \A j \in DOMAIN blocks : ~blocks[j].free => \E k \in DOMAIN blocks' : blocks'[k] = blocks[j]
  BY <1>2 DEF Takes
<1>7. ASSUME NEW given \in handed'
      PROVE  \E k \in DOMAIN blocks' :
               /\ ~blocks'[k].free /\ blocks'[k].at + HeaderSize = given.at
               /\ Promised(given.size) <= blocks'[k].size
  <2>1. CASE given \in handed
    <3>1. PICK j \in DOMAIN blocks : /\ ~blocks[j].free /\ blocks[j].at + HeaderSize = given.at
                                     /\ Promised(given.size) <= blocks[j].size
      BY <2>1 DEF HandedSound, HandedFromBlocks
    <3> QED BY <1>6, <3>1
  <2>2. CASE given = new
    <3>1. i \in DOMAIN blocks' /\ ~blocks'[i].free /\ blocks'[i].at = blocks[i].at
          /\ size <= blocks'[i].size
      BY <1>2 DEF Takes
    <3>2. blocks'[i].size \in Nat
      <4>1. blocks' \in Seq(Blocks) /\ DOMAIN blocks' = 1 .. Len(blocks')
        BY <1>5, LenProperties
      <4> QED BY <3>1, <4>1, ElementOfSeq, BlockEnds
    <3>3. given.at = blocks[i].at + HeaderSize /\ given.size = asked
      BY <2>2
    <3>4. Promised(given.size) <= blocks'[i].size
      BY <1>1, <3>1, <3>2, <3>3
    <3> QED BY <3>1, <3>3, <3>4
  <2> QED BY <1>3, <2>1, <2>2
<1>8. HandedSound'
  BY <1>7 DEF HandedSound, HandedFromBlocks, Promised, RoundsToZero
<1>9. handed' \subseteq [at : Units, size : Units]
  BY <1>3, <1>4 DEF TypeOK
<1>10. FreeBlocksHold'
  BY <1>2 DEF Takes, FreeBlocksHold
<1> QED BY <1>3, <1>4, <1>5, <1>6, <1>8, <1>9, <1>10 DEF ListSound, InUseStay

LEMMA RegionKeepsList ==
  ASSUME TypeOK, CallSound, BlocksTile, BlocksApart, FreeBlocksHold, HandedSound, GrowDone
  PROVE  /\ ListSound' /\ InUseStay /\ heapPage' \in HeapStart .. HeapEnd
         /\ \/ Rounded(call.asked) + HeaderSize + PageSize > AddrSpace
            \/ call.op = "kmalloc" => Fitting(call.size)' # {}
<1> DEFINE start == HeapStart * PageSize
           middle == heapPage * PageSize
           bytes == call.pages * PageSize
           b == [at |-> middle, size |-> bytes - HeaderSize, free |-> TRUE]
<1>0. blocks' = Append(blocks, b) /\ heapPage' = heapPage + call.pages /\ handed' = handed
      /\ call.pc = "grow"
  BY DEF GrowDone, results
<1>1. /\ heapPage \in Nat /\ HeapStart \in Nat /\ HeapStart <= heapPage /\ HeapEnd \in Nat
      /\ heapPage + call.pages <= HeapEnd /\ call.pages \in Nat
      /\ call.size \in Nat /\ call.pages = PagesNeeded(call.size)
  BY <1>0, HeapCounts, Layout, AddrSpaceAssumption DEF CallSound, TypeOK, Units
<1>2. /\ GrowPages <= call.pages /\ GrowPages \in Nat
      /\ call.size + HeaderSize + PageSize <= AddrSpace => call.size + HeaderSize <= bytes
  BY <1>1, PagesAreEnough, HeapAssumption
<1>3. bytes \in Nat /\ HeaderSize < bytes /\ HeaderSize \in Nat
  <2>1. GrowPages * PageSize <= call.pages * PageSize
        /\ GrowPages * PageSize \in Nat /\ call.pages * PageSize \in Nat
    BY <1>1, <1>2, ProductMonotone, PageSizeAssumption
  <2> QED BY <2>1, HeapAssumption
<1>4. (heapPage + call.pages) * PageSize = middle + bytes
  BY <1>1, PageSizeAssumption
<1>5. middle \in Nat /\ middle + bytes \in Units /\ start \in Nat
  <2> DEFINE n == heapPage + call.pages
  <2>1. n \in Nat /\ n <= HeapEnd
    BY <1>1
  <2>2. n * PageSize = middle + bytes
    BY <1>4
  <2> HIDE DEF n
  <2>3. n * PageSize \in Units
    BY <2>1, PageAddresses
  <2>4. middle + bytes \in Units
    BY <2>2, <2>3
  <2> QED BY <1>1, <2>4, PageSizeAssumption
<1>6. blocks \in Seq(Blocks) /\ DOMAIN blocks = 1 .. Len(blocks) /\ Apart(blocks)
      /\ IF blocks = <<>> THEN middle = start ELSE Tiles(blocks, start, middle)
  BY BlocksShape
<1> HIDE DEF start, middle, bytes
<1>7. b \in Blocks /\ b.at = middle /\ BlockEnd(b) = middle + bytes
  BY <1>3, <1>5, AddrSpaceAssumption DEF Blocks, Units, BlockEnd
<1>8. b.free /\ b.size \in Nat /\ b.size + HeaderSize = bytes
  BY <1>3
<1> HIDE DEF b
<1>9. /\ blocks' \in Seq(Blocks) /\ blocks' # <<>> /\ Tiles(blocks', start, BlockEnd(b))
      /\ Apart(blocks') /\ \A j \in 1 .. Len(blocks) : j \in 1 .. Len(blocks') /\ blocks'[j] = blocks[j]
      /\ Len(blocks') \in 1 .. Len(blocks') /\ blocks'[Len(blocks')] = b
  BY <1>0, <1>5, <1>6, <1>7, AddRegion
<1>10. DOMAIN blocks' = 1 .. Len(blocks')
  BY <1>9, LenProperties
<1>11. BlocksTile' /\ BlocksApart'
  <2>1. heapPage' * PageSize = BlockEnd(b)
    BY <1>0, <1>4, <1>7
  <2> QED BY <1>9, <1>10, <2>1 DEF BlocksTile, BlocksApart, Tiles, Apart, start
<1>12. \A j \in DOMAIN blocks : j \in DOMAIN blocks' /\ blocks'[j] = blocks[j]
  BY <1>6, <1>9, <1>10
<1>13. HandedSound'
  <2>1. CASE handed = {} /\ backend'
    BY <1>0, <2>1 DEF HandedSound, HandedFromBlocks
  <2>2. CASE backend' = backend
    <3>1. CASE backend
      BY <1>0, <1>12, <2>2, <3>1 DEF HandedSound, HandedFromBlocks, Promised, RoundsToZero
    <3>2. CASE ~backend
      BY <1>0, <2>2, <3>2 DEF HandedSound, HandedFromBootstrap, GrowDone
    <3> QED BY <3>1, <3>2
  <2>3. call.op = "enable" => handed = {} /\ backend'
    BY DEF GrowDone, CallSound
  <2> QED BY <2>1, <2>2, <2>3 DEF GrowDone
<1>14. \/ Rounded(call.asked) + HeaderSize + PageSize > AddrSpace
       \/ call.op = "kmalloc" => Fitting(call.size)' # {}
  <2> SUFFICES ASSUME ~(Rounded(call.asked) + HeaderSize + PageSize > AddrSpace),
                      call.op = "kmalloc"
               PROVE  Fitting(call.size)' # {}
    OBVIOUS
  <2>1. call.size = Rounded(call.asked)
    BY DEF CallSound
  <2>2. call.size + HeaderSize + PageSize <= AddrSpace
    BY <1>1, <1>3, <2>1, PageSizeAssumption, AddrSpaceAssumption
  <2>3. call.size <= b.size
    BY <1>1, <1>2, <1>3, <1>8, <2>2
  <2>4. call'.size = call.size
    BY DEF GrowDone, TypeOK
  <2> QED BY <1>8, <1>9, <1>10, <2>3, <2>4 DEF Fitting
<1>15. heapPage' \in HeapStart .. HeapEnd
  BY <1>0, <1>1
<1>16. FreeBlocksHold'
  <2> SUFFICES ASSUME NEW j \in DOMAIN blocks', blocks'[j].free PROVE blocks'[j].size > 0
    BY DEF FreeBlocksHold
  <2>1. j \in DOMAIN blocks \/ j = Len(blocks')
    <3>1. Len(blocks') = Len(blocks) + 1 /\ Len(blocks) \in Nat
      BY <1>0, <1>6, AppendProperties, LenProperties, <1>7
    <3> QED BY <1>6, <1>10, <3>1
  <2>2. CASE j \in DOMAIN blocks
    BY <1>12, <2>2 DEF FreeBlocksHold
  <2>3. CASE j = Len(blocks')
    BY <1>3, <1>8, <1>9, <2>3
  <2> QED BY <2>1, <2>2, <2>3
<1> QED BY <1>0, <1>9, <1>11, <1>12, <1>13, <1>14, <1>15, <1>16 DEF ListSound, InUseStay, TypeOK

(* The bootstrap heap hands out what lies behind all it handed out before. *)
LEMMA BootstrapKeepsList ==
  ASSUME TypeOK, CallSound, BlocksTile, BlocksApart, FreeBlocksHold, HandedSound, ~backend,
         NEW asked \in Units, KmallocBootstrap(asked),
         BootstrapFits(boot, Rounded(asked), HeapAlign)
  PROVE  /\ ListSound' /\ boot' \in BootHeap
         /\ answer'.at # 0 /\ answer' \in [at : Units, size : Units]
<1> DEFINE at == AlignUp(boot.current, HeapAlign)
           size == Rounded(asked)
           new == [at |-> at, size |-> asked]
<1>1. /\ at \in Nat /\ size \in Nat /\ size # 0 /\ boot.current <= at
      /\ at + size < AddrSpace /\ at + size <= boot.limit /\ AddrSpace \in Nat
      /\ boot.current \in Nat /\ boot.limit \in Nat /\ boot \in BootHeap
  <2>1. boot.current \in Nat /\ boot.limit \in Nat /\ boot \in BootHeap /\ AddrSpace \in Nat
    BY AddrSpaceAssumption DEF TypeOK, BootHeap, Address
  <2>2. at \in Nat
    BY <2>1, AlignUpIsNat, HeapAlignAssumption
  <2>3. size \in Nat
    BY RoundedIsEnough DEF Units
  <2> QED BY <2>1, <2>2, <2>3 DEF BootstrapFits, BootstrapNext
<1>2. asked <= size /\ asked \in Nat
  BY <1>1, RoundedIsEnough DEF Promised, Units
<1>3. /\ boot' = [boot EXCEPT !.current = at + size]
      /\ answer' = new /\ handed' = handed \cup {new}
      /\ UNCHANGED <<backend, heapPage, blocks>>
  BY DEF KmallocBootstrap, BootstrapNext, Hand, Returns
<1> HIDE DEF at, size
<1>4. boot' \in BootHeap /\ boot'.current = at + size /\ boot'.limit = boot.limit
  BY <1>1, <1>3, AddrSpaceAssumption DEF BootHeap, Address
<1>5. /\ VirtBase + KernelEnd <= boot.current /\ boot.limit <= VirtBase + EarlyLimit
      /\ \A given \in handed :
           /\ VirtBase + KernelEnd <= given.at
           /\ given.at + given.size <= boot.current /\ given.at + given.size <= boot.limit
  BY DEF HandedSound, HandedFromBootstrap
<1>6. VirtBase \in Nat \ {0} /\ KernelEnd \in Nat /\ VirtBase + KernelEnd <= at /\ at # 0
  BY <1>1, <1>5, LayoutAssumption
<1>7. new \in [at : Units, size : Units]
  BY <1>1 DEF Units
<1>8. ASSUME NEW given \in handed'
      PROVE  /\ VirtBase + KernelEnd <= given.at
             /\ given.at + given.size <= boot'.current /\ given.at + given.size <= boot'.limit
  <2>1. CASE given \in handed
    <3>1. given.at \in Nat /\ given.size \in Nat
      BY <2>1 DEF TypeOK, Units
    <3> QED BY <1>1, <1>4, <1>5, <2>1, <3>1
  <2>2. CASE given = new
    BY <1>1, <1>2, <1>4, <1>6, <2>2
  <2> QED BY <1>3, <2>1, <2>2
<1>9. HandedSound'
  <2>1. VirtBase + KernelEnd <= boot'.current
    BY <1>1, <1>4, <1>5, <1>6
  <2> QED BY <1>3, <1>4, <1>5, <1>8, <2>1 DEF HandedSound, HandedFromBootstrap
<1>10. BlocksTile' /\ BlocksApart' /\ FreeBlocksHold' /\ blocks' \in Seq(Blocks)
  BY <1>3 DEF BlocksTile, BlocksApart, FreeBlocksHold, TypeOK, Blocks
<1>11. handed' \subseteq [at : Units, size : Units]
  BY <1>3, <1>7 DEF TypeOK
<1> QED BY <1>3, <1>4, <1>6, <1>7, <1>9, <1>10, <1>11 DEF ListSound

(* No step moves a block that is in use, or hands out what is taken.        *)
LEMMA ListPreserved ==
  ASSUME Inductive, Next
  PROVE  /\ ListSound' /\ InUseStay
         /\ heapPage' \in HeapStart .. HeapEnd /\ boot' \in BootHeap
<1> USE DEF Inductive, heapVars, results
<1>0. /\ heapPage \in HeapStart .. HeapEnd /\ boot \in BootHeap
      /\ \A asked \in Sizes : asked \in Units
  BY HeapAssumption DEF TypeOK, Units
<1>1. ASSUME UNCHANGED <<heapVars, handed>>
      PROVE  ListSound' /\ InUseStay /\ heapPage' = heapPage /\ boot' = boot
  BY <1>1 DEF ListSound, InUseStay, TypeOK, Blocks, BlocksTile, BlocksApart, FreeBlocksHold, HandedSound,
              HandedFromBlocks, HandedFromBootstrap, Promised, RoundsToZero
<1>2. CASE EnableBackend \/ GrowOutOfFrames \/ GrowWithoutTable \/ GrowMapsPage \/ GrowStops
           \/ MapTest \/ TestCopy \/ TestWrites
  <2>1. UNCHANGED <<heapVars, handed>>
    BY <1>2 DEF EnableBackend, GrowOutOfFrames, GrowWithoutTable, GrowMapsPage, GrowStops, GrowFails,
                Refuse, MapTest, MapTestMaps, MapTestStops, MapTestFails, MapStops, Stop, TestCopy,
                TestWrites
  <2> QED BY <1>0, <1>1, <2>1
<1>3. CASE GrowDone
  BY <1>0, <1>3, RegionKeepsList DEF GrowDone
<1>4. CASE KmallocRetries
  <2>1. CASE Fitting(call.size) # {}
    <3>1. /\ call.asked \in Units /\ call.size = Rounded(call.asked) /\ backend
          /\ TakeBlock(call.size, call.asked)
          /\ UNCHANGED <<backend, heapPage, boot>>
      BY <1>0, <1>4, <2>1 DEF KmallocRetries, CallSound, TypeOK
    <3>2. TakeBlock(Rounded(call.asked), call.asked)
      BY <3>1
    <3>3. ListSound' /\ InUseStay
      BY <3>1, <3>2, TakeKeepsList
    <3> QED BY <1>0, <3>1, <3>3
  <2>2. CASE Fitting(call.size) = {}
    <3>1. UNCHANGED <<heapVars, handed>>
      BY <1>4, <2>2 DEF KmallocRetries, Refuse
    <3> QED BY <1>0, <1>1, <3>1
  <2> QED BY <2>1, <2>2
<1>5. ASSUME NEW asked \in Sizes, KmallocNothing(asked) \/ KmallocGrows(asked)
      PROVE  ListSound' /\ InUseStay /\ heapPage' \in HeapStart .. HeapEnd /\ boot' \in BootHeap
  <2>1. UNCHANGED <<heapVars, handed>>
    BY <1>5 DEF KmallocNothing, KmallocGrows, Refuse
  <2> QED BY <1>0, <1>1, <2>1
<1>6. ASSUME NEW asked \in Sizes, KmallocFinds(asked)
      PROVE  ListSound' /\ InUseStay /\ heapPage' \in HeapStart .. HeapEnd /\ boot' \in BootHeap
  <2>1. /\ asked \in Units /\ backend /\ TakeBlock(Rounded(asked), asked)
        /\ UNCHANGED <<backend, heapPage, boot>>
    BY <1>0, <1>6 DEF KmallocFinds
  <2>2. ListSound' /\ InUseStay
    BY <2>1, TakeKeepsList
  <2> QED BY <1>0, <2>1, <2>2
<1>7. ASSUME NEW asked \in Sizes, KmallocBootstrap(asked)
      PROVE  ListSound' /\ InUseStay /\ heapPage' \in HeapStart .. HeapEnd /\ boot' \in BootHeap
  <2>0. asked \in Units /\ ~backend /\ UNCHANGED <<blocks, heapPage, backend>>
    BY <1>0, <1>7 DEF KmallocBootstrap
  <2>1. CASE BootstrapFits(boot, Rounded(asked), HeapAlign)
    <3>1. ListSound' /\ boot' \in BootHeap
      BY <1>7, <2>0, <2>1, BootstrapKeepsList
    <3> QED BY <1>0, <2>0, <3>1 DEF InUseStay
  <2>2. CASE ~BootstrapFits(boot, Rounded(asked), HeapAlign)
    <3>1. UNCHANGED <<heapVars, handed>>
      BY <1>7, <2>0, <2>2 DEF KmallocBootstrap, Refuse
    <3> QED BY <1>0, <1>1, <3>1
  <2> QED BY <2>1, <2>2
<1> QED BY <1>2, <1>3, <1>4, <1>5, <1>6, <1>7 DEF Next, GrowStep, Kmalloc

-----------------------------------------------------------------------------
(* Calls.                                                                   *)

(* The first growth takes MEMORY_HEAP_GROW_PAGES pages.                     *)
LEMMA FirstGrowth ==
  PagesNeeded(1) = GrowPages /\ HeapStart + PagesNeeded(1) <= HeapEnd /\ 1 \in Units
<1> DEFINE bytes == (1 + HeaderSize) % AddrSpace
           sum == (bytes + PageSize - 1) % AddrSpace
           pages == sum \div PageSize
<1>0. /\ HeaderSize \in Nat /\ GrowPages \in Nat /\ PageSize \in Nat \ {0}
      /\ AddrSpace \in Nat \ {0} /\ 1 + HeaderSize + PageSize <= AddrSpace
  <2>1. TestSize \in Nat /\ 1 <= TestSize
    BY HeapAssumption, AddrSpaceAssumption
  <2> QED BY <2>1, HeapAssumption, PageSizeAssumption, AddrSpaceAssumption, HeapAlignAssumption
<1>1. bytes = 1 + HeaderSize
  BY <1>0, ModSmall
<1>2. sum = HeaderSize + PageSize
  <2>1. bytes + PageSize - 1 = HeaderSize + PageSize
    BY <1>0, <1>1
  <2> HIDE DEF bytes
  <2> QED BY <1>0, <2>1, ModSmall
<1>3. pages \in Nat /\ pages * PageSize <= HeaderSize + PageSize
  <2>1. sum \in Nat
    BY <1>0, <1>2
  <2> HIDE DEF sum
  <2> QED BY <1>0, <1>2, <2>1, DivMod
<1>4. PagesNeeded(1) = IF pages < GrowPages THEN GrowPages ELSE pages
  BY DEF PagesNeeded
<1> HIDE DEF bytes, sum, pages
<1>5. pages < GrowPages + 1
  <2>1. (GrowPages + 1) * PageSize = GrowPages * PageSize + PageSize /\ GrowPages * PageSize \in Nat
        /\ pages * PageSize \in Nat
    BY <1>0, <1>3
  <2>2. pages * PageSize < (GrowPages + 1) * PageSize
    BY <1>0, <1>3, <2>1, HeapAssumption
  <2> QED BY <1>0, <1>3, <2>2, ProductReflects
<1>6. 1 \in Units
  BY <1>0 DEF Units
<1> QED BY <1>0, <1>3, <1>4, <1>5, <1>6, HeapAssumption

\* The types of a call's state.
CallTyped ==
  /\ stage \in {"boot", "running"} /\ backend \in BOOLEAN
  /\ call \in [pc : {"idle", "grow", "retry"}, op : {"none", "enable", "kmalloc"},
               asked : Units, size : Units, pages : Nat, done : Nat]
  /\ answer \in [at : Units, size : Units]
  /\ buffers \in [wanted : 0 .. 2, got : Seq(Units)] /\ Len(buffers.got) <= buffers.wanted
  /\ cpu \in {"runs", "halted", "strayed"}

(* kmalloc returns to memcpy or memset, or to the shell.                    *)
LEMMA ReturnsTyped ==
  ASSUME TypeOK, NEW at \in Units, NEW asked \in Units, Returns(at, asked),
         buffers.wanted # 0 => NeedsBuffer
  PROVE  /\ answer' \in [at : Units, size : Units]
         /\ buffers' \in [wanted : 0 .. 2, got : Seq(Units)] /\ Len(buffers'.got) <= buffers'.wanted
         /\ buffers.wanted = 0 => buffers' = buffers
         /\ \A i \in DOMAIN buffers'.got : \/ buffers'.got[i] = at /\ buffers.wanted # 0
                                           \/ i \in DOMAIN buffers.got /\ buffers'.got[i] = buffers.got[i]
<1>1. answer' \in [at : Units, size : Units]
  BY DEF Returns
<1>2. /\ buffers \in [wanted : 0 .. 2, got : Seq(Units)] /\ Len(buffers.got) <= buffers.wanted
      /\ buffers.wanted \in 0 .. 2 /\ buffers.got \in Seq(Units)
  BY DEF TypeOK
<1>3. CASE buffers.wanted = 0
  BY <1>1, <1>2, <1>3 DEF Returns
<1>4. CASE buffers.wanted # 0
  <2> DEFINE old == buffers.got
             got == Append(old, at)
  <2>1. buffers' = [buffers EXCEPT !.got = got] /\ Len(old) < buffers.wanted
    BY <1>4 DEF Returns, NeedsBuffer
  <2>2. /\ got \in Seq(Units) /\ Len(got) = Len(old) + 1 /\ Len(old) \in Nat
        /\ got[Len(old) + 1] = at
        /\ \A i \in 1 .. Len(old) : got[i] = old[i]
    <3>1. old \in Seq(Units)
      BY <1>2
    <3> HIDE DEF old
    <3> QED BY <3>1, AppendProperties, LenProperties
  <2>3. DOMAIN got = 1 .. Len(got) /\ DOMAIN old = 1 .. Len(old)
    <3>1. old \in Seq(Units) /\ got \in Seq(Units)
      BY <1>2, <2>2
    <3> HIDE DEF old, got
    <3> QED BY <3>1, LenProperties
  <2> HIDE DEF got
  <2>4. buffers' \in [wanted : 0 .. 2, got : Seq(Units)] /\ buffers'.got = got
        /\ buffers'.wanted = buffers.wanted
    BY <1>2, <2>1, <2>2
  <2> HIDE DEF old
  <2>5. Len(got) <= buffers.wanted
    BY <1>2, <2>1, <2>2
  <2>6. \A i \in DOMAIN got : got[i] = at \/ (i \in DOMAIN old /\ got[i] = old[i])
    <3> SUFFICES ASSUME NEW i \in 1 .. Len(got) PROVE got[i] = at \/ (i \in 1 .. Len(old) /\ got[i] = old[i])
      BY <2>3
    <3>1. i \in 1 .. Len(old) \/ i = Len(old) + 1
      BY <2>2
    <3> QED BY <2>2, <3>1
  <2> QED BY <1>1, <1>4, <2>4, <2>5, <2>6 DEF old
<1> QED BY <1>3, <1>4

LEMMA CallParts ==
  ASSUME TypeOK, CallSound
  PROVE  /\ CallTyped
         /\ 0 \in Units /\ TestSize \in Units /\ TestSize \in Sizes /\ TestSize # 0
         /\ \A asked \in Sizes : asked \in Units /\ Rounded(asked) \in Units
         /\ Idle \in [pc : {"idle", "grow", "retry"}, op : {"none", "enable", "kmalloc"},
                      asked : Units, size : Units, pages : Nat, done : Nat]
         /\ Idle.pc = "idle" /\ Idle.op = "none"
         /\ call.op \in {"none", "enable", "kmalloc"} /\ call.pc \in {"idle", "grow", "retry"}
         /\ call.done \in Nat /\ call.pages \in Nat
         /\ call.asked \in Units /\ call.size \in Units
<1>1. CallTyped
  BY DEF TypeOK, CallTyped
<1>2. 0 \in Units /\ TestSize \in Units /\ TestSize \in Sizes /\ TestSize # 0
      /\ \A asked \in Sizes : asked \in Units
  BY HeapAssumption, AddrSpaceAssumption DEF Units
<1>3. \A asked \in Sizes : Rounded(asked) \in Units
  BY <1>2, RoundedIsEnough
<1>4. /\ Idle \in [pc : {"idle", "grow", "retry"}, op : {"none", "enable", "kmalloc"},
                   asked : Units, size : Units, pages : Nat, done : Nat]
      /\ Idle.pc = "idle" /\ Idle.op = "none"
  BY <1>2 DEF Idle
<1>5. /\ call.op \in {"none", "enable", "kmalloc"} /\ call.pc \in {"idle", "grow", "retry"}
      /\ call.done \in Nat /\ call.pages \in Nat /\ call.asked \in Units /\ call.size \in Units
  BY <1>1 DEF CallTyped
<1> QED BY <1>1, <1>2, <1>3, <1>4, <1>5

\* What a step must establish of calls.
CallKept == CallTyped' /\ CallSound'

LEMMA EnableKeepsCall ==
  ASSUME Inductive, EnableBackend
  PROVE  CallKept
<1> USE DEF Inductive, heapVars, results
<1>1. /\ stage = "boot" /\ UNCHANGED <<stage, backend, answer, buffers, cpu, blocks, heapPage, handed>>
      /\ call' = [pc |-> "grow", op |-> "enable", asked |-> 0, size |-> 1,
                  pages |-> PagesNeeded(1), done |-> 0]
  BY DEF EnableBackend, CanCall, StartGrow
<1>2. /\ PagesNeeded(1) = GrowPages /\ GrowPages \in Nat /\ HeapStart + PagesNeeded(1) <= HeapEnd
      /\ 1 \in Units
  BY FirstGrowth, HeapAssumption
<1>3. heapPage = HeapStart /\ ~backend /\ handed = {} /\ buffers = NoBuffers /\ blocks = <<>>
  BY <1>1 DEF CallSound
<1>4. CallTyped'
  BY <1>1, <1>2, CallParts DEF CallTyped
<1>5. CallSound'
  BY <1>1, <1>2, <1>3 DEF CallSound
<1> QED BY <1>4, <1>5 DEF CallKept

LEMMA GrowFailsKeepsCall ==
  ASSUME Inductive, call.pc = "grow", GrowFails
  PROVE  CallKept
<1> USE DEF Inductive, heapVars, results
<1>1. call' = Idle /\ UNCHANGED <<backend, blocks, heapPage, cpu>>
  BY DEF GrowFails
<1>2. CASE call.op = "enable"
  <2>1. stage' = "running" /\ UNCHANGED <<answer, buffers, handed>>
    BY <1>2 DEF GrowFails
  <2>2. CallTyped'
    BY <1>1, <2>1, CallParts DEF CallTyped
  <2>3. CallSound'
    BY <1>1, <2>1, CallParts DEF CallSound
  <2> QED BY <2>2, <2>3 DEF CallKept
<1>3. CASE call.op # "enable"
  <2>1. stage' = stage /\ Returns(0, call.asked) /\ handed' = handed
    BY <1>3 DEF GrowFails, Refuse
  <2>2. call.op = "kmalloc" /\ stage = "running" /\ (buffers.wanted # 0 => NeedsBuffer)
        /\ call.asked \in Units /\ 0 \in Units
    BY <1>3, CallParts DEF CallSound
  <2>3. /\ answer' \in [at : Units, size : Units]
        /\ buffers' \in [wanted : 0 .. 2, got : Seq(Units)] /\ Len(buffers'.got) <= buffers'.wanted
    BY <2>1, <2>2, ReturnsTyped
  <2>4. CallTyped'
    BY <1>1, <2>1, <2>3, CallParts DEF CallTyped
  <2>5. CallSound'
    BY <1>1, <2>1, <2>2, CallParts DEF CallSound
  <2> QED BY <2>4, <2>5 DEF CallKept
<1> QED BY <1>2, <1>3

LEMMA GrowMapsKeepsCall ==
  ASSUME Inductive, GrowMapsPage
  PROVE  CallKept
<1> USE DEF Inductive, heapVars, results
<1>1. /\ call.pc = "grow" /\ call.done < call.pages
      /\ call' = [call EXCEPT !.done = @ + 1]
      /\ UNCHANGED <<stage, backend, blocks, heapPage, handed, answer, buffers, cpu>>
  BY DEF GrowMapsPage, Growing
<1>2. call.done \in Nat /\ call.pages \in Nat
  BY CallParts
<1>3. CallTyped'
  BY <1>1, <1>2, CallParts DEF CallTyped
<1>4. /\ call'.pc = call.pc /\ call'.op = call.op /\ call'.asked = call.asked
      /\ call'.size = call.size /\ call'.pages = call.pages /\ call'.done = call.done + 1
  BY <1>1 DEF TypeOK
<1>5. CallSound'
  BY <1>1, <1>2, <1>4 DEF CallSound, NeedsBuffer
<1> QED BY <1>3, <1>5 DEF CallKept

LEMMA GrowDoneKeepsCall ==
  ASSUME Inductive, GrowDone
  PROVE  CallKept
<1> USE DEF Inductive, heapVars, results
<1>1. call.pc = "grow" /\ UNCHANGED <<handed, answer, buffers, cpu>>
  BY DEF GrowDone
<1>4. HeapStart < heapPage'
  <2>1. /\ heapPage' = heapPage + call.pages /\ call.pages = PagesNeeded(call.size)
        /\ call.size \in Nat
    BY CallParts DEF GrowDone, CallSound, Units
  <2>2. GrowPages <= call.pages /\ call.pages \in Nat /\ GrowPages \in Nat \ {0}
    BY <2>1, PagesAreEnough, HeapAssumption
  <2> QED BY <2>1, <2>2, HeapCounts, Layout
<1>2. CASE call.op = "enable"
  <2>1. stage' = "running" /\ backend' = TRUE /\ call' = Idle
    BY <1>2 DEF GrowDone
  <2>2. CallTyped'
    BY <1>1, <2>1, CallParts DEF CallTyped
  <2>3. CallSound'
    BY <1>1, <1>4, <2>1, CallParts DEF CallSound
  <2> QED BY <2>2, <2>3 DEF CallKept
<1>3. CASE call.op # "enable"
  <2>1. call' = [call EXCEPT !.pc = "retry"] /\ UNCHANGED <<stage, backend>>
    BY <1>3 DEF GrowDone
  <2>2. call.op = "kmalloc"
    BY <1>1, <1>3 DEF CallSound
  <2>3. CallTyped'
    BY <1>1, <2>1, CallParts DEF CallTyped
  <2>4. /\ call'.pc = "retry" /\ call'.op = call.op /\ call'.asked = call.asked
        /\ call'.size = call.size
    BY <2>1 DEF TypeOK
  <2>5. CallSound'
    BY <1>1, <1>4, <2>1, <2>2, <2>4 DEF CallSound, NeedsBuffer
  <2> QED BY <2>3, <2>5 DEF CallKept
<1> QED BY <1>2, <1>3

(* kmalloc always answers with an address, and keeps the call in order.     *)
LEMMA AnswersKeepCall ==
  ASSUME TypeOK, CallSound, stage = "running", NEW asked \in Units, answer'.at \in Units,
         Returns(answer'.at, asked), buffers.wanted # 0 => NeedsBuffer,
         ~backend => blocks' = blocks, call' = Idle,
         UNCHANGED <<stage, backend, heapPage, cpu>>
  PROVE  CallKept
<1>1. /\ answer' \in [at : Units, size : Units]
      /\ buffers' \in [wanted : 0 .. 2, got : Seq(Units)] /\ Len(buffers'.got) <= buffers'.wanted
  BY ReturnsTyped
<1>2. CallTyped'
  BY <1>1, CallParts DEF CallTyped
<1>3. CallSound'
  BY CallParts DEF CallSound
<1> QED BY <1>2, <1>3 DEF CallKept

LEMMA KmallocKeepsCall ==
  ASSUME Inductive, NEW asked \in Sizes, Kmalloc(asked)
  PROVE  CallKept
<1> USE DEF Inductive, heapVars, results
<1>1. /\ call.pc = "idle" /\ call = Idle /\ stage = "running" /\ asked \in Units /\ 0 \in Units
      /\ Rounded(asked) \in Units /\ (buffers.wanted # 0 => NeedsBuffer /\ asked = TestSize)
      /\ UNCHANGED <<stage, backend, heapPage, cpu>>
  <2>1. Asks(asked) /\ UNCHANGED <<stage, backend, heapPage, cpu>>
    BY DEF Kmalloc, KmallocNothing, KmallocBootstrap, KmallocFinds, KmallocGrows
  <2> QED BY <2>1, CallParts DEF Asks, BetweenCalls, CallSound
<1>2. CASE KmallocNothing(asked)
  <2>1. Returns(0, asked) /\ answer'.at = 0 /\ UNCHANGED <<blocks, call>>
    BY <1>2 DEF KmallocNothing, Refuse, Returns
  <2> QED BY <1>1, <2>1, AnswersKeepCall
<1>3. CASE KmallocBootstrap(asked)
  <2>1. ~backend /\ UNCHANGED <<blocks, call>>
    BY <1>3 DEF KmallocBootstrap
  <2>2. answer'.at \in Units /\ Returns(answer'.at, asked)
    <3>1. CASE BootstrapFits(boot, Rounded(asked), HeapAlign)
      <4>1. answer' \in [at : Units, size : Units]
        BY <1>1, <1>3, <2>1, <3>1, BootstrapKeepsList
      <4> QED BY <1>3, <3>1, <4>1 DEF KmallocBootstrap, Hand, Returns
    <3>2. CASE ~BootstrapFits(boot, Rounded(asked), HeapAlign)
      BY <1>1, <1>3, <3>2 DEF KmallocBootstrap, Refuse, Returns
    <3> QED BY <3>1, <3>2
  <2> QED BY <1>1, <2>1, <2>2, AnswersKeepCall
<1>4. CASE KmallocFinds(asked)
  <2>1. backend /\ call' = call /\ TakeBlock(Rounded(asked), asked)
    BY <1>4 DEF KmallocFinds
  <2>2. answer' \in [at : Units, size : Units]
    BY <1>1, <2>1, TakeKeepsList
  <2>3. answer'.at \in Units /\ Returns(answer'.at, asked)
    BY <2>1, <2>2 DEF TakeBlock, Hand, Returns
  <2> QED BY <1>1, <2>1, <2>3, AnswersKeepCall
<1>5. CASE KmallocGrows(asked)
  <2>1. backend /\ asked # 0 /\ UNCHANGED <<blocks, boot>>
    BY <1>5 DEF KmallocGrows
  <2>2. CASE HeapHasRoom(Rounded(asked))
    <3>1. /\ call' = [pc |-> "grow", op |-> "kmalloc", asked |-> asked, size |-> Rounded(asked),
                      pages |-> PagesNeeded(Rounded(asked)), done |-> 0]
          /\ UNCHANGED <<answer, handed, buffers>>
      BY <1>5, <2>2 DEF KmallocGrows, StartGrow
    <3>2. /\ PagesNeeded(Rounded(asked)) \in Nat
          /\ heapPage + PagesNeeded(Rounded(asked)) <= HeapEnd
      BY <1>1, <2>2, PagesAreEnough DEF HeapHasRoom, Units
    <3>3. CallTyped'
      BY <1>1, <3>1, <3>2, CallParts DEF CallTyped
    <3>4. CallSound'
      BY <1>1, <2>1, <3>1, <3>2 DEF CallSound, NeedsBuffer
    <3> QED BY <3>3, <3>4 DEF CallKept
  <2>3. CASE ~HeapHasRoom(Rounded(asked))
    <3>1. Returns(0, asked) /\ answer'.at = 0 /\ call' = call
      BY <1>5, <2>3 DEF KmallocGrows, Refuse, Returns
    <3> QED BY <1>1, <2>1, <3>1, AnswersKeepCall
  <2> QED BY <2>2, <2>3
<1> QED BY <1>2, <1>3, <1>4, <1>5 DEF Kmalloc

LEMMA RetriesKeepCall ==
  ASSUME Inductive, KmallocRetries
  PROVE  CallKept
<1> USE DEF Inductive
<1>1. /\ call.pc = "retry" /\ call' = Idle /\ UNCHANGED <<stage, backend, heapPage, cpu>>
      /\ stage = "running" /\ backend /\ call.asked \in Units /\ call.size = Rounded(call.asked)
      /\ (buffers.wanted # 0 => NeedsBuffer) /\ 0 \in Units
  BY CallParts DEF KmallocRetries, CallSound
<1>2. answer'.at \in Units /\ Returns(answer'.at, call.asked)
  <2>1. CASE Fitting(call.size) # {}
    <3>1. TakeBlock(call.size, call.asked)
      BY <2>1 DEF KmallocRetries
    <3>2. TakeBlock(Rounded(call.asked), call.asked)
      BY <1>1, <3>1
    <3>3. answer' \in [at : Units, size : Units]
      BY <1>1, <3>2, TakeKeepsList
    <3> QED BY <3>1, <3>3 DEF TakeBlock, Hand, Returns
  <2>2. CASE Fitting(call.size) = {}
    BY <1>1, <2>2 DEF KmallocRetries, Refuse, Returns
  <2> QED BY <2>1, <2>2
<1> QED BY <1>1, <1>2, AnswersKeepCall

LEMMA CommandsKeepCall ==
  ASSUME Inductive, GrowStops \/ MapTest \/ TestCopy \/ TestWrites
  PROVE  CallKept
<1> USE DEF Inductive, heapVars, results
<1>0. 0 \in Units /\ <<>> \in Seq(Units) /\ Len(<<>>) = 0
  BY CallParts, EmptySeq
<1>1. CASE GrowStops \/ MapTest
  <2>1. /\ UNCHANGED <<stage, backend, heapPage, blocks, call, answer, buffers, handed>>
        /\ cpu' \in {"runs", "halted", "strayed"}
    BY <1>1 DEF GrowStops, MapTest, MapTestMaps, MapTestStops, MapTestFails, MapStops, Stop, TypeOK
  <2>2. CallTyped'
    BY <2>1, CallParts DEF CallTyped
  <2>3. CallSound'
    BY <2>1 DEF CallSound, NeedsBuffer
  <2> QED BY <2>2, <2>3 DEF CallKept
<1>2. CASE TestCopy \/ TestWrites
  <2>1. /\ UNCHANGED <<stage, backend, heapPage, blocks, call, answer, handed>>
        /\ cpu' \in {"runs", "halted", "strayed"} /\ call.pc = "idle" /\ call = Idle
        /\ \E wanted \in 0 .. 2 : buffers' = [wanted |-> wanted, got |-> <<>>]
    BY <1>2 DEF TestCopy, TestWrites, CanCall, BetweenCalls, CallSound, TypeOK, NoBuffers
  <2>2. CallTyped'
    BY <1>0, <2>1, CallParts DEF CallTyped
  <2>3. stage = "running"
    <3>1. stage = "boot" => buffers.wanted = 0
      BY DEF CallSound, NoBuffers
    <3>2. stage \in {"boot", "running"} /\ ~(0 > 0)
      BY DEF TypeOK
    <3> QED BY <1>2, <3>1, <3>2 DEF TestCopy, TestWrites
  <2>4. CallSound'
    BY <2>1, <2>3, CallParts DEF CallSound
  <2> QED BY <2>2, <2>4 DEF CallKept
<1> QED BY <1>1, <1>2

(* Calls stay in order, and a growth leaves the block that was asked for.   *)
LEMMA CallsPreserved ==
  ASSUME Inductive, Next
  PROVE  CallTyped' /\ CallSound' /\ RetryFinds'
<1> USE DEF Inductive
<1>1. CallKept
  <2>1. CASE EnableBackend
    BY <2>1, EnableKeepsCall
  <2>2. CASE GrowOutOfFrames \/ GrowWithoutTable
    BY <2>2, GrowFailsKeepsCall DEF GrowOutOfFrames, GrowWithoutTable, Growing
  <2>3. CASE GrowMapsPage
    BY <2>3, GrowMapsKeepsCall
  <2>4. CASE GrowDone
    BY <2>4, GrowDoneKeepsCall
  <2>5. CASE KmallocRetries
    BY <2>5, RetriesKeepCall
  <2>6. CASE GrowStops \/ MapTest \/ TestCopy \/ TestWrites
    BY <2>6, CommandsKeepCall
  <2>7. CASE \E asked \in Sizes : Kmalloc(asked)
    BY <2>7, KmallocKeepsCall
  <2> QED BY <2>1, <2>2, <2>3, <2>4, <2>5, <2>6, <2>7 DEF Next, GrowStep
<1>2. RetryFinds'
  <2>1. CASE GrowDone
    <3>1. call' = Idle \/ (call' = [call EXCEPT !.pc = "retry"] /\ call.op # "enable")
      BY <2>1 DEF GrowDone
    <3>2. CASE call' = Idle
      BY <3>2, CallParts DEF RetryFinds
    <3>3. CASE call' = [call EXCEPT !.pc = "retry"] /\ call.op # "enable"
      <4>1. call.op = "kmalloc" /\ call'.asked = call.asked /\ call'.size = call.size
        BY <2>1, <3>3 DEF GrowDone, CallSound, TypeOK
      <4>2. \/ Rounded(call.asked) + HeaderSize + PageSize > AddrSpace
            \/ Fitting(call.size)' # {}
        BY <2>1, <4>1, RegionKeepsList
      <4>3. Rounded(call.asked)' = Rounded(call.asked)
        BY <4>1 DEF Rounded
      <4> QED BY <4>2, <4>3 DEF RetryFinds
    <3> QED BY <3>1, <3>2, <3>3
  <2>2. CASE ~GrowDone
    <3>1. call'.pc # "retry" \/ UNCHANGED <<call, blocks>>
      BY <2>2, CallParts DEF Next, GrowStep, EnableBackend, StartGrow, GrowOutOfFrames, GrowWithoutTable,
            GrowFails, GrowMapsPage, GrowStops, KmallocRetries, MapTest, MapTestMaps,
            MapTestStops, MapTestFails, MapStops, Stop, TestCopy, TestWrites, Kmalloc, KmallocNothing,
            KmallocBootstrap, KmallocFinds, KmallocGrows, Asks, CanCall, CanTest, BetweenCalls, Growing,
            heapVars, results, CallTyped
    <3>2. CASE call'.pc # "retry"
      BY <3>2 DEF RetryFinds
    <3>3. CASE UNCHANGED <<call, blocks>>
      BY <3>3 DEF RetryFinds, Fitting, Rounded
    <3> QED BY <3>1, <3>2, <3>3
  <2> QED BY <2>1, <2>2
<1> QED BY <1>1, <1>2 DEF CallKept

-----------------------------------------------------------------------------
(* What cannot be had.                                                      *)

LEMMA FewFrames ==
  ASSUME NEW S, NEW x, S \subseteq {x}
  PROVE  Cardinality(S) <= 1
<1>1. IsFiniteSet({x}) /\ Cardinality({x}) = 1
  BY FS_Singleton
<1>2. Cardinality(S) <= Cardinality({x})
  BY <1>1, FS_Subset
<1> QED BY <1>1, <1>2

(* Frames are only taken, and the heap only grows.                         *)
LEMMA ExhaustedStays ==
  ASSUME Exhausted, free' \subseteq free, heapPage \in Nat, heapPage' \in Nat, heapPage <= heapPage'
  PROVE  Exhausted'
<1>1. CASE Cardinality(free \cap Slots) <= 1
  <2> DEFINE S == free \cap Slots
             T == free' \cap Slots
  <2>1. IsFiniteSet(S)
    <3>1. IsFiniteSet(Slots)
      BY FS_Interval, TableAssumption DEF Slots
    <3> QED BY <3>1, FS_Subset
  <2>2. T \in SUBSET S
    OBVIOUS
  <2> HIDE DEF S, T
  <2>3. IsFiniteSet(T) /\ Cardinality(T) <= Cardinality(S)
    BY <2>1, <2>2, FS_Subset
  <2>4. Cardinality(S) \in Nat /\ Cardinality(T) \in Nat
    BY <2>1, <2>3, FS_CardinalityType
  <2>5. Cardinality(T) <= 1
    BY <1>1, <2>3, <2>4 DEF S
  <2> QED BY <2>5 DEF Exhausted, T
<1>2. CASE heapPage + PagesNeeded(Rounded(TestSize)) > HeapEnd
  <2> DEFINE n == PagesNeeded(Rounded(TestSize))
  <2>1. n \in Nat
    <3>1. TestSize \in Units
      BY HeapAssumption DEF Units
    <3>2. Rounded(TestSize) \in Nat
      BY <3>1, RoundedIsEnough DEF Units
    <3> QED BY <3>2, PagesAreEnough
  <2>2. n' = n
    BY DEF PagesNeeded, Rounded
  <2> HIDE DEF n
  <2>3. heapPage' + n > HeapEnd
    BY <1>2, <2>1, Layout DEF n
  <2> QED BY <2>2, <2>3 DEF Exhausted, n
<1> QED BY <1>1, <1>2 DEF Exhausted

(* A frame behind a mapped page is lower than any free one, so a whole      *)
(* table of heap pages leaves no frame in the direct map free.              *)
LEMMA MappedPagesTakeLowFrames ==
  ASSUME Inductive, HeapStart + TableEntries <= MappedEnd, NEW frame \in free
  PROVE  TableEntries <= frame
<1> USE DEF Inductive
<1> SUFFICES ASSUME frame < TableEntries PROVE FALSE
  <2>1. frame \in Nat /\ TableEntries \in Nat
    BY PagingParts, TableAssumption
  <2> QED BY <2>1
<1>0. /\ frame \in Nat /\ TableEntries \in Nat \ {0} /\ HeapStart \in Nat /\ MappedEnd \in Nat
      /\ MappedEnd <= HeapEnd /\ HeapEnd \in Nat
  BY PagingParts, TableAssumption, Layout, HeapCounts
<1> DEFINE S == 0 .. (TableEntries - 1)
           T == 0 .. (frame - 1)
           f == [x \in S |-> Mapping(HeapStart + x)]
<1>1. ASSUME NEW x \in S
      PROVE  HeapStart + x \in MappedPages /\ Mapping(HeapStart + x) \in T
  <2> DEFINE page == HeapStart + x
  <2>1. page \in HeapStart .. (MappedEnd - 1) /\ page \in HeapStart .. (HeapEnd - 1)
        /\ page \in Nat /\ page <= HeapEnd
    BY <1>0
  <2> HIDE DEF page
  <2>2. page \in ClientPages /\ Mapping(page) # NoFrame
    BY <2>1 DEF ClientPages, PagesMapped
  <2>3. page \in MappedPages
    BY <2>2, ClientPage DEF MappedPages
  <2>4. Mapping(page) \in Nat /\ Mapping(page) < frame
    BY <2>3, PagingParts, Layout DEF PagesOwned
  <2>5. Mapping(page) \in T
    BY <1>0, <2>4
  <2> QED BY <2>3, <2>5 DEF page
<1>2. f \in [S -> T]
  BY <1>1
<1>3. IsFiniteSet(S) /\ IsFiniteSet(T) /\ Cardinality(T) < Cardinality(S)
  <2>1. 0 \in Int /\ TableEntries - 1 \in Int /\ frame - 1 \in Int
    BY <1>0
  <2>2. /\ IsFiniteSet(S) /\ Cardinality(S) = IF 0 > TableEntries - 1 THEN 0 ELSE TableEntries - 1 - 0 + 1
        /\ IsFiniteSet(T) /\ Cardinality(T) = IF 0 > frame - 1 THEN 0 ELSE frame - 1 - 0 + 1
    BY <2>1, FS_Interval
  <2> HIDE DEF S, T
  <2> QED BY <1>0, <2>2
<1> HIDE DEF T
<1>4. PICK x \in S, y \in S : x # y /\ f[x] = f[y]
  <2> HIDE DEF S, f
  <2> QED BY <1>2, <1>3, FS_PigeonHole
<1>5. Mapping(HeapStart + x) = Mapping(HeapStart + y)
  BY <1>4
<1>6. HeapStart + x = HeapStart + y
  BY <1>1, <1>5 DEF PagesOwned
<1> QED BY <1>0, <1>4, <1>6

(* A table that cannot be reached is the lowest frame that is left, and     *)
(* lies behind the direct map.                                             *)
LEMMA StopsInWant ==
  ASSUME Inductive, NEW page \in ClientPages, free # {}, MapStops(page, free \ {Min(free)}),
         UNCHANGED memory, page = TestPage \/ (Growing /\ page = NextPage)
  PROVE  /\ Exhausted'
         /\ cpu' = "strayed" =>
              \E frame \in memory'.free : PhysToVirtPage(frame) \in HeapStart .. (HeapEnd - 1)
<1> USE DEF Inductive
<1> DEFINE pool == free \ {Min(free)}
           table == Min(pool)
<1>1. DirOf(page) \in Dirs
  BY ClientPage
<1>2. pd[DirOf(page)] = NoFrame
  <2> SUFFICES ASSUME pd[DirOf(page)] # NoFrame PROVE FALSE
    OBVIOUS
  <2>1. pd[DirOf(page)] \in Slots
    BY <1>1 DEF PagingSound, Tables
  <2>2. Access(pd, pt, pd[DirOf(page)]) = "arrives"
    BY <2>1, DirectMapArrives DEF PagingSound
  <2> QED BY <2>2 DEF MapStops
<1>3. /\ pool # {} /\ Access(pd, pt, table) # "arrives" /\ free' = pool \ {table}
      /\ cpu' = IF Access(pd, pt, table) = "faults" THEN "halted" ELSE "strayed"
      /\ UNCHANGED heapPage
  BY <1>2 DEF MapStops, Stop, heapVars
<1>4. pool \subseteq Nat /\ table \in pool /\ \A f \in pool : table <= f
  <2>1. pool \in SUBSET Nat
    BY PagingParts
  <2> HIDE DEF pool
  <2> QED BY <1>3, <2>1, MinIsLeast
<1>5. Min(free) \in free /\ Min(free) <= table /\ Min(free) \in Nat /\ table \in Nat
      /\ table \in Frames /\ table \in memory.free /\ table # Min(free)
  BY <1>4, LeastFree, PagingParts
<1> HIDE DEF table
<1>6. table \notin Slots
  BY <1>3, DirectMapArrives DEF PagingSound
<1>7. pool \cap Slots = {}
  BY <1>4, <1>5, <1>6, TableAssumption DEF Slots
<1>8. Exhausted'
  <2>1. Cardinality(free' \cap Slots) <= 1
    <3>1. free' \cap Slots \subseteq {table}
      BY <1>3, <1>7
    <3> QED BY <3>1, FewFrames
  <2> QED BY <2>1 DEF Exhausted
<1>9. ASSUME cpu' = "strayed"
      PROVE  PhysToVirtPage(table) \in HeapStart .. (HeapEnd - 1)
  <2> DEFINE hit == PhysToVirtPage(table)
  <2>1. Access(pd, pt, table) = "strays"
    BY <1>3, <1>9 DEF Access
  <2>2. hit \in Page /\ Mapping(hit) # NoFrame
    BY <2>1 DEF Access, Mapping
  <2>3. DirOf(hit) # KernelDir
    BY <1>5, <1>6, <2>2, BehindDirectMapPage
  <2>4. hit \in MappedPages
    BY <2>2, <2>3 DEF MappedPages
  <2>5. hit \in ClientPages
    BY <2>4 DEF PagesOwned
  <2>6. hit # TestPage
    <3> SUFFICES ASSUME hit = TestPage PROVE FALSE
      OBVIOUS
    <3>1. table = TableEntries
      <4>1. KernelDir * TableEntries + table = (KernelDir + 1) * TableEntries
        BY HeapAssumption DEF PhysToVirtPage
      <4>2. KernelDir * TableEntries \in Nat /\ TableEntries \in Nat
            /\ (KernelDir + 1) * TableEntries = KernelDir * TableEntries + TableEntries
        BY TableAssumption
      <4> QED BY <1>5, <4>1, <4>2
    <3>2. page # TestPage /\ Growing /\ page = NextPage /\ page = MappedEnd
      <4>1. page # TestPage
        BY <1>2, <2>2 DEF Mapping, Walk
      <4> QED BY <4>1, HeapCounts
    <3>3. stage # "boot"
      BY <2>4 DEF PagesOwned
    <3>4. HeapStart < heapPage
      BY <3>2, <3>3 DEF Growing, CallSound
    <3>5. /\ page \in Nat /\ HeapStart \in Nat /\ HeapStart < page /\ TableEntries \in Nat \ {0}
          /\ heapPage \in Nat /\ heapPage <= MappedEnd /\ MappedEnd \in Nat
          /\ MappedEnd <= HeapEnd /\ HeapEnd \in Nat
      BY <3>2, <3>4, HeapCounts, Layout, TableAssumption
    <3>6. HeapStart + TableEntries <= page
      <4> SUFFICES ASSUME page < HeapStart + TableEntries PROVE FALSE
        BY <3>5
      <4> DEFINE d == DirOf(HeapStart)
                 r == page - HeapStart
      <4>1. HeapStart \in ClientPages /\ Mapping(HeapStart) # NoFrame
        BY <3>2, <3>5 DEF ClientPages, PagesMapped
      <4>2. d \in Nat /\ HeapStart = d * TableEntries
        BY <4>1, ClientPage, HeapAssumption DEF Dirs
      <4>3. r \in Nat /\ r < TableEntries /\ page = HeapStart + r
        BY <3>5
      <4> HIDE DEF d, r
      <4>4. DirOf(page) = d
        BY <3>5, <4>2, <4>3, QuotientAndRest DEF DirOf
      <4> QED BY <1>2, <4>1, <4>4 DEF Mapping, Walk, d
    <3>7. TableEntries <= Min(free)
      BY <1>5, <3>2, <3>6, MappedPagesTakeLowFrames
    <3> QED BY <1>5, <3>1, <3>5, <3>7
  <2> QED BY <2>5, <2>6 DEF ClientPages
<1> QED BY <1>5, <1>8, <1>9

LEMMA PoolShrinks ==
  ASSUME Inductive, Next
  PROVE  free' \subseteq free /\ heapPage \in Nat /\ heapPage' \in Nat /\ heapPage <= heapPage'
<1> USE DEF Inductive, heapVars
<1>0. heapPage \in Nat
  BY HeapCounts
<1>1. CASE GrowMapsPage
  <2>1. Maps(NextPage, Min(free), free \ {Min(free)}) /\ heapPage' = heapPage
    BY <1>1 DEF GrowMapsPage
  <2> QED BY <1>0, <2>1 DEF Maps, MapsInTable, MapsInNewTable
<1>2. CASE MapTestMaps
  <2>1. Maps(TestPage, Min(free), free \ {Min(free)}) /\ heapPage' = heapPage
    BY <1>2 DEF MapTestMaps
  <2> QED BY <1>0, <2>1 DEF Maps, MapsInTable, MapsInNewTable
<1>3. CASE ~GrowMapsPage /\ ~MapTestMaps
  BY <1>0, <1>3, QuietSteps DEF Quiet
<1> QED BY <1>1, <1>2, <1>3

(* What is exhausted stays so.                                             *)
LEMMA ExhaustedForGood ==
  ASSUME Inductive, Next, Exhausted
  PROVE  Exhausted'
BY PoolShrinks, ExhaustedStays

\* A frame is at most the last one, or has no table to go with it.
LEMMA NoFrameLeft ==
  ASSUME NEW page, free # {} => NoTableFor(page, free \ {Min(free)}), free' = free
  PROVE  Exhausted' /\ Cardinality(free) <= 1
<1>1. free \subseteq {Min(free)} /\ free \cap Slots \subseteq {Min(free)}
  BY DEF NoTableFor
<1>2. Cardinality(free) <= 1 /\ Cardinality(free \cap Slots) <= 1
  BY <1>1, FewFrames
<1> QED BY <1>2 DEF Exhausted

LEMMA AnswersKeepWant ==
  ASSUME Inductive, Next, cpu' = "runs", NEW asked \in Units, answer'.at \in Units,
         Returns(answer'.at, asked), buffers.wanted # 0 => NeedsBuffer,
         answer'.at = 0 /\ buffers.wanted # 0 => Exhausted,
         UNCHANGED <<stage, backend>>
  PROVE  WantSound'
<1> USE DEF Inductive
<1>1. Exhausted => Exhausted'
  BY ExhaustedForGood
<1>2. ASSUME NEW i \in DOMAIN buffers'.got, buffers'.got[i] = 0
      PROVE  Exhausted
  <2>1. \/ buffers'.got[i] = answer'.at /\ buffers.wanted # 0
        \/ i \in DOMAIN buffers.got /\ buffers'.got[i] = buffers.got[i]
    BY ReturnsTyped
  <2> QED BY <1>2, <2>1 DEF WantSound
<1>3. stage' = "running" /\ ~backend' => Exhausted
  BY DEF WantSound
<1>4. StopsOnlyWhenExhausted'
  BY DEF StopsOnlyWhenExhausted
<1> QED BY <1>1, <1>2, <1>3, <1>4 DEF WantSound

(* A request for a buffer of memcpy or memset is refused for want.          *)
LEMMA KmallocKeepsWant ==
  ASSUME Inductive, Next, NEW asked \in Sizes, Kmalloc(asked)
  PROVE  WantSound'
<1> USE DEF Inductive, heapVars, results
<1>1. /\ call.pc = "idle" /\ call = Idle /\ stage = "running" /\ asked \in Units /\ 0 \in Units
      /\ TestSize # 0 /\ (buffers.wanted # 0 => NeedsBuffer /\ asked = TestSize)
      /\ UNCHANGED <<stage, backend, heapPage>> /\ cpu' = "runs"
  <2>1. Asks(asked) /\ UNCHANGED <<stage, backend, heapPage, cpu>>
    BY DEF Kmalloc, KmallocNothing, KmallocBootstrap, KmallocFinds, KmallocGrows
  <2> QED BY <2>1, CallParts DEF Asks, BetweenCalls, CallSound
<1>2. CASE KmallocNothing(asked)
  <2>1. Returns(0, asked) /\ answer'.at = 0 /\ asked = 0
    BY <1>2 DEF KmallocNothing, Refuse, Returns
  <2> QED BY <1>1, <2>1, AnswersKeepWant
<1>3. CASE KmallocBootstrap(asked)
  <2>1. ~backend /\ Exhausted
    BY <1>1, <1>3 DEF KmallocBootstrap, WantSound
  <2>2. answer'.at \in Units /\ Returns(answer'.at, asked)
    <3>1. CASE BootstrapFits(boot, Rounded(asked), HeapAlign)
      <4>1. answer' \in [at : Units, size : Units]
        BY <1>1, <1>3, <2>1, <3>1, BootstrapKeepsList
      <4> QED BY <1>3, <3>1, <4>1 DEF KmallocBootstrap, Hand, Returns
    <3>2. CASE ~BootstrapFits(boot, Rounded(asked), HeapAlign)
      BY <1>1, <1>3, <3>2 DEF KmallocBootstrap, Refuse, Returns
    <3> QED BY <3>1, <3>2
  <2> QED BY <1>1, <2>1, <2>2, AnswersKeepWant
<1>4. CASE KmallocFinds(asked)
  <2>1. backend /\ call' = call /\ TakeBlock(Rounded(asked), asked)
    BY <1>4 DEF KmallocFinds
  <2>2. answer' \in [at : Units, size : Units] /\ answer'.at # 0
    BY <1>1, <2>1, TakeKeepsList
  <2>3. answer'.at \in Units /\ Returns(answer'.at, asked)
    BY <2>1, <2>2 DEF TakeBlock, Hand, Returns
  <2> QED BY <1>1, <2>2, <2>3, AnswersKeepWant
<1>5. CASE KmallocGrows(asked)
  <2>1. CASE HeapHasRoom(Rounded(asked))
    <3>1. UNCHANGED <<answer, handed, buffers>>
      BY <1>5, <2>1 DEF KmallocGrows
    <3>2. Exhausted => Exhausted'
      BY ExhaustedForGood
    <3> QED BY <1>1, <3>1, <3>2 DEF WantSound, StopsOnlyWhenExhausted
  <2>2. CASE ~HeapHasRoom(Rounded(asked))
    <3>1. Returns(0, asked) /\ answer'.at = 0
      BY <1>5, <2>2 DEF KmallocGrows, Refuse, Returns
    <3>2. asked = TestSize => Exhausted
      <4> SUFFICES ASSUME asked = TestSize PROVE Exhausted
        OBVIOUS
      <4>1. PagesNeeded(Rounded(TestSize)) \in Nat
        BY <1>1, CallParts, PagesAreEnough DEF Units
      <4> QED BY <2>2, <4>1, HeapCounts, Layout DEF HeapHasRoom, Exhausted
    <3> QED BY <1>1, <3>1, <3>2, AnswersKeepWant
  <2> QED BY <2>1, <2>2
<1> QED BY <1>2, <1>3, <1>4, <1>5 DEF Kmalloc

LEMMA RetriesKeepWant ==
  ASSUME Inductive, Next, KmallocRetries
  PROVE  WantSound'
<1> USE DEF Inductive
<1>1. /\ call.pc = "retry" /\ UNCHANGED <<stage, backend, heapPage>> /\ cpu' = "runs"
      /\ backend /\ call.asked \in Units /\ call.size = Rounded(call.asked)
      /\ (buffers.wanted # 0 => NeedsBuffer /\ call.asked = TestSize) /\ 0 \in Units
  BY CallParts DEF KmallocRetries, CallSound
<1>2. CASE Fitting(call.size) # {}
  <2>1. TakeBlock(call.size, call.asked)
    BY <1>2 DEF KmallocRetries
  <2>2. TakeBlock(Rounded(call.asked), call.asked)
    BY <1>1, <2>1
  <2>3. answer' \in [at : Units, size : Units] /\ answer'.at # 0
    BY <1>1, <2>2, TakeKeepsList DEF KmallocRetries
  <2>4. answer'.at \in Units /\ Returns(answer'.at, call.asked)
    BY <2>1, <2>3 DEF TakeBlock, Hand, Returns
  <2> QED BY <1>1, <2>3, <2>4, AnswersKeepWant
<1>3. CASE Fitting(call.size) = {}
  <2>1. Returns(0, call.asked) /\ answer'.at = 0
    BY <1>3 DEF KmallocRetries, Refuse, Returns
  <2>2. Rounded(call.asked) + HeaderSize + PageSize > AddrSpace
    BY <1>1, <1>3 DEF RetryFinds
  <2>3. call.asked # TestSize
    <3> SUFFICES ASSUME call.asked = TestSize PROVE FALSE
      OBVIOUS
    <3>1. /\ TestSize \in Nat /\ HeapAlign \in Nat \ {0} /\ HeaderSize \in Nat /\ PageSize \in Nat \ {0}
          /\ AddrSpace \in Nat /\ TestSize + HeapAlign + HeaderSize + PageSize <= AddrSpace
      BY HeapAssumption, HeapAlignAssumption, PageSizeAssumption, AddrSpaceAssumption
    <3>2. Rounded(TestSize) \in Nat /\ Rounded(TestSize) < TestSize + HeapAlign
      <4>1. TestSize + HeapAlign <= AddrSpace
        BY <3>1
      <4> QED BY <3>1, <4>1, AlignUpIsAbove, AlignUpIsNat DEF Rounded
    <3>3. Rounded(TestSize) + HeaderSize + PageSize > AddrSpace
      BY <2>2
    <3> QED BY <3>1, <3>2, <3>3
  <2> QED BY <1>1, <2>1, <2>3, AnswersKeepWant
<1> QED BY <1>2, <1>3

(* The kernel stops, and memory cannot be had, only when it is used up.     *)
LEMMA WantPreserved ==
  ASSUME Inductive, Next
  PROVE  WantSound'
<1> USE DEF Inductive, heapVars, results
<1>0. Exhausted => Exhausted'
  BY ExhaustedForGood
<1>1. CASE GrowOutOfFrames \/ GrowWithoutTable
  <2>1. cpu' = "runs" /\ free' = free /\ (free # {} => NoTableFor(NextPage, free \ {Min(free)}))
    BY <1>1 DEF GrowOutOfFrames, GrowWithoutTable, Growing, GrowFails
  <2>2. Exhausted'
    BY <2>1, NoFrameLeft
  <2> QED BY <2>1, <2>2 DEF WantSound, StopsOnlyWhenExhausted
<1>2. CASE GrowStops
  <2>1. /\ free # {} /\ MapStops(NextPage, free \ {Min(free)}) /\ UNCHANGED memory
        /\ NextPage \in ClientPages /\ Growing
    BY <1>2, HeapCounts DEF GrowStops
  <2>2. /\ Exhausted'
        /\ cpu' = "strayed" =>
             \E frame \in memory'.free : PhysToVirtPage(frame) \in HeapStart .. (HeapEnd - 1)
    BY <2>1, StopsInWant
  <2> QED BY <2>2 DEF WantSound, StopsOnlyWhenExhausted
<1>3. CASE MapTestStops
  <2>1. /\ free # {} /\ MapStops(TestPage, free \ {Min(free)}) /\ UNCHANGED memory
        /\ TestPage \in ClientPages
    BY <1>3 DEF MapTestStops, ClientPages
  <2>2. /\ Exhausted'
        /\ cpu' = "strayed" =>
             \E frame \in memory'.free : PhysToVirtPage(frame) \in HeapStart .. (HeapEnd - 1)
    BY <2>1, StopsInWant
  <2> QED BY <2>2 DEF WantSound, StopsOnlyWhenExhausted
<1>4. CASE MapTestFails
  <2>1. /\ free' = free /\ (free # {} => NoTableFor(TestPage, free \ {Min(free)}))
        /\ cpu' # "strayed"
    BY <1>4 DEF MapTestFails
  <2>2. Exhausted'
    BY <2>1, NoFrameLeft
  <2> QED BY <2>1, <2>2 DEF WantSound, StopsOnlyWhenExhausted
<1>5. CASE TestWrites \/ TestCopy
  <2>1. /\ cpu' # "runs" => \E i \in DOMAIN buffers.got : buffers.got[i] = 0
        /\ cpu' # "strayed" /\ UNCHANGED <<stage, backend>>
        /\ buffers'.got = <<>>
    BY <1>5 DEF TestWrites, TestCopy, NoBuffers, CanCall, BetweenCalls
  <2>2. DOMAIN buffers'.got = {}
    BY <2>1
  <2> QED BY <1>0, <2>1, <2>2 DEF WantSound, StopsOnlyWhenExhausted
<1>6. CASE EnableBackend \/ GrowMapsPage \/ MapTestMaps \/ GrowDone
  <2>1. /\ cpu' = "runs" /\ UNCHANGED buffers
        /\ UNCHANGED <<stage, backend>> \/ backend'
    BY <1>6 DEF EnableBackend, GrowMapsPage, MapTestMaps, GrowDone, CanCall, CanTest, BetweenCalls,
                Growing
  <2> QED BY <1>0, <2>1 DEF WantSound, StopsOnlyWhenExhausted
<1>7. CASE KmallocRetries
  BY <1>7, RetriesKeepWant
<1>8. CASE \E asked \in Sizes : Kmalloc(asked)
  BY <1>8, KmallocKeepsWant
<1> QED BY <1>1, <1>2, <1>3, <1>4, <1>5, <1>6, <1>7, <1>8 DEF Next, GrowStep, MapTest

-----------------------------------------------------------------------------
(* The invariant.                                                          *)

LEMMA InitInductive ==
  ASSUME Init
  PROVE  Inductive
<1> USE DEF Init, heapVars, results
<1>1. /\ memory \in Memories /\ memory.free \subseteq Frames \ {BootTable} /\ boot \in BootHeap
      /\ VirtBase + KernelEnd <= boot.current /\ boot.limit <= VirtBase + EarlyLimit
  BY MemoriesAssumption
<1>2. /\ \A d \in Dirs : pd[d] = IF d = KernelDir THEN BootTable ELSE NoFrame
      /\ pd \in [Dirs -> Entry] /\ pd[0] = NoFrame /\ pd[KernelDir] = BootTable
  BY Layout DEF BootDirectory, Entry
<1>3. Tables(pd) = {BootTable} /\ DOMAIN pt = {BootTable}
      /\ pt[BootTable] = [s \in Slots |-> s] /\ pt[BootTable] \in [Slots -> Entry]
  BY <1>2, Layout DEF Tables, BootTables, Entry
<1>4. \A page \in Page : DirOf(page) # KernelDir => Mapping(page) = NoFrame
  <2> SUFFICES ASSUME NEW page \in Page, DirOf(page) # KernelDir PROVE Mapping(page) = NoFrame
    OBVIOUS
  <2>1. DirOf(page) \in Dirs
    BY PageParts
  <2>2. pd[DirOf(page)] = NoFrame
    BY <1>2, <2>1
  <2> QED BY <2>2 DEF Mapping, Walk
<1> HIDE DEF Init
<1>5. /\ stage = "boot" /\ free = memory.free /\ backend = FALSE /\ heapPage = HeapStart
      /\ blocks = <<>> /\ call = Idle /\ answer = NoAnswer /\ buffers = NoBuffers
      /\ handed = {} /\ dropped = {} /\ cpu = "runs"
  BY DEF Init
<1>6. TypeOK
  <2>1. 0 \in Units /\ HeapStart \in HeapStart .. HeapEnd
    BY Layout, AddrSpaceAssumption DEF Units
  <2>2. call \in [pc : {"idle", "grow", "retry"}, op : {"none", "enable", "kmalloc"},
                  asked : Units, size : Units, pages : Nat, done : Nat]
    BY <1>5, <2>1 DEF Idle
  <2>3. /\ answer \in [at : Units, size : Units]
        /\ buffers \in [wanted : 0 .. 2, got : Seq(Units)] /\ Len(buffers.got) <= buffers.wanted
    BY <1>5, <2>1 DEF NoAnswer, NoBuffers
  <2>4. \A t \in DOMAIN pt : pt[t] \in [Slots -> Entry]
    BY <1>3
  <2>5. blocks \in Seq([at : Units, size : Units, free : BOOLEAN])
    BY <1>5
  <2> QED BY <1>1, <1>2, <1>3, <1>5, <2>1, <2>2, <2>3, <2>4, <2>5 DEF TypeOK
<1>7. PagingSound
  BY <1>1, <1>2, <1>3, <1>5, Layout DEF PagingSound
<1>8. MappedPages = {}
  BY <1>4 DEF MappedPages
<1>9. PagesOwned
  BY <1>5, <1>8 DEF PagesOwned
<1>10. PagesMapped /\ CallSound
  <2>1. MappedEnd = HeapStart /\ HeapStart \in Nat
    BY <1>5, Layout DEF MappedEnd, Idle
  <2> QED BY <1>5, <2>1 DEF PagesMapped, CallSound, Idle
<1>11. BlocksTile /\ BlocksApart /\ FreeBlocksHold
  BY <1>5 DEF BlocksTile, BlocksApart, FreeBlocksHold
<1>12. HandedSound
  BY <1>1, <1>5 DEF HandedSound, HandedFromBootstrap
<1>13. FramesAccounted
  <2>1. MappedFrames = {}
    BY <1>4, ClientPage DEF MappedFrames
  <2> QED BY <1>1, <1>3, <1>5, <2>1, Layout DEF FramesAccounted, ReservedFrames
<1>14. RetryFinds /\ WantSound
  BY <1>5 DEF RetryFinds, WantSound, StopsOnlyWhenExhausted, Idle, NoBuffers
<1> QED BY <1>6, <1>7, <1>9, <1>10, <1>11, <1>12, <1>13, <1>14 DEF Inductive

LEMMA NextInductive ==
  ASSUME Inductive, Next
  PROVE  Inductive'
<1>1. PagingTyped' /\ PagingSound' /\ PagesOwned' /\ FramesAccounted' /\ PagesMapped'
  BY PagingPreserved
<1>2. ListSound' /\ heapPage' \in HeapStart .. HeapEnd /\ boot' \in BootHeap
  BY ListPreserved
<1>3. CallTyped' /\ CallSound' /\ RetryFinds'
  BY CallsPreserved
<1>4. WantSound'
  BY WantPreserved
<1>5. TypeOK'
  BY <1>1, <1>2, <1>3 DEF TypeOK, PagingTyped, ListSound, CallTyped, Blocks
<1> QED BY <1>1, <1>2, <1>3, <1>4, <1>5 DEF Inductive, ListSound

LEMMA StutterInductive ==
  ASSUME Inductive, UNCHANGED vars
  PROVE  Inductive'
<1> USE DEF Inductive, vars, heapVars, results
<1>1. TypeOK'
  BY DEF TypeOK
<1>2. PagingSound' /\ PagesOwned' /\ PagesMapped'
  BY DEF PagingSound, PagesOwned, MappedPages, Mapping, ClientPages, PagesMapped, MappedEnd
<1>3. CallSound' /\ RetryFinds'
  BY DEF CallSound, NeedsBuffer, RetryFinds, Fitting
<1>4. BlocksTile' /\ BlocksApart' /\ FreeBlocksHold' /\ HandedSound'
  BY DEF BlocksTile, BlocksApart, FreeBlocksHold, HandedSound, HandedFromBlocks, HandedFromBootstrap
<1>5. FramesAccounted'
  BY DEF FramesAccounted, ReservedFrames, MappedFrames, Mapping
<1>6. WantSound'
  BY DEF WantSound, StopsOnlyWhenExhausted, Exhausted
<1> QED BY <1>1, <1>2, <1>3, <1>4, <1>5, <1>6

-----------------------------------------------------------------------------
(* The theorems.                                                           *)

\* The inductive invariant of the kernel heap: memory.c, and paging.c and pmm.c as memory.c
\* and maptest use them, keep it whatever is allocated and whichever growth fails where.
THEOREM HeapInvariant == Spec => []Inductive
<1>1. Init => Inductive
  BY InitInductive
<1>2. Inductive /\ [Next]_vars => Inductive'
  BY NextInductive, StutterInductive
<1> QED BY <1>1, <1>2, PTL DEF Spec

\* The state of the heap and of what lies below it keeps its types.
THEOREM TypesCorrect == Spec => []TypeOK
<1>1. Inductive => TypeOK
  BY DEF Inductive
<1> QED BY <1>1, HeapInvariant, PTL

\* Every page of the committed heap has a frame of its own, whichever growths failed
\* half-way before (heap_grow, memory.c:198-214).
THEOREM HeapIsBacked == Spec => []HeapBacked
<1>1. Inductive => HeapBacked
  <2> SUFFICES ASSUME Inductive PROVE HeapBacked
    OBVIOUS
  <2> USE DEF Inductive
  <2>1. /\ HeapStart \in Nat /\ heapPage \in Nat /\ heapPage <= HeapEnd /\ MappedEnd \in Nat
        /\ heapPage <= MappedEnd /\ HeapEnd \in Nat
    BY HeapCounts, Layout
  <2>2. ASSUME NEW page \in HeapPages
        PROVE  page \in MappedPages /\ page # TestPage
    <3>1. page \in HeapStart .. (MappedEnd - 1) /\ page \in HeapStart .. (HeapEnd - 1)
      BY <2>1 DEF HeapPages
    <3>2. page \in ClientPages /\ page # TestPage
      BY <3>1, HeapAssumption, Layout DEF ClientPages
    <3> QED BY <3>1, <3>2, ClientPage DEF PagesMapped, MappedPages
  <2>3. TestPage \in Page /\ DirOf(TestPage) # KernelDir
    BY HeapAssumption
  <2>4. \A page \in HeapPages : Mapping(page) # Mapping(TestPage)
    BY <2>2, <2>3 DEF PagesOwned, MappedPages
  <2> QED BY <2>2, <2>4 DEF HeapBacked, PagesOwned
<1> QED BY <1>1, HeapInvariant, PTL

\* The list of blocks tiles the committed heap, and what is handed out is a block in use
\* that is large enough (heap_add_region, heap_split_block, memory.c:114-171).
THEOREM HeapIsTiled == Spec => [](BlocksTile /\ BigEnough)
<1>1. Inductive => BlocksTile /\ BigEnough
  <2> SUFFICES ASSUME Inductive, NEW given \in handed, backend, ~RoundsToZero(given.size)
               PROVE  \E i \in DOMAIN blocks :
                        /\ ~blocks[i].free /\ blocks[i].at + HeaderSize = given.at
                        /\ blocks[i].size >= given.size
    BY DEF BigEnough, Inductive
  <2>1. PICK i \in DOMAIN blocks : /\ ~blocks[i].free /\ blocks[i].at + HeaderSize = given.at
                                   /\ given.size <= blocks[i].size
    BY DEF Inductive, HandedSound, HandedFromBlocks, Promised
  <2>2. given.size \in Nat /\ blocks[i].size \in Nat
    <3>1. given \in [at : Units, size : Units]
      BY DEF Inductive, TypeOK
    <3>2. blocks[i].size \in Units
      BY BlockAddress DEF Inductive
    <3> QED BY <3>1, <3>2 DEF Units
  <2> QED BY <2>1, <2>2
<1> QED BY <1>1, HeapInvariant, PTL

\* A walk over the list that adds up the blocks in use, or the free ones.
Counts(sum, isFree) ==
  /\ sum \in [0 .. Len(blocks) -> Nat] /\ sum[0] = 0
  /\ \A n \in 1 .. Len(blocks) : sum[n] = sum[n - 1] + Counted(blocks[n], isFree)

LEMMA BytesCounted ==
  ASSUME NEW isFree, Len(blocks) \in Nat, \A i \in 1 .. Len(blocks) : blocks[i].size \in Nat
  PROVE  \E sum : Counts(sum, isFree) /\ Bytes(isFree) = sum[Len(blocks)]
<1> DEFINE size == Len(blocks)
           part == [n \in 1 .. size |-> Counted(blocks[n], isFree)]
           step == [n \in 1 .. size |-> [s \in Nat |-> s + part[n]]]
           Loop(f) == f = [n \in 0 .. size |-> IF n = 0 THEN 0 ELSE f[n - 1] + Counted(blocks[n], isFree)]
<1>1. size \in Nat /\ \A n \in 1 .. size : part[n] \in Nat /\ part[n] = Counted(blocks[n], isFree)
  BY DEF Counted
<1> HIDE DEF size, part
<1>2. step \in [1 .. size -> [Nat -> Nat]]
  BY <1>1
<1>3. PICK g : LoopHistory(Nat, 0, size, step, g)
  <2> HIDE DEF step, Loop
  <2> QED BY <1>1, <1>2, LoopRuns
<1>4. /\ \A n \in 1 .. size : n - 1 \in 0 .. size /\ n \in 0 .. size /\ n # 0
      /\ \A n \in 0 .. size : n # 0 => n \in 1 .. size
      /\ 0 \in 0 .. size /\ size \in 0 .. size
  BY <1>1
<1>5. g \in [0 .. size -> Nat] /\ g[0] = 0 /\ \A n \in 1 .. size : g[n] = step[n][g[n - 1]]
  BY <1>3 DEF LoopHistory
<1>6. \A n \in 1 .. size : g[n] = g[n - 1] + Counted(blocks[n], isFree)
  BY <1>1, <1>4, <1>5
<1>7. Loop(g)
  <2> HIDE DEF step
  <2> QED BY <1>4, <1>5, <1>6
<1> DEFINE f == CHOOSE h : Loop(h)
<1>8. Loop(f)
  <2> HIDE DEF Loop
  <2> QED BY <1>7
<1>9. Bytes(isFree) = f[size]
  BY DEF Bytes, size
<1> HIDE DEF f, step
<1>10. f[0] = 0 /\ \A n \in 1 .. size : f[n] = f[n - 1] + Counted(blocks[n], isFree)
  BY <1>4, <1>8
<1>11. DOMAIN f = 0 .. size
  BY <1>8
<1>12. \A n \in Nat : n \in {m \in Nat : m <= size => f[m] \in Nat}
  <2> DEFINE S == {m \in Nat : m <= size => f[m] \in Nat}
  <2> HIDE DEF Loop
  <2>1. 0 \in S
    BY <1>10
  <2>2. ASSUME NEW n \in Nat, n \in S PROVE n + 1 \in S
    <3> SUFFICES ASSUME n + 1 <= size PROVE f[n + 1] \in Nat
      OBVIOUS
    <3>1. n <= size /\ n + 1 \in 1 .. size /\ (n + 1) - 1 = n
      BY <1>1
    <3>2. f[n] \in Nat /\ f[n + 1] = f[n] + Counted(blocks[n + 1], isFree)
      BY <1>10, <2>2, <3>1
    <3>3. Counted(blocks[n + 1], isFree) \in Nat
      BY <1>1, <3>1
    <3> QED BY <3>2, <3>3
  <2> HIDE DEF S
  <2>3. \A n \in Nat : n \in S
    BY <2>1, <2>2, Induction
  <2> QED BY <2>3 DEF S
<1>13. f \in [0 .. size -> Nat]
  <2>1. \A n \in 0 .. size : n \in Nat /\ n <= size
    BY <1>1
  <2>2. \A n \in 0 .. size : f[n] \in Nat
    BY <1>12, <2>1
  <2>3. f = [n \in 0 .. size |-> f[n]]
    BY <1>8
  <2> HIDE DEF Loop
  <2> QED BY <2>2, <2>3
<1> QED BY <1>9, <1>10, <1>13 DEF Counts, size

\* The bytes in use, the free ones and the headers make up the committed heap: the sums
\* telescope over the tiles of the list.
LEMMA BytesAddUp ==
  ASSUME Inductive
  PROVE  Bytes(TRUE) + Bytes(FALSE) + HeaderSize * Len(blocks) = HeapCommitted
<1>0. TypeOK /\ CallSound /\ BlocksTile /\ BlocksApart /\ heapPage \in Nat
  BY HeapCounts DEF Inductive
<1> DEFINE size == Len(blocks)
           start == HeapStart * PageSize
           end == heapPage * PageSize
<1>1. /\ size \in Nat /\ DOMAIN blocks = 1 .. size /\ end \in Units /\ start \in Nat
      /\ \A i \in 1 .. size : blocks[i] \in Blocks
      /\ HeaderSize \in Nat
  BY <1>0, BlocksShape, HeapAssumption
<1>2. \A i \in 1 .. size : /\ blocks[i].at \in Nat /\ blocks[i].size \in Nat
                           /\ Counted(blocks[i], TRUE) \in Nat /\ Counted(blocks[i], FALSE) \in Nat
                           /\ Counted(blocks[i], TRUE) + Counted(blocks[i], FALSE) = blocks[i].size
  <2> SUFFICES ASSUME NEW i \in 1 .. size
               PROVE  /\ blocks[i].at \in Nat /\ blocks[i].size \in Nat
                      /\ Counted(blocks[i], TRUE) \in Nat /\ Counted(blocks[i], FALSE) \in Nat
                      /\ Counted(blocks[i], TRUE) + Counted(blocks[i], FALSE) = blocks[i].size
    OBVIOUS
  <2>1. blocks[i].free \in BOOLEAN
    BY <1>1 DEF Blocks
  <2> DEFINE n == blocks[i].size
             in == Counted(blocks[i], FALSE)
             out == Counted(blocks[i], TRUE)
  <2>4. blocks[i].at \in Nat /\ n \in Nat
    BY <1>1 DEF Blocks, Units
  <2>2. CASE blocks[i].free
    <3>1. blocks[i].free = TRUE /\ blocks[i].free # FALSE
      BY <2>1, <2>2
    <3>2. out = n /\ in = 0
      BY <3>1 DEF Counted
    <3> HIDE DEF n, in, out
    <3>3. in \in Nat /\ out \in Nat /\ out + in = n
      BY <2>4, <3>2
    <3> QED BY <2>4, <3>3 DEF n, in, out
  <2>3. CASE ~blocks[i].free
    <3>1. blocks[i].free # TRUE /\ blocks[i].free = FALSE
      BY <2>1, <2>3
    <3>2. out = 0 /\ in = n
      BY <3>1 DEF Counted
    <3> HIDE DEF n, in, out
    <3>3. in \in Nat /\ out \in Nat /\ out + in = n
      BY <2>4, <3>2
    <3> QED BY <2>4, <3>3 DEF n, in, out
  <2> QED BY <2>2, <2>3
<1>3. PICK used : Counts(used, FALSE) /\ Bytes(FALSE) = used[size]
  BY <1>1, <1>2, BytesCounted
<1>4. PICK unused : Counts(unused, TRUE) /\ Bytes(TRUE) = unused[size]
  BY <1>1, <1>2, BytesCounted
<1> HIDE DEF size, start, end
<1>5. /\ used \in [0 .. size -> Nat] /\ used[0] = 0 /\ unused \in [0 .. size -> Nat] /\ unused[0] = 0
      /\ \A n \in 1 .. size : used[n] = used[n - 1] + Counted(blocks[n], FALSE)
      /\ \A n \in 1 .. size : unused[n] = unused[n - 1] + Counted(blocks[n], TRUE)
  BY <1>3, <1>4 DEF Counts, size
<1>6. CASE size = 0
  <2>1. heapPage = HeapStart
    BY <1>0, <1>1, <1>6, EmptySeq, BlocksShape DEF BlocksTile, size
  <2>2. HeapCommitted = 0
    BY <2>1, Layout, PageSizeAssumption DEF HeapCommitted
  <2>3. HeaderSize * size = 0
    BY <1>1, <1>6
  <2> QED BY <1>3, <1>4, <1>5, <1>6, <2>2, <2>3 DEF size
<1>7. CASE size # 0
  <2>1. /\ blocks[1].at = start /\ BlockEnd(blocks[size]) = end
        /\ \A i \in 1 .. (size - 1) : BlockEnd(blocks[i]) = blocks[i + 1].at
    <3>1. blocks # <<>>
      BY <1>7 DEF size
    <3> QED BY <1>0, <3>1 DEF BlocksTile, size, start, end
  <2> DEFINE Holds(n) == start + used[n] + unused[n] + HeaderSize * n = BlockEnd(blocks[n])
             S == {n \in Nat : n + 1 <= size => Holds(n + 1)}
  <2>2. \A n \in 1 .. size : BlockEnd(blocks[n]) = blocks[n].at + HeaderSize + blocks[n].size
    BY DEF BlockEnd
  <2>3. 0 \in S
    <3>1. 1 \in 1 .. size /\ 0 \in 0 .. size /\ 1 - 1 = 0
      BY <1>1, <1>7
    <3>2. used[1] = 0 + Counted(blocks[1], FALSE) /\ unused[1] = 0 + Counted(blocks[1], TRUE)
      BY <1>5, <3>1
    <3>3. HeaderSize * 1 = HeaderSize
      BY <1>1
    <3>4. start + used[1] + unused[1] + HeaderSize * 1 = BlockEnd(blocks[1])
      <4> DEFINE in == Counted(blocks[1], FALSE)
                 out == Counted(blocks[1], TRUE)
                 b == blocks[1]
      <4>1. /\ b.at = start /\ b.size \in Nat /\ in \in Nat /\ out \in Nat /\ out + in = b.size
            /\ BlockEnd(b) = b.at + HeaderSize + b.size
        BY <1>2, <2>1, <2>2, <3>1
      <4> HIDE DEF in, out, b
      <4>2. start + (0 + in) + (0 + out) + HeaderSize = BlockEnd(b)
        BY <1>1, <4>1
      <4> QED BY <3>2, <3>3, <4>2 DEF in, out, b
    <3> QED BY <3>4
  <2>4. ASSUME NEW n \in Nat, n \in S PROVE n + 1 \in S
    <3> DEFINE m == n + 1
    <3> SUFFICES ASSUME m + 1 <= size PROVE Holds(m + 1)
      OBVIOUS
    <3>1. /\ m \in Nat /\ m \in 1 .. size /\ m \in 1 .. (size - 1) /\ m + 1 \in 1 .. size
          /\ (m + 1) - 1 = m /\ m \in 0 .. size /\ n + 1 <= size
      BY <1>1
    <3>2. Holds(m)
      BY <2>4, <3>1
    <3> HIDE DEF m, S
    <3>3. /\ used[m + 1] = used[m] + Counted(blocks[m + 1], FALSE)
          /\ unused[m + 1] = unused[m] + Counted(blocks[m + 1], TRUE)
          /\ used[m] \in Nat /\ unused[m] \in Nat
      BY <1>5, <3>1
    <3>4. BlockEnd(blocks[m]) = blocks[m + 1].at
      BY <2>1, <3>1
    <3>5. HeaderSize * (m + 1) = HeaderSize * m + HeaderSize /\ HeaderSize * m \in Nat
      BY <1>1, <3>1
    <3> DEFINE headers == HeaderSize * m
               in == Counted(blocks[m + 1], FALSE)
               out == Counted(blocks[m + 1], TRUE)
               b == blocks[m + 1]
    <3>6. /\ b.at \in Nat /\ b.size \in Nat /\ in \in Nat /\ out \in Nat /\ out + in = b.size
          /\ headers \in Nat /\ start \in Nat /\ HeaderSize \in Nat
          /\ BlockEnd(b) = b.at + HeaderSize + b.size
      BY <1>1, <1>2, <2>2, <3>1, <3>5
    <3>7. start + used[m] + unused[m] + headers = b.at
      BY <3>2, <3>4
    <3> HIDE DEF headers, in, out, b
    <3>8. start + (used[m] + in) + (unused[m] + out) + (headers + HeaderSize) = BlockEnd(b)
      BY <3>3, <3>6, <3>7
    <3> QED BY <3>3, <3>5, <3>8 DEF headers, in, out, b
  <2> HIDE DEF S
  <2>5. \A n \in Nat : n \in S
    BY <2>3, <2>4, Induction
  <2>6. size - 1 \in Nat /\ (size - 1) + 1 = size /\ size \in 0 .. size
    BY <1>1, <1>7
  <2>7. Holds(size)
    BY <2>5, <2>6 DEF S
  <2>8. start + HeapCommitted = end
    BY <1>0, Layout, PageSizeAssumption DEF HeapCommitted, start, end
  <2>9. HeaderSize * size \in Nat /\ used[size] \in Nat /\ unused[size] \in Nat /\ HeapCommitted \in Int
    BY <1>0, <1>1, <1>5, <2>6, Layout, PageSizeAssumption DEF HeapCommitted
  <2> DEFINE headers == HeaderSize * size
  <2>10. start + used[size] + unused[size] + headers = start + HeapCommitted
    BY <2>1, <2>7, <2>8
  <2> HIDE DEF headers, Holds
  <2>11. unused[size] + used[size] + headers = HeapCommitted
    BY <1>1, <2>9, <2>10 DEF headers
  <2> QED BY <1>3, <1>4, <2>11 DEF size, headers
<1> QED BY <1>6, <1>7

\* The list of blocks tiles the committed heap, what is handed out is a block in use that
\* is large enough, and the heap command's numbers add up
\* (memory.c:114-171, 262-290, 363-407).
THEOREM HeapIsSound == Spec => []BlocksSound
<1>1. Inductive => Bytes(TRUE) + Bytes(FALSE) + HeaderSize * Len(blocks) = HeapCommitted
  BY BytesAddUp
<1> QED BY <1>1, HeapInvariant, HeapIsTiled, PTL DEF BlocksSound

\* No frame is lost: a frame taken for a page that could not be mapped goes back
\* (memory.c:205-208, paging.c:138-141).
THEOREM NoFrameIsLost == Spec => []FramesAccounted
<1>1. Inductive => FramesAccounted
  BY DEF Inductive
<1> QED BY <1>1, HeapInvariant, PTL

\* The kernel stops in paging_map_page, or writes through null in memcpy and memset, only
\* when low frames or heap addresses are used up, and never overwrites memory unless
\* PHYS_TO_VIRT of a frame leads into the heap (paging.c:44-52, 89; shell_commands.c:576-598).
THEOREM StopsForWant == Spec => []StopsOnlyWhenExhausted
<1>1. Inductive => StopsOnlyWhenExhausted
  BY DEF Inductive, WantSound
<1> QED BY <1>1, HeapInvariant, PTL

\* A block in use is never moved, resized or taken back (memory.c:151-171, 286-287).
THEOREM BlocksStay == Spec => BlocksInUseStay
<1>1. Inductive /\ [Next]_vars => [InUseStay]_vars
  BY ListPreserved
<1> QED BY <1>1, HeapInvariant, PTL DEF BlocksInUseStay, Spec, InUseStay

\* A step answers null to a request, and what may be the reason.
Refusal(asked) ==
  backend /\ answer' # answer /\ answer' = [at |-> 0, size |-> asked] /\ asked # 0
Want(asked) ==
  \/ Cardinality(free) <= 1
  \/ heapPage + PagesNeeded(Rounded(asked)) > HeapEnd
  \/ Rounded(asked) + HeaderSize + PageSize > AddrSpace

LEMMA RefusalForWant ==
  ASSUME Inductive, Next, NEW asked \in Sizes, Refusal(asked)
  PROVE  Want(asked)
<1> USE DEF Inductive, heapVars, results
<1>0. backend /\ answer' # answer /\ answer' = [at |-> 0, size |-> asked] /\ asked # 0
  BY DEF Refusal
<1>1. CASE GrowOutOfFrames \/ GrowWithoutTable
  <2>1. free' = free /\ (free # {} => NoTableFor(NextPage, free \ {Min(free)}))
    BY <1>1 DEF GrowOutOfFrames, GrowWithoutTable
  <2> QED BY <2>1, NoFrameLeft DEF Want
<1>2. CASE KmallocRetries
  <2>1. call.asked \in Units /\ call.size = Rounded(call.asked) /\ backend /\ call.pc = "retry"
        /\ UNCHANGED <<backend, heapPage>>
    BY <1>2, CallParts DEF KmallocRetries, CallSound
  <2>2. CASE Fitting(call.size) # {}
    <3>1. TakeBlock(Rounded(call.asked), call.asked)
      BY <1>2, <2>1, <2>2 DEF KmallocRetries
    <3>2. answer'.at # 0
      BY <2>1, <3>1, TakeKeepsList
    <3> QED BY <1>0, <3>2
  <2>3. CASE Fitting(call.size) = {}
    <3>1. answer' = [at |-> 0, size |-> call.asked]
      BY <1>2, <2>3 DEF KmallocRetries, Refuse, Returns
    <3>2. asked = call.asked
      BY <1>0, <3>1
    <3> QED BY <2>1, <2>3, <3>2 DEF RetryFinds, Want
  <2> QED BY <2>2, <2>3
<1>3. ASSUME NEW other \in Sizes, Kmalloc(other) PROVE Want(asked)
  <2>0. other \in Units
    BY CallParts
  <2>1. CASE KmallocNothing(other) \/ KmallocBootstrap(other)
    BY <1>0, <2>1 DEF KmallocNothing, KmallocBootstrap, Refuse, Returns
  <2>2. CASE KmallocFinds(other)
    <3>1. backend /\ TakeBlock(Rounded(other), other) /\ UNCHANGED <<backend, heapPage>>
      BY <2>2 DEF KmallocFinds
    <3>2. answer'.at # 0
      BY <2>0, <3>1, TakeKeepsList
    <3> QED BY <1>0, <3>2
  <2>3. CASE KmallocGrows(other)
    <3>1. answer' = answer \/ (~HeapHasRoom(Rounded(other)) /\ answer' = [at |-> 0, size |-> other])
      BY <2>3 DEF KmallocGrows, Refuse, Returns
    <3>2. ~HeapHasRoom(Rounded(asked))
      BY <1>0, <3>1
    <3>3. PagesNeeded(Rounded(asked)) \in Nat
      BY CallParts, PagesAreEnough DEF Units
    <3> QED BY <3>2, <3>3, HeapCounts, Layout DEF HeapHasRoom, Want
  <2> QED BY <1>3, <2>1, <2>2, <2>3 DEF Kmalloc
<1>4. CASE EnableBackend \/ GrowMapsPage \/ GrowStops \/ GrowDone \/ MapTest \/ TestCopy \/ TestWrites
  <2>1. answer' = answer
    BY <1>4 DEF EnableBackend, GrowMapsPage, GrowStops, GrowDone, MapTest, MapTestMaps, MapTestStops,
                MapTestFails, MapStops, Stop, TestCopy, TestWrites
  <2> QED BY <1>0, <2>1
<1> QED BY <1>0, <1>1, <1>2, <1>3, <1>4 DEF Next, GrowStep

\* kmalloc returns null only when frames or heap addresses are used up, or the size wraps
\* (memory.c:185-209, 275-284).
THEOREM RefusedForWant == Spec => RefusedOnlyWhenExhausted
<1>1. Inductive /\ [Next]_vars => [\A asked \in Sizes : Refusal(asked) => Want(asked)]_vars
  BY RefusalForWant
<1> QED BY <1>1, HeapInvariant, PTL DEF RefusedOnlyWhenExhausted, Spec, Refusal, Want

-----------------------------------------------------------------------------
(* The heap implements HeapSpec.                                           *)

Bar(given) == [given EXCEPT !.size = Promised(@)]

LEMMA Promise ==
  ASSUME NEW asked \in Units
  PROVE  /\ Promised(asked) \in Nat /\ Promised(asked) <= asked
         /\ asked \in Sizes => Promised(asked) \in Sizes \cup {0}
BY DEF Promised, Units

(* A block that lies among the addresses of the heap, and in no block       *)
(* handed out before, is granted.                                          *)
LEMMA HandIsGrant ==
  ASSUME TypeOK, NEW at \in Units, at # 0, NEW asked \in Sizes, Hand(at, asked),
         VirtBase + KernelEnd <= at, at < HeapEnd * PageSize,
         at + Promised(asked) <= HeapEnd * PageSize,
         \A given \in handed : \/ at + Promised(asked) <= given.at
                               \/ given.at + Promised(given.size) <= at
  PROVE  Heap!Next
<1> DEFINE size == Promised(asked)
           block == [at |-> at, size |-> size]
           Addresses == PhysToVirt(KernelEnd) .. (HeapEnd * PageSize - 1)
           given0 == [at |-> at, size |-> asked]
<1>1. asked \in Units /\ size \in Nat /\ size \in Sizes \cup {0} /\ at \in Nat
      /\ HeapEnd * PageSize \in Nat
  BY Promise, HeapAssumption, Layout, PageSizeAssumption DEF Units
<1>2. PhysToVirt(KernelEnd) \in Nat /\ PhysToVirt(KernelEnd) <= at
  <2>1. KernelEnd \in Nat /\ KernelEnd <= EarlyLimit /\ VirtBase \in Nat
    BY LayoutAssumption, HeapAlignAssumption
  <2>2. PhysToVirt(KernelEnd) = KernelEnd + VirtBase
    BY <2>1, PhysToVirtEarly
  <2> QED BY <2>1, <2>2, <1>1
<1>3. at \in Addresses \ {0} /\ at .. (at + size - 1) \subseteq Addresses
  <2> DEFINE last == HeapEnd * PageSize
             first == PhysToVirt(KernelEnd)
  <2> HIDE DEF last, first, size
  <2>1. first \in Nat /\ first <= at /\ last \in Nat /\ at < last /\ at + size <= last /\ size \in Nat
    BY <1>1, <1>2 DEF last, first, size
  <2>2. at \in first .. (last - 1) /\ at .. (at + size - 1) \subseteq first .. (last - 1)
    BY <1>1, <2>1
  <2> QED BY <2>2 DEF last, first
<1>4. handed' = handed \cup {given0} /\ answer' = given0
  BY DEF Hand, Returns
<1>5. Bar(given0) = block
  BY DEF Bar
<1>6. {Bar(given) : given \in handed'} = {Bar(given) : given \in handed} \cup {block}
  BY <1>4, <1>5
<1>7. Bar(answer') = block
  BY <1>4, <1>5
<1>8. ASSUME NEW given \in handed PROVE Heap!Apart(block, Bar(given))
  <2>1. given \in [at : Units, size : Units]
    BY DEF TypeOK
  <2>2. Bar(given).at = given.at /\ Bar(given).size = Promised(given.size)
    BY <2>1 DEF Bar
  <2> QED BY <2>2 DEF Heap!Apart
<1>9. Heap!Grant(size)
  BY <1>3, <1>6, <1>7, <1>8 DEF Heap!Grant, Bar
<1> QED BY <1>1, <1>9 DEF Heap!Next

LEMMA RefuseIsRefuse ==
  ASSUME NEW asked \in Sizes, Refuse(asked)
  PROVE  Heap!Next
<1>1. answer' = [at |-> 0, size |-> asked] /\ handed' = handed
  BY DEF Refuse, Returns
<1>2. Promised(asked) \in Sizes \cup {0}
  BY Promise, HeapAssumption DEF Units
<1>3. [answer' EXCEPT !.size = Promised(@)] = [at |-> 0, size |-> Promised(asked)]
  BY <1>1
<1>4. Heap!Refuse(Promised(asked))
  BY <1>1, <1>3 DEF Heap!Refuse
<1> QED BY <1>2, <1>4 DEF Heap!Next

(* A block of the list that is taken is granted.                           *)
LEMMA TakeIsGrant ==
  ASSUME Inductive, backend, NEW asked \in Sizes, TakeBlock(Rounded(asked), asked)
  PROVE  Heap!Next
<1> USE DEF Inductive
<1> DEFINE size == Rounded(asked)
<1>1. asked \in Units
  BY HeapAssumption DEF Units
<1>2. /\ size \in Nat /\ size <= AlignUp(size, HeapAlign) /\ AlignUp(size, HeapAlign) \in Nat
      /\ Promised(asked) \in Nat /\ Promised(asked) <= size
  BY <1>1, RoundedIsEnough DEF Units
<1> HIDE DEF size
<1>3. PICK i \in DOMAIN blocks : Takes(i, size, asked)
  BY <1>2, TakeEffect DEF size
<1> DEFINE b == blocks[i]
           at == b.at + HeaderSize
           end == HeapEnd * PageSize
<1>4. Hand(at, asked) /\ b.free /\ size <= b.size /\ b.size > 0
  BY <1>3 DEF Takes, FreeBlocksHold
<1>5. /\ b.at \in Nat /\ b.size \in Nat /\ HeaderSize \in Nat /\ at \in Units /\ at # 0
      /\ HeapStart * PageSize <= b.at /\ BlockEnd(b) = at + b.size
      /\ BlockEnd(b) <= heapPage * PageSize
  BY BlockAddress, HeapAssumption DEF Units
<1>6. /\ heapPage * PageSize <= end /\ end \in Nat /\ heapPage * PageSize \in Nat
      /\ HeapStart * PageSize \in Nat
  BY BlocksShape, Layout, PageSizeAssumption, HeapCounts
<1>7. VirtBase + KernelEnd <= HeapStart * PageSize /\ VirtBase + KernelEnd \in Nat
  BY <1>6, HeapAssumption, LayoutAssumption, HeapAlignAssumption
<1> HIDE DEF b, end
<1>8. /\ VirtBase + KernelEnd <= at /\ at < end /\ at + Promised(asked) <= end
      /\ at + Promised(asked) <= BlockEnd(b) /\ BlockEnd(b) \in Nat
  BY <1>2, <1>4, <1>5, <1>6, <1>7
<1>9. ASSUME NEW given \in handed
      PROVE  at + Promised(asked) <= given.at \/ given.at + Promised(given.size) <= at
  <2>1. PICK j \in DOMAIN blocks : /\ ~blocks[j].free /\ blocks[j].at + HeaderSize = given.at
                                   /\ Promised(given.size) <= blocks[j].size
    BY DEF HandedSound, HandedFromBlocks
  <2>2. /\ blocks[j].at \in Nat /\ blocks[j].size \in Nat
        /\ BlockEnd(blocks[j]) = given.at + blocks[j].size /\ BlockEnd(blocks[j]) \in Nat
    BY <1>5, <2>1, BlockAddress DEF Units
  <2>3. Promised(given.size) \in Nat
    <3>1. given \in [at : Units, size : Units]
      BY DEF TypeOK
    <3> QED BY <3>1, Promise
  <2>4. i # j /\ i \in Nat /\ j \in Nat
    BY <1>4, <2>1, BlocksShape DEF b
  <2>5. BlockEnd(b) <= blocks[j].at \/ BlockEnd(blocks[j]) <= b.at
    BY <2>4 DEF BlocksApart, b
  <2>6. given.at \in Nat
    BY <1>5, <2>1, <2>2
  <2> QED BY <1>2, <1>5, <1>8, <2>1, <2>2, <2>3, <2>5, <2>6
<1> QED BY <1>4, <1>5, <1>8, <1>9, HandIsGrant DEF end

(* So is memory of the bootstrap heap.                                     *)
LEMMA BootstrapIsGrant ==
  ASSUME Inductive, ~backend, NEW asked \in Sizes, NEW at, at = BootstrapNext(boot, HeapAlign),
         BootstrapFits(boot, Rounded(asked), HeapAlign), Hand(at, asked)
  PROVE  Heap!Next
<1> USE DEF Inductive
<1> DEFINE size == Rounded(asked)
           end == HeapEnd * PageSize
<1>1. asked \in Units
  BY HeapAssumption DEF Units
<1>2. /\ size \in Nat /\ Promised(asked) \in Nat /\ Promised(asked) <= size
  BY <1>1, RoundedIsEnough DEF Units
<1>3. boot.current \in Nat /\ boot.limit \in Nat /\ AddrSpace \in Nat
  BY AddrSpaceAssumption DEF TypeOK, BootHeap, Address
<1>4. /\ size # 0 /\ boot.current <= at /\ at + size < AddrSpace /\ at + size <= boot.limit
  BY DEF BootstrapFits
<1>5. at \in Nat
  BY <1>3, AlignUpIsNat, HeapAlignAssumption DEF BootstrapNext
<1>6. /\ VirtBase + KernelEnd <= boot.current /\ boot.limit <= VirtBase + EarlyLimit
      /\ \A given \in handed : given.at + given.size <= boot.current
  BY DEF HandedSound, HandedFromBootstrap
<1>7. VirtBase + EarlyLimit <= end /\ end \in Nat /\ VirtBase \in Nat \ {0} /\ KernelEnd \in Nat
      /\ EarlyLimit \in Nat
  <2>1. HeapStart * PageSize <= end /\ HeapStart * PageSize \in Nat /\ end \in Nat
    BY Layout, PageAddresses, PageSizeAssumption
  <2> HIDE DEF end
  <2> QED BY <2>1, HeapAssumption, LayoutAssumption
<1> HIDE DEF size, end
<1>8. /\ at \in Units /\ at # 0 /\ VirtBase + KernelEnd <= at /\ at < end
      /\ at + Promised(asked) <= end
  BY <1>2, <1>3, <1>4, <1>5, <1>6, <1>7 DEF Units
<1>9. ASSUME NEW given \in handed
      PROVE  given.at + Promised(given.size) <= at
  <2>1. given.at \in Nat /\ given.size \in Units
    BY DEF TypeOK, Units
  <2>2. Promised(given.size) \in Nat /\ Promised(given.size) <= given.size
    BY <2>1, Promise
  <2>3. given.at + given.size <= boot.current
    BY <1>6
  <2> QED BY <1>3, <1>4, <1>5, <2>1, <2>2, <2>3 DEF Units
<1> QED BY <1>8, <1>9, HandIsGrant DEF end

LEMMA StepImplements ==
  ASSUME Inductive, Next
  PROVE  Heap!Next \/ UNCHANGED <<answer, handed>>
<1> USE DEF Inductive, results
<1>1. CASE GrowOutOfFrames \/ GrowWithoutTable
  <2>1. GrowFails /\ call.pc = "grow"
    BY <1>1 DEF GrowOutOfFrames, GrowWithoutTable, Growing
  <2>2. call.op # "enable" => call.asked \in Sizes /\ Refuse(call.asked)
    BY <2>1 DEF GrowFails, CallSound
  <2> QED BY <2>1, <2>2, RefuseIsRefuse DEF GrowFails
<1>2. CASE KmallocRetries
  <2>1. call.asked \in Sizes /\ call.size = Rounded(call.asked) /\ backend
    BY <1>2 DEF KmallocRetries, CallSound
  <2>2. TakeBlock(Rounded(call.asked), call.asked) \/ Refuse(call.asked)
    BY <1>2, <2>1 DEF KmallocRetries
  <2> QED BY <2>1, <2>2, TakeIsGrant, RefuseIsRefuse
<1>3. ASSUME NEW asked \in Sizes, Kmalloc(asked)
      PROVE  Heap!Next \/ UNCHANGED <<answer, handed>>
  <2>1. CASE KmallocNothing(asked)
    BY <2>1, RefuseIsRefuse DEF KmallocNothing
  <2>2. CASE KmallocBootstrap(asked)
    BY <2>2, RefuseIsRefuse, BootstrapIsGrant DEF KmallocBootstrap
  <2>3. CASE KmallocFinds(asked)
    BY <2>3, TakeIsGrant DEF KmallocFinds
  <2>4. CASE KmallocGrows(asked)
    BY <2>4, RefuseIsRefuse DEF KmallocGrows
  <2> QED BY <1>3, <2>1, <2>2, <2>3, <2>4 DEF Kmalloc
<1>4. CASE EnableBackend \/ GrowMapsPage \/ GrowStops \/ GrowDone \/ MapTest \/ TestCopy \/ TestWrites
  BY <1>4 DEF EnableBackend, GrowMapsPage, GrowStops, GrowDone, MapTest, MapTestMaps, MapTestStops,
              MapTestFails, MapStops, Stop, TestCopy, TestWrites
<1> QED BY <1>1, <1>2, <1>3, <1>4 DEF Next, GrowStep

\* kmalloc keeps the promise of HeapSpec, from the bootstrap heap or from the list of
\* blocks: what it returns shares no byte with what it returned before and lies between the
\* kernel and KERNEL_HEAP_END; a size that wraps gets nothing (memory.c:262-290).
THEOREM HeapImplementsSpec == Spec => ImplementsHeapSpec
<1>1. Init => Heap!Init
  BY AddrSpaceAssumption DEF Init, Heap!Init, NoAnswer, Promised
<1>2. Inductive /\ [Next]_vars => [Heap!Next]_(Heap!vars)
  BY StepImplements DEF vars, results, Heap!vars
<1> QED BY <1>1, <1>2, HeapInvariant, PTL DEF ImplementsHeapSpec, Heap!Spec, Spec
=============================================================================
