-------------------------- MODULE AddressSpaceProofs ------------------------
(***************************************************************************)
(* Theorems about paging.c, for tables and directories of any size and any *)
(* set of free frames.  Everything follows from the invariant Inductive of *)
(* AddressSpace; every call either writes one entry of a table that is     *)
(* there, or adds a table with one entry, or changes no table.             *)
(***************************************************************************)
EXTENDS AddressSpace, Lemmas

-----------------------------------------------------------------------------
(* Page tables.                                                            *)

(* The least element of a set of frames, which is what the frame allocator  *)
(* hands out for a single page.                                            *)
LEMMA MinIsLeast ==
  ASSUME NEW S \in SUBSET Nat, S # {}
  PROVE  Min(S) \in S /\ \A x \in S : Min(S) <= x
BY LeastNatural DEF Min

(* A page number is a directory index and a slot.                           *)
LEMMA PageParts ==
  ASSUME NEW page \in Page
  PROVE  /\ page \in Nat /\ DirOf(page) \in Dirs /\ SlotOf(page) \in Slots
         /\ page = DirOf(page) * TableEntries + SlotOf(page)
BY QuotientInRange, TableAssumption DEF Page, DirOf, SlotOf, Dirs, Slots

(* While the kernel's table maps the first frames to themselves, paging.c    *)
(* reaches exactly what lies in them.                                      *)
LEMMA DirectMapArrives ==
  ASSUME NEW dir, NEW tables, NEW frame \in Slots,
         dir[KernelDir] = BootTable, tables[BootTable] = [s \in Slots |-> s]
  PROVE  Access(dir, tables, frame) = "arrives"
<1> DEFINE page == PhysToVirtPage(frame)
<1>1. page \in Page /\ DirOf(page) = KernelDir /\ SlotOf(page) = frame
  BY SMTT(30), PlaceInRange, TableAssumption DEF PhysToVirtPage, Page, DirOf, SlotOf, Slots
<1>2. Walk(dir, tables, page) = frame
  BY <1>1, FrameAssumption DEF Walk, Slots
<1> QED BY <1>1, <1>2 DEF Access

(* Writing one entry of a table that one directory entry names changes the  *)
(* translation of one page.                                                *)
LEMMA WalkWithEntry ==
  ASSUME NEW dir, NEW tables, NEW page \in Page, NEW entry, NEW table, NEW q \in Page,
         dir[DirOf(page)] = table, table \in DOMAIN tables, table # NoFrame,
         tables[table] \in [Slots -> Entry],
         dir[DirOf(q)] = table => DirOf(q) = DirOf(page)
  PROVE  /\ q = page => Walk(dir, WithEntry(tables, table, SlotOf(page), entry), q) = entry
         /\ q # page => Walk(dir, WithEntry(tables, table, SlotOf(page), entry), q) = Walk(dir, tables, q)
<1>1. SlotOf(page) \in DOMAIN tables[table]
  BY PageParts
<1>2. Walk(dir, WithEntry(tables, table, SlotOf(page), entry), q) =
        IF DirOf(q) = DirOf(page) /\ SlotOf(q) = SlotOf(page) THEN entry ELSE Walk(dir, tables, q)
  BY <1>1, LookupAfterWrite DEF Walk, WithEntry, Lookup
<1> QED BY <1>2, PageParts

(* Adding a table with one entry to a directory entry that had none changes *)
(* the translation of one page, whatever the frame of the table held.      *)
LEMMA WalkWithTable ==
  ASSUME NEW dir, NEW tables, NEW page \in Page, NEW entry, NEW table \in Frames, NEW q \in Page,
         NEW dirAfter,
         dir[DirOf(page)] = NoFrame, dirAfter[DirOf(page)] = table,
         DirOf(q) # DirOf(page) => dirAfter[DirOf(q)] = dir[DirOf(q)],
         dir[DirOf(q)] # NoFrame => dir[DirOf(q)] \in DOMAIN tables /\ dir[DirOf(q)] # table
  PROVE  LET after == WithEntry(WithTable(tables, table), table, SlotOf(page), entry)
         IN  /\ q = page => Walk(dirAfter, after, q) = entry
             /\ q # page => Walk(dirAfter, after, q) = Walk(dir, tables, q)
<1>1. table # NoFrame /\ SlotOf(q) \in Slots /\ SlotOf(page) \in Slots
  BY FrameAssumption, PageParts
<1>2. Walk(dirAfter, WithEntry(WithTable(tables, table), table, SlotOf(page), entry), q) =
        IF DirOf(q) = DirOf(page) /\ SlotOf(q) = SlotOf(page) THEN entry ELSE Walk(dir, tables, q)
  BY <1>1, LookupAfterTable DEF Walk, WithEntry, WithTable, Lookup
<1> QED BY <1>2, PageParts

(* The types of the tables after either.                                    *)
LEMMA WithTableTyped ==
  ASSUME NEW tables, NEW table, \A t \in DOMAIN tables : tables[t] \in [Slots -> Entry]
  PROVE  /\ DOMAIN WithTable(tables, table) = DOMAIN tables \cup {table}
         /\ \A t \in DOMAIN WithTable(tables, table) : WithTable(tables, table)[t] \in [Slots -> Entry]
         /\ \A t \in DOMAIN tables : t # table => WithTable(tables, table)[t] = tables[t]
BY DEF WithTable, Entry

(* Behind the direct map PHYS_TO_VIRT leads to the pages of other directory *)
(* entries, so a frame that none of them maps is not reached.              *)
LEMMA BehindDirectMapPage ==
  ASSUME NEW frame \in Frames, frame \notin Slots, PhysToVirtPage(frame) \in Page
  PROVE  DirOf(PhysToVirtPage(frame)) \notin {0, KernelDir}
<1>1. frame \in Nat /\ TableEntries <= frame /\ KernelDir \in Nat \ {0} /\ TableEntries \in Nat \ {0}
  BY FrameAssumption, TableAssumption DEF Slots
<1>2. DirOf(PhysToVirtPage(frame)) > KernelDir /\ DirOf(PhysToVirtPage(frame)) \in Nat
  BY <1>1, QuotientBeyond, PageParts DEF DirOf, PhysToVirtPage, Dirs
<1> QED BY <1>1, <1>2

LEMMA BehindDirectMap ==
  ASSUME NEW dir, NEW tables, NEW frame \in Frames, frame \notin Slots,
         \A page \in Page : DirOf(page) \notin {0, KernelDir} => Walk(dir, tables, page) # frame
  PROVE  Access(dir, tables, frame) # "arrives"
BY BehindDirectMapPage, FrameAssumption DEF Access

-----------------------------------------------------------------------------
LEMMA Initially == Init => Inductive
<1> SUFFICES ASSUME Init PROVE Inductive
  OBVIOUS
<1>0. 0 \in Dirs /\ KernelDir \in Dirs /\ BootTable \in Frames /\ BootTable \in Slots
      /\ BootTable # NoFrame /\ Slots \subseteq Frames
  BY TableAssumption, FrameAssumption DEF Dirs, Slots
<1>1. /\ pd \in [Dirs -> Entry] /\ \A d \in Dirs : pd[d] = IF d \in {0, KernelDir} THEN BootTable ELSE NoFrame
      /\ Tables(pd) = {BootTable}
  BY <1>0 DEF Init, BootDirectory, Entry, Tables
<1>2. DOMAIN pt = {BootTable} /\ pt[BootTable] = [s \in Slots |-> s]
  BY DEF Init, BootTables
<1>3. free \subseteq Frames /\ BootTable \notin free
  BY ClientAssumption DEF Init
<1>4. TypeOK
  BY <1>0, <1>1, <1>2, <1>3 DEF TypeOK, Init, Entry
<1>5. DirectMapKept
  BY <1>0, <1>1, <1>2 DEF DirectMapKept
<1>6. TablesOwned
  BY <1>0, <1>1, <1>3 DEF TablesOwned
<1>7. PagesPrivate
  <2> SUFFICES ASSUME NEW page \in Page, DirOf(page) \notin {0, KernelDir}
               PROVE  Mapping(page) \notin Tables(pd) \cup free
    BY DEF PagesPrivate
  <2>1. DirOf(page) \in Dirs
    BY PageParts
  <2>2. Mapping(page) = NoFrame
    BY <1>1, <2>1 DEF Mapping, Walk
  <2> QED BY <1>0, <1>1, <1>3, <2>2, FrameAssumption
<1>8. TlbCoherent /\ StopsOnlyWithoutLowFrames
  BY DEF Init, TlbCoherent, StopsOnlyWithoutLowFrames
<1> QED BY <1>4, <1>5, <1>6, <1>7, <1>8 DEF Inductive

-----------------------------------------------------------------------------
(* The two ways in which a call changes the tables.                         *)

\* The translation of one page becomes the entry, and no other one changes.
Retranslates(page, entry) ==
  \A q \in Page : Mapping(q)' = IF q = page THEN entry ELSE Mapping(q)

(* What holds of the page of a caller.                                      *)
LEMMA ClientPage ==
  ASSUME NEW page \in ClientPages
  PROVE  /\ page \in Page /\ DirOf(page) \in Dirs /\ SlotOf(page) \in Slots
         /\ DirOf(page) \notin {0, KernelDir}
BY ClientAssumption, PageParts

(* A translation that is cached stays the one of the tables: the page that   *)
(* changes is invalidated.                                                 *)
LEMMA StaysCoherent ==
  ASSUME TypeOK, TlbCoherent, NEW page \in Page, NEW entry,
         Retranslates(page, entry), Invalidate(page)
  PROVE  TlbCoherent'
BY DEF TypeOK, TlbCoherent, Retranslates, Invalidate

(* An entry is written in the table that the directory names.               *)
LEMMA EntryPreserves ==
  ASSUME Inductive, NEW page \in ClientPages, NEW entry \in Entry,
         cpu = "runs", UNCHANGED cpu, result' \in BOOLEAN,
         pd[DirOf(page)] # NoFrame, pd' = pd,
         pt' = WithEntry(pt, pd[DirOf(page)], SlotOf(page), entry), Invalidate(page),
         free' \subseteq free, entry \notin Tables(pd) \cup free'
  PROVE  Inductive' /\ Retranslates(page, entry)
<1> DEFINE table == pd[DirOf(page)]
<1>0. page \in Page /\ DirOf(page) \in Dirs /\ SlotOf(page) \in Slots /\ DirOf(page) \notin {0, KernelDir}
  BY ClientPage
<1>1. /\ pd \in [Dirs -> Entry] /\ Tables(pd) \subseteq DOMAIN pt
      /\ \A t \in DOMAIN pt : pt[t] \in [Slots -> Entry]
      /\ DOMAIN pt \subseteq Frames
  BY DEF Inductive, TypeOK
<1>2. table \in Tables(pd) /\ table \in DOMAIN pt
  BY <1>0, <1>1 DEF Tables
<1>3. Retranslates(page, entry)
  <2> SUFFICES ASSUME NEW q \in Page PROVE Mapping(q)' = IF q = page THEN entry ELSE Mapping(q)
    BY DEF Retranslates
  <2>1. pd[DirOf(q)] = table => DirOf(q) = DirOf(page)
    BY <1>0, PageParts DEF Inductive, TablesOwned
  <2> DEFINE after == WithEntry(pt, table, SlotOf(page), entry)
  <2>2. table # NoFrame /\ pt[table] \in [Slots -> Entry]
    BY <1>1, <1>2
  <2>3. /\ q = page => Walk(pd, after, q) = entry
        /\ q # page => Walk(pd, after, q) = Walk(pd, pt, q)
    BY <1>0, <1>2, <2>1, <2>2, WalkWithEntry
  <2> QED BY <2>3 DEF Mapping
<1>4. /\ DOMAIN pt' = DOMAIN pt
      /\ \A t \in DOMAIN pt : pt'[t] \in [Slots -> Entry]
      /\ \A t \in DOMAIN pt : t # table => pt'[t] = pt[t]
  BY <1>0, <1>1, <1>2 DEF WithEntry
<1>5. TypeOK'
  BY <1>1, <1>4 DEF Inductive, TypeOK, Invalidate
<1>6. DirectMapKept'
  <2>1. KernelDir \in Dirs
    BY TableAssumption DEF Dirs
  <2>2. pd[KernelDir] = BootTable /\ BootTable # table
    BY <1>0, <2>1 DEF Inductive, DirectMapKept, TablesOwned
  <2>3. BootTable \in Tables(pd)
    BY <2>1, <2>2, FrameAssumption DEF Tables
  <2> QED BY <1>1, <1>4, <2>2, <2>3 DEF Inductive, DirectMapKept
<1>7. TablesOwned'
  BY DEF Inductive, TablesOwned, Tables
<1>8. PagesPrivate'
  BY <1>3 DEF Inductive, PagesPrivate, Retranslates, Tables
<1>9. TlbCoherent' /\ StopsOnlyWithoutLowFrames'
  BY <1>0, <1>3, StaysCoherent DEF Inductive, StopsOnlyWithoutLowFrames
<1> QED BY <1>3, <1>5, <1>6, <1>7, <1>8, <1>9 DEF Inductive

(* A table is added: the page it is added for gets the entry.               *)
LEMMA TableRetranslates ==
  ASSUME Inductive, NEW page \in ClientPages, NEW frame, NEW table \in free,
         pd[DirOf(page)] = NoFrame, pd'[DirOf(page)] = table,
         \A d \in Dirs : d # DirOf(page) => pd'[d] = pd[d],
         pt' = WithEntry(WithTable(pt, table), table, SlotOf(page), frame)
  PROVE  Retranslates(page, frame)
<1> SUFFICES ASSUME NEW q \in Page PROVE Mapping(q)' = IF q = page THEN frame ELSE Mapping(q)
  BY DEF Retranslates
<1>1. /\ page \in Page /\ DirOf(q) \in Dirs /\ table \in Frames /\ table \notin Tables(pd)
      /\ Tables(pd) \subseteq DOMAIN pt
  BY ClientPage, PageParts DEF Inductive, TypeOK, TablesOwned
<1>2. DirOf(q) # DirOf(page) => pd'[DirOf(q)] = pd[DirOf(q)]
  BY <1>1
<1>3. pd[DirOf(q)] # NoFrame => pd[DirOf(q)] \in DOMAIN pt /\ pd[DirOf(q)] # table
  BY <1>1 DEF Tables
<1> DEFINE after == WithEntry(WithTable(pt, table), table, SlotOf(page), frame)
<1>4. /\ q = page => Walk(pd', after, q) = frame
      /\ q # page => Walk(pd', after, q) = Walk(pd, pt, q)
  BY <1>1, <1>2, <1>3, WalkWithTable
<1> QED BY <1>4 DEF Mapping

(* A table is added for a page whose directory entry had none; the frame of  *)
(* the table and the one of the page were free and are not any more.       *)
LEMMA TablePreserves ==
  ASSUME Inductive, NEW page \in ClientPages, NEW frame \in Frames, NEW table \in free \cap Slots,
         cpu = "runs", UNCHANGED cpu, result' \in BOOLEAN,
         pd[DirOf(page)] = NoFrame, pd' = [pd EXCEPT ![DirOf(page)] = table],
         pt' = WithEntry(WithTable(pt, table), table, SlotOf(page), frame), Invalidate(page),
         free' \subseteq free \ {table}, frame \notin Tables(pd) \cup free' \cup {table}
  PROVE  Inductive' /\ Retranslates(page, frame)
<1> DEFINE with == WithTable(pt, table)
<1>0. page \in Page /\ DirOf(page) \in Dirs /\ SlotOf(page) \in Slots /\ DirOf(page) \notin {0, KernelDir}
  BY ClientPage
<1>1. /\ pd \in [Dirs -> Entry] /\ Tables(pd) \subseteq DOMAIN pt
      /\ \A t \in DOMAIN pt : pt[t] \in [Slots -> Entry]
      /\ DOMAIN pt \subseteq Frames /\ free \subseteq Frames
  BY DEF Inductive, TypeOK
<1>2. table \in Frames /\ table \notin Tables(pd) /\ table # NoFrame /\ frame \in Entry
  BY <1>1, FrameAssumption DEF Inductive, TablesOwned, Entry
<1>3. /\ pd' \in [Dirs -> Entry] /\ Tables(pd') = Tables(pd) \cup {table}
      /\ \A d \in Dirs : pd'[d] = IF d = DirOf(page) THEN table ELSE pd[d]
  <2>1. /\ pd' \in [Dirs -> Entry]
        /\ \A d \in Dirs : pd'[d] = IF d = DirOf(page) THEN table ELSE pd[d]
    BY <1>0, <1>1, <1>2 DEF Entry
  <2> QED BY <1>0, <1>2, <2>1 DEF Tables
<1>4. /\ DOMAIN with = DOMAIN pt \cup {table}
      /\ \A t \in DOMAIN with : with[t] \in [Slots -> Entry]
      /\ \A t \in DOMAIN pt : t # table => with[t] = pt[t]
  BY <1>1, WithTableTyped
<1>5. /\ DOMAIN pt' = DOMAIN pt \cup {table}
      /\ \A t \in DOMAIN pt' : pt'[t] \in [Slots -> Entry]
      /\ \A t \in DOMAIN pt : t # table => pt'[t] = pt[t]
  <2> DEFINE after == WithEntry(with, table, SlotOf(page), frame)
  <2>1. pt' = after
    OBVIOUS
  <2> HIDE DEF with
  <2>2. /\ DOMAIN after = DOMAIN with
        /\ \A t \in DOMAIN with : after[t] \in [Slots -> Entry]
        /\ \A t \in DOMAIN with : t # table => after[t] = with[t]
    BY <1>0, <1>2, <1>4 DEF WithEntry
  <2> HIDE DEF after
  <2> QED BY <1>4, <2>1, <2>2
<1>6. Retranslates(page, frame)
  BY <1>0, <1>3, TableRetranslates
<1>7. TypeOK'
  BY <1>1, <1>2, <1>5, <1>3 DEF Inductive, TypeOK, Invalidate
<1>8. DirectMapKept'
  <2>1. KernelDir \in Dirs /\ 0 \in Dirs
    BY TableAssumption DEF Dirs
  <2>2. BootTable \in Tables(pd)
    BY <2>1, FrameAssumption DEF Inductive, DirectMapKept, Tables
  <2> QED BY <1>0, <1>1, <1>2, <1>5, <1>3, <2>1, <2>2 DEF Inductive, DirectMapKept
<1>9. TablesOwned'
  <2>1. Tables(pd') \subseteq Slots \ free'
    BY <1>3 DEF Inductive, TablesOwned
  <2>2. ASSUME NEW d \in Dirs \ {0, KernelDir}, NEW e \in Dirs, pd'[d] = pd'[e], pd'[d] # NoFrame
        PROVE  d = e
    <3>1. \A c \in Dirs : pd[c] # table
      BY <1>2 DEF Tables
    <3> QED BY <1>3, <2>2, <3>1 DEF Inductive, TablesOwned
  <2> QED BY <2>1, <2>2 DEF TablesOwned
<1>10. PagesPrivate'
  <2> SUFFICES ASSUME NEW q \in Page, DirOf(q) \notin {0, KernelDir}
               PROVE  Mapping(q)' \notin Tables(pd') \cup free'
    BY DEF PagesPrivate
  <2>1. Mapping(q) \notin Tables(pd) \cup free
    BY DEF Inductive, PagesPrivate
  <2> QED BY <1>6, <1>3, <2>1 DEF Retranslates
<1>11. TlbCoherent' /\ StopsOnlyWithoutLowFrames'
  BY <1>0, <1>6, StaysCoherent DEF Inductive, StopsOnlyWithoutLowFrames
<1> QED BY <1>6, <1>7, <1>8, <1>9, <1>10, <1>11 DEF Inductive

(* A call that changes no table keeps the invariant if it frees no frame    *)
(* and if, when the kernel stops, no frame of the direct map is left.      *)
LEMMA UnchangedPreserves ==
  ASSUME Inductive, pd' = pd, pt' = pt, tlb' = tlb, free' \subseteq free,
         result' \in BOOLEAN, cpu' \in {"runs", "halted", "strayed"},
         cpu' # "runs" => free' \cap Slots = {}
  PROVE  Inductive'
<1>1. TypeOK'
  BY DEF Inductive, TypeOK
<1>2. DirectMapKept' /\ TablesOwned'
  BY DEF Inductive, DirectMapKept, TablesOwned
<1>3. PagesPrivate' /\ TlbCoherent' /\ StopsOnlyWithoutLowFrames'
  BY DEF Inductive, PagesPrivate, TlbCoherent, StopsOnlyWithoutLowFrames, Mapping
<1> QED BY <1>1, <1>2, <1>3 DEF Inductive

-----------------------------------------------------------------------------
(* The calls.                                                              *)

\* What a step may do to translations: nothing outside the identity map, or one
\* client's page.
ChangesAtMostOne ==
  \/ \A q \in Page : DirOf(q) # 0 => Mapping(q)' = Mapping(q)
  \/ \E page \in ClientPages : \E entry \in Entry : Retranslates(page, entry)

(* Every table lies in the direct map, which is as stage 2 left it.         *)
LEMMA TableArrives ==
  ASSUME Inductive, NEW d \in Dirs, pd[d] # NoFrame
  PROVE  Access(pd, pt, pd[d]) = "arrives"
<1>1. pd[d] \in Slots
  BY DEF Inductive, TablesOwned, Tables
<1> QED BY <1>1, DirectMapArrives DEF Inductive, DirectMapKept

LEMMA MapInTablePreserves ==
  ASSUME Inductive, NEW page \in ClientPages, NEW frame \in Frames, NEW pool \in SUBSET free,
         frame \notin Tables(pd) \cup pool, cpu = "runs", MapInTable(page, frame, pool)
  PROVE  Inductive' /\ ChangesAtMostOne
<1>1. DirOf(page) \in Dirs
  BY ClientPage
<1>2. SetEntry(pd, pt, page, frame) /\ pd[DirOf(page)] # NoFrame /\ free' = pool
  BY <1>1, TableArrives DEF MapInTable
<1>3. Inductive' /\ Retranslates(page, frame)
  BY <1>2, EntryPreserves DEF SetEntry, Entry
<1> QED BY <1>3 DEF ChangesAtMostOne, Entry

LEMMA MapInNewTablePreserves ==
  ASSUME Inductive, NEW page \in ClientPages, NEW frame \in Frames, NEW pool \in SUBSET free,
         frame \notin Tables(pd) \cup pool, cpu = "runs", MapInNewTable(page, frame, pool)
  PROVE  Inductive' /\ ChangesAtMostOne
<1> DEFINE table == Min(pool)
           directory == [pd EXCEPT ![DirOf(page)] = table]
<1>1. pd[DirOf(page)] = NoFrame /\ pool # {} /\ free' = pool \ {table}
  BY DEF MapInNewTable
<1>2. pool \subseteq Frames /\ pool \subseteq Nat
  BY FrameAssumption DEF Inductive, TypeOK
<1>3. table \in pool /\ \A f \in pool : table <= f
  BY <1>1, <1>2, MinIsLeast
<1>4. CASE Access(pd, pt, table) = "arrives"
  <2>1. table \in Slots
    <3>1. \A q \in Page : DirOf(q) \notin {0, KernelDir} => Walk(pd, pt, q) # table
      BY <1>3 DEF Inductive, PagesPrivate, Mapping
    <3> HIDE DEF table
    <3> QED BY <1>2, <1>3, <1>4, <3>1, BehindDirectMap
  <2>2. SetEntry(directory, WithTable(pt, table), page, frame)
    BY <1>4 DEF MapInNewTable
  <2>3. directory[DirOf(page)] = table
    BY ClientPage DEF Inductive, TypeOK
  <2>4. pt' = WithEntry(WithTable(pt, table), table, SlotOf(page), frame)
    BY <2>2, <2>3 DEF SetEntry
  <2>5. pd' = directory /\ Invalidate(page) /\ result' \in BOOLEAN /\ UNCHANGED cpu
    BY <2>2 DEF SetEntry
  <2>6. frame \notin Tables(pd) \cup free' \cup {table} /\ table \in free \cap Slots
        /\ free' \subseteq free \ {table}
    BY <1>1, <1>3, <2>1
  <2> HIDE DEF table
  <2>7. Inductive' /\ Retranslates(page, frame)
    BY <1>1, <2>4, <2>5, <2>6, TablePreserves
  <2> QED BY <2>7 DEF ChangesAtMostOne, Entry
<1>5. CASE Access(pd, pt, table) # "arrives"
  <2>1. table \notin Slots
    BY <1>5, DirectMapArrives DEF Inductive, DirectMapKept
  <2>2. pool \cap Slots = {}
    <3> HIDE DEF table
    <3> QED BY <1>2, <1>3, <2>1, FrameAssumption, TableAssumption DEF Slots
  <2>3. Stop(Access(pd, pt, table))
    BY <1>5 DEF MapInNewTable
  <2>4. /\ UNCHANGED <<pd, pt, tlb, result>> /\ cpu' \in {"runs", "halted", "strayed"}
        /\ result \in BOOLEAN
    BY <2>3 DEF Stop, Inductive, TypeOK
  <2>5. Inductive'
    BY <1>1, <2>2, <2>4, UnchangedPreserves
  <2> QED BY <2>4, <2>5 DEF ChangesAtMostOne, Mapping
<1> QED BY <1>4, <1>5

(* A call that maps nothing.                                               *)
LEMMA RefusalPreserves ==
  ASSUME Inductive, UNCHANGED <<pd, pt, tlb, free, cpu>>, result' \in BOOLEAN
  PROVE  Inductive' /\ ChangesAtMostOne
<1>1. free' \subseteq free /\ cpu' \in {"runs", "halted", "strayed"}
      /\ (cpu' # "runs" => free' \cap Slots = {})
  BY DEF Inductive, TypeOK, StopsOnlyWithoutLowFrames
<1>2. Inductive'
  BY <1>1, UnchangedPreserves
<1> QED BY <1>2 DEF ChangesAtMostOne, Mapping

LEMMA MapPagePreserves ==
  ASSUME Inductive, NEW page \in ClientPages,
         NEW frame \in {Mapping(q) : q \in ClientPages} \ {NoFrame}, MapPage(page, frame)
  PROVE  Inductive' /\ ChangesAtMostOne
<1>1. frame \in Frames /\ frame \notin Tables(pd) \cup free
  <2>1. PICK q \in ClientPages : frame = Mapping(q)
    OBVIOUS
  <2>2. q \in Page /\ DirOf(q) \in Dirs /\ SlotOf(q) \in Slots /\ DirOf(q) \notin {0, KernelDir}
    BY ClientPage
  <2>3. frame \in Entry
    BY <2>1, <2>2 DEF Mapping, Walk, Inductive, TypeOK, Tables
  <2> QED BY <2>1, <2>2, <2>3 DEF Inductive, PagesPrivate, Entry
<1>2. cpu = "runs" /\ free \in SUBSET free
  BY DEF MapPage
<1>3. CASE MapInTable(page, frame, free)
  BY <1>1, <1>2, <1>3, MapInTablePreserves
<1>4. CASE MapInNewTable(page, frame, free)
  BY <1>1, <1>2, <1>4, MapInNewTablePreserves
<1>5. CASE MapRefused(page, free, free)
  BY <1>5, RefusalPreserves DEF MapRefused
<1> QED BY <1>3, <1>4, <1>5 DEF MapPage

LEMMA AllocPagePreserves ==
  ASSUME Inductive, NEW page \in ClientPages, AllocPage(page)
  PROVE  Inductive' /\ ChangesAtMostOne
<1>1. CASE free = {}
  BY <1>1, RefusalPreserves DEF AllocPage
<1>2. CASE free # {}
  <2> DEFINE frame == Min(free)
             pool == free \ {frame}
  <2>1. frame \in free
    BY <1>2, MinIsLeast, FrameAssumption DEF Inductive, TypeOK
  <2>2. /\ frame \in Frames /\ frame \notin Tables(pd) \cup pool
        /\ cpu = "runs" /\ pool \in SUBSET free
    BY <2>1 DEF Inductive, TypeOK, TablesOwned, AllocPage
  <2>3. MapInTable(page, frame, pool) \/ MapInNewTable(page, frame, pool) \/ MapRefused(page, pool, free)
    BY <1>2 DEF AllocPage
  <2> HIDE DEF frame, pool
  <2>4. CASE MapInTable(page, frame, pool)
    BY <2>2, <2>4, MapInTablePreserves
  <2>5. CASE MapInNewTable(page, frame, pool)
    BY <2>2, <2>5, MapInNewTablePreserves
  <2>6. CASE MapRefused(page, pool, free)
    BY <2>6, RefusalPreserves DEF MapRefused
  <2> QED BY <2>3, <2>4, <2>5, <2>6
<1> QED BY <1>1, <1>2

LEMMA UnmapPagePreserves ==
  ASSUME Inductive, NEW page \in ClientPages, UnmapPage(page)
  PROVE  Inductive' /\ ChangesAtMostOne
<1>1. UNCHANGED <<pd, free, result>> /\ result \in BOOLEAN /\ cpu = "runs"
  BY DEF UnmapPage, Inductive, TypeOK
<1>2. CASE pd[DirOf(page)] = NoFrame
  BY <1>1, <1>2, RefusalPreserves DEF UnmapPage
<1>3. CASE pd[DirOf(page)] # NoFrame
  <2>1. Access(pd, pt, pd[DirOf(page)]) = "arrives"
    BY <1>3, ClientPage, TableArrives
  <2>2. /\ pt' = WithEntry(pt, pd[DirOf(page)], SlotOf(page), NoFrame)
        /\ Invalidate(page) /\ UNCHANGED cpu
    BY <1>3, <2>1 DEF UnmapPage
  <2>3. NoFrame \notin Tables(pd) \cup free' /\ NoFrame \in Entry /\ free' \subseteq free
    BY <1>1, FrameAssumption DEF Inductive, TypeOK, Tables, Entry
  <2>4. Inductive' /\ Retranslates(page, NoFrame)
    BY <1>1, <1>3, <2>2, <2>3, EntryPreserves
  <2> QED BY <2>3, <2>4 DEF ChangesAtMostOne
<1> QED BY <1>2, <1>3

LEMMA CachePreserves ==
  ASSUME Inductive, NEW page \in WatchedPages, CacheTranslation(page)
  PROVE  Inductive' /\ ChangesAtMostOne
<1>1. page \in Page /\ DirOf(page) \in Dirs /\ SlotOf(page) \in Slots
  BY ClientAssumption, PageParts
<1>2. Mapping(page) \in Entry /\ Mapping(page) # NoFrame
  BY <1>1 DEF CacheTranslation, Mapping, Walk, Inductive, TypeOK, Tables, Entry
<1>3. UNCHANGED <<pd, pt, free, result, cpu>> /\ tlb' = tlb \cup {<<page, Mapping(page)>>}
  BY DEF CacheTranslation
<1>4. TypeOK'
  BY <1>1, <1>2, <1>3 DEF Inductive, TypeOK, Entry
<1>5. TlbCoherent'
  BY <1>3 DEF Inductive, TlbCoherent, Mapping
<1>6. DirectMapKept' /\ TablesOwned' /\ PagesPrivate' /\ StopsOnlyWithoutLowFrames'
  BY <1>3 DEF Inductive, DirectMapKept, TablesOwned, PagesPrivate, StopsOnlyWithoutLowFrames, Mapping
<1> QED BY <1>3, <1>4, <1>5, <1>6 DEF Inductive, ChangesAtMostOne, Mapping

LEMMA RemovePreserves ==
  ASSUME Inductive, RemoveIdentityMap
  PROVE  Inductive' /\ ChangesAtMostOne
<1>1. pd' = [pd EXCEPT ![0] = NoFrame] /\ tlb' = {} /\ UNCHANGED <<pt, free, result, cpu>>
  BY DEF RemoveIdentityMap
<1>2. 0 \in Dirs /\ KernelDir \in Dirs /\ KernelDir # 0
  BY TableAssumption DEF Dirs
<1>3. /\ pd' \in [Dirs -> Entry] /\ pd'[0] = NoFrame
      /\ \A d \in Dirs : d # 0 => pd'[d] = pd[d]
  BY <1>1, <1>2 DEF Inductive, TypeOK, Entry
<1>4. Tables(pd') \subseteq Tables(pd)
  BY <1>3 DEF Tables
<1>5. \A q \in Page : DirOf(q) # 0 => Mapping(q)' = Mapping(q)
  BY <1>1, <1>3, PageParts DEF Mapping, Walk
<1>6. TypeOK'
  BY <1>1, <1>3, <1>4 DEF Inductive, TypeOK
<1>7. DirectMapKept' /\ TablesOwned'
  BY <1>1, <1>2, <1>3, <1>4 DEF Inductive, DirectMapKept, TablesOwned
<1>8. PagesPrivate'
  BY <1>1, <1>4, <1>5 DEF Inductive, PagesPrivate
<1>9. TlbCoherent' /\ StopsOnlyWithoutLowFrames'
  BY <1>1 DEF Inductive, TlbCoherent, StopsOnlyWithoutLowFrames
<1> QED BY <1>5, <1>6, <1>7, <1>8, <1>9 DEF Inductive, ChangesAtMostOne

LEMMA Preserved == Inductive /\ Next => Inductive' /\ ChangesAtMostOne
BY MapPagePreserves, AllocPagePreserves, UnmapPagePreserves, CachePreserves, RemovePreserves DEF Next

-----------------------------------------------------------------------------
(* The theorems.                                                           *)

\* Inductive is an invariant of paging.c, for page tables of every size.
THEOREM Invariant == Spec => []Inductive
<1>1. Inductive /\ [Next]_vars => Inductive'
  <2>1. CASE UNCHANGED vars
    BY <2>1, RefusalPreserves DEF vars, Inductive, TypeOK
  <2> QED BY <2>1, Preserved
<1> QED BY <1>1, Initially, PTL DEF Spec

\* The tables, the TLB and the frame pool keep their types.
THEOREM TypesCorrect == Spec => []TypeOK
<1>1. Inductive => TypeOK
  BY DEF Inductive
<1> QED BY <1>1, Invariant, PTL

\* No cached translation outlives a change of the page tables (paging.c:55, 64-66, 91,
\* 106): the page that is mapped or unmapped is the only one that changes.
THEOREM TlbIsCoherent == Spec => []TlbCoherent
<1>1. Inductive => TlbCoherent
  BY DEF Inductive
<1> QED BY <1>1, Invariant, PTL

\* paging.c reaches every table, and nobody else uses the frame of one
\* (paging.c:37, 44-54, 119, 132-141).
THEOREM TablesAreSound == Spec => []TablesSound
<1>1. Inductive => TablesReachable
  BY TableArrives DEF TablesReachable, Tables
<1>2. Inductive => TablesPrivate
  <2> SUFFICES ASSUME Inductive PROVE TablesPrivate
    OBVIOUS
  <2>1. ASSUME Booted, NEW d \in Dirs, NEW e \in Dirs, pd[d] = pd[e], pd[d] # NoFrame
        PROVE  d = e
    <3>1. d # 0 /\ e # 0
      BY <2>1 DEF Booted
    <3> QED BY <2>1, <3>1 DEF Inductive, TablesOwned
  <2>2. \A page \in ClientPages : Mapping(page) \notin Tables(pd) \cup free
    BY ClientPage DEF Inductive, PagesPrivate
  <2> QED BY <2>1, <2>2 DEF TablesPrivate
<1> QED BY <1>1, <1>2, Invariant, PTL DEF TablesSound

\* The kernel stops on a table out of its reach only when the direct map has no free
\* frame left (paging.c:44-52).
THEOREM StopsForWantOfLowFrames == Spec => []StopsOnlyWithoutLowFrames
<1>1. Inductive => StopsOnlyWithoutLowFrames
  BY DEF Inductive
<1> QED BY <1>1, Invariant, PTL

\* A call changes the translation of one page of a caller, whatever becomes of tables
\* (paging.c:52, 89, 104).
THEOREM OnePageChanges == Spec => ChangesOnePage
<1> DEFINE changed == {page \in Page : DirOf(page) # 0 /\ Mapping(page)' # Mapping(page)}
           Step == /\ \A page \in changed : DirOf(page) # KernelDir
                   /\ \A page, other \in changed : page = other
<1>1. Inductive /\ [Next]_vars => [Step]_vars
  <2> SUFFICES ASSUME Inductive, Next PROVE Step
    OBVIOUS
  <2>1. CASE \A q \in Page : DirOf(q) # 0 => Mapping(q)' = Mapping(q)
    BY <2>1
  <2>2. CASE \E page \in ClientPages : \E entry \in Entry : Retranslates(page, entry)
    BY <2>2, ClientPage DEF Retranslates
  <2> QED BY <2>1, <2>2, Preserved DEF ChangesAtMostOne
<1> QED BY <1>1, Invariant, PTL DEF ChangesOnePage, Spec
=============================================================================
