---------------------------- MODULE AddressSpace ----------------------------
(***************************************************************************)
(* paging.c: the kernel's page tables, from those stage 2 leaves, and the  *)
(* processor's translation cache (TLB).  The processor may cache the       *)
(* translation of any page at any time; paging.c must invalidate what it   *)
(* changes.  Each function runs to completion (interrupts are off, or the  *)
(* boot code runs alone); an access that faults stops the kernel, whose    *)
(* page-fault handler halts (idt.c:145-158).                               *)
(***************************************************************************)
EXTENDS PageTables, FiniteSetsExt

CONSTANTS
  InitialFree,   \* the sets of frames pmm_init may leave free
  ClientPages,   \* the pages callers map: the heap's, and maptest's
  WatchedPages   \* the pages whose cached translation is followed

ASSUME ClientAssumption ==
  /\ \A free \in InitialFree : free \subseteq Frames /\ BootTable \notin free
  /\ ClientPages \subseteq Page
  /\ \A page \in ClientPages : DirOf(page) \notin {0, KernelDir}
  /\ WatchedPages \subseteq Page

VARIABLES
  pd, pt,    \* page directory and page tables
  tlb,       \* cached translations, pairs <<page, frame>>
  free,      \* free frames
  result,    \* what the last call returned
  cpu        \* "runs", or "halted" by a page fault, or "strayed" to a wrong frame

vars == <<pd, pt, tlb, free, result, cpu>>

Mapping(page) == Walk(pd, pt, page)

Init ==
  /\ pd = BootDirectory /\ pt = BootTables
  /\ tlb = {}
  /\ free \in InitialFree
  /\ result = TRUE
  /\ cpu = "runs"

\* The processor caches a translation it walked.
CacheTranslation(page) ==
  /\ cpu = "runs" /\ Mapping(page) # NoFrame
  /\ tlb' = tlb \cup {<<page, Mapping(page)>>}
  /\ UNCHANGED <<pd, pt, free, result, cpu>>

Booted == pd[0] = NoFrame

\* Mutant: cr3 is not reloaded.
RemoveIdentityMap_NoFlush ==
  /\ cpu = "runs" /\ ~Booted
  /\ pd' = [pd EXCEPT ![0] = NoFrame]
  /\ UNCHANGED <<pt, tlb, free, result, cpu>>

\* Reloading cr3 empties the TLB.
RemoveIdentityMap ==
  /\ cpu = "runs" /\ ~Booted
  /\ pd' = [pd EXCEPT ![0] = NoFrame]
  /\ tlb' = {}
  /\ UNCHANGED <<pt, free, result, cpu>>

Stop(access) ==
  /\ cpu' = IF access = "faults" THEN "halted" ELSE "strayed"
  /\ UNCHANGED <<pd, pt, tlb, result>>

\* invlpg
Invalidate(page) == tlb' = {entry \in tlb : entry[1] # page}

\* paging_map_page, entered with the frames in pool free.
SetEntry(directory, tables, page, frame) ==
  /\ pd' = directory
  /\ pt' = WithEntry(tables, directory[DirOf(page)], SlotOf(page), frame)
  /\ Invalidate(page)
  /\ result' = TRUE
  /\ UNCHANGED cpu

MapInTable(page, frame, pool) ==
  LET table == pd[DirOf(page)] IN
  /\ table # NoFrame
  /\ free' = pool
  /\ IF Access(pd, pt, table) = "arrives" THEN SetEntry(pd, pt, page, frame)
     ELSE Stop(Access(pd, pt, table))

\* Mutants: the entry is written although the table is out of reach; the table is not
\* cleared and keeps what its frame held (here, what the kernel's table holds); the
\* frame for the table is not taken from the pool.
MapInNewTable_Unchecked(page, frame, pool) ==
  LET table == Min(pool)
      directory == [pd EXCEPT ![DirOf(page)] = table]
  IN
  /\ pd[DirOf(page)] = NoFrame /\ pool # {}
  /\ free' = pool \ {table}
  /\ SetEntry(directory, WithTable(pt, table), page, frame)
MapInNewTable_NotCleared(page, frame, pool) ==
  LET table == Min(pool)
      directory == [pd EXCEPT ![DirOf(page)] = table]
      dirty == [t \in DOMAIN pt \cup {table} |-> IF t = table THEN pt[BootTable] ELSE pt[t]]
  IN
  /\ pd[DirOf(page)] = NoFrame /\ pool # {}
  /\ free' = pool \ {table}
  /\ IF Access(pd, pt, table) = "arrives" THEN SetEntry(directory, dirty, page, frame)
     ELSE Stop(Access(pd, pt, table))
MapInNewTable_NotTaken(page, frame, pool) ==
  LET table == Min(pool)
      directory == [pd EXCEPT ![DirOf(page)] = table]
  IN
  /\ pd[DirOf(page)] = NoFrame /\ pool # {}
  /\ free' = pool
  /\ IF Access(pd, pt, table) = "arrives" THEN SetEntry(directory, WithTable(pt, table), page, frame)
     ELSE Stop(Access(pd, pt, table))
\* Mutant: tables are taken from the top of memory.
MapInNewTable_Highest(page, frame, pool) ==
  LET table == Max(pool)
      directory == [pd EXCEPT ![DirOf(page)] = table]
  IN
  /\ pd[DirOf(page)] = NoFrame /\ pool # {}
  /\ free' = pool \ {table}
  /\ IF Access(pd, pt, table) = "arrives" THEN SetEntry(directory, WithTable(pt, table), page, frame)
     ELSE Stop(Access(pd, pt, table))

\* paging_get_page_table, create: the new table is cleared through the direct map,
\* then entered in the directory.
MapInNewTable(page, frame, pool) ==
  LET table == Min(pool)
      directory == [pd EXCEPT ![DirOf(page)] = table]
  IN
  /\ pd[DirOf(page)] = NoFrame /\ pool # {}
  /\ free' = pool \ {table}
  /\ IF Access(pd, pt, table) = "arrives" THEN SetEntry(directory, WithTable(pt, table), page, frame)
     ELSE Stop(Access(pd, pt, table))

\* No frame for a table: nothing is mapped; onFailure is the pool the caller leaves.
MapRefused(page, pool, onFailure) ==
  /\ pd[DirOf(page)] = NoFrame /\ pool = {}
  /\ free' = onFailure
  /\ result' = FALSE
  /\ UNCHANGED <<pd, pt, tlb, cpu>>

MapPage(page, frame) ==
  /\ cpu = "runs" /\ Booted
  /\ \/ MapInTable(page, frame, free)
     \/ MapInNewTable(page, frame, free)
     \/ MapRefused(page, free, free)

\* paging_alloc_page: the frame goes back when it cannot be mapped.  A page mapped
\* before loses its frame.
AllocPage(page) ==
  /\ cpu = "runs" /\ Booted
  /\ IF free = {} THEN result' = FALSE /\ UNCHANGED <<pd, pt, tlb, free, cpu>>
     ELSE LET frame == Min(free) IN
          \/ MapInTable(page, frame, free \ {frame})
          \/ MapInNewTable(page, frame, free \ {frame})
          \/ MapRefused(page, free \ {frame}, free)

\* Mutant: the table goes with the page, the directory still names it.
UnmapPage_DropsTable(page) ==
  /\ cpu = "runs" /\ Booted
  /\ UNCHANGED <<pd, free, result, cpu>>
  /\ pt' = [t \in DOMAIN pt \ {pd[DirOf(page)]} |-> pt[t]]
  /\ Invalidate(page)

UnmapPage(page) ==
  /\ cpu = "runs" /\ Booted
  /\ UNCHANGED <<pd, free, result>>
  /\ LET table == pd[DirOf(page)] IN
     IF table = NoFrame THEN UNCHANGED <<pt, tlb, cpu>>
     ELSE IF Access(pd, pt, table) = "arrives"
     THEN pt' = WithEntry(pt, table, SlotOf(page), NoFrame) /\ Invalidate(page) /\ UNCHANGED cpu
     ELSE cpu' = "halted" /\ UNCHANGED <<pt, tlb>>

\* A caller of paging_map_page passes a frame it got from the frame allocator.
Next ==
  \/ \E page \in WatchedPages : CacheTranslation(page)
  \/ RemoveIdentityMap
  \/ \E page \in ClientPages : AllocPage(page) \/ UnmapPage(page)
  \/ \E page \in ClientPages : 
       \E frame \in {Mapping(q) : q \in ClientPages} \ {NoFrame} : MapPage(page, frame)

Spec == Init /\ [][Next]_vars

-----------------------------------------------------------------------------
(* Properties.                                                             *)

\* The types of the page tables, the TLB and the frame pool.
TypeOK ==
  /\ pd \in [Dirs -> Entry]
  /\ Tables(pd) \subseteq DOMAIN pt /\ DOMAIN pt \subseteq Frames
  /\ \A t \in DOMAIN pt : pt[t] \in [Slots -> Entry]
  /\ tlb \subseteq Page \X Frames
  /\ free \subseteq Frames
  /\ result \in BOOLEAN
  /\ cpu \in {"runs", "halted", "strayed"}

\* No cached translation outlives a change of the page tables: what the processor
\* uses is what the tables say, also for a page that is mapped again or unmapped and
\* for the identity map that is gone (paging.c:55, 64-66, 91, 106).
TlbCoherent == \A entry \in tlb : Mapping(entry[1]) = entry[2]

\* Every table the directory names is one paging.c can reach through the direct map.
TablesReachable == \A table \in Tables(pd) : Access(pd, pt, table) = "arrives"

\* A table serves one directory entry and is nobody's data: no page a caller maps
\* leads to a table or to a frame that is still free.
TablesPrivate ==
  /\ Booted => \A d, e \in Dirs : pd[d] = pd[e] /\ pd[d] # NoFrame => d = e
  /\ \A page \in ClientPages : Mapping(page) \notin Tables(pd) \cup free

\* A later map, unmap or translate of any page finds its table through the direct map,
\* and nothing else ever writes to it: it is no other entry's table, no page a caller
\* maps leads to it, and it is not free (paging.c:37, 44-54, 119, 132-141).
TablesSound == TablesReachable /\ TablesPrivate

\* The kernel stops on a table it cannot reach only when no frame of the direct map
\* is left, since tables are taken from the lowest free frame (paging.c:44-52).
StopsOnlyWithoutLowFrames == cpu # "runs" => free \cap Slots = {}

\* A call changes the translation of one page: a new table maps nothing but the page
\* it was made for, and the direct map never changes (paging.c:52, 89, 104).
ChangesOnePage ==
  [][LET changed == {page \in Page : DirOf(page) # 0 /\ Mapping(page)' # Mapping(page)} IN
     /\ \A page \in changed : DirOf(page) # KernelDir
     /\ \A page, other \in changed : page = other]_vars

\* What keeps the tables in reach: the direct map stays as stage 2 left it, at 0 too until
\* paging_remove_identity_map.
DirectMapKept ==
  /\ pd[KernelDir] = BootTable /\ pt[BootTable] = [s \in Slots |-> s]
  /\ pd[0] \in {BootTable, NoFrame}

\* Every table lies in the direct map, is not free and serves one directory entry.
TablesOwned ==
  /\ Tables(pd) \subseteq Slots \ free
  /\ \A d \in Dirs \ {0, KernelDir}, e \in Dirs : pd[d] = pd[e] /\ pd[d] # NoFrame => d = e

\* No page outside the direct map leads to a table or to a free frame.
PagesPrivate ==
  \A page \in Page : DirOf(page) \notin {0, KernelDir} => Mapping(page) \notin Tables(pd) \cup free

\* The inductive invariant behind the theorems of AddressSpaceProofs.
Inductive ==
  /\ TypeOK /\ DirectMapKept /\ TablesOwned /\ PagesPrivate
  /\ TlbCoherent /\ StopsOnlyWithoutLowFrames
=============================================================================
