--------------------------------- MODULE Pmm --------------------------------
(***************************************************************************)
(* The physical memory manager (pmm.c), from the memory map stage 2 leaves *)
(* in low memory to the calls that allocate and free page frames.          *)
(*                                                                         *)
(* Initialisation follows kmain: memory_init, then pmm_init, whose scan of *)
(* the map is one step per entry.  A call that scans the bitmap is one     *)
(* step per page.  The kernel runs one call at a time: after shell_init    *)
(* all of them run in an interrupt handler with interrupts off.            *)
(***************************************************************************)
EXTENDS MemoryLayout, Integers, FiniteSets

CONSTANTS
  BitsPerWord,  \* 32
  WordSize,     \* sizeof(uint32_t), 4
  E820Maps,     \* the memory maps the firmware may report
  RunLengths,   \* the page counts callers ask for, 0 included
  Limits        \* the address bounds passed to pmm_alloc_page_below

ASSUME BitmapAssumption == BitsPerWord \in Nat \ {0} /\ WordSize \in Nat \ {0}
ASSUME MapsAssumption == E820Maps \subseteq Seq(E820Entry)
ASSUME RequestAssumption == RunLengths \subseteq Nat /\ Limits \subseteq Nat

VARIABLES
  e820,         \* the firmware's map, never changed after boot
  stage,        \* how far the boot sequence has come
  next,         \* pmm_init's index into the map
  highest,      \* highest_addr of the scan
  usablePages,  \* pmm_total_usable_pages
  totalPages,   \* pmm_total_pages
  boot,         \* the bootstrap heap of memory.c
  bitmap,       \* pmm_bitmap, 0 while there is none
  used,         \* the pages whose bit is set
  call,         \* the call in progress and its local variables
  asked,        \* what the last allocation was asked for: pages, and the address they lie below
  reply,        \* what it returned
  held          \* the pages callers hold: what they got and did not free

bootVars == <<stage, next, highest, usablePages, totalPages, boot, bitmap>>
vars == <<e820, bootVars, used, call, asked, reply, held>>

Stages == {"memory_init", "pmm_scan", "pmm_map", "ready"}
Pages == 0 .. (totalPages - 1)
Free == IF bitmap = 0 THEN {} ELSE Pages \ used
PageAddress(page) == page * PageSize
Run(start, count) == start .. (start + count - 1)

Idle == [op |-> "none", count |-> 0, page |-> 0, runStart |-> 0, runLen |-> 0, bound |-> 0]

Init ==
  /\ e820 \in E820Maps
  /\ stage = "memory_init"
  /\ next = 1 /\ highest = 0 /\ usablePages = 0 /\ totalPages = 0
  /\ boot = [start |-> 0, current |-> 0, limit |-> 0]
  /\ bitmap = 0
  /\ used = {}
  /\ call = Idle /\ asked = [count |-> 0, limit |-> 0] /\ reply = 0
  /\ held = {}

-----------------------------------------------------------------------------
(* Boot.                                                                   *)

MemoryInit ==
  /\ stage = "memory_init"
  /\ boot' = BootstrapHeap(e820)
  /\ stage' = "pmm_scan"
  /\ UNCHANGED <<e820, next, highest, usablePages, totalPages, bitmap, used, call, asked, reply, held>>

\* Mutant: the count rounds the end of a region up as well.
UsablePagesOf_RoundsUp(e) ==
  LET first == AlignUp(e.base, PageSize)
      end == AlignUp(End32(e), PageSize)
  IN  IF Considered(e) /\ end > first THEN (end - first) \div PageSize ELSE 0

\* The pages pmm_init counts for an entry of the map.
UsablePagesOf(e) ==
  LET first == AlignUp(e.base, PageSize)
      end == AlignDown(End32(e), PageSize)
  IN  IF Considered(e) /\ end > first THEN (end - first) \div PageSize ELSE 0

ScanEntry ==
  /\ stage = "pmm_scan" /\ next <= Len(e820)
  /\ LET e == e820[next] IN
       /\ highest' = IF RegionEnd(e) > highest THEN RegionEnd(e) ELSE highest
       /\ usablePages' = usablePages + UsablePagesOf(e)
  /\ next' = next + 1
  /\ UNCHANGED <<e820, stage, totalPages, boot, bitmap, used, call, asked, reply, held>>

ScanDone ==
  /\ stage = "pmm_scan" /\ next > Len(e820)
  /\ LET clipped == IF highest > AddrSpace THEN AddrSpace ELSE highest
     IN  totalPages' = clipped \div PageSize
  /\ stage' = IF totalPages' = 0 THEN "ready" ELSE "pmm_map"
  /\ UNCHANGED <<e820, next, highest, usablePages, boot, bitmap, used, call, asked, reply, held>>

BitmapBytes == ((totalPages + BitsPerWord - 1) \div BitsPerWord) * WordSize

\* pmm_mark_range_free: whole pages only.
\* Mutants: the start rounded down, the last page left out.
MarkedFree_RoundsOut(lo, hi) ==
  {page \in Pages : AlignDown(lo, PageSize) <= PageAddress(page) /\ PageAddress(page) < AlignDown(hi, PageSize)}
MarkedFree_DropsLast(lo, hi) ==
  {page \in Pages : AlignUp(lo, PageSize) <= PageAddress(page) /\ PageAddress(page + 1) < AlignDown(hi, PageSize)}

MarkedFree(lo, hi) ==
  {page \in Pages : AlignUp(lo, PageSize) <= PageAddress(page) /\ PageAddress(page) < AlignDown(hi, PageSize)}

\* pmm_mark_range_used: every page the range touches.
\* Mutant: the end rounded down.
MarkedUsed_RoundsIn(lo, hi) ==
  {page \in Pages : AlignDown(lo, PageSize) <= PageAddress(page) /\ PageAddress(page) < AlignDown(hi, PageSize)}

MarkedUsed(lo, hi) ==
  {page \in Pages : AlignDown(lo, PageSize) <= PageAddress(page) /\ PageAddress(page) < AlignUp(hi, PageSize)}

FreedByMap ==
  UNION {MarkedFree(e820[i].base, End32(e820[i])) : i \in {j \in DOMAIN e820 : Considered(e820[j])}}

\* Mutant: the pages of the bitmap itself are forgotten.
ReservedAtBoot_NoBitmap(bitmapAt) == MarkedUsed(0, LowMemEnd) \cup MarkedUsed(0, KernelEnd)

ReservedAtBoot(bitmapAt) ==
  MarkedUsed(0, LowMemEnd) \cup MarkedUsed(0, KernelEnd)
    \cup MarkedUsed(VirtToPhys(bitmapAt), (VirtToPhys(bitmapAt) + BitmapBytes) % AddrSpace)

\* The bitmap comes from the bootstrap heap, on a page boundary.
BuildBitmap ==
  /\ stage = "pmm_map" /\ BootstrapFits(boot, BitmapBytes, PageSize)
  /\ bitmap' = BootstrapNext(boot, PageSize)
  /\ boot' = [boot EXCEPT !.current = bitmap' + BitmapBytes]
  /\ used' = (Pages \ FreedByMap) \cup ReservedAtBoot(bitmap')
  /\ stage' = "ready"
  /\ UNCHANGED <<e820, next, highest, usablePages, totalPages, call, asked, reply, held>>

\* Without room for the bitmap there is no physical memory manager.
BitmapAllocationFailed ==
  /\ stage = "pmm_map" /\ ~BootstrapFits(boot, BitmapBytes, PageSize)
  /\ stage' = "ready"
  /\ UNCHANGED <<e820, next, highest, usablePages, totalPages, boot, bitmap, used, call, asked, reply, held>>

-----------------------------------------------------------------------------
(* Calls.                                                                  *)

CanCall == stage = "ready" /\ call.op = "none"
Ask(count, limit) == asked' = [count |-> count, limit |-> limit]
Return(address) == call' = Idle /\ reply' = address /\ UNCHANGED asked

\* A caller keeps what it got until it frees it; it may pass any page-aligned
\* part of what it holds to pmm_free_contiguous.
\* Mutant: only the first page of the run is marked.
Take_FirstPageOnly(start, count) ==
  /\ used' = used \cup {start}
  /\ held' = held \cup Run(start, count)

Take(start, count) ==
  /\ used' = used \cup Run(start, count)
  /\ held' = held \cup Run(start, count)

\* Neither call scans without a bitmap, nor pmm_alloc_contiguous for no page at all.
AllocRefused(count, limit) ==
  /\ CanCall /\ (bitmap = 0 \/ count = 0)
  /\ Ask(count, limit) /\ reply' = 0
  /\ UNCHANGED <<e820, bootVars, used, call, held>>

\* pmm_alloc_contiguous takes pages anywhere in the address space.
AllocContiguous(count) ==
  /\ CanCall /\ bitmap # 0 /\ count # 0
  /\ Ask(count, AddrSpace)
  /\ call' = [Idle EXCEPT !.op = "contiguous", !.count = count, !.bound = totalPages]
  /\ UNCHANGED <<e820, bootVars, used, reply, held>>

\* Mutant: the caller's limit is forgotten.
AllocPageBelow_NoLimit(limit) ==
  /\ CanCall /\ bitmap # 0
  /\ Ask(1, limit)
  /\ call' = [Idle EXCEPT !.op = "below", !.count = 1, !.bound = totalPages]
  /\ UNCHANGED <<e820, bootVars, used, reply, held>>

\* A page below the limit is a run of one below the smaller of two bounds.
AllocPageBelow(limit) ==
  /\ CanCall /\ bitmap # 0
  /\ Ask(1, limit)
  /\ LET maxPage == limit \div PageSize IN
       call' = [Idle EXCEPT !.op = "below", !.count = 1,
                            !.bound = IF maxPage > totalPages THEN totalPages ELSE maxPage]
  /\ UNCHANGED <<e820, bootVars, used, reply, held>>

InScan == call.op # "none" /\ call.page < call.bound

ScanUsedPage_Stays ==
  /\ InScan /\ call.page \in used
  /\ call' = [call EXCEPT !.runLen = 0]
  /\ UNCHANGED <<e820, bootVars, used, asked, reply, held>>

ScanUsedPage ==
  /\ InScan /\ call.page \in used
  /\ call' = [call EXCEPT !.runLen = 0, !.page = @ + 1]
  /\ UNCHANGED <<e820, bootVars, used, asked, reply, held>>

\* Mutant: the start of the run moves with every free page.
RunStart_Moves == call.page
RunStart == IF call.runLen = 0 THEN call.page ELSE call.runStart

ScanFreePage ==
  /\ InScan /\ call.page \notin used /\ call.runLen + 1 # call.count
  /\ call' = [call EXCEPT !.runStart = RunStart, !.runLen = @ + 1, !.page = @ + 1]
  /\ UNCHANGED <<e820, bootVars, used, asked, reply, held>>

ScanCompletesRun ==
  /\ InScan /\ call.page \notin used /\ call.runLen + 1 = call.count
  /\ Take(RunStart, call.count)
  /\ Return(PageAddress(RunStart))
  /\ UNCHANGED <<e820, bootVars>>

\* Mutant: the last page before the bound is never looked at.
ScanExhausted_Early ==
  /\ call.op # "none" /\ call.page + 1 >= call.bound
  /\ Return(0)
  /\ UNCHANGED <<e820, bootVars, used, held>>

ScanExhausted ==
  /\ call.op # "none" /\ call.page >= call.bound
  /\ Return(0)
  /\ UNCHANGED <<e820, bootVars, used, held>>

ScanStep == ScanUsedPage \/ ScanFreePage \/ ScanCompletesRun \/ ScanExhausted

\* pmm_free_contiguous, after its early returns: a null or unaligned address, a
\* count of zero or a first page beyond the bitmap change nothing, and a run that
\* ends beyond the bitmap is cut there.
Freed(address, count) ==
  LET first == address \div PageSize IN
  IF \/ bitmap = 0 \/ address = 0 \/ count = 0
     \/ address % PageSize # 0 \/ first >= totalPages
  THEN {} ELSE Run(first, count) \cap Pages

\* Callers free frames they hold; the other addresses they may pass are the null
\* pointer of a failed allocation and an address inside a page, which free nothing.
FreeContiguous(address, count) ==
  /\ CanCall
  /\ Freed(address, count) \subseteq held
  /\ used' = used \ Freed(address, count)
  /\ held' = held \ Freed(address, count)
  /\ UNCHANGED <<e820, bootVars, call, asked, reply>>

Boot == MemoryInit \/ ScanEntry \/ ScanDone \/ BuildBitmap \/ BitmapAllocationFailed

Request ==
  \/ \E count \in RunLengths : AllocRefused(count, AddrSpace) \/ AllocContiguous(count)
  \/ \E limit \in Limits : AllocRefused(1, limit) \/ AllocPageBelow(limit)
  \/ \E address \in {0} \cup UNION {{PageAddress(page), PageAddress(page) + 1} : page \in held},
       count \in RunLengths : FreeContiguous(address, count)

Next == Boot \/ ScanStep \/ Request

\* The boot code and a call in progress run on the processor until they are done;
\* nothing obliges a caller to ask for anything.
Fairness == WF_vars(Boot) /\ WF_vars(ScanStep)
Spec == Init /\ [][Next]_vars /\ Fairness

-----------------------------------------------------------------------------
(* Properties.                                                             *)

Counts == RunLengths \cup {0, 1}
CallType ==
  [op : {"none", "contiguous", "below"}, count : Counts, page : Nat, runStart : Nat, runLen : Nat, bound : Nat]

\* The types of pmm.c's state and of the locals of its scans: the bitmap covers at
\* most the 32-bit address space.
TypeOK ==
  /\ e820 \in Seq(E820Entry)
  /\ stage \in Stages
  /\ next \in Nat \ {0} /\ highest \in Nat /\ usablePages \in Nat
  /\ totalPages \in Nat /\ totalPages * PageSize <= AddrSpace
  /\ boot \in BootHeap
  /\ bitmap \in Address
  /\ used \subseteq Pages
  /\ call \in CallType
  /\ asked \in [count : Nat, limit : Nat] /\ reply \in Address
  /\ held \subseteq Pages

\* The page frames that a byte range touches, and those it covers.
Touched(lo, hi) == {page \in Pages : PageAddress(page) < hi /\ lo < PageAddress(page) + PageSize}
Covered(lo, hi) == {page \in Pages : lo <= PageAddress(page) /\ PageAddress(page) + PageSize <= hi}

Reserved ==
  Touched(0, LowMemEnd) \cup Touched(0, KernelEnd)
    \cup Touched(VirtToPhys(bitmap), VirtToPhys(bitmap) + BitmapBytes)

MapSane ==
  /\ \A i, j \in DOMAIN e820 :
       i # j => RegionEnd(e820[i]) <= e820[j].base \/ RegionEnd(e820[j]) <= e820[i].base
  /\ \A i \in DOMAIN e820 : e820[i].usable => e820[i].base + PageSize <= AddrSpace

\* Once there is a bitmap, no frame with a byte of the firmware's low memory, of the
\* kernel image or of the bitmap itself is ever free or in a caller's hands: handing
\* one out would let a page table or the heap overwrite the running kernel
\* (pmm.c:139-145).
ReservedNeverFree == bitmap # 0 => Reserved \subseteq used /\ Reserved \cap held = {}

\* Every frame the manager may hand out is whole usable RAM: a frame that a region
\* only touches, or that another type of region overlaps, is not in the pool, when
\* the firmware's regions do not overlap.
FreeIsRam ==
  MapSane =>
    \A page \in Free \cup held : 
      \E i \in DOMAIN e820 :
        e820[i].usable /\ page \in Covered(e820[i].base, RegionEnd(e820[i]))

\* No RAM is lost: a frame that a usable region covers is in the pool, reserved or in
\* use, unless the region reaches 4 GiB, where the end of the region is cut to 0.
RamIsPooled ==
  stage = "ready" /\ bitmap # 0 =>
    \A i \in DOMAIN e820 :
      e820[i].usable /\ RegionEnd(e820[i]) < AddrSpace =>
        Covered(e820[i].base, RegionEnd(e820[i])) \subseteq Free \cup Reserved \cup held

\* The pool is the RAM that the firmware reports, no more of it and no less, in whole
\* frames, also where regions touch a frame or each other (pmm.c:48-62, 88-96, 124-137).
PoolIsRam == FreeIsRam /\ RamIsPooled

\* A frame is free or held and never both, whatever the order of the calls: the
\* manager never hands out a frame that is still in use (pmm.c:157-170, 227-229).
HeldIsUsed == held \cap Free = {}

\* pmm_get_used_pages: usable minus free pages is the number of usable pages in use
\* (so the fallback of pmm.c:264-268 is never taken) on a sane map.
UsedAccounting ==
  stage = "ready" /\ bitmap # 0 /\ MapSane =>
    /\ usablePages >= Cardinality(Free)
    /\ usablePages - Cardinality(Free) = Cardinality(FreedByMap \cap used)

\* What a scan knows: it looks for what was asked, in the pages below the limit that
\* was asked for; its run ends just before the page it looks at, is free and is still
\* too short, and no earlier run would have done (pmm.c:153-174, 184-194).
ScanSound ==
  call.op # "none" =>
    /\ bitmap # 0 /\ stage = "ready"
    /\ call.count = asked.count
    /\ \A page \in Pages : page < call.bound <=> PageAddress(page + 1) <= asked.limit
    /\ call.count > 0 /\ call.runLen < call.count
    /\ call.page <= call.bound /\ call.bound <= totalPages
    /\ call.runLen <= call.page
    /\ call.runLen > 0 => call.runStart = call.page - call.runLen
    /\ Run(call.page - call.runLen, call.runLen) \subseteq Free
    /\ \A start \in Pages :
         start < call.page - call.runLen => ~(Run(start, call.count) \subseteq Free)

\* What boot leaves behind: the bootstrap heap and the bitmap cut from it lie behind
\* the kernel inside the early direct map, and before the bitmap is in place nothing
\* is tracked and nobody calls.
BootSound ==
  /\ stage # "memory_init" =>
       VirtBase + KernelEnd <= boot.current /\ boot.limit <= VirtBase + EarlyLimit
  /\ bitmap # 0 =>
       /\ stage = "ready"
       /\ VirtBase + KernelEnd <= bitmap /\ bitmap + BitmapBytes <= VirtBase + EarlyLimit
  /\ bitmap = 0 => used = {} /\ held = {} /\ call = Idle

CallsSound == TypeOK /\ BootSound /\ ReservedNeverFree /\ held \subseteq used /\ ScanSound

\* The whole page frames of a region, however many of them the bitmap will cover.
WholePages(e) ==
  IF Considered(e) THEN (AlignUp(e.base, PageSize) \div PageSize) .. (AlignDown(End32(e), PageSize) \div PageSize - 1)
  ELSE {}

\* What pmm_init's scan of the map has found, and what the calls leave of the pool it
\* builds: a frame is free or held exactly if the map freed it and boot reserved no part
\* of it.
PoolSound ==
  /\ next <= Len(e820) + 1
  /\ \A i \in 1 .. (next - 1) : RegionEnd(e820[i]) <= highest
  /\ MapSane => usablePages = Cardinality(UNION {WholePages(e820[i]) : i \in 1 .. (next - 1)})
  /\ stage \in {"pmm_map", "ready"} =>
       next = Len(e820) + 1 /\ totalPages = (IF highest > AddrSpace THEN AddrSpace ELSE highest) \div PageSize
  /\ bitmap # 0 => Free \cup held = FreedByMap \ ReservedAtBoot(bitmap)

\* The inductive invariant behind the theorems of PmmProofs.
Inductive == CallsSound /\ PoolSound

\* Booting ends, with a bitmap or without one, and every call returns: the scans of the
\* memory map and of the bitmap end (pmm.c:76, 107-118, 156, 189).
CallsReturn == <>(stage = "ready") /\ (call.op # "none" ~> call.op = "none")

\* The manager keeps the promises of FramePool: each request is answered with the
\* lowest free run of its own length below its own limit, and with null only when no
\* run fits that very request (pmm.c:148-201).
Pool == INSTANCE FramePool WITH
  Frames <- 0 .. (AddrSpace \div PageSize - 1),
  FrameSize <- PageSize,
  Requests <- [count : RunLengths, limit : {AddrSpace}] \cup [count : {1}, limit : Limits],
  open <- stage = "ready",
  free <- Free,
  request <- asked,
  waiting <- call.op # "none",
  answer <- IF call.op # "none" \/ reply = 0 THEN [start |-> 0, count |-> 0]
            ELSE [start |-> reply \div PageSize, count |-> asked.count]

\* The refinement, under the mapping above.
ImplementsFramePool == Pool!Spec
=============================================================================
