----------------------------- MODULE KernelHeap -----------------------------
(***************************************************************************)
(* memory.c on top of paging.c and pmm.c, from memory_enable_pmm_backend   *)
(* on: the heap that grows page by page, and the shell commands that take  *)
(* memory, alloc, memcpy, memset and maptest.  Addresses and sizes are in units, pages *)
(* are numbered.  heap_grow takes one step per page it maps, since each    *)
(* may fail in the middle of the growth; everything else a call does       *)
(* between two growths is one step.                                        *)
(***************************************************************************)
EXTENDS MemoryLayout, PageTables, SequencesExt, FiniteSetsExt

CONSTANTS
  HeaderSize,     \* sizeof(heap_block_t), 12
  MinSplit,       \* MEMORY_MIN_SPLIT, 16
  GrowPages,      \* MEMORY_HEAP_GROW_PAGES, 4
  HeapStart,      \* the page of KERNEL_HEAP_START
  HeapEnd,        \* the page of KERNEL_HEAP_END
  TestPage,       \* the page of 0xC0400000, maptest's
  Memories,       \* what pmm_init may leave: records [free, boot]
  Sizes,          \* the sizes callers ask for
  TestSize        \* the size of the buffers of memcpy and memset, 16

ASSUME HeapAssumption ==
  /\ HeaderSize \in Nat \ {0} /\ MinSplit \in Nat /\ GrowPages \in Nat \ {0}
  /\ HeapStart \in Page /\ HeapEnd \in Page /\ HeapStart + GrowPages <= HeapEnd
  /\ HeapStart = DirOf(HeapStart) * TableEntries /\ TestPage = (KernelDir + 1) * TableEntries
  /\ TestPage \in Page /\ TestPage \notin HeapStart .. HeapEnd
  /\ \A page \in (HeapStart .. HeapEnd) \cup {TestPage} : DirOf(page) \notin {0, KernelDir}
  /\ AddrSpace = DirEntries * TableEntries * PageSize
  /\ AddrSpace = (AddrSpace \div HeapAlign) * HeapAlign
  \* A region holds more than a header: heap_add_region turns none down.
  /\ HeaderSize < GrowPages * PageSize
  \* The heap lies behind the early direct map.
  /\ VirtBase + EarlyLimit <= HeapStart * PageSize
  /\ Sizes \subseteq 0 .. (AddrSpace - 1) /\ TestSize \in Sizes \ {0}
  /\ TestSize + HeapAlign + HeaderSize + PageSize <= AddrSpace
ASSUME MemoriesAssumption ==
  \A left \in Memories :
    /\ left.free \subseteq Frames \ {BootTable}
    \* memory_init places the bootstrap heap between the kernel and EarlyLimit.
    /\ left.boot \in BootHeap
    /\ VirtBase + KernelEnd <= left.boot.current /\ left.boot.limit <= VirtBase + EarlyLimit

VARIABLES
  stage,      \* kmain: "boot" before memory_enable_pmm_backend, "running" after
  memory,     \* what pmm_init left
  free,       \* the frames free in pmm.c's bitmap
  pd, pt,     \* the page tables
  boot,       \* the bootstrap heap
  backend,    \* memory_pmm_backend_enabled
  heapPage,   \* heap_virtual_current, as a page number
  blocks,     \* the list at heap_head: records [at, size, free]
  call,       \* the call in progress and its local variables
  answer,     \* the last answer of kmalloc
  buffers,    \* memcpy's and memset's: how many they take, and those they have
  handed,     \* the blocks handed out, with the sizes asked for
  dropped,    \* frames whose page was mapped again: nothing refers to them
  cpu         \* "runs", "halted" by a page fault, "strayed" into a wrong frame

heapVars == <<boot, backend, heapPage, blocks>>
results == <<answer, handed, buffers>>
vars == <<stage, memory, free, pd, pt, heapVars, call, results, dropped, cpu>>

Idle == [pc |-> "idle", op |-> "none", asked |-> 0, size |-> 0, pages |-> 0, done |-> 0]
NoAnswer == [at |-> 0, size |-> 0]
NoBuffers == [wanted |-> 0, got |-> <<>>]
Mapping(page) == Walk(pd, pt, page)

Init ==
  /\ stage = "boot"
  /\ memory \in Memories
  /\ free = memory.free /\ boot = memory.boot
  /\ pd = [BootDirectory EXCEPT ![0] = NoFrame] /\ pt = BootTables
  /\ backend = FALSE /\ heapPage = HeapStart /\ blocks = <<>>
  /\ call = Idle /\ answer = NoAnswer
  /\ buffers = NoBuffers /\ handed = {} /\ dropped = {}
  /\ cpu = "runs"

-----------------------------------------------------------------------------
(* paging_map_page as heap_grow and maptest use it: the caller has just     *)
(* taken a frame and passes it with the pool that is left.                  *)

SetEntry(directory, tables, page, frame) ==
  /\ pd' = directory
  /\ pt' = WithEntry(tables, directory[DirOf(page)], SlotOf(page), frame)
  /\ dropped' = dropped \cup ({Mapping(page)} \ {NoFrame})

Stop(access) ==
  /\ cpu' = IF access = "faults" THEN "halted" ELSE "strayed"
  /\ UNCHANGED <<pd, pt, dropped, heapVars, call, results>>

\* The table is there, or one more frame becomes the table.
MapsInTable(page, frame, pool) ==
  /\ pd[DirOf(page)] # NoFrame /\ Access(pd, pt, pd[DirOf(page)]) = "arrives"
  /\ SetEntry(pd, pt, page, frame)
  /\ free' = pool
\* Mutant: the highest frame becomes the table.
MapsInNewTable_Highest(page, frame, pool) ==
  /\ pd[DirOf(page)] = NoFrame /\ pool # {}
  /\ LET table == CHOOSE f \in pool : \A g \in pool : g <= f IN
     /\ SetEntry([pd EXCEPT ![DirOf(page)] = table], WithTable(pt, table), page, frame)
     /\ free' = pool \ {table}
MapsInNewTable(page, frame, pool) ==
  /\ pd[DirOf(page)] = NoFrame /\ pool # {}
  /\ LET table == Min(pool) IN
     /\ Access(pd, pt, table) = "arrives"
     /\ SetEntry([pd EXCEPT ![DirOf(page)] = table], WithTable(pt, table), page, frame)
     /\ free' = pool \ {table}
Maps(page, frame, pool) == MapsInTable(page, frame, pool) \/ MapsInNewTable(page, frame, pool)

\* The table cannot be reached through the direct map.
MapStops(page, pool) ==
  LET table == IF pd[DirOf(page)] = NoFrame THEN Min(pool) ELSE pd[DirOf(page)] IN
  /\ pd[DirOf(page)] = NoFrame => pool # {}
  /\ Access(pd, pt, table) # "arrives"
  /\ Stop(Access(pd, pt, table))
  /\ free' = pool \ {table}

NoTableFor(page, pool) == pd[DirOf(page)] = NoFrame /\ pool = {}

-----------------------------------------------------------------------------
(* The block list.                                                          *)

\* Mutant: the free flag is not looked at.
Fitting_IgnoresUse(size) == {i \in DOMAIN blocks : blocks[i].size >= size}
Fitting(size) == {i \in DOMAIN blocks : blocks[i].free /\ blocks[i].size >= size}

\* Mutant: the new header starts inside the block that is handed out.
Pieces_HeaderInside(b, size) ==
  LET taken == AlignUp(size, HeapAlign) IN
  IF b.size <= taken + HeaderSize + MinSplit THEN <<[b EXCEPT !.free = FALSE]>>
  ELSE <<[at |-> b.at, size |-> taken, free |-> FALSE],
         [at |-> b.at + taken, size |-> b.size - taken, free |-> TRUE]>>
\* Mutant: every block is split, however small the rest.
Pieces_Always(b, size) ==
  LET taken == AlignUp(size, HeapAlign) IN
  <<[at |-> b.at, size |-> taken, free |-> FALSE],
    [at |-> b.at + HeaderSize + taken, size |-> b.size - taken - HeaderSize, free |-> TRUE]>>

\* heap_split_block and the mark as used: one block, or two.
Pieces(b, size) ==
  IF b.size <= AlignUp(size, HeapAlign) + HeaderSize + MinSplit
  THEN <<[b EXCEPT !.free = FALSE]>>
  ELSE LET taken == AlignUp(size, HeapAlign) IN
       <<[at |-> b.at, size |-> taken, free |-> FALSE],
         [at |-> b.at + HeaderSize + taken, size |-> b.size - taken - HeaderSize, free |-> TRUE]>>

Replaced(i, pieces) == SubSeq(blocks, 1, i - 1) \o pieces \o SubSeq(blocks, i + 1, Len(blocks))

\* kmalloc returns; memcpy or memset keeps the pointer, and does not look at it.
Returns(at, asked) ==
  /\ answer' = [at |-> at, size |-> asked]
  /\ buffers' = IF buffers.wanted = 0 THEN buffers ELSE [buffers EXCEPT !.got = Append(@, at)]

Hand(at, asked) == Returns(at, asked) /\ handed' = handed \cup {[at |-> at, size |-> asked]}
Refuse(asked) == Returns(0, asked) /\ UNCHANGED handed

\* heap_find_free_block takes the first block of the list that is large enough.
TakeBlock(size, asked) ==
  LET i == Min(Fitting(size)) IN
  /\ Fitting(size) # {}
  /\ blocks' = Replaced(i, Pieces(blocks[i], size))
  /\ Hand(blocks[i].at + HeaderSize, asked)

-----------------------------------------------------------------------------
(* heap_grow.                                                               *)

\* Mutant: the header is left out of what must fit.
PagesNeeded_NoHeader(size) ==
  LET pages == ((size + PageSize - 1) % AddrSpace) \div PageSize
  IN  IF pages < GrowPages THEN GrowPages ELSE pages

PagesNeeded(size) ==
  LET bytes == (size + HeaderSize) % AddrSpace
      pages == ((bytes + PageSize - 1) % AddrSpace) \div PageSize
  IN  IF pages < GrowPages THEN GrowPages ELSE pages

StartGrow(op, asked, size) ==
  call' = [pc |-> "grow", op |-> op, asked |-> asked, size |-> size,
           pages |-> PagesNeeded(size), done |-> 0]

HeapHasRoom(size) == heapPage + PagesNeeded(size) <= HeapEnd

\* A growth that fails ends the call: kmalloc returns null, and without a first
\* region the kernel keeps the bootstrap heap.
GrowFails ==
  /\ call' = Idle
  /\ IF call.op = "enable" THEN stage' = "running" /\ UNCHANGED results
     ELSE Refuse(call.asked) /\ UNCHANGED stage
  /\ UNCHANGED <<memory, pd, pt, heapVars, dropped, cpu>>

Growing == cpu = "runs" /\ call.pc = "grow" /\ call.done < call.pages
NextPage == heapPage + call.done

\* Mutant: the allocation is tried until there is a frame.
GrowOutOfFrames_Waits == Growing /\ free = {} /\ UNCHANGED vars

GrowOutOfFrames == Growing /\ free = {} /\ GrowFails /\ UNCHANGED free

\* Mutant: the page just taken is not given back.
GrowWithoutTable_KeepsPage ==
  /\ Growing /\ free # {}
  /\ NoTableFor(NextPage, free \ {Min(free)})
  /\ GrowFails /\ free' = free \ {Min(free)}

\* The page just taken goes back; the pages mapped before it stay mapped and taken.
GrowWithoutTable ==
  /\ Growing /\ free # {}
  /\ NoTableFor(NextPage, free \ {Min(free)})
  /\ GrowFails /\ UNCHANGED free

\* Mutant: virt does not move on.
GrowMapsPage_SamePage ==
  /\ Growing /\ free # {}
  /\ Maps(heapPage, Min(free), free \ {Min(free)})
  /\ call' = [call EXCEPT !.done = @ + 1]
  /\ UNCHANGED <<stage, memory, heapVars, results, cpu>>
GrowMapsPage ==
  /\ Growing /\ free # {}
  /\ Maps(NextPage, Min(free), free \ {Min(free)})
  /\ call' = [call EXCEPT !.done = @ + 1]
  /\ UNCHANGED <<stage, memory, heapVars, results, cpu>>

GrowStops ==
  /\ Growing /\ free # {}
  /\ MapStops(NextPage, free \ {Min(free)})
  /\ UNCHANGED <<stage, memory>>

\* All pages are mapped: heap_add_region appends one free block. kmalloc looks
\* for a block again, memory_enable_pmm_backend is done.
GrowDone ==
  /\ cpu = "runs" /\ call.pc = "grow" /\ call.done = call.pages
  /\ heapPage' = heapPage + call.pages
  /\ blocks' = Append(blocks, [at |-> heapPage * PageSize,
                               size |-> call.pages * PageSize - HeaderSize, free |-> TRUE])
  /\ IF call.op = "enable" THEN stage' = "running" /\ backend' = TRUE /\ call' = Idle
     ELSE call' = [call EXCEPT !.pc = "retry"] /\ UNCHANGED <<stage, backend>>
  /\ UNCHANGED <<memory, free, pd, pt, boot, results, dropped, cpu>>

-----------------------------------------------------------------------------
(* Calls.                                                                   *)

BetweenCalls == cpu = "runs" /\ call.pc = "idle"
CanCall == BetweenCalls /\ buffers.wanted = 0

EnableBackend ==
  /\ CanCall /\ stage = "boot"
  /\ StartGrow("enable", 0, 1)
  /\ UNCHANGED <<stage, memory, free, pd, pt, heapVars, results, dropped, cpu>>

\* cmd_alloc asks for any size, memcpy and memset for their buffers one after the other.
NeedsBuffer == Len(buffers.got) < buffers.wanted
Asks(asked) ==
  /\ BetweenCalls /\ stage = "running"
  /\ IF buffers.wanted = 0 THEN asked \in Sizes ELSE NeedsBuffer /\ asked = TestSize
\* Mutant: the size is rounded down.
Rounded_Down(asked) == AlignDown(asked, HeapAlign)

Rounded(asked) == AlignUp(asked, HeapAlign)

KmallocNothing(asked) ==
  /\ Asks(asked) /\ asked = 0
  /\ Refuse(asked)
  /\ UNCHANGED <<stage, memory, free, pd, pt, heapVars, call, dropped, cpu>>

KmallocBootstrap(asked) ==
  /\ Asks(asked) /\ asked # 0 /\ ~backend
  /\ IF BootstrapFits(boot, Rounded(asked), HeapAlign)
     THEN LET at == BootstrapNext(boot, HeapAlign) IN
          Hand(at, asked) /\ boot' = [boot EXCEPT !.current = at + Rounded(asked)]
     ELSE Refuse(asked) /\ UNCHANGED boot
  /\ UNCHANGED <<stage, memory, free, pd, pt, backend, heapPage, blocks, call, dropped, cpu>>

KmallocFinds(asked) ==
  /\ Asks(asked) /\ asked # 0 /\ backend
  /\ TakeBlock(Rounded(asked), asked)
  /\ UNCHANGED <<stage, memory, free, pd, pt, boot, backend, heapPage, call, dropped, cpu>>

KmallocGrows(asked) ==
  /\ Asks(asked) /\ asked # 0 /\ backend /\ Fitting(Rounded(asked)) = {}
  /\ IF HeapHasRoom(Rounded(asked))
     THEN StartGrow("kmalloc", asked, Rounded(asked)) /\ UNCHANGED results
     ELSE Refuse(asked) /\ UNCHANGED call
  /\ UNCHANGED <<stage, memory, free, pd, pt, heapVars, dropped, cpu>>

\* After the growth the list is searched once more.
KmallocRetries ==
  /\ cpu = "runs" /\ call.pc = "retry"
  /\ IF Fitting(call.size) # {} THEN TakeBlock(call.size, call.asked)
     ELSE Refuse(call.asked) /\ UNCHANGED blocks
  /\ call' = Idle
  /\ UNCHANGED <<stage, memory, free, pd, pt, boot, backend, heapPage, dropped, cpu>>

\* cmd_maptest: paging_alloc_page at the test page; the command writes to the page
\* whether or not that succeeded.
CanTest == CanCall /\ stage = "running"

MapTestMaps ==
  /\ CanTest /\ free # {}
  /\ Maps(TestPage, Min(free), free \ {Min(free)})
  /\ UNCHANGED <<stage, memory, heapVars, call, results, cpu>>

MapTestStops ==
  /\ CanTest /\ free # {}
  /\ MapStops(TestPage, free \ {Min(free)})
  /\ UNCHANGED <<stage, memory>>

MapTestFails ==
  /\ CanTest
  /\ free # {} => NoTableFor(TestPage, free \ {Min(free)})
  /\ cpu' = IF Mapping(TestPage) = NoFrame THEN "halted" ELSE "runs"
  /\ UNCHANGED <<stage, memory, free, pd, pt, heapVars, call, results, dropped>>

\* cmd_memcpy takes two buffers, cmd_memset one.
TestCopy ==
  /\ CanCall /\ stage = "running"
  /\ \E wanted \in {1, 2} : buffers' = [wanted |-> wanted, got |-> <<>>]
  /\ UNCHANGED <<stage, memory, free, pd, pt, heapVars, call, answer, handed, dropped, cpu>>

\* Both write to what kmalloc returned: null is in no mapped page.
TestWrites ==
  /\ BetweenCalls /\ buffers.wanted > 0 /\ ~NeedsBuffer
  /\ cpu' = IF \E i \in DOMAIN buffers.got : buffers.got[i] = 0 THEN "halted" ELSE "runs"
  /\ buffers' = NoBuffers
  /\ UNCHANGED <<stage, memory, free, pd, pt, heapVars, call, answer, handed, dropped>>

MapTest == MapTestMaps \/ MapTestStops \/ MapTestFails

GrowStep == GrowOutOfFrames \/ GrowWithoutTable \/ GrowMapsPage \/ GrowStops \/ GrowDone
Kmalloc(asked) ==
  KmallocNothing(asked) \/ KmallocBootstrap(asked) \/ KmallocFinds(asked) \/ KmallocGrows(asked)

\* What a command does once it runs, up to its end.
Proceeds == GrowStep \/ KmallocRetries \/ (NeedsBuffer /\ Kmalloc(TestSize)) \/ TestWrites

Next ==
  \/ EnableBackend \/ GrowStep \/ KmallocRetries \/ MapTest \/ TestCopy \/ TestWrites
  \/ \E asked \in Sizes : Kmalloc(asked)

\* A command that was started runs to its end.
Spec == Init /\ [][Next]_vars /\ WF_vars(Proceeds)

-----------------------------------------------------------------------------
(* Properties.                                                              *)

ReservedFrames == Frames \ memory.free
HeapPages == HeapStart .. (heapPage - 1)
ClientPages == (HeapStart .. (HeapEnd - 1)) \cup {TestPage}
MappedFrames == {Mapping(page) : page \in ClientPages} \ {NoFrame}
Units == 0 .. (AddrSpace - 1)

\* The types of the heap's state, the frame pool and the page tables below it.
TypeOK ==
  /\ stage \in {"boot", "running"}
  /\ memory \in Memories
  /\ free \subseteq memory.free /\ dropped \subseteq memory.free
  /\ pd \in [Dirs -> Entry] /\ Tables(pd) \subseteq DOMAIN pt
  /\ \A t \in DOMAIN pt : pt[t] \in [Slots -> Entry]
  /\ boot \in BootHeap /\ backend \in BOOLEAN
  /\ heapPage \in HeapStart .. HeapEnd
  /\ blocks \in Seq([at : Units, size : Units, free : BOOLEAN])
  /\ call \in [pc : {"idle", "grow", "retry"}, op : {"none", "enable", "kmalloc"},
               asked : Units, size : Units, pages : Nat, done : Nat]
  /\ answer \in [at : Units, size : Units]
  /\ handed \subseteq [at : Units, size : Units]
  /\ buffers \in [wanted : 0 .. 2, got : Seq(Units)] /\ Len(buffers.got) <= buffers.wanted
  /\ cpu \in {"runs", "halted", "strayed"}

\* Every page of the committed heap has a frame of its own, which is neither free nor
\* a page table nor the test page's nor what pmm_init reserved: two blocks never share
\* memory because their pages do, also after a growth that failed half-way was
\* repeated over the same pages (memory.c:198-214).
HeapBacked ==
  /\ \A page \in HeapPages :
       /\ Mapping(page) \in memory.free \ (free \cup Tables(pd) \cup dropped)
       /\ Mapping(page) # Mapping(TestPage)
  /\ \A page, other \in HeapPages : Mapping(page) = Mapping(other) => page = other

BlockEnd(b) == b.at + HeaderSize + b.size

\* The list of blocks tiles the committed heap in address order.
BlocksTile ==
  IF blocks = <<>> THEN heapPage = HeapStart
  ELSE /\ blocks[1].at = HeapStart * PageSize
       /\ BlockEnd(blocks[Len(blocks)]) = heapPage * PageSize
       /\ \A i \in 1 .. (Len(blocks) - 1) : BlockEnd(blocks[i]) = blocks[i + 1].at

\* The sizes so close to the top of the 32-bit range that rounding them up gives 0.
RoundsToZero(asked) == asked + HeapAlign > AddrSpace

\* A block that is handed out is in use and at least as large as the caller asked for,
\* unless the size, rounded up in 32 bits, became 0.
BigEnough ==
  \A given \in handed :
    backend /\ ~RoundsToZero(given.size) =>
               \E i \in DOMAIN blocks :
                 /\ ~blocks[i].free
                 /\ blocks[i].at + HeaderSize = given.at
                 /\ blocks[i].size >= given.size

\* memory_get_heap_committed_bytes, _used_bytes and _free_bytes, which cmd_heap shows.
HeapCommitted == (heapPage - HeapStart) * PageSize
Counted(b, isFree) == IF b.free = isFree THEN b.size ELSE 0
Bytes(isFree) ==
  LET sum[n \in 0 .. Len(blocks)] == IF n = 0 THEN 0 ELSE sum[n - 1] + Counted(blocks[n], isFree)
  IN  sum[Len(blocks)]

\* The list of blocks tiles the committed heap in address order, without gap or overlap,
\* across splits and growths: a block's header follows the bytes of the block before it.
\* What is handed out is a block of that list, in use and large enough; the bytes that
\* the heap command shows as used and as free make up the committed ones but for the
\* headers (memory.c:114-171, 262-290, 363-407).
BlocksSound ==
  /\ BlocksTile /\ BigEnough
  /\ Bytes(TRUE) + Bytes(FALSE) + HeaderSize * Len(blocks) = HeapCommitted

\* No block is ever moved, resized or given back once it is in use, whatever is split,
\* grown or refused around it (memory.c:151-171, 286-287).
BlocksInUseStay ==
  [][\A i \in DOMAIN blocks :
       ~blocks[i].free => \E j \in DOMAIN blocks' : blocks'[j] = blocks[i]]_vars

\* Every frame is somewhere: free, reserved, a page table, mapped, or dropped because
\* its page was mapped again.  A frame taken for a page that could not be mapped goes
\* back to the pool (memory.c:205-208, paging.c:138-141).
FramesAccounted ==
  cpu = "runs" =>
    Frames = free \cup ReservedFrames \cup Tables(pd) \cup MappedFrames \cup dropped

\* kmalloc refuses a size only when physical memory or heap addresses run out: at most
\* one frame is left, or the growth would pass KERNEL_HEAP_END, or a size near the top
\* of the 32-bit range wrapped (memory.c:185-209, 275-284).
RefusedOnlyWhenExhausted ==
  [][\A asked \in Sizes :
       backend /\ answer' # answer /\ answer' = [at |-> 0, size |-> asked] /\ asked # 0 =>
         \/ Cardinality(free) <= 1
         \/ heapPage + PagesNeeded(Rounded(asked)) > HeapEnd
         \/ Rounded(asked) + HeaderSize + PageSize > AddrSpace]_vars

\* The kernel stops, at a table it cannot reach, only when the frames it can use as page
\* tables are all but gone, or when memcpy or memset write to their buffers without one
\* more page of heap to be had.  The access faults before it overwrites anything, unless
\* memory reaches so far behind the direct map that PHYS_TO_VIRT leads into the heap; it
\* never leads to maptest's page, although that is the first page behind the direct map
\* (paging.c:44-52, 89; shell_commands.c:576-598, 699-707).
Exhausted ==
  \/ Cardinality(free \cap Slots) <= 1
  \/ heapPage + PagesNeeded(Rounded(TestSize)) > HeapEnd
StopsOnlyWhenExhausted ==
  /\ cpu # "runs" => Exhausted
  /\ cpu = "strayed" => \E frame \in memory.free : PhysToVirtPage(frame) \in HeapStart .. (HeapEnd - 1)

\* A command that takes memory comes to its end: the growth of the heap does, whatever
\* becomes of its pages, and so does the search after it, or the kernel has stopped
\* (memory.c:198-211, 273-284).
CommandsFinish ==
  ~CanCall ~> (CanCall \/ cpu # "runs")

\* What a request counts for: a size that rounds to 0 counts for nothing.
Promised(asked) == IF RoundsToZero(asked) THEN 0 ELSE asked
\* Memory for callers lies behind the kernel image and before KERNEL_HEAP_END.
Heap == INSTANCE HeapSpec WITH
  Addresses <- PhysToVirt(KernelEnd) .. (HeapEnd * PageSize - 1),
  Sizes <- Sizes \cup {0},
  handed <- {[given EXCEPT !.size = Promised(@)] : given \in handed},
  answer <- [answer EXCEPT !.size = Promised(@)]

\* kmalloc keeps the promise of HeapSpec: the bytes promised lie in the block the caller
\* gets and in no block handed out before; a request that wraps takes nothing from the
\* others (memory.c:262-290).
ImplementsHeapSpec == Heap!Spec

\* memory.c:255 "Keeping bootstrap heap": what the bootstrap heap hands out after that
\* is its own memory, not also a page table's.
BootstrapHeapKept ==
  ~backend =>
    \A given \in handed, table \in Tables(pd) :
      \/ given.at + given.size <= PhysToVirt(table * PageSize)
      \/ PhysToVirt(table * PageSize) + PageSize <= given.at

-----------------------------------------------------------------------------
(* The inductive invariant behind the theorems of KernelHeapProofs.         *)

\* Every table lies in the direct map, serves one directory entry and is in no other
\* use; the direct map stays as stage 2 left it.
PagingSound ==
  /\ DOMAIN pt \subseteq Frames
  /\ pd[0] = NoFrame /\ pd[KernelDir] = BootTable /\ pt[BootTable] = [s \in Slots |-> s]
  /\ Tables(pd) \subseteq (Slots \cap (memory.free \cup {BootTable})) \ (free \cup dropped)
  /\ \A d, e \in Dirs : pd[d] = pd[e] /\ pd[d] # NoFrame => d = e

\* A frame behind a page outside the direct map is in no other use, behind no other such
\* page, and lower than the free frames; only the heap and maptest have such pages.
MappedPages == {page \in Page : DirOf(page) # KernelDir /\ Mapping(page) # NoFrame}
PagesOwned ==
  /\ \A page \in MappedPages :
       Mapping(page) \in memory.free \ (free \cup Tables(pd) \cup dropped)
  /\ \A page, other \in MappedPages : Mapping(page) = Mapping(other) => page = other
  /\ \A page \in MappedPages, frame \in free : Mapping(page) < frame
  /\ MappedPages \subseteq ClientPages /\ (stage = "boot" => TestPage \notin MappedPages)
  /\ dropped \cap free = {}

\* The pages of the heap are mapped, and those a growth has done.
MappedEnd == IF call.pc = "grow" THEN heapPage + call.done ELSE heapPage
PagesMapped == \A page \in HeapStart .. (MappedEnd - 1) : Mapping(page) # NoFrame

\* What a call in progress remembers, and what the kernel has before the first growth.
CallSound ==
  /\ call.pc = "idle" => call = Idle
  /\ call.pc # "idle" => call.op \in {"enable", "kmalloc"}
  /\ call.pc = "retry" => call.op = "kmalloc"
  /\ call.pc = "grow" => /\ call.pages = PagesNeeded(call.size) /\ call.done <= call.pages
                         /\ heapPage + call.pages <= HeapEnd
  /\ call.op = "enable" => stage = "boot"
  /\ call.op = "kmalloc" =>
       /\ stage = "running" /\ backend
       /\ call.asked \in Sizes \ {0} /\ call.size = Rounded(call.asked)
       /\ buffers.wanted # 0 => NeedsBuffer /\ call.asked = TestSize
  /\ stage = "boot" => ~backend /\ handed = {} /\ buffers = NoBuffers
  /\ ~backend => blocks = <<>> /\ heapPage = HeapStart
  /\ backend => HeapStart < heapPage

\* A block ends where a later one of the list begins, or before.
BlocksApart == \A i, j \in DOMAIN blocks : i < j => BlockEnd(blocks[i]) <= blocks[j].at

\* A free block is not empty: the rest of a split holds more than MEMORY_MIN_SPLIT.
FreeBlocksHold == \A i \in DOMAIN blocks : blocks[i].free => blocks[i].size > 0

\* What is handed out is a block in use, or lies in the part of the bootstrap heap that
\* is used up.
HandedFromBlocks ==
  \A given \in handed : \E i \in DOMAIN blocks :
    /\ ~blocks[i].free /\ blocks[i].at + HeaderSize = given.at
    /\ Promised(given.size) <= blocks[i].size
HandedFromBootstrap ==
  /\ VirtBase + KernelEnd <= boot.current /\ boot.limit <= VirtBase + EarlyLimit
  /\ \A given \in handed :
       /\ VirtBase + KernelEnd <= given.at
       /\ given.at + given.size <= boot.current /\ given.at + given.size <= boot.limit
HandedSound == IF backend THEN HandedFromBlocks ELSE HandedFromBootstrap

\* A growth adds a block that is large enough, unless the size wraps.
RetryFinds ==
  call.pc = "retry" =>
    \/ Fitting(call.size) # {}
    \/ Rounded(call.asked) + HeaderSize + PageSize > AddrSpace

\* What cannot be had, or stops the kernel, is for want of frames or of heap addresses.
WantSound ==
  /\ StopsOnlyWhenExhausted
  /\ stage = "running" /\ ~backend => Exhausted
  /\ (\E i \in DOMAIN buffers.got : buffers.got[i] = 0) => Exhausted

Inductive ==
  /\ TypeOK /\ PagingSound /\ PagesOwned /\ PagesMapped /\ CallSound
  /\ BlocksTile /\ BlocksApart /\ FreeBlocksHold /\ HandedSound
  /\ FramesAccounted /\ RetryFinds /\ WantSound
=============================================================================
