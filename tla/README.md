# A verification model of Frewozet

Frewozet is a small 32-bit x86 kernel: two boot stages, a higher-half kernel with paging, a physical frame
allocator, a heap, interrupts, and a shell. This directory holds TLA+ models of its parts, TLC configurations that
check them on small instances, and TLAPS proofs about the frame allocator, the page tables, the heap, the start of the
shell, the line editor, the boot stages, and what happens to a line that is entered, for instances of every size. Paths below are relative to `src/`.

## 1. Inventory

| Component | State | Operations | Talks to |
|---|---|---|---|
| Boot sector `boot.asm`, second stage `loader2.asm` | sectors left, cylinder/head/sector, `bx`, the memory map at 0x500, page tables at 0x9000/0xA000 | read sectors, collect E820, copy the kernel to 1 MiB, enable paging | BIOS; leaves map and tables to the kernel |
| Memory map access `ram_mapper.c` | none of its own | read the map | read by `memory.c`, `pmm.c` |
| Physical memory manager `pmm.c` | bitmap, page counts | `pmm_init`, `pmm_alloc_contiguous`, `pmm_alloc_page_below`, `pmm_free_contiguous`, counts | bitmap from the bootstrap heap; called by paging and heap |
| Paging `paging.c` | page directory and tables in physical memory; the processor's TLB | remove identity map, map, unmap, translate, allocate-and-map | takes tables from the frame allocator, reaches them through the direct map |
| Heap `memory.c` | bootstrap bump pointer; block list, `heap_virtual_current`, backend flag | `memory_init`, `bootstrap_alloc_aligned`, `heap_grow`, `kmalloc`, `kmalloc_aligned`, `kcalloc` | frames, paging; called by command table, shell, `pmm_init` |
| Terminal `terminal.c` | cells, cursor, colour | write, backspace, clear, set cursor | called by everything |
| Shell `shell.c`, `shell_parser.c` | line buffer with cursor, history ring, saved line, prompt position, last drawn length | one function per key | keyboard, terminal, command table |
| Keyboard `keyboard.c` | `shift_down`, `caps_lock_on` | one byte per interrupt: a flag, or a call of the shell | called by IRQ 1, calls the shell |
| Command table `command_hashtable.c` | 100 buckets | register, look up | `kmalloc`, `strdup` |
| Commands `shell_commands.c` | `color_mode` | `alloc`, `memcpy`, `memset`, `maptest`; `calc`; comparisons, sizes, times, help; those that stop the machine | tokenizer, command table, heap, paging, memory map, timer, terminal |
| Interrupts `idt.c`, `isr_irq.asm`, `pic.c`, `timer.c` | in-service lines, `timer_ticks` | exceptions halt, IRQ 0 ticks, IRQ 1 runs the keyboard, every other line is acknowledged | keyboard, timer |
| `kernel.c` | program counter | the order of all initialisations, `sti`, idle | all |
| `gdt.c`, `startup_error.c`, `entry.asm`, `linker.ld`, `ports.h` | constants or a message log | once at boot | - |
| `utils.c`, `calc.c`, `string.c`, `ctype.c` | none | pure functions | commands |

What is hard in this code:

* **Arithmetic at the edges of 32 bits**: regions that reach 4 GiB, sizes near 2^32, a 16-bit load offset.
* **Allocators on allocators**: the bitmap lies in the bootstrap heap, page tables lie in frames of the bitmap, the
  heap lies in pages of those tables; each may fail in the middle of another's work.
* **The direct map ends at 4 MiB**: what lies beyond it cannot be written through `PHYS_TO_VIRT`.
* **Interrupts**: commands run inside the keyboard handler; between `sti` and the first prompt they run *inside*
  `kmalloc` calls of `kmain`.
* **Three copies of one line**: the buffer, the history, and the screen, each with indices of its own.
* **Texts read in place**: the tokenizer writes terminators into the line while it walks over it, and its arguments are
  pointers into that line.
* **A keyboard that is ahead of the handler**: bytes are read one per interrupt, after their keys have changed again,
  and some are lost.

What makes each part correct: frames have one owner and the kernel's own are never handed out (pmm); the tables say
what the processor does and never map what nobody asked for (paging); blocks tile mapped memory and do not overlap
(heap); the editor is a line editor and the screen shows its line (shell); a key asks for what it meant when it was pressed
(keyboard); the words of a line reach the right command, whose answer is true (commands); the kernel in memory is the image on the
disk (loader); registration and commands do not disturb each other and no interrupt is lost (startup). The hazards
these are aimed at are listed with their lines in `PROJECT.json`.

## 2. Modules

| Module | Models | State ↔ code |
|---|---|---|
| `MemoryLayout` | address arithmetic, the E820 map, the bootstrap heap (`pmm.c:14-22`, `memory.c:36-112, 220-247`) | operators only |
| `Pmm` | `pmm.c` from `memory_init` on | `bitmap` = `pmm_bitmap` (0: null), `used` = the bits set, `call` = locals of the scan, `reply` = the address returned; history variables: `asked` = the pages and the limit of the last allocation, `held` = what callers hold |
| `FramePool` | *abstract*: a pool whose answer to a request is the lowest run of the requested length below the requested limit | |
| `PageTables` | two-level tables, the walk, whether an access through the direct map arrives | operators only |
| `AddressSpace` | `paging.c` with the TLB | `pd`, `pt`, `tlb`, `free` = the free frames |
| `KernelHeap` | `memory.c` over `paging.c` over the frames; `alloc`, `memcpy`, `memset`, `maptest`, and the sums that `heap` shows | `blocks` = the list at `heap_head`, `heapPage` = `heap_virtual_current`, `call` = locals of `heap_grow`, `buffers` = locals of `memcpy` and `memset`; `handed` and `dropped` are history variables |
| `HeapSpec` | *abstract*: blocks that do not overlap | |
| `Terminal` | `terminal.c` | operators on a screen record |
| `Shell` | `shell.c`: one action per key, with the history ring and the redraw | the statics of `shell.c`, `screen` |
| `LineEditing` | *abstract*: text, cursor, recent lines, draft | |
| `Keyboard` | `keyboard.c`, and in front of it the keys and their buffer | `shiftDown`, `capsLock` = the statics; `wire` = bytes not read yet; `held` = keys that are down |
| `Typing` | *abstract*: each key asks for what it means when it is pressed, in order | |
| `Texts` | `string.c`, `utils.c`, `shell_parse_uint32`, the number output of `terminal.c` | operators only |
| `CommandLine` | Enter: `shell_parser.c`, look-up, the handlers of `shell_commands.c` | `buffer` = `shell_buffer`, `p`, `argv` = the tokenizer's, `colorMode` = `color_mode`; `reply` = what is written; `line` is a history variable |
| `Loader` | `boot.asm`, `loader2.asm` | `position`, `left`, `offset` = the variables of the read loops; `stage2`, `temp`, `kernel` = memory |
| `Startup` | `kernel.c` from `sti` on, registration, interrupts | `main` = where `kmain` is, `table` = buckets, `pending`/`inService` = both PICs; `owners` and `raced` are history variables |
| `MCPmm`, `MCAddressSpace`, `MCKernelHeap`, `MCShell`, `MCKeyboard`, `MCCommandLine`, `MCLoader`, `MCStartup` | model values for TLC | |
| `Lemmas` | lemmas on numbers, rounding, induction and loops, two-level tables | |
| `PmmProofs`, `AddressSpaceProofs`, `KernelHeapProofs`, `StartupProofs`, `ShellProofs`, `LoaderProofs`, `CommandLineProofs` | the theorems about the module of that name (section 4) | |

`Pmm` composes `pmm.c` with the bootstrap allocator of `memory.c`; `KernelHeap` composes heap, paging and frames;
`Shell` composes shell and terminal, `CommandLine` tokenizer, command table, string functions and handlers; what
`Keyboard` calls are the actions of `Shell`, and Enter there is the whole of `CommandLine`; `Startup` composes `kmain`, the table, the heap and the
interrupt controller. `KernelHeap` and `AddressSpace` take the frame allocator as the set of free frames from which
a single page is always the lowest one: that is what `FramePool` says of it, and what `PmmImplementsFramePool`
proves.

Operators named `X_Something` behind a "Mutant" comment are wrong versions of `X`. They are used by nothing; they
document which mistake each property detects.

**Granularity.** With interrupts off the code runs one call at a time, so steps are chosen by what can fail or be
observed in between: a page of a bitmap scan, an entry of the memory map, a page of a heap growth, a key, a byte from the
keyboard, a character under the tokenizer, a command, a sector, an interruptible point of `kmain`.

**Abstractions.**

* E820 bases and lengths are naturals; the 64-bit sum `base + length` does not wrap. Everything that is `uint32_t`
  in the code is reduced modulo `AddrSpace`.
* Alignments are `a - a % n`, which is the code's mask for powers of two.
* Page flags are left out: each caller passes `PAGE_WRITABLE`.
* The signature of the memory map is taken as present: stage 2 always writes it (`loader2.asm:151`).
* Callers of `pmm_free_contiguous` free what they hold, or null, or an unaligned address. The code's only callers
  (`heap_grow`, `paging_alloc_page`) free what they have just taken. `pmm_alloc_page_below` and
  `paging_unmap_page` have no callers; they are modelled as the interface offers them.
* `heap_committed_bytes` is `HeapCommitted`, a function of `heapPage`. `kmalloc_aligned` after the backend is enabled and `kcalloc` have
  no callers and are left out.
* A page fault stops the kernel (`idt.c:145-166`): `cpu = "halted"`. `cpu = "strayed"` is a write to a wrong
  frame; `StopsOnlyWithoutLowFrames` and `StopsOnlyWhenExhausted` say when either may happen.
* In `Shell`, what commands print is one of `Outputs`, and quotes and tabs in the line are not told apart from other
  characters; both are in `CommandLine`. Colours are left out. A character written while the row is beyond the screen is dropped, since that memory is
  neither displayed nor scrolled back.
* An uninitialised `argv[0]` may name anything: the line prints any of `Outputs`, or the kernel stops.
* In `Startup` the heap is a set of equal blocks and a line is "empty" or "holds alloc"; the real heap is in
  `KernelHeap`, the real line in `Shell`, its words in `CommandLine`.
* In `CommandLine` a line is put into the buffer whole: how it got there is `Shell`. A reply is a message with the
  numbers and texts in it; wording and layout are left out, digits are not, since `terminal_write_decimal` writes a
  word as signed. What a command reads from elsewhere (ticks, the memory map) is any of a set.
* `parse_hex32` uses an unset variable for what it does not know as a digit, a capital F among it: the address is any
  word. `FormatBytes` works on naturals: the 64-bit product with 10 does not wrap for sizes below 2^60.
* `Keyboard` maps make codes to characters by the two tables of `keyboard.c`, given as constants. A keypad key sends
  the code of its arrow, and the arrow's extended code differs only in the E0 byte, which the handler ignores; the
  shift codes that some keyboards put around extended keys are not sent.

## 3. Runs

Deadlock is not checked where the system may stop: a halted kernel, a finished loader, an idle allocator.

| Run | Question | Bounds |
|---|---|---|
| `pmm` | Is what `pmm_init` leaves free exactly the RAM it should be, and does any sequence of calls hand a frame out twice or miss a run? | 32 pages of 4 units, kernel ending inside a page, 17 maps: holes, unaligned ends, overlaps, unordered, up to and across 4 GiB, too large for the bootstrap heap, empty; runs of 0, 1 and 3, bounds 0 and 30 |
| `paging` | Do TLB, tables and frames stay consistent? | tables of 4 entries, 7 frames of which 4 in the direct map, 7 pools |
| `heap` | Do blocks, pages and frames stay consistent when growths fail anywhere? | tables of 8 entries, 23 frames of which 8 in the direct map, 6 pools of 0 to 11 frames, one of them with frames whose direct-map address lies in the heap, sizes 0, 16, 47, 760 and 767 of 768, of which 16 is that of `memcpy`'s and `memset`'s buffers |
| `shell` | Is the editor a line editor, and does the screen show its line? | 2 characters, lines of 2, ring of 2; 2 x 2 cells, prompt of 1, commands that write nothing or clear the screen: lines wrap, touch the lower edge and scroll; `shell_browse` has outputs that end inside a row |
| `keyboard` | Does each key ask for what it meant when it was pressed? | 6 keys: both shifts, Caps Lock, a letter, a digit, an extended key; 2 held at once, 3 unread bytes |
| `commands` | Do the words of a line reach the right command, and are the answers true? | every line of up to 5 quotes, blanks and letters, and some 2000 that reach the checks of the 23 commands; words of 2 hexadecimal digits, a kilobyte of 16, 4 arguments, 3 buckets |
| `loader` | Does the whole kernel arrive? | tracks of 3, 2 heads, a stage 2 of 3 sectors, two on the first track and one on the next; a kernel of 8 sectors that starts at the second sector of a track and ends on the second cylinder; 2 map entries kept of up to 4 |
| `startup` | Does the shell start under interrupts, is the command table whole when keys come early, and is every interrupt handled? | 3 commands in 2 buckets, 3 keys, heaps of 4, 5 and 9 blocks: a node, a key, or neither cannot be had; timer, keyboard, a line of the second controller (12), and spurious interrupts of both |

The bounds keep the proportions on which the code's decisions depend: a header is three quarters of the heap alignment
and the minimal split is as large as it (6, 8 and 8 units for 12, 16 and 16 bytes), the heap begins at a table boundary as
0xC1000000 does, it needs a second table before it ends, `maptest`'s page is the first behind the direct map, one
table covers exactly the direct map, rings and buffers wrap within a few keys. Words of one byte let every operator of `calc`
wrap, and a shorter kilobyte lets sizes reach every unit; `Minute` and `Frequency` let hours pass within a word of
ticks; 23 commands in three buckets give chains of five and more. Two held keys are enough for a shift beside
another key or beside the other shift, three bytes for an extended key in front of, or behind, another one. `MaxCursor` bounds how often an unknown
key moves the cursor beyond the screen and `MaxKeys` how many keys are pressed; nothing depends on more.

These runs end with a counterexample: each states what a text of the repository says and shows a behaviour of the
code that does otherwise (`findings` in `PROJECT.json` has the lines).

| Run | Property | What happens |
|---|---|---|
| `heap_kept` | `BootstrapHeapKept` | after a failed first growth, the bootstrap heap and the new page table share a frame |
| `shell_browse` | `BrowsingKeepsOutput` | Down with the cursor left of the end erases text in front of the prompt |
| `loader_wrap` | `AllowedKernelWhole` | a kernel of more than 128 sectors, which the Makefile lets through, overwrites its own beginning (today's has 52) |
| `startup_race` | `EarlyAllocIsOwn` | a key between the search and the mark in `kmain`'s `kmalloc` gets the same block |

The passing properties name further limits of the code, each in the words of the property:

* `StopsOnlyWithoutLowFrames`, `StopsOnlyWhenExhausted`: when the frames below 4 MiB are in use, the next page table lies beyond the direct map
  and the `memset` of `paging.c:52` faults in the middle of `kmalloc`, although higher frames are free; a `maptest`
  that gets no frame goes on after its failure message and writes to an unmapped page (`shell_commands.c:706`), and `memcpy` and `memset` write to the null that `kmalloc`
  returned (`shell_commands.c:576`). The fault comes before anything is overwritten, with one exception that the proof
  brought up: `PHYS_TO_VIRT` of a frame of 16 MiB or more leads to heap addresses. If the map of the firmware has a
  hole there, so that such a frame is the next one free when a page table is needed, the table is cleared over the
  heap's own pages. `maptest`'s page, the first one behind the direct map, is never met in this way: a
  table is only needed beside it once the heap has filled its first one, which took as many lower frames as the direct map has.
* `BlocksSound`, `HeapSpec`: a size above 0xFFFFFFF0 rounds to 0 and is answered with a block too small for it. The
  blocks of others keep their bytes.
* `TableWhole`, `ShellStarts`: `register_command` does not test for null; without memory for a node the kernel stops,
  without memory for a key the key is null and a later look-up stops it.
* `LineOnScreen`: text that wraps in the last row does not scroll (`terminal.c:196`).
* `halted` in `Shell`: Enter on a line without words reads an `argv` entry that was not set (`shell.c:288`).
* `PoolIsRam`: a usable region that reaches 4 GiB is dropped whole (`pmm.c:136`).
* `ImplementsTyping`: with both shift keys down, the release of one turns shift off (`keyboard.c:105`); a shift key
  whose byte was lost leaves the flag as it was. Until the next change of a shift key that leaves no doubt, `Typing`
  allows either meaning. Caps Lock counts each repetition while it is held.
* `CalcIsExact`: results beyond a signed word are written as they wrap, a difference beyond it with two signs
  (`shell_commands.c:157`).
* `AnswersAreTrue`: an address with a capital F is read as any word (`utils.c:37`).
* `LineIsAnswered`: a line without words may stop the kernel (`shell.c:288`), and a command that takes memory may, as
  `KernelHeap` says.
* `BlocksDistinct`: it leaves out a block that a command takes after a `kmalloc` of `kmain` has found it and before that
  marks it (`raced`); `EarlyAllocIsOwn` asks for that too, and is violated.

**Refinements.** `pmm` checks `Pmm => FramePool`, `heap` checks `KernelHeap => HeapSpec`, `shell` checks
`Shell => LineEditing` and `keyboard` checks `Keyboard => Typing`, with the mappings at the end of each module. For the shell, a ring with wrapping indices is
mapped to a sequence, newest first; for the keyboard, the bytes not read yet are mapped to the calls they will make.

**Fairness.** `Pmm` and `Loader`: weak fairness of boot and of a call in progress, since the processor
runs and nothing preempts them for good; no fairness for callers. The disk error and the BIOS failure are not fair. `Startup`:
strong fairness of `kmain` and of the delivery of each line, because lines of higher priority interrupt them again and
again, but only every 10 ms or so, far more than a handler takes; weak fairness of handlers. (With several devices that raise
their lines as soon as they are served, the lowest would starve; the run has one besides timer and keyboard.) `Keyboard`: weak fairness of the
handler, which `LinesServed` of `Startup` justifies; none for the keys. `CommandLine` and `KernelHeap`: weak fairness of a line,
or a command, that was started (`Work`, `Proceeds`), since it runs inside the handler of the keyboard with interrupts off.
`AddressSpace` and `Shell`, whose calls are single steps, have no liveness property and no fairness.

## 4. Proofs

`tlapm` proves the following for all values of the constants that the named assumptions of the modules admit. TLC
checks each of them, and the inductive invariants, on the instances of section 3; the assumptions are evaluated
there too.

| Theorem | Statement |
|---|---|
| `PmmProofs!PmmInvariant` | `Spec => []Inductive` |
| `PmmTypeOK`, `PmmScanSound` | two conjuncts of it: the types, and the loop invariant of the bitmap scan |
| `PmmReservedNeverFree`, `PmmHeldIsUsed` | low memory, kernel and bitmap are never free or handed out, nor is what a caller holds |
| `PmmPoolIsRam` | the pool is the firmware's usable RAM, no more and no less |
| `PmmUsedAccounting` | usable less free pages are the usable pages in use |
| `PmmImplementsFramePool` | each request is answered with the lowest run of the length it asks for, below the limit it asks for; with null only if no such run is free |
| `AddressSpaceProofs!Invariant`, `TypesCorrect` | `Spec => []Inductive`, and the types |
| `TlbIsCoherent` | what the processor has cached is what the tables say |
| `TablesAreSound` | every table is within reach, in one place and in nobody else's hands |
| `StopsForWantOfLowFrames` | the kernel stops on a table only without a free frame in the direct map |
| `OnePageChanges` | a call changes one translation (an action property) |
| `KernelHeapProofs!HeapInvariant`, `TypesCorrect` | `Spec => []Inductive`, and the types |
| `HeapIsBacked`, `NoFrameIsLost` | every page has a frame of its own; every frame is accounted for |
| `HeapIsSound` | `Spec => []BlocksSound`: the list tiles the heap, what is handed out is large enough, the sums add up |
| `BlocksStay`, `RefusedForWant` | blocks in use stay; refusals are justified (action properties) |
| `StopsForWant` | the kernel stops only when frames or heap addresses are used up |
| `HeapImplementsSpec` | `Spec => ImplementsHeapSpec`: blocks promised never overlap |
| `StartupProofs!Invariant`, `TypesCorrect` | `Spec => []Inductive`, and the types |
| `BlocksAreDistinct`, `TableIsWhole` | registration survives every interrupt, and hands out no block twice, but for a block that a command takes between the search and the mark of a `kmalloc` of `kmain` |
| `ShellProofs!StateIsSound` | `Spec => []StateSound` (with `EditorIsSound`, its part without the screen) |
| `LineIsOnScreen`, `EditingKeepsOutput` | the screen shows the line; editing keeps what stands above the prompt |
| `LineIsString` | `Spec => []BufferIsString` |
| `EditorImplementsSpec` | `Spec => ImplementsLineEditing` |
| `LoaderProofs!StateIsSound` | `Spec => []Inductive` |
| `LoadedImagesAreWhole` | `Spec => []ImagesWhole`, for a kernel that fits a segment; `SecondStageIsWhole` is the half without that condition |
| `StoredMapIsFaithful` | `Spec => []MapIsFaithful` |
| `CommandLineProofs!LineInvariant` | `Spec => []Inductive` |
| `CommandsGetTheWords` | `Spec => []ArgumentsAreWords` |
| `AnswersAlwaysTrue` | `Spec => []AnswersAreTrue`: look-up, help, comparisons, addresses, sizes, times and the memory map |
| `CalcAlwaysExact` | `Spec => []CalcIsExact` |

**Assumptions.** Page size, alignment, word size, buffer and ring sizes, table sizes, the request sizes, the memory
maps, the commands, their hash and the heap at startup, the geometry of the disk, the sizes of both images, the firmware's maps, and
the lines that are entered are arbitrary. What is assumed of them is what the headers
and the linker script fix: the address space is a whole number of pages and of tables; the direct map lies inside it, the
kernel inside the direct map, the heap behind it at the beginning of a table; `maptest`'s page is the first behind the
direct map; a header is smaller than the smallest growth; the ring has a slot and the buffer room for a character and its
terminator; `alloc` is one of the commands and no command is registered twice; a track has a second sector, and stage 2 fits a segment;
a line and the names of the commands hold ASCII characters, a kilobyte is at least ten bytes, and the timer ticks at least twice a second. `MemoriesAssumption` of `KernelHeap` says what `pmm_init` leaves: a
bootstrap heap behind the kernel, inside the early direct map (`BootstrapHeapInEarlyMap` and `BootSound` of the proofs about
`Pmm` show that it does so), and free frames without stage 2's page table.

**The frame allocator.** `ReservedNeverFree` is not inductive. A step that completes a run keeps it only if the run
is free, which the scan knows from `ScanSound`; `BuildBitmap` establishes it only if rounding up the end of the kernel
and of the bitmap does not wrap, which `BootSound` knows because both lie in the early direct map; and both need `TypeOK`
(the bitmap covers no more pages than the address space has). `CallsSound` is their conjunction. `PoolSound` adds
what the scan of the map has gathered after `next - 1` entries (a bound of all ends, and the number of whole pages, the
cardinality of a union of disjoint ranges), and that free and held frames together stay those the map freed and boot
did not reserve. From it follow `PoolIsRam` and `UsedAccounting`, the second because on a map without overlaps the
pages counted entry by entry are the pages freed. In the refinement, page 0 is reserved, so null is never the address of
a run. `FramePool` keeps the request beside the answer (`asked` on the side of `Pmm`), so that a null or a run is judged by
what this caller asked for. `ScanSound` carries that through the scan: the number of pages and the bound it works with are those
asked for, its run is free, and no run that fits starts before it. The first is why a granted run lies below the caller's limit,
the last why it is the lowest, and why nothing fits when the scan has come to its bound.

**Page tables.** `TablesReachable` holds because a table is the lowest free frame and `paging.c` stops when that is
beyond the direct map; it is preserved only if no step writes into the direct map's own table or into a table that
serves two entries. `DirectMapKept`, `TablesOwned` and `PagesPrivate` say that. The proof splits every call into three
cases: an entry of a table that is there, a new table with one entry, or no change; lemmas say what
each does to the walk of every page, and `TlbCoherent` and `ChangesOnePage` follow from the same lemmas.

**The heap.** `HeapBacked` speaks of committed pages only. Growing commits pages that were mapped one at a time,
perhaps by an earlier growth that failed, and may meet frames that `maptest` mapped. So the invariant speaks of
all mapped pages (`PagesOwned`, `PagesMapped`), of the frames that `maptest` dropped, and of what a call in progress
remembers (`CallSound`); that a mapped frame is lower than each free one (frames are taken lowest first and given back only
by the step that took them) gives, with the pigeonhole principle, that no table is ever made in the frame behind `maptest`'s page.
`BlocksApart` extends `BlocksTile` from neighbours
to all pairs, `FreeBlocksHold` makes a split leave something, and `HandedSound` ties what was handed out to a block in use or to
the part of the bootstrap heap already carved: the refinement of `HeapSpec` needs no more than these and that the heap lies behind
the bootstrap heap. `RetryFinds` (a growth large enough is followed by a search that succeeds, unless the size
wrapped) and `WantSound` carry the reason for a refusal, or a stop, from the step that meets it to the one that tells.

**Startup.** `BlocksDistinct` needs that the block `kmain` has found is free when it takes it, or was taken in between by a
command and is in `raced` (`BlocksSound`). `TableWhole` needs the node in progress to be sound before it is linked (`NodeSound`).

**The line editor.** `EditorSound` says of the array that the terminator stands at `length` and nowhere before it, and
ties `viewIndex` to `count`, not to the size of the ring: with the weaker bound Up and Down could reach a slot never
written. The lemmas describe each loop over the array as an operation on the sequence in front of the terminator (`InsertAt`, `RemoveAt`, a copy),
and the ring with its wrapping indices as the sequence of recent lines, for `(nextIndex - 1 - i + HistorySize) % HistorySize` in
general.

What is drawn is the result of loops, over the characters written or the steps back. A loop whose length is a value of the state needs no
induction over data: `LoopRuns` of `Lemmas` gives, by `Induction` over the naturals, the sequence of its intermediate states, and an
invariant of the loop is carried along that. So `GlyphsWritten` says which cells a text fills, across the ends of rows, `Written` that whatever a
command prints leaves the cells behind the cursor blank if they were, also when it scrolls, and `LineRefreshed` what a refresh leaves in every cell. The
invariant needs two things beside `LineOnScreen`: that `lastRendered` is the length of the line now drawn, and that nothing stands behind the line
also when it runs off the screen, since it may become shorter again (`ScreenSound`). Down steps back over the line from wherever the cursor
is; that only blanks cells, so the line is still whole after the refresh, whatever it did above the prompt.
The byte sums of `BlocksSound` are a loop over the list: they telescope over its tiles (`BytesAddUp`).

**The loader.** `Reading` ties the three counters of a read loop to each other and to memory: the sector the position stands for
(`SectorAt`, which `Following` moves by one across tracks and heads, `FollowingIsNext`), `sectors_left`, and `bx`, which is
the count of sectors read modulo the segment. `ImagesWhole` follows at the end of each loop, for the kernel only while
it is no longer than a segment: `loader_wrap` shows what becomes of a longer one. `MapIsFaithful` needs that what is stored is
what is left of the first `next - 1` entries (`Kept`), and that the loop is only entered with room for one more.

**The tokenizer.** `ArgumentsAreWords` speaks of a line that is read to its end. Before that, `Inductive` says what the pointer
has passed and what it has not: in front of it the line is as it was typed (`UnreadIsLine`), each finished word has its terminator not behind
it (`FinishedEnd`), the word in progress holds none of the characters that end it (`WordSoFar`), and the finished words with the words of
the rest are the words of the line (`WordsAddUp`). A terminator is written where the pointer stands, at or behind the ends of all finished
words, so `CStringKept` gives that they still read the same. `WordsFrom` is a function that looks ahead by
more than one place; `RecursionByRank` of `Lemmas` says that such a definition has the value it describes, with the distance from the
end as the rank.

**The command table.** `BucketsHold` is the invariant of the registrations: each bucket holds the commands registered so far
whose name it belongs to, each once. Names may share a bucket but no two commands the same place in `Order`, so the command found has the
name of the word (`FoundIsCommand`), whatever the hash computes, as long as it is the same for equal texts. `help` walks the buckets in
turn, and `HelpListsAll` adds up what it lists. That the command was found by the word is kept while it runs (`CommandFits`), because
no handler writes into the line.

**Numbers.** Each reader and writer is described by the value of its digits: `Unsigned` spells a number in as many digits as it needs
(`UnsignedSpells`), `DecimalValue` reads one back when it fits a word (`ReadsWhatFits`; no prefix of a number is greater than the number, so
nothing wraps on the way), `HexIsRead` follows the two loops over hexadecimal digits side by side, as reading shifts in what
writing shifts out. `FormatIsTrue` bounds the rounding of sizes: `format_bytes` leaves out the fraction when the rest is below `unit \div 10`,
which is a little less than a tenth, so what it leaves out is never a tenth. The total of the memory map is the sum of six columns
(`KindsMakeUp`). For `calc`, `PowerIsExact` compares the loop that wraps with one that is bounded: as long as the
bounded one stays below the end of the words, no product on the way has wrapped.

A first statement of `CalcIsExact` left out the blanks of an argument before looking for its numbers. TLC agreed with it; the
proof did not, since `calc "1 2" + 3` reads the 1, drops the rest of that argument and answers 4. It now speaks of numbers without blanks in them, with any
blanks around them.

**Only model-checked.**

* Liveness (`CallsReturn`, `CommandsFinish`, `ShellStarts`, `LinesServed`, `BootEnds`, `LineIsAnswered`): fairness and
  `ENABLED` are outside the prover's reach.
* `Keyboard => Typing`: every step of it is checked together with the fairness that `Typing` asks for; the prover
  cannot reach that half, and the safety half is not proved by itself.

## 5. Plan

Done, in this order: memory map and frame allocator; page tables; heap; shell; loader; startup; keyboard; tokenizer, commands,
numbers and strings; liveness of heap calls; proofs of the frame allocator, the page tables, the heap, startup, the
line editor with its screen, the loader, and the lines that are entered, and of the refinements of frame allocator, heap and editor.
Every safety invariant that a run checks is proved.

Next, proofs: the safety part of the refinement of `Typing`.

Next, models: the screen between `sti` and the first prompt, when keys are drawn at index 0.

Not modelled, and why:

* `gdt.c`, `gdt_flush.asm`, `entry.asm`, the gates of `idt.c`, the remapping of `pic.c`, the divisor of `timer.c`, A20 and the mode
  switches of `loader2.asm`: written once, with constants; no state changes afterwards that a property could relate.
* `startup_error.c`: at most three messages, each appended once.
* Functions without callers: `kcalloc`, `kmalloc_aligned` after the backend is enabled, `calc.c` with `parse_uint`,
  `string_starts_with`, `shell_execute_command`, `find_command`. There is no behaviour of the program to compare a model
  with.
* The `history` and `pmminfo` commands, `pageinfo`'s second half and `heap`'s layout: they print state that `Shell`, `Pmm`, `AddressSpace` and
  `KernelHeap` hold. Wording and colours of messages, and the hardware cursor.
* How long a command takes: `calc 2 ^ 4294967295` keeps interrupts off for seconds (`shell_commands.c:185`).
