----------------------------- MODULE PageTables -----------------------------
(***************************************************************************)
(* Two-level page tables as the processor walks them and as paging.c edits *)
(* them.  A directory pd maps a directory index to the frame of a table;   *)
(* pt maps the frame of a table to its entries.  Addresses are page        *)
(* numbers; flags other than "present" are left out (every caller passes   *)
(* PAGE_WRITABLE).                                                         *)
(*                                                                         *)
(* paging.c reaches a table through PHYS_TO_VIRT(table), an address of the *)
(* kernel's own address space.  Stage 2 maps only the first TableEntries   *)
(* frames there, so whether such an access arrives is part of the model.   *)
(***************************************************************************)
EXTENDS Naturals

CONSTANTS
  TableEntries,  \* PAGE_ENTRIES, 1024
  DirEntries,    \* entries of the page directory
  KernelDir,     \* directory index of KERNEL_VIRT_BASE, 768
  Frames,        \* the frames of physical memory
  BootTable,     \* the frame of stage 2's PAGE_TABLE0_PHYS
  NoFrame        \* an entry without the present bit

ASSUME TableAssumption == 
  /\ TableEntries \in Nat \ {0}
  /\ DirEntries \in Nat /\ KernelDir \in 1 .. (DirEntries - 1)
ASSUME FrameAssumption ==
  /\ Frames \subseteq Nat /\ NoFrame \notin Frames
  /\ 0 .. (TableEntries - 1) \subseteq Frames
  /\ BootTable \in 0 .. (TableEntries - 1)

Dirs == 0 .. (DirEntries - 1)
Slots == 0 .. (TableEntries - 1)
Page == 0 .. (DirEntries * TableEntries - 1)
Entry == Frames \cup {NoFrame}

DirOf(page) == page \div TableEntries
SlotOf(page) == page % TableEntries
PhysToVirtPage(frame) == KernelDir * TableEntries + frame

\* The processor's walk, which paging_translate repeats in software.
Walk(pd, pt, page) ==
  LET table == pd[DirOf(page)] IN
  IF table = NoFrame THEN NoFrame ELSE pt[table][SlotOf(page)]

\* What an access to a frame through the direct map does: it arrives, it raises a
\* page fault, or it goes to another frame.
Access(pd, pt, frame) ==
  LET page == PhysToVirtPage(frame)
      hit == IF page \in Page THEN Walk(pd, pt, page) ELSE NoFrame
  IN  IF hit = frame THEN "arrives" ELSE IF hit = NoFrame THEN "faults" ELSE "strays"

\* The tables with an empty one at a new frame, and with one entry changed.
WithTable(pt, table) ==
  [t \in DOMAIN pt \cup {table} |-> IF t = table THEN [s \in Slots |-> NoFrame] ELSE pt[t]]
WithEntry(pt, table, slot, entry) == [pt EXCEPT ![table][slot] = entry]

\* Stage 2: one table maps the first frames, at 0 and at KERNEL_VIRT_BASE.
BootDirectory == [d \in Dirs |-> IF d \in {0, KernelDir} THEN BootTable ELSE NoFrame]
BootTables == [t \in {BootTable} |-> [s \in Slots |-> s]]
Tables(pd) == {pd[d] : d \in Dirs} \ {NoFrame}
=============================================================================
