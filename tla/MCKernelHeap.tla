---------------------------- MODULE MCKernelHeap ----------------------------
(* Pages of 16 units, tables of 8 entries, 8 frames in the direct map of which *)
(* the first 3 hold low memory, the kernel and the bitmap.                     *)
EXTENDS KernelHeap, TLC

Memory(frames) ==
  [free |-> frames, boot |-> [start |-> 168, current |-> 176, limit |-> 16 * (8 + 8)]]

\* From no frame to eleven: all in the direct map, some behind it, and some so far behind
\* it that PHYS_TO_VIRT leads into the heap.
MCMemories ==
  {Memory(frames) : frames \in {{}, {3}, 3 .. 6, 3 .. 9, 3 .. 12, (3 .. 6) \cup (16 .. 22)}}
MCFailingMemory == {Memory(3 .. 4)}
=============================================================================
