--------------------------- MODULE MCAddressSpace ---------------------------
(* Tables of four entries; page 8 is the first page beyond the direct map, like *)
(* maptest's 0xC0400000, and pages 12 and 13 stand for the heap.               *)
EXTENDS AddressSpace, TLC

MCInitialFree == {{}, {2}, {2, 3}, {2, 3, 4}, {1, 2, 3, 4, 5}, {2, 3, 4, 5, 6}, {5, 6}}
MCClientPages == {8, 12, 13}
MCWatchedPages == {1, 6, 8, 12}
=============================================================================
