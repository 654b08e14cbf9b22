------------------------------ MODULE MCLoader ------------------------------
(* Tracks of 3 sectors and 2 heads, a stage 2 of 3 sectors and a kernel that *)
(* fills the segment of 8 sectors: stage 2 is sectors 2 to 4, the kernel     *)
(* starts in the middle of a track, with sector 5, the second of head 1, and *)
(* goes on over two tracks of the second cylinder, up to sector 12.          *)
EXTENDS Loader, TLC

\* Maps of up to 4 entries, some of them empty; 2 entries are kept.
MCFirmwareMaps ==
  {[i \in 1 .. n |-> [id |-> i, length |-> lengths[i]]] :
     n \in 1 .. 4, lengths \in [1 .. 4 -> {0, 1}]}
MCOneMap == {<<[id |-> 1, length |-> 1]>>}
=============================================================================
