-------------------------------- MODULE MCPmm -------------------------------
(* Memory maps for model checking Pmm, in pages of 4 units, 32 pages in all. *)
EXTENDS Pmm, TLC

Ram(base, length) == [base |-> base, length |-> length, usable |-> TRUE]
Hole(base, length) == [base |-> base, length |-> length, usable |-> FALSE]

\* Low memory, a hole, and RAM from 1 MiB: what firmware reports, with region ends
\* inside pages, a second bank behind a hole, a reserved region inside the RAM's last
\* page, a bank up to and across 4 GiB, regions in any order, no RAM around the kernel,
\* nothing at all, and (last three) overlapping regions.
MCMaps ==
  {<<>>,
   <<Ram(0, 3)>>,
   <<Ram(0, 7), Hole(7, 1), Ram(8, 20)>>,
   <<Ram(0, 7), Ram(8, 32)>>,
   <<Ram(0, 7), Ram(8, 20), Hole(28, 4), Ram(32, 9)>>,
   <<Ram(0, 7), Hole(7, 1), Ram(8, 22), Hole(30, 2), Ram(33, 10)>>,
   <<Ram(33, 10), Ram(8, 23), Ram(0, 7)>>,
   <<Ram(0, 7), Ram(8, 21), Hole(120, 8)>>,
   <<Ram(0, 7), Ram(8, 20), Ram(121, 7)>>,
   <<Ram(0, 7), Ram(8, 20), Ram(117, 9)>>,
   <<Ram(0, 7), Ram(8, 12), Ram(118, 18), Ram(140, 10)>>,
   <<Ram(0, 7), Ram(8, 6)>>,
   <<Ram(0, 7), Ram(20, 20)>>,
   <<Ram(0, 7), Ram(8, 15), Ram(23, 9)>>,
   <<Ram(0, 7), Ram(8, 20), Hole(20, 4)>>,
   <<Ram(0, 7), Ram(8, 20), Ram(16, 20)>>,
   <<Ram(0, 40), Hole(7, 1)>>}
=============================================================================
