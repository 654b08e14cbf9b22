------------------------------- MODULE Loader -------------------------------
(***************************************************************************)
(* boot.asm and loader2.asm: stage 1 reads stage 2, stage 2 asks the BIOS   *)
(* for the memory map, reads the kernel behind 64 KiB of real-mode segment,  *)
(* copies it to 1 MiB and starts it.  Memory is counted in sectors.  The    *)
(* BIOS, its disk and its memory map are the environment.                   *)
(***************************************************************************)
EXTENDS Naturals, SequencesExt

CONSTANTS
  SectorsPerTrack,  \* SECTORS_PER_TRACK, 18
  Heads,            \* HEADS_PER_CYLINDER, 2
  Stage2Sectors,    \* STAGE2_SECTORS, 8
  KernelSectors,    \* KERNEL_SECTORS, from the size of kernel.bin
  SegmentSectors,   \* sectors a 16-bit offset reaches: 65536 / 512
  MaxEntries,       \* E820_MAX_ENTRIES, 32
  FirmwareMaps      \* maps a BIOS may have: sequences of entries with a length

ASSUME GeometryAssumption ==
  /\ SectorsPerTrack \in Nat \ {0} /\ Heads \in Nat \ {0}
  /\ SegmentSectors \in Nat \ {0} /\ Stage2Sectors \in 1 .. SegmentSectors
  /\ KernelSectors \in Nat \ {0} /\ MaxEntries \in Nat \ {0}
  /\ \A map \in FirmwareMaps : map \in Seq([id : Nat, length : Nat]) /\ map # <<>>

\* The boot sector is not the only sector of its track: stage 2 begins behind it.
ASSUME SecondSectorAssumption == SectorsPerTrack >= 2

VARIABLES
  pc,        \* "stage1", "e820", "stage2", "copy", "kernel" or "hung"
  position,  \* curr_cylinder, curr_head, curr_sector
  left,      \* sectors_left
  offset,    \* bx, in sectors
  stage2,    \* what stands at 0x8000, sector by sector, 0 for nothing
  temp,      \* what stands at TEMP_KERNEL_ADDR
  kernel,    \* what stands at 1 MiB
  firmware,  \* the map the BIOS will report
  next,      \* ebx, the entry to ask for
  entries    \* the entries stored at E820_INFO_ADDR

vars == <<pc, position, left, offset, stage2, temp, kernel, firmware, next, entries>>
diskVars == <<position, left, offset, stage2, temp>>

Offsets == 0 .. (SegmentSectors - 1)
Start(cylinder, head, sector) == [cylinder |-> cylinder, head |-> head, sector |-> sector]

\* What the BIOS reads from cylinder, head and sector: sectors of the disk count from 1.
SectorAt(p) == (p.cylinder * Heads + p.head) * SectorsPerTrack + p.sector

\* Mutant: the first sector of the track, as if the kernel began there.
PositionOf_TrackStart(number) ==
  LET track == (number - 1) \div SectorsPerTrack IN
  Start(track \div Heads, track % Heads, 1)

\* lba_to_chs_from_kernel_start
PositionOf(number) ==
  LET track == (number - 1) \div SectorsPerTrack IN
  Start(track \div Heads, track % Heads, ((number - 1) % SectorsPerTrack) + 1)

\* Mutant: the end of the track is noticed one sector late.
Following_Late(p) ==
  IF p.sector <= SectorsPerTrack THEN [p EXCEPT !.sector = @ + 1]
  ELSE IF p.head + 1 < Heads THEN Start(p.cylinder, p.head + 1, 1)
  ELSE Start(p.cylinder + 1, 0, 1)

\* The end of both read loops.
Following(p) ==
  IF p.sector < SectorsPerTrack THEN [p EXCEPT !.sector = @ + 1]
  ELSE IF p.head + 1 < Heads THEN Start(p.cylinder, p.head + 1, 1)
  ELSE Start(p.cylinder + 1, 0, 1)

KernelStart == Stage2Sectors + 2

Init ==
  /\ pc = "stage1"
  /\ position = Start(0, 0, 2) /\ left = Stage2Sectors /\ offset = 0
  /\ stage2 = [o \in Offsets |-> 0] /\ temp = [o \in Offsets |-> 0] /\ kernel = <<>>
  /\ firmware \in FirmwareMaps /\ next = 1 /\ entries = <<>>

-----------------------------------------------------------------------------
(* Reading.                                                                 *)

\* Mutant: the offset may not wrap, and nothing else is done then.
ReadsOne_Stuck ==
  /\ left > 0 /\ offset + 1 < SegmentSectors
  /\ left' = left - 1 /\ offset' = offset + 1
  /\ position' = Following(position)

\* bx wraps: the segment register is never moved on.
ReadsOne ==
  /\ left > 0
  /\ left' = left - 1
  /\ offset' = (offset + 1) % SegmentSectors
  /\ position' = Following(position)

ReadStage2 ==
  /\ pc = "stage1" /\ ReadsOne
  /\ stage2' = [stage2 EXCEPT ![offset] = SectorAt(position)]
  /\ UNCHANGED <<pc, temp, kernel, firmware, next, entries>>

ReadKernel ==
  /\ pc = "stage2" /\ ReadsOne
  /\ temp' = [temp EXCEPT ![offset] = SectorAt(position)]
  /\ UNCHANGED <<pc, stage2, kernel, firmware, next, entries>>

DiskError ==
  /\ pc \in {"stage1", "stage2"} /\ left > 0
  /\ pc' = "hung"
  /\ UNCHANGED <<diskVars, kernel, firmware, next, entries>>

\* Mutant: one sector early.
StartStage2_Early ==
  /\ pc = "stage1" /\ left = 1
  /\ pc' = "e820"
  /\ UNCHANGED <<diskVars, kernel, firmware, next, entries>>

StartStage2 ==
  /\ pc = "stage1" /\ left = 0
  /\ pc' = "e820"
  /\ UNCHANGED <<diskVars, kernel, firmware, next, entries>>

-----------------------------------------------------------------------------
(* collect_e820.                                                            *)

StartReading ==
  /\ pc' = "stage2"
  /\ position' = PositionOf(KernelStart) /\ left' = KernelSectors /\ offset' = 0
  /\ UNCHANGED <<stage2, temp>>

\* The BIOS reports entry "next" and whether there is another one.
AskedEntry == firmware[next]
\* Mutant: entries without a length are stored too.
Stored_KeepsEmpty == Append(entries, AskedEntry)

Stored == IF AskedEntry.length = 0 THEN entries ELSE Append(entries, AskedEntry)
NoMore == next = Len(firmware) \/ (AskedEntry.length # 0 /\ Len(Stored) >= MaxEntries)

E820Entry ==
  /\ pc = "e820"
  /\ entries' = Stored /\ next' = next + 1
  /\ IF NoMore THEN StartReading ELSE UNCHANGED <<pc, diskVars>>
  /\ UNCHANGED <<kernel, firmware>>

\* The BIOS sets the carry flag, or does not know the call: what is there is kept.
E820Fails ==
  /\ pc = "e820"
  /\ StartReading
  /\ UNCHANGED <<kernel, firmware, next, entries>>

-----------------------------------------------------------------------------
(* Protected mode: the image is copied from TEMP_KERNEL_ADDR, KERNEL_SECTORS    *)
(* sectors long whatever the reads filled, and the kernel starts.              *)

LoadDone ==
  /\ pc = "stage2" /\ left = 0
  /\ pc' = "copy"
  /\ UNCHANGED <<diskVars, kernel, firmware, next, entries>>

CopyKernel ==
  /\ pc = "copy"
  /\ kernel' = [i \in 1 .. KernelSectors |-> IF i - 1 \in Offsets THEN temp[i - 1] ELSE 0]
  /\ pc' = "kernel"
  /\ UNCHANGED <<diskVars, firmware, next, entries>>

Boot ==
  \/ ReadStage2 \/ StartStage2 \/ E820Entry \/ ReadKernel \/ LoadDone \/ CopyKernel
Next == Boot \/ DiskError \/ E820Fails

\* The processor runs.
Spec == Init /\ [][Next]_vars /\ WF_vars(Boot)

-----------------------------------------------------------------------------
(* Properties.                                                              *)

\* The types of the loader's state: the sector number stays in its track, the head on
\* the drive.
TypeOK ==
  /\ pc \in {"stage1", "e820", "stage2", "copy", "kernel", "hung"}
  /\ position \in [cylinder : Nat, head : 0 .. (Heads - 1), sector : 1 .. SectorsPerTrack]
  /\ left \in Nat /\ offset \in Offsets
  /\ stage2 \in [Offsets -> Nat] /\ temp \in [Offsets -> Nat] /\ kernel \in Seq(Nat)
  /\ firmware \in FirmwareMaps /\ next \in 1 .. (Len(firmware) + 1)
  /\ entries \in Seq([id : Nat, length : Nat])

\* Stage 1 starts stage 2 only after it has read all its sectors, which follow the boot
\* sector on the disk, in order.
Stage2Whole ==
  pc \notin {"stage1", "hung"} => \A i \in 1 .. Stage2Sectors : stage2[i - 1] = i + 1

\* The kernel that is started is the whole image in order, although it is read across
\* tracks and heads and starts in the middle of a track.
KernelWhole ==
  pc = "kernel" => kernel = [i \in 1 .. KernelSectors |-> KernelStart + i - 1]

\* Whatever is jumped to has been read whole and in order, the second stage by the first
\* and the kernel by the second, although the disk gives them sector by sector across
\* tracks and heads (boot.asm:39-73; loader2.asm:46-87, 115-140, 239-244; the Makefile
\* writes them one behind the other).
ImagesWhole == Stage2Whole /\ KernelWhole

\* What remains of the first n entries of a map when those without a length are left out.
Kept(map) ==
  LET kept[n \in 0 .. Len(map)] ==
        IF n = 0 THEN <<>>
        ELSE IF map[n].length = 0 THEN kept[n - 1] ELSE Append(kept[n - 1], map[n])
  IN  kept
Nonempty(map) == Kept(map)[Len(map)]

\* The kernel finds the first entries the BIOS reported, without the empty ones, in
\* order and at most E820_MAX_ENTRIES of them (loader2.asm:142-187).
MapIsFaithful ==
  /\ IsPrefix(entries, Nonempty(firmware))
  /\ Len(entries) <= MaxEntries
  /\ pc # "e820" /\ next = Len(firmware) + 1 /\ Len(entries) < MaxEntries =>
       entries = Nonempty(firmware)

\* A read loop that started at sector "first" has "left" of its sectors to go: the next
\* one is at "position" and goes to "offset", and what it has read stands in order unless
\* the offset has wrapped.
Reading(first, count, memory) ==
  /\ left <= count
  /\ SectorAt(position) = first + (count - left)
  /\ offset = (count - left) % SegmentSectors
  /\ count <= SegmentSectors => \A i \in 1 .. (count - left) : memory[i - 1] = first + i - 1

\* What the steps of both stages keep, and what the properties above follow from: how far
\* the read loops are, what they have read, and which entries of the map were stored.
Inductive ==
  /\ TypeOK
  /\ pc = "stage1" => Reading(2, Stage2Sectors, stage2)
  /\ Stage2Whole
  /\ pc = "stage2" => Reading(KernelStart, KernelSectors, temp)
  /\ pc = "copy" /\ KernelSectors <= SegmentSectors =>
       \A i \in 1 .. KernelSectors : temp[i - 1] = KernelStart + i - 1
  /\ KernelSectors <= SegmentSectors => KernelWhole
  /\ pc = "stage1" => next = 1
  /\ pc \in {"stage1", "e820"} => next <= Len(firmware) /\ Len(entries) < MaxEntries
  /\ entries = Kept(firmware)[next - 1] /\ Len(entries) <= MaxEntries

\* The loader ends: the kernel starts, or the disk failed.
BootEnds == <>(pc \in {"kernel", "hung"})

\* Makefile:56-61 lets a kernel through that has no more than KERNEL_MAX_SECTORS = 256
\* sectors, twice what a segment holds: such a kernel is loaded whole.
AllowedKernelWhole == KernelWhole
=============================================================================
