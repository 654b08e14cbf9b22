------------------------------ MODULE PmmProofs -----------------------------
(***************************************************************************)
(* Theorems about the physical memory manager, for every memory map, page  *)
(* size and request.  Everything follows from the invariant Inductive.      *)
(***************************************************************************)
EXTENDS Pmm, Lemmas, FiniteSetTheorems, SequenceTheorems

-----------------------------------------------------------------------------
(* The address arithmetic and the bootstrap heap.                           *)

(* align_down_u32 returns the multiple of the alignment at or below its     *)
(* argument.                                                                *)
LEMMA AlignDownIsBelow ==
  ASSUME NEW a \in Nat, NEW n \in Nat \ {0}
  PROVE  /\ AlignDown(a, n) \in Nat
         /\ AlignDown(a, n) <= a /\ a < AlignDown(a, n) + n
         /\ AlignDown(a, n) = (a \div n) * n
BY RoundDown DEF AlignDown

(* align_up_u32 always returns a uint32_t, and when the sum does not wrap,  *)
(* a value that is not below its argument and less than one unit above it.  *)
LEMMA AlignUpIsAddress ==
  ASSUME NEW a \in Nat, NEW n \in Nat \ {0}
  PROVE  AlignUp(a, n) \in Address
BY RoundUp, AddrSpaceAssumption DEF AlignUp, Address

(* Rounding up in 32 bits gives an address, also when it wraps.            *)
LEMMA AlignUpIsNat ==
  ASSUME NEW a \in Nat, NEW n \in Nat \ {0}
  PROVE  AlignUp(a, n) \in Nat
<1>1. AlignUp(a, n) \in Address
  BY AlignUpIsAddress
<1>2. Address \subseteq Nat
  BY AddrSpaceAssumption DEF Address
<1> QED BY <1>1, <1>2

(* Rounding up does not go down, unless it wraps.                          *)
LEMMA AlignUpIsAbove ==
  ASSUME NEW a \in Nat, NEW n \in Nat \ {0}, a + n <= AddrSpace
  PROVE  a <= AlignUp(a, n) /\ AlignUp(a, n) < a + n
BY RoundUp, AddrSpaceAssumption DEF AlignUp

(* The end of a region, cut to 32 bits, is an address.                      *)
LEMMA End32IsAddress ==
  ASSUME NEW e \in E820Entry
  PROVE  End32(e) \in Address
<1> DEFINE clipped == IF RegionEnd(e) > AddrSpace THEN AddrSpace ELSE RegionEnd(e)
<1>1. clipped \in Nat
  BY AddrSpaceAssumption DEF RegionEnd, E820Entry
<1>2. clipped % AddrSpace \in Nat /\ clipped % AddrSpace < AddrSpace
  <2> HIDE DEF clipped
  <2> QED BY <1>1, AddrSpaceAssumption, DivMod
<1> QED BY <1>2, AddrSpaceAssumption DEF End32, Address

(* memory_init never lets the bootstrap heap reach beyond the early mapping. *)
LEMMA BootstrapLimitBound ==
  ASSUME NEW map \in Seq(E820Entry)
  PROVE  BootstrapLimit(map) \in Nat /\ BootstrapLimit(map) <= EarlyLimit
<1> DEFINE hits == {i \in DOMAIN map : HoldsKernelEnd(map[i])}
           first == CHOOSE i \in hits : \A j \in hits : i <= j
           found == End32(map[first])
<1>1. CASE hits = {}
  BY <1>1, LayoutAssumption DEF BootstrapLimit
<1>2. CASE hits # {}
  <2>1. hits \subseteq Nat
    OBVIOUS
  <2>2. \E i \in hits : \A j \in hits : i <= j
    <3> HIDE DEF hits
    <3> QED BY <1>2, <2>1, LeastNatural
  <2>3. first \in hits
    <3> HIDE DEF hits
    <3> QED BY <2>2
  <2>4. found \in Nat
    <3>1. map[first] \in E820Entry
      <4> HIDE DEF first
      <4> QED BY <2>3
    <3> HIDE DEF first
    <3> QED BY <3>1, End32IsAddress DEF Address
  <2>5. BootstrapLimit(map) = IF hits # {} /\ found <= EarlyLimit THEN found ELSE EarlyLimit
    BY DEF BootstrapLimit
  <2> HIDE DEF found, hits
  <2> QED BY <2>4, <2>5, LayoutAssumption
<1> QED BY <1>1, <1>2

(* Translating between the direct map and physical memory is exact for      *)
(* addresses in the early mapping.                                          *)
LEMMA PhysToVirtEarly ==
  ASSUME NEW a \in Nat, a <= EarlyLimit
  PROVE  PhysToVirt(a) = a + VirtBase
BY AddrSpaceAssumption, LayoutAssumption, PageSizeAssumption, ModSmall DEF PhysToVirt

(* VIRT_TO_PHYS undoes PHYS_TO_VIRT in the early direct map.               *)
LEMMA VirtToPhysEarly ==
  ASSUME NEW v \in Nat, VirtBase <= v, v < AddrSpace
  PROVE  VirtToPhys(v) = v - VirtBase
<1>1. v - VirtBase \in Nat /\ v - VirtBase < AddrSpace
  BY LayoutAssumption, AddrSpaceAssumption
<1>2. v + AddrSpace - VirtBase = (v - VirtBase) + AddrSpace
  BY LayoutAssumption, AddrSpaceAssumption
<1>3. ((v - VirtBase) + AddrSpace) % AddrSpace = v - VirtBase
  <2> DEFINE p == v - VirtBase
  <2>1. p \in Nat /\ p < AddrSpace
    BY <1>1
  <2> HIDE DEF p
  <2>2. (p + AddrSpace) % AddrSpace = p
    BY <2>1, AddrSpaceAssumption
  <2> QED BY <2>2 DEF p
<1> QED BY <1>2, <1>3 DEF VirtToPhys

(* The bootstrap heap starts behind the kernel and stays in the early map.  *)
LEMMA BootstrapHeapInEarlyMap ==
  ASSUME NEW map \in Seq(E820Entry)
  PROVE  LET heap == BootstrapHeap(map) IN
         /\ heap \in BootHeap
         /\ heap.start = heap.current
         /\ VirtBase + KernelEnd <= heap.start
         /\ heap.limit <= VirtBase + EarlyLimit
<1> DEFINE up == AlignUp(KernelEnd, HeapAlign)
<1>0. KernelEnd \in Nat /\ KernelEnd + HeapAlign <= AddrSpace
  BY LayoutAssumption, PageSizeAssumption, AddrSpaceAssumption, HeapAlignAssumption
<1>1. up \in Nat /\ KernelEnd <= up /\ up <= EarlyLimit
  <2>1. KernelEnd <= up /\ up < KernelEnd + HeapAlign
    BY <1>0, AlignUpIsAbove, HeapAlignAssumption
  <2>2. up \in Nat
    <3>1. up \in Address
      BY <1>0, AlignUpIsAddress, HeapAlignAssumption
    <3> HIDE DEF up
    <3> QED BY <3>1, AddrSpaceAssumption DEF Address
  <2> HIDE DEF up
  <2> QED BY <2>1, <2>2, LayoutAssumption, HeapAlignAssumption
<1>2. PhysToVirt(up) = up + VirtBase
  <2> HIDE DEF up
  <2> QED BY <1>1, PhysToVirtEarly
<1>3. /\ BootstrapLimit(map) \in Nat /\ BootstrapLimit(map) <= EarlyLimit
      /\ PhysToVirt(BootstrapLimit(map)) = BootstrapLimit(map) + VirtBase
  BY BootstrapLimitBound, PhysToVirtEarly
<1> HIDE DEF up
<1>4. BootstrapHeap(map) = [start |-> up + VirtBase, current |-> up + VirtBase,
                            limit |-> BootstrapLimit(map) + VirtBase]
  BY <1>2, <1>3 DEF BootstrapHeap, up
<1> QED BY <1>1, <1>3, <1>4, LayoutAssumption, PageSizeAssumption, AddrSpaceAssumption DEF BootHeap, Address

-----------------------------------------------------------------------------
(* The bitmap.                                                             *)

(* pmm_mark_range_used marks every page the range touches, as long as      *)
(* rounding its end up does not wrap.                                      *)
LEMMA TouchedIsMarked ==
  ASSUME totalPages \in Nat, NEW lo \in Nat, NEW hi \in Nat, hi + PageSize <= AddrSpace
  PROVE  Touched(lo, hi) \subseteq MarkedUsed(lo, hi)
<1> SUFFICES ASSUME NEW page \in Touched(lo, hi) PROVE page \in MarkedUsed(lo, hi)
  OBVIOUS
<1>1. /\ page \in Pages /\ page \in Nat
      /\ page * PageSize < hi /\ lo < page * PageSize + PageSize
  BY PageSizeAssumption DEF Touched, Pages, PageAddress
<1>2. page * PageSize \in Nat /\ (page + 1) * PageSize = page * PageSize + PageSize
  BY <1>1, PageSizeAssumption
<1>3. AlignDown(lo, PageSize) <= page * PageSize
  <2> DEFINE q == lo \div PageSize
  <2>1. q \in Nat /\ AlignDown(lo, PageSize) = q * PageSize /\ q * PageSize <= lo
    BY AlignDownIsBelow, DivMod, PageSizeAssumption
  <2> HIDE DEF q
  <2>2. q * PageSize < (page + 1) * PageSize
    BY <1>1, <1>2, <2>1, PageSizeAssumption
  <2>3. q < page + 1
    BY <1>1, <2>1, <2>2, PageSizeAssumption, ProductReflects
  <2>4. q * PageSize <= page * PageSize
    BY <1>1, <2>1, <2>3, PageSizeAssumption, ProductMonotone
  <2> QED BY <2>1, <2>4
<1>4. page * PageSize < AlignUp(hi, PageSize)
  <2>1. hi <= AlignUp(hi, PageSize)
    BY PageSizeAssumption, AlignUpIsAbove
  <2>2. AlignUp(hi, PageSize) \in Nat
    BY PageSizeAssumption, AlignUpIsAddress, AddrSpaceAssumption DEF Address
  <2> QED BY <1>1, <1>2, <2>1, <2>2
<1> QED BY <1>1, <1>3, <1>4 DEF MarkedUsed, PageAddress

(* The state the boot sector leaves satisfies the invariant.                *)
LEMMA Initially == Init => CallsSound
<1> SUFFICES ASSUME Init PROVE CallsSound
  OBVIOUS
<1>1. TypeOK
  <2>1. e820 \in Seq(E820Entry)
    BY MapsAssumption DEF Init
  <2>2. 0 \in Address
    BY AddrSpaceAssumption DEF Address
  <2>3. 0 * PageSize <= AddrSpace
    BY PageSizeAssumption, AddrSpaceAssumption
  <2> QED BY <2>1, <2>2, <2>3 DEF Init, TypeOK, Stages, BootHeap, CallType, Counts, Idle
<1> QED BY <1>1 DEF Init, CallsSound, BootSound, ReservedNeverFree, ScanSound, Idle

(* memory_init places the bootstrap heap behind the kernel.                 *)
LEMMA MemoryInitPreserves == CallsSound /\ MemoryInit => CallsSound'
<1> SUFFICES ASSUME CallsSound, MemoryInit PROVE CallsSound'
  OBVIOUS
<1> USE DEF CallsSound, MemoryInit
<1>1. /\ boot' \in BootHeap /\ boot'.start = boot'.current
      /\ VirtBase + KernelEnd <= boot'.start /\ boot'.limit <= VirtBase + EarlyLimit
  BY BootstrapHeapInEarlyMap DEF TypeOK
<1>2. bitmap = 0
  BY DEF BootSound
<1>3. TypeOK'
  BY <1>1 DEF TypeOK, Stages, Pages
<1>4. BootSound'
  BY <1>1, <1>2 DEF BootSound
<1> QED BY <1>2, <1>3, <1>4 DEF BootSound, ReservedNeverFree, ScanSound, Idle

(* The scan of the map keeps the counts natural; its end bounds the bitmap. *)
LEMMA ScanEntryPreserves == CallsSound /\ ScanEntry => CallsSound'
<1> SUFFICES ASSUME CallsSound, ScanEntry PROVE CallsSound'
  OBVIOUS
<1> USE DEF CallsSound, ScanEntry
<1> DEFINE e == e820[next]
<1>1. e \in E820Entry
  BY DEF TypeOK
<1>2. RegionEnd(e) \in Nat
  BY <1>1 DEF RegionEnd, E820Entry
<1>3. UsablePagesOf(e) \in Nat
  <2> DEFINE first == AlignUp(e.base, PageSize)
             end == AlignDown(End32(e), PageSize)
  <2>1. first \in Nat
    BY <1>1, AlignUpIsNat, PageSizeAssumption DEF E820Entry
  <2>2. end \in Nat
    <3>1. End32(e) \in Nat
      BY <1>1, End32IsAddress, AddrSpaceAssumption DEF Address
    <3> QED BY <3>1, AlignDownIsBelow, PageSizeAssumption
  <2>3. end > first => (end - first) \div PageSize \in Nat
    <3> HIDE DEF first, end
    <3> QED BY <2>1, <2>2, DivMod, PageSizeAssumption
  <2>4. UsablePagesOf(e) = IF Considered(e) /\ end > first THEN (end - first) \div PageSize ELSE 0
    BY DEF UsablePagesOf
  <2> HIDE DEF first, end
  <2> QED BY <2>3, <2>4
<1>4. bitmap = 0
  BY DEF BootSound
<1> HIDE DEF e
<1>5. highest' \in Nat /\ usablePages' \in Nat /\ next' \in Nat \ {0}
  BY <1>2, <1>3 DEF TypeOK, e
<1>6. TypeOK'
  BY <1>5 DEF TypeOK, Pages
<1>7. BootSound'
  BY <1>4 DEF BootSound
<1> QED BY <1>4, <1>6, <1>7 DEF BootSound, ReservedNeverFree, ScanSound, Idle

(* The pages counted at the end of the scan lie below 4 GiB (pmm.c:102-106).*)
LEMMA ScanDonePreserves == CallsSound /\ ScanDone => CallsSound'
<1> SUFFICES ASSUME CallsSound, ScanDone PROVE CallsSound'
  OBVIOUS
<1> USE DEF CallsSound, ScanDone
<1> DEFINE clipped == IF highest > AddrSpace THEN AddrSpace ELSE highest
<1>1. clipped \in Nat /\ clipped <= AddrSpace
  BY AddrSpaceAssumption DEF TypeOK
<1>2. totalPages' = clipped \div PageSize
  OBVIOUS
<1> HIDE DEF clipped
<1>3. totalPages' \in Nat /\ totalPages' * PageSize <= AddrSpace
  <2>1. clipped \div PageSize \in Nat /\ (clipped \div PageSize) * PageSize <= clipped
    BY <1>1, DivMod, PageSizeAssumption
  <2>2. totalPages' \in Nat /\ totalPages' * PageSize <= clipped
    BY <1>2, <2>1
  <2>3. totalPages' * PageSize \in Nat
    BY <2>2, PageSizeAssumption
  <2> QED BY <1>1, <2>2, <2>3, AddrSpaceAssumption
<1>4. bitmap = 0 /\ used = {} /\ held = {} /\ call = Idle
  BY DEF BootSound
<1>5. TypeOK'
  BY <1>3, <1>4 DEF TypeOK, Stages
<1>6. BootSound'
  BY <1>4 DEF BootSound
<1> QED BY <1>4, <1>5, <1>6 DEF ReservedNeverFree, ScanSound, Idle

(* The bitmap is cut from the early map and every page of the low memory,   *)
(* the kernel and the bitmap itself is marked.                              *)
LEMMA BuildBitmapPreserves == CallsSound /\ BuildBitmap => CallsSound'
<1> SUFFICES ASSUME CallsSound, BuildBitmap PROVE CallsSound'
  OBVIOUS
<1> DEFINE at == BootstrapNext(boot, PageSize)
           bytes == BitmapBytes
           phys == VirtToPhys(at)
<1>0. /\ TypeOK /\ BootSound
      /\ BootstrapFits(boot, bytes, PageSize)
      /\ bitmap' = at
      /\ boot' = [boot EXCEPT !.current = at + bytes]
      /\ used' = (Pages \ FreedByMap) \cup ReservedAtBoot(at)
      /\ stage = "pmm_map" /\ stage' = "ready"
      /\ UNCHANGED <<e820, next, highest, usablePages, totalPages, call, asked, reply, held>>
  BY DEF CallsSound, BuildBitmap
<1>1. at \in Nat /\ at \in Address
  BY <1>0, AlignUpIsNat, AlignUpIsAddress, PageSizeAssumption, AddrSpaceAssumption
  DEF BootstrapNext, TypeOK, BootHeap, Address
<1>2. bytes \in Nat
  <2>1. totalPages + BitsPerWord - 1 \in Nat
    BY <1>0, BitmapAssumption DEF TypeOK
  <2>2. (totalPages + BitsPerWord - 1) \div BitsPerWord \in Nat
    BY <2>1, BitmapAssumption, DivMod
  <2> QED BY <2>2, BitmapAssumption DEF BitmapBytes
<1>3. /\ VirtBase + KernelEnd <= at /\ at + bytes <= VirtBase + EarlyLimit
      /\ at + bytes < AddrSpace
  <2>1. /\ boot.current \in Nat /\ boot.limit \in Nat
        /\ VirtBase + KernelEnd <= boot.current /\ boot.limit <= VirtBase + EarlyLimit
    BY <1>0, AddrSpaceAssumption DEF TypeOK, BootSound, BootHeap, Address
  <2>2. boot.current <= at /\ at + bytes < AddrSpace /\ at + bytes <= boot.limit
    BY <1>0 DEF BootstrapFits
  <2> HIDE DEF at, bytes
  <2> QED BY <1>1, <1>2, <2>1, <2>2, LayoutAssumption
<1>4. phys = at - VirtBase
  <2> HIDE DEF at, bytes
  <2>1. VirtBase <= at /\ at < AddrSpace
    BY <1>1, <1>2, <1>3, LayoutAssumption, AddrSpaceAssumption
  <2> QED BY <1>1, <2>1, VirtToPhysEarly
<1>5. /\ phys \in Nat /\ phys + bytes \in Nat
      /\ phys + bytes + PageSize <= AddrSpace
      /\ (phys + bytes) % AddrSpace = phys + bytes
  <2> HIDE DEF at, bytes, phys
  <2>1. phys \in Nat /\ phys + bytes \in Nat /\ phys + bytes + PageSize <= AddrSpace
    BY <1>1, <1>2, <1>3, <1>4, LayoutAssumption, PageSizeAssumption, AddrSpaceAssumption
  <2> DEFINE end == phys + bytes
  <2>2. end \in Nat /\ end < AddrSpace
    BY <2>1, PageSizeAssumption, AddrSpaceAssumption
  <2> HIDE DEF end
  <2>3. end % AddrSpace = end
    BY <2>2, ModSmall, AddrSpaceAssumption
  <2> QED BY <2>1, <2>3 DEF end
<1>6. /\ bitmap' # 0
      /\ BitmapBytes' = bytes
      /\ VirtToPhys(bitmap') = phys
  BY <1>0, <1>1, <1>3, LayoutAssumption DEF BitmapBytes
<1>7. Reserved' \subseteq ReservedAtBoot(at)
  <2>1. totalPages \in Nat
    BY <1>0 DEF TypeOK
  <2>2. Touched(0, LowMemEnd) \subseteq MarkedUsed(0, LowMemEnd)
    BY <2>1, TouchedIsMarked, LayoutAssumption, PageSizeAssumption, AddrSpaceAssumption
  <2>3. Touched(0, KernelEnd) \subseteq MarkedUsed(0, KernelEnd)
    BY <2>1, TouchedIsMarked, LayoutAssumption, HeapAlignAssumption, PageSizeAssumption, AddrSpaceAssumption
  <2>4. Touched(phys, phys + bytes) \subseteq MarkedUsed(phys, phys + bytes)
    BY <1>5, <2>1, TouchedIsMarked
  <2>5. Reserved' = Touched(0, LowMemEnd) \cup Touched(0, KernelEnd) \cup Touched(phys, phys + bytes)
    BY <1>0, <1>6 DEF Reserved, Touched, Pages
  <2>6. ReservedAtBoot(at) = MarkedUsed(0, LowMemEnd) \cup MarkedUsed(0, KernelEnd)
                               \cup MarkedUsed(phys, phys + bytes)
    BY <1>5 DEF ReservedAtBoot
  <2> QED BY <2>2, <2>3, <2>4, <2>5, <2>6
<1>8. held = {} /\ call = Idle
  BY <1>0 DEF BootSound
<1>9. TypeOK'
  <2>1. used' \subseteq Pages'
    BY <1>0 DEF ReservedAtBoot, MarkedUsed, Pages
  <2>2. boot' \in BootHeap
    <3>1. at + bytes \in Address
      <4> HIDE DEF at, bytes
      <4> QED BY <1>1, <1>2, <1>3, AddrSpaceAssumption DEF Address
    <3> QED BY <1>0, <3>1 DEF TypeOK, BootHeap
  <2> QED BY <1>0, <1>1, <2>1, <2>2 DEF TypeOK, Stages, Pages
<1>10. BootSound'
  <2>1. VirtBase + KernelEnd <= at + bytes
    <3> HIDE DEF at, bytes
    <3> QED BY <1>1, <1>2, <1>3, LayoutAssumption
  <2>2. boot'.current = at + bytes /\ boot'.limit = boot.limit
    BY <1>0 DEF TypeOK, BootHeap
  <2> HIDE DEF at, bytes
  <2> QED BY <1>0, <1>3, <1>6, <2>1, <2>2 DEF BootSound
<1>11. ReservedNeverFree'
  BY <1>0, <1>7, <1>8 DEF ReservedNeverFree
<1> QED BY <1>0, <1>8, <1>9, <1>10, <1>11 DEF CallsSound, ScanSound, Idle

(* Without a bitmap nothing is tracked (pmm.c:115-118).                    *)
LEMMA BitmapFailurePreserves == CallsSound /\ BitmapAllocationFailed => CallsSound'
BY DEF CallsSound, BitmapAllocationFailed, TypeOK, Stages, Pages, BootSound, ReservedNeverFree, ScanSound,
       Idle, BitmapBytes

(* What every call leaves alone.                                            *)
LEMMA ReservedUnchanged ==
  ASSUME UNCHANGED <<e820, bootVars>>
  PROVE  /\ Reserved' = Reserved /\ Pages' = Pages
         /\ bitmap' = bitmap /\ stage' = stage /\ totalPages' = totalPages
BY DEF bootVars, Reserved, Touched, Pages, BitmapBytes

(* A call leaves the bootstrap heap and the bitmap where they are.         *)
LEMMA BootPartUnchanged ==
  ASSUME CallsSound, UNCHANGED <<e820, bootVars>>, bitmap # 0
  PROVE  BootSound'
BY DEF bootVars, BootSound, CallsSound, BitmapBytes

(* A refused request answers null and changes nothing (pmm.c:149-151).     *)
LEMMA RefusedPreserves ==
  ASSUME NEW count \in Nat, NEW limit \in Nat, CallsSound, AllocRefused(count, limit)
  PROVE  CallsSound'
<1>1. /\ UNCHANGED <<e820, bootVars, used, call, held>> /\ call.op = "none"
      /\ asked' = [count |-> count, limit |-> limit] /\ reply' = 0
  BY DEF AllocRefused, CanCall, Ask
<1>2. TypeOK'
  BY <1>1, AddrSpaceAssumption DEF TypeOK, CallsSound, bootVars, Pages, Address
<1>3. BootSound' /\ ReservedNeverFree' /\ held' \subseteq used' /\ ScanSound'
  BY <1>1, ReservedUnchanged
  DEF CallsSound, BootSound, bootVars, ReservedNeverFree, ScanSound, Free, Pages, BitmapBytes
<1> QED BY <1>2, <1>3 DEF CallsSound

(* A call starts at page 0 with an empty run, below a bound the bitmap covers:  *)
(* the pages it will look at are those below the limit that was asked for.      *)
LEMMA CallStarts ==
  ASSUME CallsSound, bitmap # 0, UNCHANGED <<e820, bootVars, used, reply, held>>,
         NEW limit \in Nat,
         NEW op \in {"contiguous", "below"}, NEW count \in Counts \ {0},
         NEW bound \in Nat, bound <= totalPages,
         \A page \in Pages : page < bound <=> PageAddress(page + 1) <= limit,
         asked' = [count |-> count, limit |-> limit],
         call' = [Idle EXCEPT !.op = op, !.count = count, !.bound = bound]
  PROVE  CallsSound'
<1>0. Counts \subseteq Nat
  BY RequestAssumption DEF Counts
<1>1. /\ call' \in CallType
      /\ call'.op = op /\ call'.count = count /\ call'.bound = bound
      /\ call'.page = 0 /\ call'.runLen = 0
  BY <1>0 DEF CallType, Idle, Counts
<1>2. TypeOK'
  BY <1>0, <1>1 DEF TypeOK, CallsSound, bootVars, Pages
<1>3. BootSound' /\ ReservedNeverFree' /\ held' \subseteq used'
  BY BootPartUnchanged, ReservedUnchanged DEF CallsSound, ReservedNeverFree
<1>4. ScanSound'
  <2>1. stage' = "ready" /\ bitmap' # 0 /\ bound <= totalPages'
    BY DEF CallsSound, BootSound, bootVars
  <2>2. Run(call'.page - call'.runLen, call'.runLen) = {}
    BY <1>1 DEF Run
  <2>3. \A start \in Pages' : ~ (start < call'.page - call'.runLen)
    BY <1>1 DEF Pages
  <2>4. call'.page <= call'.bound /\ call'.runLen < call'.count
    BY <1>0, <1>1
  <2>5. ~ (call'.runLen > 0) /\ call'.runLen <= call'.page
    BY <1>1
  <2>6. /\ call'.count = asked'.count
        /\ \A page \in Pages' : page < call'.bound <=> PageAddress(page + 1) <= asked'.limit
    BY <1>1 DEF Pages, bootVars
  <2> HIDE DEF Run
  <2> QED BY <1>1, <2>1, <2>2, <2>3, <2>4, <2>5, <2>6 DEF ScanSound
<1> QED BY <1>2, <1>3, <1>4 DEF CallsSound

(* pmm_alloc_contiguous starts with the whole bitmap before it.            *)
LEMMA AllocContiguousPreserves ==
  ASSUME NEW count \in RunLengths, CallsSound, AllocContiguous(count)
  PROVE  CallsSound'
<1>1. count \in Counts \ {0} /\ totalPages \in Nat
  BY RequestAssumption DEF AllocContiguous, Counts, CallsSound, TypeOK
<1>2. /\ bitmap # 0 /\ UNCHANGED <<e820, bootVars, used, reply, held>>
      /\ asked' = [count |-> count, limit |-> AddrSpace]
      /\ call' = [Idle EXCEPT !.op = "contiguous", !.count = count, !.bound = totalPages]
      /\ count \in Counts \ {0}
  BY <1>1 DEF AllocContiguous, Ask
<1>3. totalPages <= totalPages /\ AddrSpace \in Nat
  BY <1>1, AddrSpaceAssumption
<1>4. \A page \in Pages : page < totalPages <=> PageAddress(page + 1) <= AddrSpace
  <2> SUFFICES ASSUME NEW page \in Pages
               PROVE  page < totalPages /\ PageAddress(page + 1) <= AddrSpace
    OBVIOUS
  <2>1. page \in Nat /\ page < totalPages /\ page + 1 <= totalPages
    BY <1>1 DEF Pages
  <2>2. (page + 1) * PageSize <= totalPages * PageSize
    BY <1>1, <2>1, ProductMonotone, PageSizeAssumption
  <2>3. /\ totalPages * PageSize \in Nat /\ (page + 1) * PageSize \in Nat
        /\ totalPages * PageSize <= AddrSpace
    BY <1>1, <2>1, PageSizeAssumption DEF CallsSound, TypeOK
  <2> QED BY <1>3, <2>1, <2>2, <2>3 DEF PageAddress
<1> QED BY <1>1, <1>2, <1>3, <1>4, CallStarts

(* pmm_alloc_page_below stops at its limit or where the bitmap does.       *)
LEMMA AllocPageBelowPreserves ==
  ASSUME NEW limit \in Limits, CallsSound, AllocPageBelow(limit)
  PROVE  CallsSound'
<1> DEFINE maxPage == limit \div PageSize
           bound == IF maxPage > totalPages THEN totalPages ELSE maxPage
<1>1. maxPage \in Nat
  BY RequestAssumption, PageSizeAssumption, DivMod
<1>2. bound \in Nat /\ bound <= totalPages
  <2> HIDE DEF maxPage
  <2> QED BY <1>1 DEF CallsSound, TypeOK
<1>3. /\ bitmap # 0 /\ UNCHANGED <<e820, bootVars, used, reply, held>>
      /\ asked' = [count |-> 1, limit |-> limit]
      /\ call' = [Idle EXCEPT !.op = "below", !.count = 1, !.bound = bound]
  BY DEF AllocPageBelow, Ask
<1>4. 1 \in Counts \ {0} /\ "below" \in {"contiguous", "below"} /\ limit \in Nat
  BY RequestAssumption DEF Counts
<1>5. \A page \in Pages : page < bound <=> PageAddress(page + 1) <= limit
  <2> SUFFICES ASSUME NEW page \in Pages PROVE page < bound <=> PageAddress(page + 1) <= limit
    OBVIOUS
  <2>1. page \in Nat /\ totalPages \in Nat /\ page < totalPages
    BY DEF Pages, CallsSound, TypeOK
  <2>2. page < maxPage <=> (page + 1) * PageSize <= limit
    BY <1>4, <2>1, PageSizeAssumption, WholeUnits
  <2> HIDE DEF maxPage
  <2> QED BY <1>1, <2>1, <2>2 DEF PageAddress
<1> HIDE DEF bound
<1> QED BY <1>2, <1>3, <1>4, <1>5, CallStarts

(* What a scan in progress knows, in the form the scan steps use it.        *)
LEMMA ScanFacts ==
  ASSUME CallsSound, call.op # "none"
  PROVE  /\ bitmap # 0 /\ stage = "ready" /\ totalPages \in Nat
         /\ call \in CallType /\ call.op \in {"contiguous", "below"}
         /\ call.count \in Counts /\ call.count \in Nat \ {0} /\ call.page \in Nat /\ call.bound \in Nat
         /\ call.runLen \in Nat /\ call.runLen < call.count
         /\ call.page <= call.bound /\ call.bound <= totalPages
         /\ call.runLen <= call.page
         /\ RunStart = call.page - call.runLen
         /\ Run(call.page - call.runLen, call.runLen) \subseteq Free
         /\ \A start \in Pages :
              start < call.page - call.runLen => ~(Run(start, call.count) \subseteq Free)
<1>1. call \in CallType /\ Counts \subseteq Nat /\ totalPages \in Nat
  BY RequestAssumption DEF CallsSound, TypeOK, Counts
<1>2. call.count \in Counts /\ call.page \in Nat /\ call.bound \in Nat /\ call.runLen \in Nat
      /\ call.runStart \in Nat /\ call.op \in {"contiguous", "below"}
  BY <1>1 DEF CallType
<1>3. call.count \in Nat
  BY <1>1, <1>2
<1>4. /\ bitmap # 0 /\ stage = "ready" /\ call.count > 0 /\ call.runLen < call.count
      /\ call.page <= call.bound /\ call.bound <= totalPages /\ call.runLen <= call.page
      /\ call.runLen > 0 => call.runStart = call.page - call.runLen
      /\ Run(call.page - call.runLen, call.runLen) \subseteq Free
      /\ \A start \in Pages :
           start < call.page - call.runLen => ~(Run(start, call.count) \subseteq Free)
  BY DEF CallsSound, ScanSound
<1>5. RunStart = call.page - call.runLen
  BY <1>2, <1>4 DEF RunStart
<1>6. call.count \in Nat \ {0}
  BY <1>3, <1>4
<1> QED BY <1>1, <1>2, <1>4, <1>5, <1>6

(* A scan looks for what was asked for, in the pages below the limit asked for. *)
LEMMA AskedFacts ==
  ASSUME CallsSound, call.op # "none"
  PROVE  /\ asked.count \in Nat /\ asked.limit \in Nat /\ call.count = asked.count
         /\ \A page \in Pages : page < call.bound <=> PageAddress(page + 1) <= asked.limit
BY DEF CallsSound, TypeOK, ScanSound

(* It does so until it ends.                                                *)
LEMMA StillAsked ==
  ASSUME CallsSound, call.op # "none", UNCHANGED <<bootVars, asked>>,
         call'.count = call.count, call'.bound = call.bound
  PROVE  /\ call'.count = asked'.count
         /\ \A page \in Pages' : page < call'.bound <=> PageAddress(page + 1) <= asked'.limit
BY DEF CallsSound, ScanSound, Pages, bootVars

(* The run is reset behind a used page: no run that contains the page fits. *)
LEMMA ScanUsedPagePreserves == CallsSound /\ ScanUsedPage => CallsSound'
<1> SUFFICES ASSUME CallsSound, ScanUsedPage PROVE CallsSound'
  OBVIOUS
<1>0. /\ call.op # "none" /\ call.page < call.bound /\ call.page \in used
      /\ UNCHANGED <<e820, bootVars, used, asked, reply, held>>
      /\ call' = [call EXCEPT !.runLen = 0, !.page = @ + 1]
  BY DEF ScanUsedPage, InScan
<1>1. /\ call' \in CallType /\ call'.op = call.op /\ call'.count = call.count
      /\ call'.bound = call.bound /\ call'.page = call.page + 1 /\ call'.runLen = 0
  <2> DEFINE page == call.page + 1
  <2>1. call \in CallType /\ page \in Nat
    BY <1>0, ScanFacts
  <2>2. call' = [call EXCEPT !.runLen = 0, !.page = page]
    BY <1>0
  <2> HIDE DEF page
  <2>3. /\ call' \in CallType /\ call'.op = call.op /\ call'.count = call.count
        /\ call'.bound = call.bound /\ call'.page = page /\ call'.runLen = 0
    BY <2>1, <2>2 DEF CallType
  <2> QED BY <2>3 DEF page
<1>2. TypeOK'
  BY <1>0, <1>1 DEF TypeOK, CallsSound, bootVars, Pages
<1>3. BootSound' /\ ReservedNeverFree' /\ held' \subseteq used'
  BY <1>0, ScanFacts, BootPartUnchanged, ReservedUnchanged DEF CallsSound, ReservedNeverFree
<1>4. Free' = Free /\ Pages' = Pages
  BY <1>0 DEF Free, Pages, bootVars
<1>5. \A start \in Pages' :
        start < call'.page - call'.runLen => ~(Run(start, call'.count) \subseteq Free')
  <2> SUFFICES ASSUME NEW start \in Pages, start < call.page + 1
               PROVE  ~(Run(start, call.count) \subseteq Free)
    BY <1>0, <1>1, <1>4, ScanFacts
  <2>1. CASE start < call.page - call.runLen
    BY <1>0, <2>1, ScanFacts
  <2>2. CASE ~(start < call.page - call.runLen)
    <3>1. start \in Nat
      BY DEF Pages
    <3>2. call.page \in Run(start, call.count)
      BY <1>0, <2>2, <3>1, ScanFacts DEF Run
    <3>3. call.page \notin Free
      BY <1>0 DEF Free
    <3> QED BY <3>2, <3>3
  <2> QED BY <2>1, <2>2
<1>6. Run(call'.page - call'.runLen, call'.runLen) = {}
  BY <1>0, <1>1, ScanFacts DEF Run
<1>7. ScanSound'
  <2>1. /\ call'.op # "none" /\ bitmap' # 0 /\ stage' = "ready"
        /\ call'.count > 0 /\ call'.runLen < call'.count
        /\ call'.page <= call'.bound /\ call'.bound <= totalPages'
        /\ call'.runLen <= call'.page /\ ~(call'.runLen > 0)
    BY <1>0, <1>1, ScanFacts DEF bootVars
  <2>2. /\ call'.count = asked'.count
        /\ \A page \in Pages' : page < call'.bound <=> PageAddress(page + 1) <= asked'.limit
    BY <1>0, <1>1, StillAsked
  <2> QED BY <1>5, <1>6, <2>1, <2>2 DEF ScanSound
<1> QED BY <1>2, <1>3, <1>7 DEF CallsSound

(* A free page extends the run, which still is too short.                   *)
LEMMA ScanFreePagePreserves == CallsSound /\ ScanFreePage => CallsSound'
<1> SUFFICES ASSUME CallsSound, ScanFreePage PROVE CallsSound'
  OBVIOUS
<1>0. /\ call.op # "none" /\ call.page < call.bound /\ call.page \notin used
      /\ call.runLen + 1 # call.count
      /\ UNCHANGED <<e820, bootVars, used, asked, reply, held>>
      /\ call' = [call EXCEPT !.runStart = RunStart, !.runLen = @ + 1, !.page = @ + 1]
  BY DEF ScanFreePage, InScan
<1>1. /\ call' \in CallType /\ call'.op = call.op /\ call'.count = call.count
      /\ call'.bound = call.bound /\ call'.page = call.page + 1
      /\ call'.runLen = call.runLen + 1 /\ call'.runStart = RunStart
  <2> DEFINE page == call.page + 1
             len == call.runLen + 1
             start == RunStart
  <2>1. call \in CallType /\ start \in Nat /\ page \in Nat /\ len \in Nat
    BY <1>0, ScanFacts
  <2>2. call' = [call EXCEPT !.runStart = start, !.runLen = len, !.page = page]
    BY <1>0
  <2> HIDE DEF page, len, start
  <2>3. /\ call' \in CallType /\ call'.op = call.op /\ call'.count = call.count
        /\ call'.bound = call.bound /\ call'.page = page
        /\ call'.runLen = len /\ call'.runStart = start
    BY <2>1, <2>2 DEF CallType
  <2> QED BY <2>3 DEF page, len, start
<1>2. TypeOK'
  BY <1>0, <1>1 DEF TypeOK, CallsSound, bootVars, Pages
<1>3. BootSound' /\ ReservedNeverFree' /\ held' \subseteq used'
  BY <1>0, ScanFacts, BootPartUnchanged, ReservedUnchanged DEF CallsSound, ReservedNeverFree
<1>4. Free' = Free /\ Pages' = Pages
  BY <1>0 DEF Free, Pages, bootVars
<1>5. call'.page - call'.runLen = call.page - call.runLen
  BY <1>0, <1>1, ScanFacts
<1>6. Run(call'.page - call'.runLen, call'.runLen) \subseteq Free'
  <2>1. call.page \in Free
    BY <1>0, ScanFacts DEF Free, Pages
  <2>2. Run(call.page - call.runLen, call.runLen + 1)
          = Run(call.page - call.runLen, call.runLen) \cup {call.page}
    BY <1>0, ScanFacts DEF Run
  <2> QED BY <1>0, <1>1, <1>4, <1>5, <2>1, <2>2, ScanFacts
<1>7. \A start \in Pages' :
        start < call'.page - call'.runLen => ~(Run(start, call'.count) \subseteq Free')
  BY <1>0, <1>1, <1>4, <1>5, ScanFacts
<1>8. ScanSound'
  <2>1. /\ call'.op # "none" /\ bitmap' # 0 /\ stage' = "ready"
        /\ call'.count > 0 /\ call'.runLen < call'.count
        /\ call'.page <= call'.bound /\ call'.bound <= totalPages'
        /\ call'.runLen <= call'.page /\ call'.runStart = call'.page - call'.runLen
    BY <1>0, <1>1, ScanFacts DEF bootVars
  <2>2. /\ call'.count = asked'.count
        /\ \A page \in Pages' : page < call'.bound <=> PageAddress(page + 1) <= asked'.limit
    BY <1>0, <1>1, StillAsked
  <2> QED BY <1>6, <1>7, <2>1, <2>2 DEF ScanSound
<1> QED BY <1>2, <1>3, <1>8 DEF CallsSound

(* The run found lies in the bitmap, is free as a whole, and so shares no    *)
(* page with what is reserved or held.                                      *)
LEMMA FoundRun ==
  ASSUME CallsSound, ScanCompletesRun
  PROVE  /\ RunStart \in Nat /\ RunStart < totalPages
         /\ Run(RunStart, call.count) \subseteq Free
         /\ \A start \in Pages : start < RunStart => ~(Run(start, call.count) \subseteq Free)
<1>1. /\ call.op # "none" /\ call.page < call.bound /\ call.page \notin used
      /\ call.runLen + 1 = call.count
  BY DEF ScanCompletesRun, InScan
<1>2. RunStart \in Nat /\ RunStart < totalPages
  BY <1>1, ScanFacts
<1>3. call.page \in Free
  BY <1>1, ScanFacts DEF Free, Pages
<1>4. Run(RunStart, call.count) = Run(call.page - call.runLen, call.runLen) \cup {call.page}
  <2>1. /\ RunStart = call.page - call.runLen /\ call.count = call.runLen + 1
        /\ call.page \in Nat /\ call.runLen \in Nat /\ call.runLen <= call.page
    BY <1>1, ScanFacts
  <2>2. Run(call.page - call.runLen, call.runLen + 1)
          = Run(call.page - call.runLen, call.runLen) \cup {call.page}
    BY <2>1 DEF Run
  <2> QED BY <2>1, <2>2
<1> QED BY <1>1, <1>2, <1>3, <1>4, ScanFacts

(* Marking the run found keeps what is reserved or held in use (pmm.c:164-170).*)
LEMMA ScanCompletesRunPreserves == CallsSound /\ ScanCompletesRun => CallsSound'
<1> SUFFICES ASSUME CallsSound, ScanCompletesRun PROVE CallsSound'
  OBVIOUS
<1> DEFINE run == Run(RunStart, call.count)
<1>0. /\ call.op # "none" /\ UNCHANGED <<e820, bootVars>>
      /\ used' = used \cup run /\ held' = held \cup run
      /\ call' = Idle /\ reply' = PageAddress(RunStart) /\ UNCHANGED asked
  BY DEF ScanCompletesRun, InScan, Take, Return
<1>1. run \subseteq Pages /\ run \cap used = {}
  BY FoundRun DEF Free
<1>2. reply' \in Address
  <2>1. RunStart \in Nat /\ RunStart <= totalPages /\ RunStart + 1 <= totalPages /\ totalPages \in Nat
    BY FoundRun DEF CallsSound, TypeOK
  <2>2. (RunStart + 1) * PageSize <= totalPages * PageSize
    BY <2>1, ProductMonotone, PageSizeAssumption
  <2>3. (RunStart + 1) * PageSize = RunStart * PageSize + PageSize /\ RunStart * PageSize \in Nat
    BY <2>1, PageSizeAssumption
  <2>4. totalPages * PageSize \in Nat /\ totalPages * PageSize <= AddrSpace
    BY <2>1, PageSizeAssumption DEF CallsSound, TypeOK
  <2>5. PageAddress(RunStart) \in Address
    BY <2>2, <2>3, <2>4, PageSizeAssumption, AddrSpaceAssumption DEF PageAddress, Address
  <2> QED BY <1>0, <2>5
<1>3. TypeOK'
  <2>1. call' \in CallType
    BY <1>0 DEF CallType, Idle, Counts
  <2> HIDE DEF run
  <2> QED BY <1>0, <1>1, <1>2, <2>1 DEF TypeOK, CallsSound, bootVars, Pages
<1>4. BootSound'
  BY <1>0, ScanFacts, BootPartUnchanged
<1>5. ReservedNeverFree' /\ held' \subseteq used'
  BY <1>0, <1>1, ReservedUnchanged DEF CallsSound, ReservedNeverFree
<1>6. ScanSound'
  BY <1>0 DEF ScanSound, Idle
<1> QED BY <1>3, <1>4, <1>5, <1>6 DEF CallsSound

(* A scan that comes to its end answers null (pmm.c:176).                  *)
LEMMA ScanExhaustedPreserves == CallsSound /\ ScanExhausted => CallsSound'
<1> SUFFICES ASSUME CallsSound, ScanExhausted PROVE CallsSound'
  OBVIOUS
<1>0. /\ call.op # "none" /\ UNCHANGED <<e820, bootVars, used, held>>
      /\ call' = Idle /\ reply' = 0 /\ UNCHANGED asked
  BY DEF ScanExhausted, Return
<1>1. TypeOK'
  <2>1. call' \in CallType
    BY <1>0 DEF CallType, Idle, Counts
  <2>2. reply' \in Address
    BY <1>0, AddrSpaceAssumption DEF Address
  <2> QED BY <1>0, <2>1, <2>2 DEF TypeOK, CallsSound, bootVars, Pages
<1>2. BootSound'
  BY <1>0, ScanFacts, BootPartUnchanged
<1>3. ReservedNeverFree' /\ held' \subseteq used'
  BY <1>0, ReservedUnchanged DEF CallsSound, ReservedNeverFree
<1> QED BY <1>0, <1>1, <1>2, <1>3 DEF CallsSound, ScanSound, Idle

(* Freeing touches only what the caller holds, which nothing else uses.     *)
LEMMA FreePreserves ==
  ASSUME NEW address, NEW count, CallsSound, FreeContiguous(address, count)
  PROVE  CallsSound'
<1> DEFINE freed == Freed(address, count)
<1>0. /\ stage = "ready" /\ call.op = "none" /\ freed \subseteq held
      /\ used' = used \ freed /\ held' = held \ freed
      /\ UNCHANGED <<e820, bootVars, call, asked, reply>>
  BY DEF FreeContiguous, CanCall
<1> HIDE DEF freed
<1>1. TypeOK'
  BY <1>0 DEF TypeOK, CallsSound, bootVars, Pages
<1>2. BootSound'
  BY <1>0 DEF BootSound, CallsSound, bootVars, BitmapBytes
<1>3. ReservedNeverFree' /\ held' \subseteq used'
  BY <1>0, ReservedUnchanged DEF CallsSound, ReservedNeverFree
<1> QED BY <1>0, <1>1, <1>2, <1>3 DEF CallsSound, ScanSound

-----------------------------------------------------------------------------
(* The theorems.                                                            *)

(* Every step, and every stuttering step, preserves the invariant.         *)
LEMMA Preserved == CallsSound /\ [Next]_vars => CallsSound'
<1> SUFFICES ASSUME CallsSound, [Next]_vars PROVE CallsSound'
  OBVIOUS
<1>1. CASE Boot
  BY <1>1, MemoryInitPreserves, ScanEntryPreserves, ScanDonePreserves, BuildBitmapPreserves,
     BitmapFailurePreserves DEF Boot
<1>2. CASE ScanStep
  BY <1>2, ScanUsedPagePreserves, ScanFreePagePreserves, ScanCompletesRunPreserves,
     ScanExhaustedPreserves DEF ScanStep
<1>3. CASE Request
  <2>1. CASE \E count \in RunLengths : AllocRefused(count, AddrSpace) \/ AllocContiguous(count)
    BY <2>1, RefusedPreserves, AllocContiguousPreserves, RequestAssumption, AddrSpaceAssumption
  <2>2. CASE \E limit \in Limits : AllocRefused(1, limit) \/ AllocPageBelow(limit)
    BY <2>2, RefusedPreserves, AllocPageBelowPreserves, RequestAssumption
  <2>3. CASE \E address, count : FreeContiguous(address, count)
    BY <2>3, FreePreserves
  <2> QED BY <1>3, <2>1, <2>2, <2>3 DEF Request
<1>4. CASE UNCHANGED vars
  BY <1>4 DEF vars, bootVars, CallsSound, TypeOK, BootSound, ReservedNeverFree, ScanSound, Reserved,
     Touched, Free, Pages, BitmapBytes
<1> QED BY <1>1, <1>2, <1>3, <1>4 DEF Next

(* The invariant holds for every memory map and every sequence of calls.    *)
THEOREM CallsInvariant == Spec => []CallsSound
BY Initially, Preserved, PTL DEF Spec

(* Type correctness of pmm.c's state: the bitmap and every address returned *)
(* stay in 32 bits, and every local of a scan stays in range.               *)
THEOREM PmmTypeOK == Spec => []TypeOK
<1>1. CallsSound => TypeOK
  BY DEF CallsSound
<1> QED BY <1>1, CallsInvariant, PTL

(* No frame with a byte of the firmware's low memory, of the kernel or of   *)
(* the bitmap is ever free or handed out, whatever the firmware reports and *)
(* wherever in a page the kernel ends (pmm.c:139-145).                      *)
THEOREM PmmReservedNeverFree == Spec => []ReservedNeverFree
<1>1. CallsSound => ReservedNeverFree
  BY DEF CallsSound
<1> QED BY <1>1, CallsInvariant, PTL

(* A frame a caller holds is never in the pool, so pmm_alloc_contiguous     *)
(* never hands it out again (pmm.c:156-170).                                *)
THEOREM PmmHeldIsUsed == Spec => []HeldIsUsed
<1>1. CallsSound => HeldIsUsed
  BY DEF CallsSound, HeldIsUsed, Free
<1> QED BY <1>1, CallsInvariant, PTL

(* The loop invariant of the bitmap scans: the run behind the page looked   *)
(* at is free and no lower run is long enough (pmm.c:153-174).              *)
THEOREM PmmScanSound == Spec => []ScanSound
<1>1. CallsSound => ScanSound
  BY DEF CallsSound
<1> QED BY <1>1, CallsInvariant, PTL

-----------------------------------------------------------------------------
(* The pool.                                                                *)

(* Rounding goes to multiples of the page size, up only if it does not wrap. *)
LEMMA RoundedPages ==
  ASSUME NEW lo \in Nat, NEW hi \in Nat
  PROVE  LET first == AlignUp(lo, PageSize) \div PageSize
             end == AlignDown(hi, PageSize) \div PageSize
         IN  /\ first \in Nat /\ AlignUp(lo, PageSize) = first * PageSize
             /\ end \in Nat /\ AlignDown(hi, PageSize) = end * PageSize
<1> DEFINE sum == (lo + PageSize - 1) % AddrSpace
           a == sum \div PageSize
           b == hi \div PageSize
<1>1. sum \in Nat
  <2>1. lo + PageSize - 1 \in Nat
    BY PageSizeAssumption
  <2> QED BY <2>1, DivMod, AddrSpaceAssumption
<1>2. AlignUp(lo, PageSize) = sum - (sum % PageSize)
  BY DEF AlignUp
<1> HIDE DEF sum
<1>3. a \in Nat /\ AlignUp(lo, PageSize) = a * PageSize /\ a * PageSize \in Nat
  BY <1>1, <1>2, DivMod, PageSizeAssumption
<1>4. b \in Nat /\ AlignDown(hi, PageSize) = b * PageSize
  BY AlignDownIsBelow, DivMod, PageSizeAssumption
<1> HIDE DEF a, b
<1>5. \A q \in Nat : (q * PageSize) \div PageSize = q
  BY QuotientOfProduct, PageSizeAssumption
<1> QED BY <1>3, <1>4, <1>5

(* A page is whole in a range exactly if the rounded range holds it.        *)
LEMMA WholeIsCovered ==
  ASSUME NEW lo \in Nat, NEW hi \in Nat, NEW page \in Nat, lo + PageSize <= AddrSpace
  PROVE  page \in (AlignUp(lo, PageSize) \div PageSize) .. (AlignDown(hi, PageSize) \div PageSize - 1)
           <=> lo <= page * PageSize /\ page * PageSize + PageSize <= hi
<1> DEFINE first == AlignUp(lo, PageSize) \div PageSize
           end == AlignDown(hi, PageSize) \div PageSize
<1>1. /\ first \in Nat /\ AlignUp(lo, PageSize) = first * PageSize
      /\ end \in Nat /\ AlignDown(hi, PageSize) = end * PageSize
  BY RoundedPages
<1>2. lo <= first * PageSize /\ first * PageSize < lo + PageSize
  BY <1>1, AlignUpIsAbove, PageSizeAssumption
<1>3. end * PageSize <= hi /\ hi < end * PageSize + PageSize
  BY <1>1, AlignDownIsBelow, PageSizeAssumption
<1> HIDE DEF first, end
<1>4. /\ first * PageSize \in Nat /\ end * PageSize \in Nat /\ page * PageSize \in Nat
      /\ (page + 1) * PageSize = page * PageSize + PageSize
      /\ (end + 1) * PageSize = end * PageSize + PageSize
  BY <1>1, PageSizeAssumption
<1>5. first <= page <=> lo <= page * PageSize
  <2>1. ASSUME first <= page PROVE lo <= page * PageSize
    BY <1>1, <1>2, <1>4, <2>1, ProductMonotone, PageSizeAssumption
  <2>2. ASSUME lo <= page * PageSize PROVE first <= page
    <3>1. first * PageSize < (page + 1) * PageSize
      BY <1>2, <1>4, <2>2, PageSizeAssumption
    <3>2. first < page + 1
      BY <1>1, <3>1, ProductReflects, PageSizeAssumption
    <3> QED BY <1>1, <3>2
  <2> QED BY <2>1, <2>2
<1>6. page < end <=> page * PageSize + PageSize <= hi
  <2>1. ASSUME page < end PROVE page * PageSize + PageSize <= hi
    <3>1. (page + 1) * PageSize <= end * PageSize
      BY <1>1, <2>1, ProductMonotone, PageSizeAssumption
    <3> QED BY <1>3, <1>4, <3>1, PageSizeAssumption
  <2>2. ASSUME page * PageSize + PageSize <= hi PROVE page < end
    <3>1. (page + 1) * PageSize < (end + 1) * PageSize
      BY <1>3, <1>4, <2>2, PageSizeAssumption
    <3>2. page + 1 < end + 1
      BY <1>1, <3>1, ProductReflects, PageSizeAssumption
    <3> QED BY <1>1, <3>2
  <2> QED BY <2>1, <2>2
<1>7. page \in first .. (end - 1) <=> first <= page /\ page < end
  BY <1>1
<1> QED BY <1>5, <1>6, <1>7 DEF first, end

(* pmm_mark_range_free marks the whole pages that the bitmap covers.        *)
LEMMA MarkedFreePages ==
  ASSUME totalPages \in Nat, NEW lo \in Nat, NEW hi \in Nat
  PROVE  MarkedFree(lo, hi) =
           Pages \cap ((AlignUp(lo, PageSize) \div PageSize) .. (AlignDown(hi, PageSize) \div PageSize - 1))
<1> DEFINE first == AlignUp(lo, PageSize) \div PageSize
           end == AlignDown(hi, PageSize) \div PageSize
<1>1. /\ first \in Nat /\ AlignUp(lo, PageSize) = first * PageSize
      /\ end \in Nat /\ AlignDown(hi, PageSize) = end * PageSize
  BY RoundedPages
<1> HIDE DEF first, end
<1>2. ASSUME NEW page \in Pages
      PROVE  first * PageSize <= page * PageSize /\ page * PageSize < end * PageSize
               <=> page \in first .. (end - 1)
  <2>1. page \in Nat
    BY <1>2 DEF Pages
  <2>2. first <= page <=> first * PageSize <= page * PageSize
    <3>1. first * PageSize \in Nat /\ page * PageSize \in Nat
      BY <1>1, <2>1, PageSizeAssumption
    <3>2. first <= page => first * PageSize <= page * PageSize
      BY <1>1, <2>1, ProductMonotone, PageSizeAssumption
    <3>3. page < first => page * PageSize < first * PageSize
      BY <1>1, <2>1, PageSizeAssumption, ProductStrict
    <3> QED BY <1>1, <2>1, <3>1, <3>2, <3>3
  <2>3. page < end <=> page * PageSize < end * PageSize
    BY <1>1, <2>1, PageSizeAssumption, ProductStrict, ProductReflects
  <2> QED BY <1>1, <2>1, <2>2, <2>3
<1>3. MarkedFree(lo, hi) = {page \in Pages : first * PageSize <= page * PageSize /\ page * PageSize < end * PageSize}
  BY <1>1 DEF MarkedFree, PageAddress
<1> QED BY <1>2, <1>3 DEF first, end

(* The ends of an entry of the memory map.                                  *)
LEMMA EntryEnds ==
  ASSUME NEW e \in E820Entry
  PROVE  /\ e.base \in Nat /\ RegionEnd(e) \in Nat /\ End32(e) \in Nat
         /\ End32(e) <= RegionEnd(e) /\ End32(e) < AddrSpace
         /\ RegionEnd(e) < AddrSpace => End32(e) = RegionEnd(e)
<1> DEFINE clipped == IF RegionEnd(e) > AddrSpace THEN AddrSpace ELSE RegionEnd(e)
<1>1. e.base \in Nat /\ RegionEnd(e) \in Nat
  BY DEF E820Entry, RegionEnd
<1>2. clipped \in Nat /\ clipped <= RegionEnd(e) /\ (RegionEnd(e) < AddrSpace => clipped = RegionEnd(e))
  BY <1>1, AddrSpaceAssumption
<1>3. End32(e) = clipped % AddrSpace
  BY DEF End32
<1> HIDE DEF clipped
<1>4. (clipped % AddrSpace) \in Nat /\ (clipped % AddrSpace) < AddrSpace /\ (clipped % AddrSpace) <= clipped
  <2>1. /\ clipped \div AddrSpace \in Nat /\ (clipped % AddrSpace) \in Nat
        /\ (clipped % AddrSpace) < AddrSpace
        /\ clipped = (clipped \div AddrSpace) * AddrSpace + (clipped % AddrSpace)
    BY <1>2, AddrSpaceAssumption, DivMod
  <2>2. (clipped \div AddrSpace) * AddrSpace \in Nat
    BY <2>1, AddrSpaceAssumption
  <2> QED BY <1>2, <2>1, <2>2
<1>5. clipped < AddrSpace => (clipped % AddrSpace) = clipped
  BY <1>2, AddrSpaceAssumption, ModSmall
<1> QED BY <1>1, <1>2, <1>3, <1>4, <1>5

(* pmm_init counts the whole pages of a region.                             *)
LEMMA CountedPages ==
  ASSUME NEW e \in E820Entry
  PROVE  /\ WholePages(e) \subseteq Nat /\ IsFiniteSet(WholePages(e))
         /\ UsablePagesOf(e) = Cardinality(WholePages(e)) /\ UsablePagesOf(e) \in Nat
<1> DEFINE first == AlignUp(e.base, PageSize) \div PageSize
           end == AlignDown(End32(e), PageSize) \div PageSize
<1>1. /\ first \in Nat /\ AlignUp(e.base, PageSize) = first * PageSize
      /\ end \in Nat /\ AlignDown(End32(e), PageSize) = end * PageSize
  BY EntryEnds, RoundedPages
<1>2. UsablePagesOf(e) = IF Considered(e) /\ end * PageSize > first * PageSize
                         THEN (end * PageSize - first * PageSize) \div PageSize ELSE 0
  BY <1>1 DEF UsablePagesOf
<1>3. WholePages(e) = IF Considered(e) THEN first .. (end - 1) ELSE {}
  BY DEF WholePages
<1> HIDE DEF first, end
<1>4. IsFiniteSet(first .. (end - 1)) /\ Cardinality(first .. (end - 1)) = IF first > end - 1 THEN 0 ELSE (end - 1) - first + 1
  BY <1>1, FS_Interval
<1>5. IsFiniteSet({}) /\ Cardinality({}) = 0
  BY FS_EmptySet
<1>6. end * PageSize > first * PageSize <=> end > first
  <2>1. end * PageSize \in Nat /\ first * PageSize \in Nat
    BY <1>1, PageSizeAssumption
  <2>2. end > first => end * PageSize > first * PageSize
    BY <1>1, <2>1, ProductStrict, PageSizeAssumption
  <2>3. end <= first => end * PageSize <= first * PageSize
    BY <1>1, ProductMonotone, PageSizeAssumption
  <2> QED BY <1>1, <2>1, <2>2, <2>3
<1>7. end > first => (end * PageSize - first * PageSize) \div PageSize = end - first
  <2> SUFFICES ASSUME end > first PROVE (end * PageSize - first * PageSize) \div PageSize = end - first
    OBVIOUS
  <2>1. end - first \in Nat
    BY <1>1
  <2>2. ((end - first) * PageSize) \div PageSize = end - first
    BY <2>1, QuotientOfProduct, PageSizeAssumption
  <2>3. end * PageSize - first * PageSize = (end - first) * PageSize
    BY <1>1, PageSizeAssumption
  <2> QED BY <2>2, <2>3
<1>8. UsablePagesOf(e) = IF Considered(e) /\ end > first THEN end - first ELSE 0
  BY <1>2, <1>6, <1>7
<1>9. Cardinality(first .. (end - 1)) = IF end > first THEN end - first ELSE 0
  BY <1>1, <1>4
<1>10. first .. (end - 1) \subseteq Nat
  BY <1>1
<1> QED BY <1>1, <1>3, <1>4, <1>5, <1>8, <1>9, <1>10

(* Where the whole pages of a region of a sane map lie.                     *)
LEMMA WholePagesLie ==
  ASSUME NEW e \in E820Entry, Considered(e), e.base + PageSize <= AddrSpace, NEW page \in Nat
  PROVE  page \in WholePages(e) <=> e.base <= page * PageSize /\ page * PageSize + PageSize <= End32(e)
<1>1. e.base \in Nat /\ End32(e) \in Nat
  BY EntryEnds
<1> QED BY <1>1, WholeIsCovered DEF WholePages

(* The pages counted so far.                                                *)
Counted(n) == UNION {WholePages(e820[i]) : i \in 1 .. n}

LEMMA CountedLie ==
  ASSUME e820 \in Seq(E820Entry), MapSane, NEW n \in 0 .. Len(e820)
  PROVE  /\ IsFiniteSet(Counted(n)) /\ Counted(n) \subseteq Nat
         /\ \A page \in Counted(n) :
              \E i \in 1 .. n : /\ page \in WholePages(e820[i])
                                /\ e820[i].base <= page * PageSize
                                /\ page * PageSize + PageSize <= End32(e820[i])
<1>1. \A i \in 1 .. n : /\ e820[i] \in E820Entry /\ i \in DOMAIN e820
                        /\ Considered(e820[i]) => e820[i].base + PageSize <= AddrSpace
  BY LenProperties DEF MapSane, Considered
<1>2. ASSUME NEW page \in Counted(n)
      PROVE  /\ page \in Nat /\ page <= AddrSpace
             /\ \E i \in 1 .. n : /\ page \in WholePages(e820[i])
                                  /\ e820[i].base <= page * PageSize
                                  /\ page * PageSize + PageSize <= End32(e820[i])
  <2>1. PICK i \in 1 .. n : page \in WholePages(e820[i])
    BY DEF Counted
  <2>2. page \in Nat /\ Considered(e820[i])
    BY <1>1, <2>1, CountedPages DEF WholePages
  <2>3. e820[i].base <= page * PageSize /\ page * PageSize + PageSize <= End32(e820[i])
    BY <1>1, <2>1, <2>2, WholePagesLie
  <2>4. page <= page * PageSize /\ page * PageSize \in Nat
    <3>1. page * 1 <= page * PageSize
      BY <2>2, PageSizeAssumption
    <3> QED BY <2>2, <3>1, PageSizeAssumption
  <2>5. End32(e820[i]) \in Nat /\ End32(e820[i]) < AddrSpace
    BY <1>1, EntryEnds
  <2>6. page <= AddrSpace
    BY <2>2, <2>3, <2>4, <2>5, PageSizeAssumption, AddrSpaceAssumption
  <2> QED BY <2>1, <2>2, <2>3, <2>6
<1>3. IsFiniteSet(Counted(n))
  BY <1>2, FS_BoundedSetOfNaturals, AddrSpaceAssumption
<1> QED BY <1>2, <1>3

(* The scan counts every page once, as regions share none.                  *)
LEMMA CountGrows ==
  ASSUME e820 \in Seq(E820Entry), MapSane, NEW n \in 1 .. Len(e820)
  PROVE  Cardinality(Counted(n)) = Cardinality(Counted(n - 1)) + UsablePagesOf(e820[n])
<1> DEFINE U == Counted(n - 1)
           W == WholePages(e820[n])
<1>0. n - 1 \in 0 .. Len(e820) /\ n \in DOMAIN e820 /\ e820[n] \in E820Entry
  BY LenProperties
<1>1. IsFiniteSet(U) /\ IsFiniteSet(W) /\ W \subseteq Nat /\ UsablePagesOf(e820[n]) = Cardinality(W)
  BY <1>0, CountedLie, CountedPages
<1>2. U \cap W = {}
  <2> SUFFICES ASSUME NEW page \in U, page \in W PROVE FALSE
    OBVIOUS
  <2>1. PICK i \in 1 .. (n - 1) : e820[i].base <= page * PageSize /\ page * PageSize + PageSize <= End32(e820[i])
    BY <1>0, CountedLie
  <2>2. i \in DOMAIN e820 /\ i # n /\ e820[i] \in E820Entry
    BY LenProperties
  <2>3. e820[n].base <= page * PageSize /\ page * PageSize + PageSize <= End32(e820[n])
    <3>1. Considered(e820[n]) /\ page \in Nat
      BY <1>1 DEF WholePages
    <3>2. e820[n].base + PageSize <= AddrSpace
      BY <1>0, <3>1 DEF MapSane, Considered
    <3> QED BY <1>0, <3>1, <3>2, WholePagesLie
  <2>4. RegionEnd(e820[i]) <= e820[n].base \/ RegionEnd(e820[n]) <= e820[i].base
    BY <1>0, <2>2 DEF MapSane
  <2>5. /\ e820[i].base \in Nat /\ RegionEnd(e820[i]) \in Nat /\ End32(e820[i]) \in Nat
        /\ End32(e820[i]) <= RegionEnd(e820[i])
        /\ e820[n].base \in Nat /\ RegionEnd(e820[n]) \in Nat /\ End32(e820[n]) \in Nat
        /\ End32(e820[n]) <= RegionEnd(e820[n])
    BY <1>0, <2>2, EntryEnds
  <2>6. page * PageSize \in Nat
    BY <1>1, PageSizeAssumption
  <2> HIDE DEF U, W
  <2> QED BY SMTT(30), <2>1, <2>3, <2>4, <2>5, <2>6, PageSizeAssumption
<1>3. Counted(n) = U \cup W
  <2>1. \A i : i \in 1 .. n <=> i \in 1 .. (n - 1) \/ i = n
    BY LenProperties
  <2> QED BY <2>1 DEF Counted
<1>4. Cardinality(U \cup W) = Cardinality(U) + Cardinality(W) - Cardinality(U \cap W)
  BY <1>1, FS_Union
<1>5. Cardinality(U) \in Nat /\ Cardinality(W) \in Nat /\ Cardinality({}) = 0
  BY <1>1, FS_CardinalityType, FS_EmptySet
<1>6. Cardinality(Counted(n)) = Cardinality(U) + UsablePagesOf(e820[n])
  <2> HIDE DEF U, W
  <2>1. Cardinality(U \cup W) = Cardinality(U) + Cardinality(W)
    <3>1. Cardinality(U \cap W) = 0
      BY <1>2, <1>5, Zenon
    <3> QED BY <1>4, <1>5, <3>1
  <2> QED BY <1>1, <1>3, <2>1
<1> QED BY <1>6

(* Before pmm_init nothing is counted.                                      *)
LEMMA PoolInitially == Init => PoolSound
<1> SUFFICES ASSUME Init PROVE PoolSound
  OBVIOUS
<1>1. e820 \in Seq(E820Entry) /\ next = 1 /\ usablePages = 0 /\ stage = "memory_init" /\ bitmap = 0
  BY MapsAssumption DEF Init
<1>2. Len(e820) \in Nat
  BY <1>1, LenProperties
<1>3. 1 .. (next - 1) = {}
  BY <1>1
<1>4. UNION {WholePages(e820[i]) : i \in 1 .. (next - 1)} = {}
  BY <1>3
<1>5. Cardinality({}) = 0
  BY FS_EmptySet
<1>6. next <= Len(e820) + 1
  BY <1>1, <1>2
<1>7. usablePages = Cardinality(UNION {WholePages(e820[i]) : i \in 1 .. (next - 1)})
  BY <1>1, <1>4, <1>5, Zenon
<1> QED BY <1>1, <1>3, <1>6, <1>7 DEF PoolSound

(* One entry of the map is counted.                                         *)
LEMMA ScanEntryCounts ==
  ASSUME CallsSound, PoolSound, ScanEntry PROVE PoolSound'
<1>1. /\ e820 \in Seq(E820Entry) /\ next \in Nat \ {0} /\ highest \in Nat /\ bitmap = 0 /\ bitmap' = 0
      /\ stage' = "pmm_scan" /\ next' = next + 1 /\ next <= Len(e820) /\ e820' = e820
      /\ highest' = (IF RegionEnd(e820[next]) > highest THEN RegionEnd(e820[next]) ELSE highest)
      /\ usablePages' = usablePages + UsablePagesOf(e820[next])
  BY DEF CallsSound, TypeOK, BootSound, ScanEntry
<1>2. Len(e820) \in Nat /\ \A i \in 1 .. Len(e820) : e820[i] \in E820Entry
  BY <1>1, LenProperties
<1>3. next' <= Len(e820) + 1 /\ next \in 1 .. Len(e820) /\ next' - 1 = next
  BY <1>1, <1>2
<1>4. ASSUME NEW i \in 1 .. next PROVE RegionEnd(e820[i]) <= highest'
  <2>1. i \in 1 .. Len(e820) /\ (i = next \/ i \in 1 .. (next - 1))
    BY <1>2, <1>3
  <2>2. RegionEnd(e820[i]) \in Nat /\ RegionEnd(e820[next]) \in Nat
    BY <1>2, <1>3, <2>1, EntryEnds
  <2>3. i # next => RegionEnd(e820[i]) <= highest
    BY <2>1 DEF PoolSound
  <2> QED BY <1>1, <2>2, <2>3
<1>5. MapSane' => usablePages' = Cardinality(Counted(next))
  <2> SUFFICES ASSUME MapSane PROVE usablePages' = Cardinality(Counted(next))
    BY <1>1 DEF MapSane
  <2>1. usablePages = Cardinality(Counted(next - 1))
    BY DEF PoolSound, Counted
  <2>2. Cardinality(Counted(next)) = Cardinality(Counted(next - 1)) + UsablePagesOf(e820[next])
    BY <1>1, <1>3, CountGrows
  <2> QED BY <1>1, <2>1, <2>2
<1>6. Counted(next) = UNION {WholePages(e820'[i]) : i \in 1 .. (next' - 1)}
  BY <1>1, <1>3 DEF Counted
<1> QED BY <1>1, <1>3, <1>4, <1>5, <1>6 DEF PoolSound

(* What pmm_init and the calls leave of the counts.                         *)
LEMMA CountsKept ==
  ASSUME PoolSound, UNCHANGED <<e820, next, highest, usablePages>>,
         stage' \in {"pmm_map", "ready"} =>
           next = Len(e820) + 1 /\ totalPages' = (IF highest > AddrSpace THEN AddrSpace ELSE highest) \div PageSize,
         (bitmap # 0 => Free \cup held = FreedByMap \ ReservedAtBoot(bitmap))'
  PROVE  PoolSound'
<1>1. MapSane' = MapSane
  BY DEF MapSane
<1> QED BY <1>1 DEF PoolSound

LEMMA BootKeepsPool ==
  ASSUME CallsSound, PoolSound, Boot PROVE PoolSound'
<1>1. CASE ScanEntry
  BY <1>1, ScanEntryCounts
<1>2. CASE MemoryInit \/ ScanDone \/ BitmapAllocationFailed
  <2>1. /\ UNCHANGED <<e820, next, highest, usablePages>> /\ bitmap' = 0
    BY <1>2 DEF CallsSound, BootSound, MemoryInit, ScanDone, BitmapAllocationFailed
  <2>2. stage' \in {"pmm_map", "ready"} =>
          next = Len(e820) + 1 /\ totalPages' = (IF highest > AddrSpace THEN AddrSpace ELSE highest) \div PageSize
    <3>1. CASE MemoryInit
      BY <3>1 DEF MemoryInit
    <3>2. CASE BitmapAllocationFailed
      BY <3>2 DEF BitmapAllocationFailed, PoolSound
    <3>3. CASE ScanDone
      <4>1. next \in Nat /\ Len(e820) \in Nat /\ next <= Len(e820) + 1 /\ next > Len(e820)
        BY <3>3, LenProperties DEF ScanDone, PoolSound, CallsSound, TypeOK
      <4>2. next = Len(e820) + 1
        BY <4>1
      <4> QED BY <3>3, <4>2 DEF ScanDone
    <3> QED BY <1>2, <3>1, <3>2, <3>3
  <2> QED BY <2>1, <2>2, CountsKept
<1>3. CASE BuildBitmap
  <2>1. /\ UNCHANGED <<e820, next, highest, usablePages, totalPages, held>> /\ stage = "pmm_map" /\ held = {}
        /\ used' = (Pages \ FreedByMap) \cup ReservedAtBoot(bitmap')
    BY <1>3 DEF CallsSound, BootSound, BuildBitmap
  <2>2. FreedByMap' = FreedByMap /\ FreedByMap \subseteq Pages /\ Pages' = Pages
    BY <2>1 DEF FreedByMap, MarkedFree, Pages
  <2>3. ReservedAtBoot(bitmap)' = ReservedAtBoot(bitmap')
    BY <2>1 DEF ReservedAtBoot, MarkedUsed, Pages, BitmapBytes
  <2>4. (bitmap # 0 => Free \cup held = FreedByMap \ ReservedAtBoot(bitmap))'
    BY <2>1, <2>2, <2>3 DEF Free
  <2>5. next = Len(e820) + 1 /\ totalPages' = (IF highest > AddrSpace THEN AddrSpace ELSE highest) \div PageSize
    BY <2>1 DEF PoolSound
  <2> QED BY <2>1, <2>4, <2>5, CountsKept
<1> QED BY <1>1, <1>2, <1>3 DEF Boot

(* A call moves frames between the pool and its callers, or none.           *)
LEMMA CallsKeepPool ==
  ASSUME CallsSound, PoolSound, ScanStep \/ Request PROVE PoolSound'
<1>1. UNCHANGED <<e820, bootVars>>
  BY DEF ScanStep, Request, ScanUsedPage, ScanFreePage, ScanCompletesRun, ScanExhausted,
         AllocRefused, AllocContiguous, AllocPageBelow, FreeContiguous
<1>2. bitmap # 0 => Free' \cup held' = Free \cup held
  <2> SUFFICES ASSUME bitmap # 0 PROVE Free' \cup held' = Free \cup held
    OBVIOUS
  <2>0. Free = Pages \ used /\ Free' = Pages \ used' /\ held \subseteq Pages /\ held \subseteq used
    BY <1>1 DEF Free, Pages, bootVars, CallsSound, TypeOK
  <2>1. CASE UNCHANGED <<used, held>>
    BY <2>0, <2>1
  <2>2. CASE ScanCompletesRun
    <3>1. /\ used' = used \cup Run(RunStart, call.count) /\ held' = held \cup Run(RunStart, call.count)
          /\ Run(RunStart, call.count) \subseteq Free
      BY <2>2, FoundRun DEF ScanCompletesRun, Take
    <3> HIDE DEF Run
    <3> QED BY <2>0, <3>1
  <2>3. ASSUME NEW address, NEW count, FreeContiguous(address, count)
        PROVE  Free' \cup held' = Free \cup held
    <3>1. /\ used' = used \ Freed(address, count) /\ held' = held \ Freed(address, count)
          /\ Freed(address, count) \subseteq held
      BY <2>3 DEF FreeContiguous
    <3> QED BY <2>0, <3>1
  <2>4. UNCHANGED <<used, held>> \/ ScanCompletesRun \/ \E address, count : FreeContiguous(address, count)
    BY DEF ScanStep, Request, ScanUsedPage, ScanFreePage, ScanExhausted, AllocRefused, AllocContiguous, AllocPageBelow
  <2> QED BY <2>1, <2>2, <2>3, <2>4
<1>3. FreedByMap' = FreedByMap /\ ReservedAtBoot(bitmap)' = ReservedAtBoot(bitmap)
  BY <1>1 DEF bootVars, FreedByMap, MarkedFree, Pages, ReservedAtBoot, MarkedUsed, BitmapBytes
<1>4. (bitmap # 0 => Free \cup held = FreedByMap \ ReservedAtBoot(bitmap))'
  BY <1>1, <1>2, <1>3 DEF bootVars, PoolSound
<1> QED BY <1>1, <1>4, CountsKept DEF bootVars, PoolSound

(* The whole of the invariant, with what boot counted and pooled.           *)
THEOREM PmmInvariant == Spec => []Inductive
<1>1. Init => PoolSound
  BY PoolInitially
<1>2. CallsSound /\ PoolSound /\ [Next]_vars => PoolSound'
  <2> SUFFICES ASSUME CallsSound, PoolSound, [Next]_vars PROVE PoolSound'
    OBVIOUS
  <2>1. CASE Next
    BY <2>1, BootKeepsPool, CallsKeepPool DEF Next
  <2>2. CASE UNCHANGED vars
    <3>1. UNCHANGED <<e820, next, highest, usablePages, stage, totalPages, bitmap, used, held>>
      BY <2>2 DEF vars, bootVars
    <3>2. (bitmap # 0 => Free \cup held = FreedByMap \ ReservedAtBoot(bitmap))'
      BY <3>1 DEF PoolSound, Free, FreedByMap, MarkedFree, Pages, ReservedAtBoot, MarkedUsed, BitmapBytes
    <3> QED BY <3>1, <3>2, CountsKept DEF PoolSound
  <2> QED BY <2>1, <2>2
<1>3. CallsSound /\ PoolSound => Inductive
  BY DEF Inductive
<1> QED BY <1>1, <1>2, <1>3, CallsInvariant, PTL DEF Spec

(* pmm_mark_range_used marks no page beyond the range.                      *)
LEMMA MarkedIsTouched ==
  ASSUME totalPages \in Nat, NEW lo \in Nat, NEW hi \in Nat, hi + PageSize <= AddrSpace
  PROVE  MarkedUsed(lo, hi) \subseteq Touched(lo, hi)
<1> DEFINE first == AlignDown(lo, PageSize) \div PageSize
           end == AlignUp(hi, PageSize) \div PageSize
<1>1. /\ first \in Nat /\ AlignDown(lo, PageSize) = first * PageSize
      /\ end \in Nat /\ AlignUp(hi, PageSize) = end * PageSize
  BY RoundedPages
<1>2. lo < first * PageSize + PageSize /\ end * PageSize < hi + PageSize
  BY <1>1, AlignDownIsBelow, AlignUpIsAbove, PageSizeAssumption
<1> HIDE DEF first, end
<1> SUFFICES ASSUME NEW page \in Pages, first * PageSize <= page * PageSize, page * PageSize < end * PageSize
             PROVE  page * PageSize < hi /\ lo < page * PageSize + PageSize
  BY <1>1 DEF MarkedUsed, Touched, PageAddress
<1>3. page \in Nat /\ page * PageSize \in Nat /\ end * PageSize \in Nat /\ first * PageSize \in Nat
  BY <1>1, PageSizeAssumption DEF Pages
<1>4. page < end
  BY <1>1, <1>3, ProductReflects, PageSizeAssumption
<1>5. (page + 1) * PageSize <= end * PageSize /\ (page + 1) * PageSize = page * PageSize + PageSize
  BY <1>1, <1>3, <1>4, ProductMonotone, PageSizeAssumption
<1> QED BY <1>2, <1>3, <1>5, PageSizeAssumption

(* Boot reserves nothing beyond the low memory, the kernel and the bitmap.  *)
LEMMA ReservedIsReserved ==
  ASSUME CallsSound, bitmap # 0
  PROVE  ReservedAtBoot(bitmap) \subseteq Reserved
<1> DEFINE phys == VirtToPhys(bitmap)
<1>1. /\ bitmap \in Nat /\ totalPages \in Nat /\ bitmap < AddrSpace
      /\ VirtBase + KernelEnd <= bitmap /\ bitmap + BitmapBytes <= VirtBase + EarlyLimit
  BY AddrSpaceAssumption DEF CallsSound, TypeOK, BootSound, Address
<1>2. BitmapBytes \in Nat
  <2>1. totalPages + BitsPerWord - 1 \in Nat
    BY <1>1, BitmapAssumption
  <2>2. (totalPages + BitsPerWord - 1) \div BitsPerWord \in Nat
    BY <2>1, BitmapAssumption, DivMod
  <2> QED BY <2>2, BitmapAssumption DEF BitmapBytes
<1>3. phys = bitmap - VirtBase
  <2>1. VirtBase <= bitmap
    BY <1>1, LayoutAssumption
  <2> QED BY <1>1, <2>1, VirtToPhysEarly
<1> HIDE DEF phys
<1>4. phys \in Nat /\ phys + BitmapBytes \in Nat /\ phys + BitmapBytes + PageSize <= AddrSpace
  BY <1>1, <1>2, <1>3, LayoutAssumption, PageSizeAssumption, AddrSpaceAssumption
<1>5. (phys + BitmapBytes) % AddrSpace = phys + BitmapBytes
  <2>1. phys + BitmapBytes < AddrSpace
    BY <1>4, PageSizeAssumption, AddrSpaceAssumption
  <2> QED BY <1>4, <2>1, ModSmall, AddrSpaceAssumption
<1>6. MarkedUsed(0, LowMemEnd) \subseteq Touched(0, LowMemEnd)
  BY <1>1, MarkedIsTouched, LayoutAssumption, PageSizeAssumption, AddrSpaceAssumption
<1>7. MarkedUsed(0, KernelEnd) \subseteq Touched(0, KernelEnd)
  BY <1>1, MarkedIsTouched, LayoutAssumption, HeapAlignAssumption, PageSizeAssumption, AddrSpaceAssumption
<1>8. MarkedUsed(phys, phys + BitmapBytes) \subseteq Touched(phys, phys + BitmapBytes)
  BY <1>1, <1>4, MarkedIsTouched
<1> QED BY <1>5, <1>6, <1>7, <1>8 DEF phys, ReservedAtBoot, Reserved

(* The frames the map frees are whole pages of a usable region.             *)
LEMMA FreedPages ==
  ASSUME CallsSound
  PROVE  FreedByMap = Pages \cap Counted(Len(e820))
<1>1. e820 \in Seq(E820Entry) /\ totalPages \in Nat /\ DOMAIN e820 = 1 .. Len(e820)
  BY LenProperties DEF CallsSound, TypeOK
<1>2. ASSUME NEW i \in DOMAIN e820
      PROVE  /\ Considered(e820[i]) => MarkedFree(e820[i].base, End32(e820[i])) = Pages \cap WholePages(e820[i])
             /\ ~Considered(e820[i]) => WholePages(e820[i]) = {}
  <2>1. e820[i] \in E820Entry
    BY <1>1
  <2>2. e820[i].base \in Nat /\ End32(e820[i]) \in Nat
    BY <2>1, EntryEnds
  <2> QED BY <1>1, <2>2, MarkedFreePages DEF WholePages
<1> QED BY <1>1, <1>2 DEF FreedByMap, Counted

(* The pool holds nothing but whole frames of usable RAM.                   *)
LEMMA PoolIsOnlyRam == Inductive => FreeIsRam
<1> SUFFICES ASSUME CallsSound, PoolSound, MapSane, NEW page \in Free \cup held
             PROVE  \E i \in DOMAIN e820 :
                      e820[i].usable /\ page \in Covered(e820[i].base, RegionEnd(e820[i]))
  BY DEF Inductive, FreeIsRam
<1>1. e820 \in Seq(E820Entry) /\ DOMAIN e820 = 1 .. Len(e820) /\ Len(e820) \in Nat
  BY LenProperties DEF CallsSound, TypeOK
<1>2. bitmap # 0
  BY DEF CallsSound, BootSound, Free
<1>3. page \in Pages /\ page \in Counted(Len(e820))
  BY <1>2, FreedPages DEF PoolSound
<1>4. PICK i \in 1 .. Len(e820) : /\ page \in WholePages(e820[i])
                                  /\ e820[i].base <= page * PageSize
                                  /\ page * PageSize + PageSize <= End32(e820[i])
  BY <1>1, <1>3, CountedLie
<1>5. e820[i].usable /\ e820[i] \in E820Entry
  BY <1>1, <1>4 DEF WholePages, Considered
<1>6. page * PageSize \in Nat
  BY <1>3, PageSizeAssumption DEF Pages
<1>7. page * PageSize + PageSize <= RegionEnd(e820[i])
  BY <1>4, <1>5, <1>6, EntryEnds, PageSizeAssumption
<1> QED BY <1>1, <1>3, <1>4, <1>5, <1>7 DEF Covered, PageAddress

(* And all of it, but for what boot reserves.                               *)
LEMMA AllRamIsPooled == Inductive => RamIsPooled
<1> SUFFICES ASSUME CallsSound, PoolSound, bitmap # 0, NEW i \in DOMAIN e820,
                    e820[i].usable, RegionEnd(e820[i]) < AddrSpace,
                    NEW page \in Covered(e820[i].base, RegionEnd(e820[i]))
             PROVE  page \in Free \cup Reserved \cup held
  BY DEF Inductive, RamIsPooled
<1>1. e820 \in Seq(E820Entry) /\ DOMAIN e820 = 1 .. Len(e820) /\ e820[i] \in E820Entry
  BY LenProperties DEF CallsSound, TypeOK
<1>2. /\ e820[i].base \in Nat /\ RegionEnd(e820[i]) \in Nat /\ End32(e820[i]) = RegionEnd(e820[i])
  BY <1>1, EntryEnds
<1>3. /\ page \in Pages /\ page \in Nat /\ page * PageSize \in Nat
      /\ e820[i].base <= page * PageSize /\ page * PageSize + PageSize <= RegionEnd(e820[i])
  BY PageSizeAssumption DEF Covered, Pages, PageAddress
<1>4. e820[i].base + PageSize <= AddrSpace /\ e820[i].base < AddrSpace
  BY <1>2, <1>3, AddrSpaceAssumption, PageSizeAssumption
<1>5. page \in WholePages(e820[i])
  BY <1>1, <1>2, <1>3, <1>4, WholePagesLie DEF Considered
<1>6. page \in FreedByMap
  BY <1>1, <1>3, <1>5, FreedPages DEF Counted
<1> QED BY <1>6, ReservedIsReserved DEF PoolSound

(* The pool is the RAM that the firmware reports, no more of it and no less, *)
(* for every map it may report and every page size (pmm.c:48-62, 124-137).   *)
THEOREM PmmPoolIsRam == Spec => []PoolIsRam
<1>1. Inductive => PoolIsRam
  BY PoolIsOnlyRam, AllRamIsPooled DEF PoolIsRam
<1> QED BY <1>1, PmmInvariant, PTL

(* The bitmap covers every page that was counted.                           *)
LEMMA CountedAreFreed ==
  ASSUME CallsSound, PoolSound, MapSane, stage = "ready"
  PROVE  FreedByMap = Counted(Len(e820)) /\ usablePages = Cardinality(FreedByMap)
<1> DEFINE top == IF highest > AddrSpace THEN AddrSpace ELSE highest
<1>1. /\ e820 \in Seq(E820Entry) /\ DOMAIN e820 = 1 .. Len(e820) /\ Len(e820) \in Nat
      /\ highest \in Nat /\ totalPages \in Nat
  BY LenProperties DEF CallsSound, TypeOK
<1>2. /\ next = Len(e820) + 1 /\ totalPages = top \div PageSize
      /\ \A i \in 1 .. (next - 1) : RegionEnd(e820[i]) <= highest
  BY DEF PoolSound
<1>3. top \in Nat /\ top <= highest /\ top <= AddrSpace /\ (top = highest \/ top = AddrSpace)
  BY <1>1, AddrSpaceAssumption
<1> HIDE DEF top
<1>4. next - 1 = Len(e820)
  BY <1>1, <1>2
<1>5. top < (totalPages + 1) * PageSize
  <2>1. /\ (top % PageSize) < PageSize /\ (top % PageSize) \in Nat
        /\ top = totalPages * PageSize + (top % PageSize)
    BY <1>2, <1>3, DivMod, PageSizeAssumption
  <2>2. (totalPages + 1) * PageSize = totalPages * PageSize + PageSize /\ totalPages * PageSize \in Nat
    BY <1>1, PageSizeAssumption
  <2> QED BY <2>1, <2>2, PageSizeAssumption
<1>6. Counted(Len(e820)) \subseteq Pages
  <2> SUFFICES ASSUME NEW page \in Counted(Len(e820)) PROVE page \in Pages
    OBVIOUS
  <2>1. page \in Nat /\ page * PageSize \in Nat
    BY <1>1, CountedLie, PageSizeAssumption
  <2>2. PICK i \in 1 .. Len(e820) : page * PageSize + PageSize <= End32(e820[i])
    BY <1>1, CountedLie
  <2>3. /\ End32(e820[i]) \in Nat /\ RegionEnd(e820[i]) \in Nat
        /\ End32(e820[i]) <= RegionEnd(e820[i]) /\ End32(e820[i]) < AddrSpace
        /\ RegionEnd(e820[i]) <= highest
    BY <1>1, <1>2, <1>4, EntryEnds
  <2>4. End32(e820[i]) <= top
    BY <1>1, <1>3, <2>3, AddrSpaceAssumption
  <2>5. (page + 1) * PageSize = page * PageSize + PageSize
    BY <2>1, PageSizeAssumption
  <2>6. (page + 1) * PageSize < (totalPages + 1) * PageSize
    <3>1. (totalPages + 1) * PageSize \in Nat
      BY <1>1, PageSizeAssumption
    <3> QED BY <1>3, <1>5, <2>1, <2>2, <2>3, <2>4, <2>5, <3>1, PageSizeAssumption
  <2>7. page + 1 < totalPages + 1
    BY <1>1, <2>1, <2>6, ProductReflects, PageSizeAssumption
  <2> QED BY <1>1, <2>1, <2>7 DEF Pages
<1>7. FreedByMap = Counted(Len(e820))
  BY <1>6, FreedPages
<1>8. usablePages = Cardinality(Counted(Len(e820)))
  BY <1>4 DEF PoolSound, Counted
<1> QED BY <1>7, <1>8

(* pmm_get_used_pages: what is usable and not free is in use, and the        *)
(* subtraction does not wrap, on every sane map (pmm.c:264-268).             *)
THEOREM PmmUsedAccounting == Spec => []UsedAccounting
<1>1. Inductive => UsedAccounting
  <2> SUFFICES ASSUME CallsSound, PoolSound, stage = "ready", bitmap # 0, MapSane
               PROVE  /\ usablePages >= Cardinality(Free)
                      /\ usablePages - Cardinality(Free) = Cardinality(FreedByMap \cap used)
    BY DEF Inductive, UsedAccounting
  <2>1. e820 \in Seq(E820Entry) /\ Len(e820) \in 0 .. Len(e820)
    BY LenProperties DEF CallsSound, TypeOK
  <2>2. IsFiniteSet(FreedByMap) /\ usablePages = Cardinality(FreedByMap)
    BY <2>1, CountedAreFreed, CountedLie
  <2>3. Free = FreedByMap \ used
    <3>1. Free \cup held = FreedByMap \ ReservedAtBoot(bitmap) /\ held \subseteq used
      BY DEF PoolSound, CallsSound
    <3>2. Free = Pages \ used /\ FreedByMap \subseteq Pages
      BY FreedPages DEF Free
    <3> QED BY <3>1, <3>2
  <2>4. Cardinality(FreedByMap \ used) = Cardinality(FreedByMap) - Cardinality(FreedByMap \cap used)
    BY <2>2, FS_Difference
  <2>5. IsFiniteSet(FreedByMap \cap used)
    BY <2>2, FS_Intersection
  <2>6. Cardinality(FreedByMap) \in Nat /\ Cardinality(FreedByMap \cap used) \in Nat
    BY <2>2, <2>5, FS_CardinalityType
  <2>7. Cardinality(Free) = usablePages - Cardinality(FreedByMap \cap used) /\ usablePages \in Nat
    BY <2>2, <2>3, <2>4, <2>6
  <2> QED BY <2>6, <2>7
<1> QED BY <1>1, PmmInvariant, PTL

-----------------------------------------------------------------------------
(* The pool implements FramePool: the initial states of pmm.c map to its   *)
(* initial states, the step that ends pmm_init opens the pool, the call of  *)
(* an allocation asks, the step that ends its scan grants or refuses that   *)
(* request, and every other step leaves the pool as it was.                 *)

MaxPages == AddrSpace \div PageSize
PoolRequests == [count : RunLengths, limit : {AddrSpace}] \cup [count : {1}, limit : Limits]
PoolAnswer == IF call.op # "none" \/ reply = 0 THEN [start |-> 0, count |-> 0]
              ELSE [start |-> reply \div PageSize, count |-> asked.count]

(* The bitmap never covers more pages than the address space has.           *)
LEMMA PagesFit ==
  ASSUME NEW total \in Nat, total * PageSize <= AddrSpace
  PROVE  /\ MaxPages \in Nat /\ total <= MaxPages
         /\ 0 .. (total - 1) \subseteq 0 .. (MaxPages - 1)
<1>1. MaxPages \in Nat /\ MaxPages * PageSize = AddrSpace
  BY DivMod, WholePagesAssumption, AddrSpaceAssumption, PageSizeAssumption DEF MaxPages
<1>2. total * PageSize <= MaxPages * PageSize
  BY <1>1
<1>3. total <= MaxPages
  <2> SUFFICES ASSUME MaxPages < total PROVE FALSE
    BY <1>1, <1>2
  <2>1. (MaxPages + 1) * PageSize <= total * PageSize
    BY <1>1, <1>2, ProductMonotone, PageSizeAssumption
  <2>2. (MaxPages + 1) * PageSize = MaxPages * PageSize + PageSize
    BY <1>1, PageSizeAssumption
  <2> QED BY <1>1, <1>2, <2>1, <2>2, PageSizeAssumption
<1> QED BY <1>1, <1>2, <1>3

(* So every page of the bitmap is a frame of FramePool.                    *)
LEMMA PagesAreFrames ==
  ASSUME TypeOK
  PROVE  MaxPages \in Nat /\ totalPages <= MaxPages
BY PagesFit DEF TypeOK

(* Page 0 is low memory, so the null pointer is never the address of a run. *)
LEMMA PageZeroReserved ==
  ASSUME CallsSound, bitmap # 0
  PROVE  0 \notin Free
<1>1. 0 \in Pages => 0 \in Touched(0, LowMemEnd)
  BY PageSizeAssumption, LayoutAssumption DEF Touched, PageAddress
<1> QED BY <1>1 DEF CallsSound, ReservedNeverFree, Reserved, Free

(* An early return refuses what it is asked in one step: no run has no page, *)
(* and without a bitmap there is no page to give.                           *)
LEMMA RefusedMaps ==
  ASSUME NEW r, r = [count |-> r.count, limit |-> r.limit], AllocRefused(r.count, r.limit)
  PROVE  Pool!RefuseAtOnce(r)
<1>1. /\ stage = "ready" /\ call.op = "none" /\ (bitmap = 0 \/ r.count = 0)
      /\ UNCHANGED <<e820, bootVars, used, call, held>>
      /\ asked' = r /\ reply' = 0
  BY DEF AllocRefused, CanCall, Ask
<1>2. \A start \in Free : ~Pool!Fits(r, start)
  BY <1>1 DEF Free, Pool!Fits
<1>3. Free' = Free /\ (stage' = "ready") = (stage = "ready") /\ call' = call
  BY <1>1 DEF Free, Pages, bootVars
<1>4. PoolAnswer' = [start |-> 0, count |-> 0]
  BY <1>1 DEF PoolAnswer
<1> QED BY <1>1, <1>2, <1>3, <1>4 DEF Pool!RefuseAtOnce, Pool!pool, Pool!NoRun, PoolAnswer

(* A call that starts a scan asks.                                          *)
LEMMA AskMaps ==
  ASSUME NEW r, stage = "ready", call.op = "none", asked' = r, call'.op # "none",
         UNCHANGED <<bootVars, used, held>>
  PROVE  Pool!Ask(r)
<1>1. Free' = Free /\ (stage' = "ready") = (stage = "ready")
  BY DEF Free, Pages, bootVars
<1>2. PoolAnswer' = [start |-> 0, count |-> 0]
  BY DEF PoolAnswer
<1> QED BY <1>1, <1>2 DEF Pool!Ask, Pool!pool, Pool!NoRun, PoolAnswer

(* The step that completes a run grants the lowest run of the pool that     *)
(* satisfies the request: its last page is below the bound of the scan, so  *)
(* the run ends below the limit the caller gave.                            *)
LEMMA GrantMaps ==
  ASSUME CallsSound, ScanCompletesRun
  PROVE  Pool!Grant
<1> DEFINE run == Run(RunStart, call.count)
<1>0. /\ call.op # "none" /\ call.page < call.bound /\ call.runLen + 1 = call.count
      /\ UNCHANGED <<e820, bootVars, asked>>
      /\ used' = used \cup run /\ held' = held \cup run
      /\ call' = Idle /\ reply' = PageAddress(RunStart)
  BY DEF ScanCompletesRun, InScan, Take, Return
<1>1. /\ RunStart \in Nat /\ run \subseteq Free
      /\ \A start \in Pages : start < RunStart => ~(Run(start, call.count) \subseteq Free)
  BY FoundRun
<1>2. /\ call.count \in Nat \ {0} /\ call.page \in Nat /\ call.bound \in Nat /\ totalPages \in Nat
      /\ RunStart + call.count = call.page + 1 /\ call.page \in Pages
      /\ call.count = asked.count
  BY <1>0, ScanFacts, AskedFacts DEF Pages
<1>3. RunStart \in Free
  BY <1>1, <1>2 DEF Run
<1>4. \A s : Pool!Run(s, call.count) = Run(s, call.count)
  BY DEF Pool!Run, Run
<1>5. Pool!Fits(asked, RunStart)
  <2>1. (call.page + 1) * PageSize <= asked.limit
    BY <1>0, <1>2, AskedFacts DEF PageAddress
  <2>2. (RunStart + asked.count) * PageSize <= asked.limit
    BY <1>2, <2>1
  <2> QED BY <1>1, <1>2, <1>4, <2>2 DEF Pool!Fits
<1>6. \A lower \in Free : lower < RunStart => ~Pool!Fits(asked, lower)
  BY <1>1, <1>2, <1>4 DEF Pool!Fits, Free
<1>7. Free' = Free \ run
  BY <1>0 DEF Free, Pages, bootVars
<1>8. call'.op = "none" /\ PoolAnswer' = [start |-> RunStart, count |-> asked.count]
  <2>1. RunStart # 0
    BY <1>0, <1>3, ScanFacts, PageZeroReserved
  <2>2. RunStart * PageSize # 0 /\ (RunStart * PageSize) \div PageSize = RunStart
    BY <1>1, <2>1, PageSizeAssumption, QuotientOfProduct
  <2> QED BY <1>0, <2>2 DEF PoolAnswer, PageAddress, Idle
<1>9. (stage' = "ready") = (stage = "ready")
  BY <1>0 DEF bootVars
<1>10. run = Pool!Run(RunStart, asked.count)
  BY <1>2, <1>4
<1> HIDE DEF run
<1> QED BY <1>0, <1>3, <1>5, <1>6, <1>7, <1>8, <1>9, <1>10 DEF Pool!Grant, PoolAnswer

(* The step that ends a scan without a run refuses: a run that fits the     *)
(* request would end below the limit, so below the bound of the scan.       *)
LEMMA RefuseMaps ==
  ASSUME CallsSound, ScanExhausted
  PROVE  Pool!Refuse
<1>0. /\ call.op # "none" /\ call.page >= call.bound
      /\ UNCHANGED <<e820, bootVars, used, held, asked>>
      /\ call' = Idle /\ reply' = 0
  BY DEF ScanExhausted, Return
<1>1. \A start \in Free : ~Pool!Fits(asked, start)
  <2> SUFFICES ASSUME NEW start \in Free, (start + call.count) * PageSize <= asked.limit,
                      Run(start, call.count) \subseteq Free
               PROVE  FALSE
    BY <1>0, AskedFacts DEF Pool!Fits, Pool!Run, Run
  <2> DEFINE last == start + call.count - 1
  <2>1. start \in Pages /\ start \in Nat
    BY DEF Free, Pages
  <2>2. last \in Nat /\ last + 1 = start + call.count /\ last \in Run(start, call.count)
    BY <1>0, <2>1, ScanFacts DEF Run
  <2>3. last \in Pages
    BY <2>2 DEF Free
  <2> HIDE DEF last
  <2>4. PageAddress(last + 1) <= asked.limit
    BY <2>2 DEF PageAddress
  <2>5. last < call.bound
    BY <1>0, <2>3, <2>4, AskedFacts
  <2>6. start < call.page - call.runLen
    BY <1>0, <2>1, <2>2, <2>5, ScanFacts
  <2> QED BY <1>0, <2>1, <2>6, ScanFacts
<1>2. Free' = Free /\ (stage' = "ready") = (stage = "ready")
  BY <1>0 DEF Free, Pages, bootVars
<1>3. call'.op = "none" /\ PoolAnswer' = [start |-> 0, count |-> 0]
  BY <1>0 DEF PoolAnswer, Idle
<1> QED BY <1>0, <1>1, <1>2, <1>3 DEF Pool!Refuse, Pool!pool, Pool!NoRun, PoolAnswer

(* A step of a scan that does not end it leaves the pool's variables alone.  *)
LEMMA StutterMaps ==
  ASSUME UNCHANGED <<stage, bitmap, totalPages, used, held, asked, reply>>, call'.op = call.op
  PROVE  UNCHANGED Pool!vars
BY DEF Pool!vars, Pool!pool, Free, Pages

(* Before the bitmap is in place the pool is empty; the step that reaches   *)
(* "ready" opens it, with the bitmap's free pages or with none.             *)
LEMMA BootMaps ==
  ASSUME CallsSound, CallsSound', Boot
  PROVE  Pool!Next \/ UNCHANGED Pool!vars
<1>1. stage # "ready" /\ bitmap = 0 /\ Free = {}
  BY DEF Boot, MemoryInit, ScanEntry, ScanDone, BuildBitmap, BitmapAllocationFailed, CallsSound, BootSound, Free
<1>2. UNCHANGED <<held, call, asked, reply>>
  BY DEF Boot, MemoryInit, ScanEntry, ScanDone, BuildBitmap, BitmapAllocationFailed
<1>3. CASE stage' = "ready"
  <2>1. Free' \subseteq 0 .. (MaxPages - 1)
    <3>1. totalPages' \in Nat /\ totalPages' * PageSize <= AddrSpace
      BY DEF CallsSound, TypeOK
    <3>2. 0 .. (totalPages' - 1) \subseteq 0 .. (MaxPages - 1)
      BY <3>1, PagesFit
    <3>3. Free' \subseteq Pages'
      BY DEF Free
    <3> QED BY <3>2, <3>3 DEF Pages
  <2>2. Pool!Open
    BY <1>1, <1>2, <1>3, <2>1 DEF Pool!Open, PoolAnswer, MaxPages
  <2> QED BY <2>2 DEF Pool!Next
<1>4. CASE stage' # "ready"
  <2>1. bitmap' = 0 /\ Free' = {}
    BY <1>4 DEF CallsSound, BootSound, Free
  <2> QED BY <1>1, <1>2, <1>4, <2>1 DEF Pool!vars, Pool!pool
<1> QED BY <1>3, <1>4

(* pmm_free_contiguous returns frames the caller holds.                    *)
LEMMA FreeMaps ==
  ASSUME NEW address, NEW count, CallsSound, FreeContiguous(address, count)
  PROVE  Pool!Next
<1> DEFINE freed == Freed(address, count)
<1>0. /\ freed \subseteq held /\ used' = used \ freed /\ held' = held \ freed
      /\ UNCHANGED <<e820, bootVars, call, asked, reply>> /\ held \subseteq used /\ used \subseteq Pages
      /\ call.op = "none"
      /\ bitmap = 0 => freed = {}
  BY DEF FreeContiguous, CanCall, Freed, CallsSound, TypeOK
<1> HIDE DEF freed
<1>1. Free' = IF bitmap = 0 THEN {} ELSE Free \cup freed
  BY <1>0 DEF Free, Pages, bootVars
<1>2. held' = held \ Free'
  BY <1>0, <1>1 DEF Free
<1>3. Free \subseteq Free' /\ Free' \subseteq Free \cup held
  BY <1>0, <1>1 DEF Free
<1>4. Pool!Release
  BY <1>0, <1>2, <1>3 DEF Pool!Release, bootVars
<1> QED BY <1>4 DEF Pool!Next

(* What callers ask for is a request of FramePool.                          *)
LEMMA PoolAsked ==
  ASSUME NEW r \in PoolRequests, Pool!Ask(r) \/ Pool!RefuseAtOnce(r)
  PROVE  Pool!Next
BY DEF Pool!Next, PoolRequests

(* Every step of pmm.c is a step of FramePool or a stutter.                *)
LEMMA StepMaps ==
  ASSUME CallsSound, CallsSound', [Next]_vars
  PROVE  [Pool!Next]_(Pool!vars)
<1>1. CASE Boot
  BY <1>1, BootMaps
<1>2. CASE ScanUsedPage \/ ScanFreePage
  <2>1. call \in CallType
    BY DEF CallsSound, TypeOK
  <2>2. UNCHANGED <<stage, bitmap, totalPages, used, held, asked, reply>> /\ call'.op = call.op
    BY <1>2, <2>1 DEF ScanUsedPage, ScanFreePage, bootVars, CallType
  <2> QED BY <2>2, StutterMaps
<1>3. CASE ScanCompletesRun \/ ScanExhausted
  BY <1>3, GrantMaps, RefuseMaps DEF Pool!Next
<1>4. ASSUME NEW count \in RunLengths, AllocRefused(count, AddrSpace) \/ AllocContiguous(count)
      PROVE  Pool!Next
  <2> DEFINE r == [count |-> count, limit |-> AddrSpace]
  <2>1. r \in PoolRequests /\ r = [count |-> r.count, limit |-> r.limit]
        /\ r.count = count /\ r.limit = AddrSpace
    BY DEF PoolRequests
  <2>2. CASE AllocRefused(count, AddrSpace)
    BY <2>1, <2>2, RefusedMaps, PoolAsked
  <2>3. CASE AllocContiguous(count)
    <3>1. /\ stage = "ready" /\ call.op = "none" /\ asked' = r /\ call'.op # "none"
          /\ UNCHANGED <<bootVars, used, held>>
      BY <2>3 DEF AllocContiguous, CanCall, Ask, Idle
    <3> HIDE DEF r
    <3> QED BY <2>1, <3>1, AskMaps, PoolAsked
  <2> QED BY <1>4, <2>2, <2>3
<1>5. ASSUME NEW limit \in Limits, AllocRefused(1, limit) \/ AllocPageBelow(limit)
      PROVE  Pool!Next
  <2> DEFINE r == [count |-> 1, limit |-> limit]
  <2>1. r \in PoolRequests /\ r = [count |-> r.count, limit |-> r.limit]
        /\ r.count = 1 /\ r.limit = limit
    BY DEF PoolRequests
  <2>2. CASE AllocRefused(1, limit)
    BY <2>1, <2>2, RefusedMaps, PoolAsked
  <2>3. CASE AllocPageBelow(limit)
    <3>1. /\ stage = "ready" /\ call.op = "none" /\ asked' = r /\ call'.op # "none"
          /\ UNCHANGED <<bootVars, used, held>>
      BY <2>3 DEF AllocPageBelow, CanCall, Ask, Idle
    <3> HIDE DEF r
    <3> QED BY <2>1, <3>1, AskMaps, PoolAsked
  <2> QED BY <1>5, <2>2, <2>3
<1>6. CASE UNCHANGED vars
  BY <1>6, StutterMaps DEF vars, bootVars
<1> QED BY <1>1, <1>2, <1>3, <1>4, <1>5, <1>6, FreeMaps DEF Next, ScanStep, Request

(* pmm.c keeps the promises of FramePool: each request is answered with the *)
(* lowest run of free frames of the length it asks for that ends at or      *)
(* below its limit, with null only when no run satisfies that request, and  *)
(* the pool changes by grants and releases alone (pmm.c:148-231).           *)
THEOREM PmmImplementsFramePool == Spec => ImplementsFramePool
<1>1. Init => Pool!Init
  BY DEF Init, Pool!Init, Free, Idle, Pool!NoRun, Pool!NoRequest
<1>2. CallsSound /\ CallsSound' /\ [Next]_vars => [Pool!Next]_(Pool!vars)
  BY StepMaps
<1> QED BY <1>1, <1>2, CallsInvariant, PTL DEF Spec, ImplementsFramePool, Pool!Spec
=============================================================================
