---------------------------- MODULE MemoryLayout ----------------------------
(***************************************************************************)
(* The address arithmetic, the firmware memory map and the bootstrap       *)
(* allocator that pmm.c, memory.c and paging.c share.                      *)
(*                                                                         *)
(* Addresses are naturals below AddrSpace (2^32 in the build); sums of     *)
(* uint32_t values are taken modulo AddrSpace.  A memory map is a sequence *)
(* of records [base, length, usable]: "usable" is e820 type 1, and the     *)
(* other types differ only in how they are printed.  The bases and lengths *)
(* are 64-bit in the code and are not reduced here.                        *)
(***************************************************************************)
EXTENDS Naturals, Sequences

CONSTANTS
  PageSize,     \* PMM_PAGE_SIZE, 4096
  AddrSpace,    \* 2^32, one past the largest uint32_t
  VirtBase,     \* KERNEL_VIRT_BASE, 0xC0000000
  LowMemEnd,    \* 0x00100000: firmware, page directory and boot code lie below
  KernelEnd,    \* physical address of _kernel_end
  EarlyLimit,   \* EARLY_MAPPED_PHYS_LIMIT, 0x00400000
  HeapAlign     \* MEMORY_DEFAULT_ALIGNMENT, 16

ASSUME PageSizeAssumption == PageSize \in Nat \ {0}
ASSUME HeapAlignAssumption == HeapAlign \in Nat \ {0}
ASSUME AddrSpaceAssumption == AddrSpace \in Nat \ {0}
ASSUME WholePagesAssumption == AddrSpace = (AddrSpace \div PageSize) * PageSize
ASSUME LayoutAssumption ==
  /\ VirtBase \in Nat \ {0} /\ LowMemEnd \in Nat \ {0} /\ KernelEnd \in Nat /\ EarlyLimit \in Nat
  \* The direct map of the first EarlyLimit bytes lies inside the address space,
  \* and the kernel image, rounded up to the heap alignment, inside it.
  /\ VirtBase + EarlyLimit + PageSize <= AddrSpace
  /\ LowMemEnd <= EarlyLimit
  /\ KernelEnd + HeapAlign <= EarlyLimit

Address == 0 .. (AddrSpace - 1)

AlignDown(addr, alignment) == addr - (addr % alignment)
AlignUp(addr, alignment) ==
  LET sum == (addr + alignment - 1) % AddrSpace IN sum - (sum % alignment)

PhysToVirt(addr) == (addr + VirtBase) % AddrSpace
VirtToPhys(addr) == (addr + AddrSpace - VirtBase) % AddrSpace

-----------------------------------------------------------------------------
(* The firmware memory map.                                                *)

E820Entry == [base : Nat, length : Nat, usable : BOOLEAN]

RegionEnd(e) == e.base + e.length

\* Entries the 32-bit kernel looks at: usable RAM that starts below 4 GiB.
Considered(e) == e.usable /\ e.base < AddrSpace

\* (uint32_t)region_end after the clip to 4 GiB: a region that reaches 4 GiB
\* ends at 0x100000000, which the cast turns into 0.
End32(e) ==
  LET clipped == IF RegionEnd(e) > AddrSpace THEN AddrSpace ELSE RegionEnd(e)
  IN  clipped % AddrSpace

-----------------------------------------------------------------------------
(* The bootstrap allocator: a bump pointer over the part of the early      *)
(* direct map that follows the kernel image.                               *)

BootHeap == [start : Address, current : Address, limit : Address]

HoldsKernelEnd(e) ==
  /\ Considered(e)
  /\ e.base <= KernelEnd /\ KernelEnd < End32(e)
  /\ AlignUp(KernelEnd, HeapAlign) < End32(e)

\* memory_init: the limit is the end of the first region that contains the end
\* of the kernel, clipped to what is mapped; without one it is EarlyLimit.
BootstrapLimit(map) ==
  LET hits == {i \in DOMAIN map : HoldsKernelEnd(map[i])}
      first == CHOOSE i \in hits : \A j \in hits : i <= j
      found == End32(map[first])
  IN  IF hits # {} /\ found <= EarlyLimit THEN found ELSE EarlyLimit

BootstrapHeap(map) ==
  LET start == PhysToVirt(AlignUp(KernelEnd, HeapAlign))
  IN  [start |-> start, current |-> start, limit |-> PhysToVirt(BootstrapLimit(map))]

\* bootstrap_alloc_aligned: the address an allocation would start at, and
\* whether it is granted.
BootstrapNext(heap, alignment) == AlignUp(heap.current, alignment)
BootstrapFits(heap, size, alignment) ==
  LET at == BootstrapNext(heap, alignment) IN
  /\ size # 0
  /\ heap.current <= at
  /\ at + size < AddrSpace
  /\ at + size <= heap.limit
=============================================================================
