----------------------------- MODULE MemoryMap -----------------------------
(***************************************************************************)
(* HeapInfo::initLargestHeap and init of kernel/os/heap.cpp: the heap goes *)
(* into the largest usable region of the boot loader's memory map.         *)
(*                                                                         *)
(* The loop over the entries is one step per entry; the boot loader has    *)
(* written the map before the kernel starts, so the map never changes.     *)
(***************************************************************************)
EXTENDS Integers, Sequences

CONSTANTS
  Maps,        \* memory maps that the boot loader may hand over
  HeaderSize,  \* sizeof(BlockHeader)
  MapWord      \* 2^64, scaled to the size of the instance

\* The types of LIMINE_MEMMAP_*, of which LIMINE_MEMMAP_USABLE is 0.
Usable == 0
Types == 0 .. 8
Region == [base : 0 .. MapWord - 1, length : 0 .. MapWord - 1, type : Types]

\* Limine aligns usable regions to pages, and a header fits into a page.
ASSUME MemoryMapAssumption ==
  /\ MapWord \in Nat \ {0} /\ HeaderSize \in Nat \ {0}
  /\ Maps \subseteq Seq(Region)
  /\ \A m \in Maps : \A j \in DOMAIN m :
       m[j].type = Usable => m[j].length = 0 \/ m[j].length > HeaderSize

VARIABLES
  entries,   \* m_response->entries
  looked,    \* entries the loop has looked at
  maxMem, bestBase,
  stage,     \* "scan", "ready" or "panic"
  root       \* size of the first block's header, -1 before init()

mapVars == <<entries, looked, maxMem, bestBase, stage, root>>

MapInit ==
  /\ entries \in Maps /\ looked = 0
  /\ maxMem = 0 /\ bestBase = MapWord - 1
  /\ stage = "scan" /\ root = -1

BetterAnyType(r) == r.length > maxMem
BetterAny(r) == r.type = Usable
Better(r) == r.type = Usable /\ r.length > maxMem

Scan ==
  LET r == entries[looked + 1] IN
  /\ stage = "scan" /\ looked < Len(entries)
  /\ looked' = looked + 1
  /\ IF Better(r) THEN maxMem' = r.length /\ bestBase' = r.base ELSE UNCHANGED <<maxMem, bestBase>>
  /\ UNCHANGED <<entries, stage, root>>

RootSizeWhole(size) == size
RootSize(size) == (size - HeaderSize) % MapWord

\* init() of the region, which cuts a header off it, or a panic.
Finish ==
  /\ stage = "scan" /\ looked = Len(entries)
  /\ IF maxMem > 0 THEN stage' = "ready" /\ root' = RootSize(maxMem)
                   ELSE stage' = "panic" /\ UNCHANGED root
  /\ UNCHANGED <<entries, looked, maxMem, bestBase>>

MapNext == Scan \/ Finish
MapSpec == MapInit /\ [][MapNext]_mapVars

-----------------------------------------------------------------------------
\* The variables have their types.
MapTypeOK ==
  /\ entries \in Maps /\ looked \in 0 .. Len(entries)
  /\ maxMem \in 0 .. MapWord - 1 /\ bestBase \in 0 .. MapWord - 1
  /\ stage \in {"scan", "ready", "panic"} /\ root \in -1 .. MapWord - 1

Candidates == {j \in DOMAIN entries : entries[j].type = Usable /\ entries[j].length > 0}

\* The heap is one whole usable region and no usable region is larger: neither
\* memory of the firmware, of the kernel itself nor of the screen is taken for it.
LargestRegion ==
  stage = "ready" =>
    /\ \E j \in Candidates : entries[j].base = bestBase /\ entries[j].length = maxMem
    /\ \A j \in Candidates : entries[j].length <= maxMem

\* The kernel panics exactly when there is no memory for a heap.
PanicWithoutMemory ==
  /\ stage = "panic" => Candidates = {}
  /\ stage = "ready" => Candidates # {}

\* The first block ends where the region ends; its size does not wrap.
RootFits == stage = "ready" => root >= 0 /\ HeaderSize + root = maxMem

\* The heap gets the largest usable region, whole, or the kernel panics.
HeapPlaced == LargestRegion /\ PanicWithoutMemory /\ RootFits
=============================================================================
