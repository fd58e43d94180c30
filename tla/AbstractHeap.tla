---------------------------- MODULE AbstractHeap ----------------------------
(***************************************************************************)
(* What std/memory.hpp promises the callers of the allocator, with no      *)
(* block list in sight: a call hands out a region of the heap that nobody  *)
(* else holds, a held region never moves or shrinks behind its owner's     *)
(* back, and free() gives it up.  Module Heap is the code that has to keep *)
(* these promises.                                                         *)
(***************************************************************************)
EXTENDS Integers

CONSTANTS
  Low,         \* first address of the heap
  High,        \* first address past the heap
  Slots,       \* the pointer variables of the callers
  Sizes,       \* the sizes callers ask for
  Alignments   \* the alignments callers ask for

VARIABLE held  \* what each pointer variable holds: [ptr, size, align]

Null == 0
EmptySlot == [ptr |-> Null, size |-> 0, align |-> 1]

\* The region that starts at p and has n bytes does not meet the region of r.
DisjointFrom(p, n, r) == p + n <= r.ptr \/ r.ptr + r.size <= p

NewRegion(s, p, n) ==
  /\ Low < p /\ p + n <= High
  /\ \A t \in Slots \ {s} : held[t].ptr # Null => DisjointFrom(p, n, held[t])

Init == held = [s \in Slots |-> EmptySlot]

Allocate(s, p, n, a) ==
  /\ held[s].ptr = Null
  /\ NewRegion(s, p, n)
  /\ p % a = 0
  /\ held' = [held EXCEPT ![s] = [ptr |-> p, size |-> n, align |-> a]]

Release(s) ==
  /\ held[s].ptr # Null
  /\ held' = [held EXCEPT ![s] = EmptySlot]

Next ==
  \E s \in Slots :
    \/ \E p \in Low .. High, n \in Sizes, a \in Alignments : Allocate(s, p, n, a)
    \/ Release(s)

Spec == Init /\ [][Next]_held
=============================================================================
