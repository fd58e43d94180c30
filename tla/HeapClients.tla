---------------------------- MODULE HeapClients ----------------------------
(***************************************************************************)
(* The callers of the kernel heap and what they rely on.                   *)
(*                                                                         *)
(* Each specification below is Heap under one discipline of its callers:   *)
(*   ArenaSpec  mallocAligned, nothing is given back;                      *)
(*   StackSpec  operator new and delete, last in first out, as the C++     *)
(*              objects of one scope come and go;                          *)
(*   GrowSpec   malloc beside operator new;                                *)
(*   ReallocSpec  operator new and delete with realloc, in any order.     *)
(***************************************************************************)
EXTENDS Heap

Holds(s) == held[s].ptr # Null
FirstEmpty(s) == ~Holds(s) /\ \A t \in 1 .. s - 1 : Holds(t)
LastHeld(s) == Holds(s) /\ \A t \in Slots : t > s => ~Holds(t)

AskAligned == \E s \in Slots, n \in Sizes, a \in Alignments :
                FirstEmpty(s) /\ MallocAlignedCall(s, n, a)
\* operator new asks for 16, less than a header.
AskNew == \E s \in Slots, n \in Sizes, a \in Alignments :
            a <= HeaderSize /\ FirstEmpty(s) /\ MallocAlignedCall(s, n, a)
AskPlain == \E s \in Slots, n \in Sizes : FirstEmpty(s) /\ MallocCall(s, n)
FreeAny == \E s \in Slots : FreeCall(s)
FreeLast == \E s \in Slots : LastHeld(s) /\ FreeCall(s)
ReallocAny == \E s \in Slots, n \in Sizes : Realloc(s, n)

ArenaNext == AskAligned \/ Walk \/ Pad \/ TakeAligned \/ Fail
StackNext == AskNew \/ FreeLast \/ Walk \/ Pad \/ TakeAligned \/ Fail
               \/ FreePrev \/ FreeMergeNext \/ FreeReturn
GrowNext == ArenaNext \/ AskPlain \/ TakePlain
ReallocNext == StackNext \/ FreeAny \/ ReallocAny \/ ReallocMove

\* The code that runs inside a call; the callers are free to stop calling.
Running == Walk \/ Pad \/ TakeAligned \/ TakePlain \/ Fail \/ ReallocMove
             \/ FreePrev \/ FreeMergeNext \/ FreeReturn

ArenaSpec == Init /\ [][ArenaNext]_vars /\ WF_vars(Running)
StackSpec == Init /\ [][StackNext]_vars /\ WF_vars(Running)
GrowSpec == Init /\ [][GrowNext]_vars
ReallocSpec == Init /\ [][ReallocNext]_vars

-----------------------------------------------------------------------------
(* Safety                                                                  *)

Request == [slot : Slots, size : Nat, align : Nat \ {0}]
Slot == [ptr : Nat, size : Nat, align : Nat \ {0}]

\* Every variable has its type: all links point into the heap or are null.
TypeOK ==
  /\ hdr \in [Addr -> Header]
  /\ chain \subseteq Addr
  /\ held \in [Slots -> Slot]
  /\ pc \in {"idle", "malloc", "aligned", "freePrev", "freeNext", "realloc", "fault"}
  /\ cur \in chain \cup {Null}
  /\ req \in Request \cup {NoRequest}

End(b) == Data(b) + hdr[b].size

\* The list that split() and merge() keep cuts the heap into blocks with neither
\* gap nor overlap: following next from the root visits every byte once.
Tiled ==
  /\ Root \in chain
  /\ \A b \in chain :
       /\ \A c \in chain : c <= b \/ End(b) <= c
       /\ IF hdr[b].next = Null THEN End(b) = HeapEnd
                                ELSE hdr[b].next = End(b) /\ End(b) \in chain

Last(s) == held[s].ptr + held[s].size
Apart(s, t) == Last(s) <= held[t].ptr \/ Last(t) <= held[s].ptr
OffHeader(s, b) == Data(b) <= held[s].ptr \/ Last(s) <= b

\* What a caller was given is its own ("pointer to newly allocated memory",
\* memory.hpp): it lies in the heap, no two callers share a byte, and no header of
\* the block list lies in memory that a caller writes.
NewlyAllocated ==
  \A s \in Slots : Holds(s) =>
    /\ HeapBase < held[s].ptr /\ Last(s) <= HeapEnd
    /\ \A t \in Slots \ {s} : Holds(t) => Apart(s, t)
    /\ \A b \in chain : OffHeader(s, b)

\* mallocAligned passes a block over only if it cannot serve the request, also
\* after it has split one on the way: null means that no block would have done.
FirstFit ==
  pc = "aligned" => \A b \in chain : cur = Null \/ b < cur => PassesOver(b)

\* The prev links mirror the next links, so that free() finds its neighbours.
Links ==
  \A b \in chain :
    /\ hdr[b].next # Null => hdr[hdr[b].next].prev = b
    /\ IF b = Root THEN hdr[b].prev = Null
                   ELSE hdr[b].prev \in chain /\ hdr[hdr[b].prev].next = b

\* When everything has been given back, the heap is the one block of init()
\* again: no delete leaves a fragment behind.
FullRecovery ==
  pc = "idle" /\ (\A s \in Slots : ~Holds(s)) => chain = {Root} /\ hdr[Root] = RootHeader

\* merge() never writes through a null next.
NoFault == pc # "fault"

-----------------------------------------------------------------------------
(* Steps, progress and the abstract heap                                   *)

\* realloc preserves the data (memory.hpp): when it moves a block, no header it
\* writes on the way lies in the bytes that it copies afterwards.
ReallocKeepsData ==
  [][\A s \in Slots : Holds(s) /\ Holds(s)' /\ held[s].ptr # held'[s].ptr
       => \A b \in chain' \ chain : OffHeader(s, b)]_vars

\* Every call returns: no walk of the list runs in a circle.
CallReturns == pc # "idle" ~> pc = "idle"

Abs == INSTANCE AbstractHeap WITH Low <- HeapBase, High <- HeapEnd

\* The callers see a heap that hands out regions of its own and takes them back.
AbsSpec == Abs!Spec
=============================================================================
