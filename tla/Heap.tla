-------------------------------- MODULE Heap --------------------------------
(***************************************************************************)
(* The kernel heap: the block list of kernel/os/heap.cpp and the calls of  *)
(* std/memory.cpp that walk it.                                            *)
(*                                                                         *)
(* A block is a header followed by its data; hdr keeps each header under   *)
(* its address.  A loop of the code is a sequence of steps, one per        *)
(* iteration, with the local `current` or `entry` in cur: an interrupt can *)
(* arrive between any two of them.  A header that was merged away stays in *)
(* hdr, as it stays in memory, so that a stale pointer reads what the code *)
(* would read.  How callers use the operations is in HeapClients.          *)
(***************************************************************************)
EXTENDS Integers

CONSTANTS
  HeapBase,    \* address of the region HeapInfo::init is given
  HeapSize,    \* its size
  HeaderSize,  \* sizeof(BlockHeader)
  Word,        \* 2^64, scaled to the size of the instance
  Sizes,       \* sizes the callers ask for
  Alignments,  \* alignments the callers of mallocAligned ask for
  MaxHeld      \* bound: pointers the callers hold at the same time

ASSUME HeapAssumption ==
  /\ HeapBase \in Nat \ {0}
  /\ HeaderSize \in Nat \ {0}
  /\ HeapSize \in Nat /\ HeapSize > HeaderSize
  /\ Word \in Nat /\ Word > HeapBase + HeapSize
  /\ Sizes \subseteq Nat
  /\ Alignments \subseteq Nat \ {0}
  /\ MaxHeld \in Nat

Null == 0
Root == HeapBase
HeapEnd == HeapBase + HeapSize
Addr == HeapBase .. HeapEnd - 1
Slots == 1 .. MaxHeld

VARIABLES
  hdr,    \* the BlockHeader last written at each address
  chain,  \* addresses of the headers that split and merge keep in the list
  held,   \* per pointer variable of the callers: what it was given
  pc,     \* the loop that runs, "idle" between calls, "fault" after a write through null
  cur,    \* `current` of the malloc loops, `entry` of the free loops
  req     \* arguments of the running call

vars == <<hdr, chain, held, pc, cur, req>>

Header == [size : 0 .. Word - 1, free : BOOLEAN,
           prev : Addr \cup {Null}, next : Addr \cup {Null}]
Unwritten == [size |-> 0, free |-> FALSE, prev |-> Null, next |-> Null]
RootHeader == [size |-> HeapSize - HeaderSize, free |-> TRUE, prev |-> Null, next |-> Null]

EmptySlot == [ptr |-> Null, size |-> 0, align |-> 1]
NoRequest == [slot |-> 0, size |-> 0, align |-> 1]

Data(b) == b + HeaderSize            \* (void *)(header + 1)
Entry(s) == held[s].ptr - HeaderSize \* (BlockHeader *)ptr - 1

-----------------------------------------------------------------------------
(* split() and merge()                                                     *)

Wrap(x) == x % Word

SplitAtNoHeader(e, n) == e + n
SplitAt(e, n) == e + HeaderSize + n

RestLoops(h, e, n) == [size |-> Wrap(h[e].size - n - HeaderSize), free |-> TRUE,
                       prev |-> e, next |-> SplitAt(e, n)]
RestPrevSkips(h, e, n) == [size |-> Wrap(h[e].size - n - HeaderSize), free |-> TRUE,
                           prev |-> h[e].prev, next |-> h[e].next]
Rest(h, e, n) == [size |-> Wrap(h[e].size - n - HeaderSize), free |-> TRUE,
                  prev |-> e, next |-> h[e].next]

\* The block at e keeps n bytes, the rest becomes a free block behind it.  The
\* block that followed e keeps its prev.
Split(h, e, n) ==
  [h EXCEPT ![e].size = n, ![e].next = SplitAt(e, n), ![SplitAt(e, n)] = Rest(h, e, n)]

AbsorbNoHeader(h, a, b) ==
  [h EXCEPT ![a].size = Wrap(@ + h[b].size), ![a].next = h[b].next]
Absorb(h, a, b) ==
  [h EXCEPT ![a].size = Wrap(@ + h[b].size + HeaderSize), ![a].next = h[b].next]

MergeNext(h, e) ==
  LET g == h[h[e].next].next  joined == Absorb(h, e, h[e].next)
  IN  IF g # Null THEN [joined EXCEPT ![g].prev = e] ELSE joined

\* The code asks for entry2->prev before it writes through entry2->next.
MergePrev(h, e) ==
  LET p == h[e].prev  joined == Absorb(h, p, e)
  IN  IF h[p].prev # Null THEN [joined EXCEPT ![h[e].next].prev = p] ELSE joined

\* That write goes through a null pointer.
MergePrevFaults(h, e) == h[h[e].prev].prev # Null /\ h[e].next = Null

-----------------------------------------------------------------------------
(* HeapInfo::init                                                          *)

Init ==
  /\ hdr = [x \in Addr |-> IF x = Root THEN RootHeader ELSE Unwritten]
  /\ chain = {Root}
  /\ held = [s \in Slots |-> EmptySlot]
  /\ pc = "idle"
  /\ cur = Null
  /\ req = NoRequest

Call(loop, s, n, a, at) ==
  /\ pc = "idle" /\ pc' = loop
  /\ req' = [slot |-> s, size |-> n, align |-> a]
  /\ cur' = at

Return == pc' = "idle" /\ cur' = Null /\ req' = NoRequest

-----------------------------------------------------------------------------
(* malloc and mallocAligned                                                *)

MallocCall(s, n) == n # 0 /\ Call("malloc", s, n, 1, Root) /\ UNCHANGED <<hdr, chain, held>>
MallocAlignedCall(s, n, a) ==
  n # 0 /\ Call("aligned", s, n, a, Root) /\ UNCHANGED <<hdr, chain, held>>

PaddingOfHeader(b, a) == (a - (b % a)) % a
\* aligned_start - block_start, for a power of two a.
Padding(b, a) == (a - (Data(b) % a)) % a

\* realloc runs malloc's loop with another return address.
Plain == pc \in {"malloc", "realloc"}
Aligned == pc = "aligned"

PassesOverUsedToo(b) ==
  \/ hdr[b].size < req.size + Padding(b, req.align)
  \/ Padding(b, req.align) \in 1 .. HeaderSize - 1
PassesOverAlignment(b) == ~hdr[b].free \/ hdr[b].size < req.size
\* The tests that make a loop pass over block b: it is in use, it is too small,
\* or there is padding before its aligned start but too little for a header.
\* malloc pads nothing: its requests have alignment 1.
PassesOver(b) ==
  \/ ~hdr[b].free
  \/ hdr[b].size < req.size + Padding(b, req.align)
  \/ Padding(b, req.align) \in 1 .. HeaderSize - 1

DivisibleAlways(b, n) == hdr[b].size >= n
DivisibleThreefold(b, n) == hdr[b].size > (n + HeaderSize) * 3
Divisible(b, n) == hdr[b].size > (n + HeaderSize) * 2

\* Block cur goes to the caller, cut down to the request if there is enough to
\* spare, and gets the mark.
Settle(mark) ==
  LET n == req.size  at == SplitAt(cur, n) IN
  /\ IF Divisible(cur, n)
       THEN hdr' = [Split(hdr, cur, n) EXCEPT ![cur].free = mark] /\ chain' = chain \cup {at}
       ELSE hdr' = [hdr EXCEPT ![cur].free = mark] /\ UNCHANGED chain
  /\ held' = [held EXCEPT ![req.slot] = [ptr |-> Data(cur), size |-> n, align |-> req.align]]

Walk ==
  /\ Aligned \/ Plain
  /\ cur # Null /\ PassesOver(cur)
  /\ cur' = hdr[cur].next
  /\ UNCHANGED <<hdr, chain, held, pc, req>>

PadMovesOn ==
  LET n == Padding(cur, req.align) - HeaderSize IN
  /\ Aligned /\ cur # Null /\ ~PassesOver(cur) /\ Padding(cur, req.align) # 0
  /\ hdr' = Split(hdr, cur, n) /\ chain' = chain \cup {SplitAt(cur, n)}
  /\ cur' = hdr[cur].next
  /\ UNCHANGED <<held, pc, req>>
\* The room before the aligned start becomes a block of its own, and the loop
\* looks at that same block again.
Pad ==
  LET n == Padding(cur, req.align) - HeaderSize IN
  /\ Aligned /\ cur # Null /\ ~PassesOver(cur) /\ Padding(cur, req.align) # 0
  /\ hdr' = Split(hdr, cur, n) /\ chain' = chain \cup {SplitAt(cur, n)}
  /\ UNCHANGED <<held, pc, cur, req>>

TakeAlignedMarksLate ==
  /\ Aligned /\ cur # Null /\ ~PassesOver(cur) /\ Padding(cur, req.align) = 0
  /\ Settle(~Divisible(cur, req.size)) /\ Return
TakeAligned ==
  /\ Aligned /\ cur # Null /\ ~PassesOver(cur) /\ Padding(cur, req.align) = 0
  /\ Settle(FALSE) /\ Return

\* malloc marks a block that it hands out whole as free (memory.cpp:32).
TakePlain ==
  /\ pc = "malloc" /\ cur # Null /\ ~PassesOver(cur)
  /\ Settle(~Divisible(cur, req.size)) /\ Return

\* End of the list: null goes back, and whoever called realloc keeps the old block.
Fail == (Aligned \/ Plain) /\ cur = Null /\ Return /\ UNCHANGED <<hdr, chain, held>>

-----------------------------------------------------------------------------
(* free                                                                    *)

NextFree(e) == hdr[e].next # Null /\ hdr[hdr[e].next].free
PrevFree(e) == hdr[e].prev # Null /\ hdr[hdr[e].prev].free

FreeCall(s) ==
  /\ held[s].ptr # Null
  /\ Call("freePrev", s, 0, 1, Entry(s))
  /\ hdr' = [hdr EXCEPT ![Entry(s)].free = TRUE]
  /\ held' = [held EXCEPT ![s] = EmptySlot]
  /\ UNCHANGED chain

FreeMergePrev ==
  /\ pc = "freePrev" /\ PrevFree(cur)
  /\ IF MergePrevFaults(hdr, cur)
       THEN pc' = "fault" /\ UNCHANGED <<hdr, chain, cur>>
       ELSE /\ hdr' = MergePrev(hdr, cur) /\ chain' = chain \ {cur}
            /\ cur' = hdr[cur].prev /\ UNCHANGED pc

FreeTurn ==
  /\ pc = "freePrev" /\ ~PrevFree(cur)
  /\ pc' = "freeNext" /\ UNCHANGED <<hdr, chain, cur>>

\* One test of the loop that looks back.
FreePrev == (FreeMergePrev \/ FreeTurn) /\ UNCHANGED <<held, req>>

FreeMergeNext ==
  /\ pc = "freeNext" /\ NextFree(cur)
  /\ hdr' = MergeNext(hdr, cur) /\ chain' = chain \ {hdr[cur].next}
  /\ UNCHANGED <<held, pc, cur, req>>

FreeReturn ==
  /\ pc = "freeNext" /\ ~NextFree(cur)
  /\ Return /\ UNCHANGED <<hdr, chain, held>>

-----------------------------------------------------------------------------
(* realloc: the cases in the order of the code.  Those that stay in place  *)
(* have no loop and are one step.                                          *)

Resizing(s) == pc = "idle" /\ held[s].ptr # Null
Resize(s, e, n) == held' = [held EXCEPT ![s].ptr = Data(e), ![s].size = n]

\* Block e and what it would have with its free neighbours.
WithNext(e) == hdr[e].size + hdr[hdr[e].next].size + HeaderSize
WithPrev(e) == hdr[e].size + hdr[hdr[e].prev].size + HeaderSize
FitsNext(e, n) == NextFree(e) /\ n < WithNext(e)
FitsPrev(e, n) == PrevFree(e) /\ n < WithPrev(e)
FitsBoth(e, n) == NextFree(e) /\ PrevFree(e) /\ n < WithNext(e) + WithPrev(e) - hdr[e].size

\* Cut the block; what is cut off joins a free block behind it.
ReallocShrink(s, n) ==
  LET e == Entry(s)  rest == SplitAt(e, n) IN
  /\ Resizing(s)
  /\ n <= hdr[e].size - 2 * HeaderSize
  /\ hdr' = IF NextFree(e) THEN MergeNext(Split(hdr, e, n), rest) ELSE Split(hdr, e, n)
  /\ chain' = (chain \cup {rest}) \ (IF NextFree(e) THEN {hdr[e].next} ELSE {})
  /\ Resize(s, e, n) /\ UNCHANGED <<pc, cur, req>>

ReallocKeep(s, n) ==
  LET e == Entry(s) IN
  /\ Resizing(s)
  /\ hdr[e].size - 2 * HeaderSize < n /\ n <= hdr[e].size
  /\ Resize(s, e, n) /\ UNCHANGED <<hdr, chain, pc, cur, req>>

ReallocGrowNext(s, n) ==
  LET e == Entry(s) IN
  /\ Resizing(s)
  /\ n > hdr[e].size /\ FitsNext(e, n)
  /\ hdr' = Split(MergeNext(hdr, e), e, n)
  /\ chain' = (chain \ {hdr[e].next}) \cup {SplitAt(e, n)}
  /\ Resize(s, e, n) /\ UNCHANGED <<pc, cur, req>>

\* The block moves down onto its predecessor, after a merge with its successor
\* when only both give enough room.
ReallocGrowPrev(s, n) ==
  LET e == Entry(s)  p == hdr[e].prev
      h == IF FitsBoth(e, n) THEN MergeNext(hdr, e) ELSE hdr IN
  /\ Resizing(s)
  /\ n > hdr[e].size /\ ~FitsNext(e, n) /\ (FitsBoth(e, n) \/ FitsPrev(e, n))
  /\ IF MergePrevFaults(h, e)
       THEN pc' = "fault" /\ UNCHANGED <<hdr, chain, held>>
       ELSE /\ hdr' = [Split(MergePrev(h, e), p, n) EXCEPT ![p].free = FALSE]
            /\ chain' = (chain \ {e, IF FitsBoth(e, n) THEN hdr[e].next ELSE e})
                          \cup {SplitAt(p, n)}
            /\ Resize(s, p, n) /\ UNCHANGED pc
  /\ UNCHANGED <<cur, req>>

ReallocMoveCall(s, n) ==
  LET e == Entry(s) IN
  /\ held[s].ptr # Null
  /\ n > hdr[e].size /\ ~FitsNext(e, n) /\ ~FitsBoth(e, n) /\ ~FitsPrev(e, n)
  /\ Call("realloc", s, n, 1, Root) /\ UNCHANGED <<hdr, chain, held>>

\* malloc found a block: the data is copied and free starts on the old one.
ReallocMove ==
  LET old == Entry(req.slot)  n == req.size  at == SplitAt(cur, n) IN
  /\ pc = "realloc" /\ cur # Null /\ ~PassesOver(cur)
  /\ IF Divisible(cur, n)
       THEN /\ hdr' = [Split(hdr, cur, n) EXCEPT ![cur].free = FALSE, ![old].free = TRUE]
            /\ chain' = chain \cup {at}
       ELSE hdr' = [hdr EXCEPT ![cur].free = TRUE, ![old].free = TRUE] /\ UNCHANGED chain
  /\ held' = [held EXCEPT ![req.slot] = [ptr |-> Data(cur), size |-> n, align |-> 1]]
  /\ pc' = "freePrev" /\ cur' = old /\ UNCHANGED req

Realloc(s, n) ==
  \/ ReallocShrink(s, n) \/ ReallocKeep(s, n) \/ ReallocGrowNext(s, n)
  \/ ReallocGrowPrev(s, n) \/ ReallocMoveCall(s, n)
=============================================================================
