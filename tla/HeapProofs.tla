----------------------------- MODULE HeapProofs -----------------------------
(***************************************************************************)
(* Proofs about callers that use operator new, and that delete in the      *)
(* reverse order, for every heap, alignment, size and number of callers.   *)
(*                                                                         *)
(* Tiled and NewlyAllocated are not inductive.  IInv adds that each        *)
(* pointer in a caller's hands is the data of a block of the list that is  *)
(* marked in use and big enough (HeldUsed), that no two callers have the   *)
(* same block (HeldOnce), and where a running call stands (Underway).      *)
(***************************************************************************)
EXTENDS HeapClients, TLAPS

\* The remainder lies below the modulus.
LEMMA ModRange == \A x \in Int, m \in Nat \ {0} : x % m \in 0 .. m - 1
  OBVIOUS

\* A number below the modulus is its own remainder.
LEMMA ModSmall == \A m \in Nat \ {0} : \A x \in 0 .. m - 1 : x % m = x
  OBVIOUS

\* A uint64_t expression that fits is not changed.
LEMMA WrapSmall == \A x \in 0 .. Word - 1 : Wrap(x) = x
  BY HeapAssumption, ModSmall DEF Wrap

\* A uint64_t expression fits.
LEMMA WrapRange == \A x \in Int : Wrap(x) \in 0 .. Word - 1
  BY HeapAssumption, ModRange DEF Wrap

\* aligned_start - block_start is less than the alignment.
LEMMA PaddingRange == \A b \in Nat, a \in Nat \ {0} : Padding(b, a) \in 0 .. a - 1
  BY HeapAssumption, ModRange DEF Padding, Data

\* Without padding the data of a block is aligned.
LEMMA NoPadding ==
  ASSUME NEW b \in Nat, NEW a \in Nat \ {0}, Padding(b, a) = 0
  PROVE  Data(b) % a = 0
<1> DEFINE r == Data(b) % a
<1>1. Data(b) \in Int BY HeapAssumption DEF Data
<1>2. r \in 0 .. a - 1 BY <1>1, ModRange
<1>3. CASE r # 0
  <2>1. a - r \in 1 .. a - 1 BY <1>2, <1>3
  <2>2. (a - r) % a = a - r BY <2>1, ModSmall
  <2> QED BY <2>1, <2>2 DEF Padding
<1> QED BY <1>3

-----------------------------------------------------------------------------
(* The inductive invariant                                                 *)

\* free() finds nothing behind the block.
Turn == FreeTurn /\ UNCHANGED <<held, req>>

\* The steps of the arena and those of delete that do not look back.
SharedNext == ArenaNext \/ FreeLast \/ Turn \/ FreeMergeNext \/ FreeReturn

\* A pointer in use is the data of a block that is marked so and big enough.
HeldUsed ==
  \A s \in Slots : Holds(s) =>
    /\ Entry(s) \in chain
    /\ ~hdr[Entry(s)].free
    /\ held[s].size <= hdr[Entry(s)].size

\* No block is held twice.
HeldOnce ==
  \A s, t \in Slots : Holds(s) /\ Holds(t) /\ held[s].ptr = held[t].ptr => s = t

\* What a running call knows.
Underway ==
  /\ pc \in {"idle", "aligned", "freePrev", "freeNext", "fault"}
  /\ pc = "aligned" =>
       req \in [slot : Slots, size : Sizes, align : Alignments] /\ ~Holds(req.slot)
  /\ pc \in {"freePrev", "freeNext"} => cur # Null

IInv == TypeOK /\ Tiled /\ HeldUsed /\ HeldOnce /\ Underway /\ FirstFit

-----------------------------------------------------------------------------
(* split()                                                                 *)

\* A block of a tiled heap lies in the heap.
LEMMA BlockInHeap ==
  ASSUME TypeOK, Tiled, NEW b \in chain
  PROVE  /\ b \in Addr /\ b \in Nat /\ hdr[b] \in Header /\ End(b) \in Nat
         /\ b + HeaderSize <= End(b) /\ End(b) <= HeapEnd
<1>1. b \in Addr /\ hdr[b] \in Header BY DEF TypeOK
<1>2. b \in Nat /\ hdr[b].size \in Nat /\ HeapEnd \in Nat /\ End(b) \in Nat
  BY <1>1, HeapAssumption DEF Addr, Header, HeapEnd, End, Data
<1>3. CASE hdr[b].next = Null BY <1>1, <1>2, <1>3, HeapAssumption DEF Tiled, End, Data
<1>4. CASE hdr[b].next # Null
  <2>1. End(b) \in Addr BY <1>4 DEF Tiled, TypeOK
  <2> QED BY <1>1, <1>2, <2>1, HeapAssumption DEF Addr, End, Data, HeapEnd
<1> QED BY <1>3, <1>4

\* split() of a block with room: the new header lies inside it and size2 does not wrap.
LEMMA SplitRoom ==
  ASSUME TypeOK, Tiled, NEW e \in chain, NEW n \in Nat, n + HeaderSize <= hdr[e].size
  PROVE  /\ SplitAt(e, n) \in Addr \ chain
         /\ e < SplitAt(e, n)
         /\ Wrap(hdr[e].size - n - HeaderSize) = hdr[e].size - n - HeaderSize
         /\ hdr[e].size - n - HeaderSize \in 0 .. Word - 1
<1> DEFINE m == SplitAt(e, n)  rest == hdr[e].size - n - HeaderSize
<1>1. /\ e \in Addr /\ e \in Nat /\ hdr[e].size \in 0 .. Word - 1
      /\ End(e) \in Nat /\ End(e) <= HeapEnd
  BY BlockInHeap DEF Header
<1>2. rest \in 0 .. Word - 1 BY <1>1, HeapAssumption
<1>3. m \in Addr /\ e < m /\ m < End(e)
  BY <1>1, <1>2, HeapAssumption DEF SplitAt, Addr, End, Data, HeapEnd
<1>4. m \notin chain
  <2>1. m \in Int BY <1>3, HeapAssumption DEF Addr, HeapEnd
  <2>2. m \in chain => m <= e \/ End(e) <= m BY DEF Tiled
  <2> QED BY <1>1, <1>3, <2>1, <2>2
<1> QED BY <1>2, <1>3, <1>4, WrapSmall

\* The headers that split() leaves.
LEMMA SplitFields ==
  ASSUME TypeOK, Tiled, NEW e \in chain, NEW n \in Nat, n + HeaderSize <= hdr[e].size,
         NEW h, h = Split(hdr, e, n), NEW m, m = SplitAt(e, n)
  PROVE  /\ h \in [Addr -> Header]
         /\ h[e].size = n /\ h[e].next = m
         /\ h[e].free = hdr[e].free /\ h[e].prev = hdr[e].prev
         /\ h[m] = [size |-> hdr[e].size - n - HeaderSize, free |-> TRUE,
                    prev |-> e, next |-> hdr[e].next]
         /\ \A b \in Addr \ {e, m} : h[b] = hdr[b]
<1>1. /\ e \in Addr /\ m \in Addr /\ e # m /\ hdr \in [Addr -> Header]
      /\ Wrap(hdr[e].size - n - HeaderSize) = hdr[e].size - n - HeaderSize
      /\ hdr[e].size - n - HeaderSize \in 0 .. Word - 1
  BY SplitRoom, BlockInHeap DEF TypeOK, Addr
<1>2. n \in 0 .. Word - 1 BY <1>1, HeapAssumption DEF Header
<1>3. h = [hdr EXCEPT ![e].size = n, ![e].next = m,
                      ![m] = [size |-> hdr[e].size - n - HeaderSize, free |-> TRUE,
                              prev |-> e, next |-> hdr[e].next]]
  BY <1>1 DEF Split, Rest
<1> QED BY <1>1, <1>2, <1>3 DEF Header

\* A split leaves the heap tiled, whatever it does to the free marks.
LEMMA SplitTiled ==
  ASSUME TypeOK, Tiled, NEW e \in chain, NEW n \in Nat, n + HeaderSize <= hdr[e].size,
         NEW m, m = SplitAt(e, n), chain' = chain \cup {m},
         hdr'[e].size = n, hdr'[e].next = m,
         hdr'[m].size = hdr[e].size - n - HeaderSize, hdr'[m].next = hdr[e].next,
         \A b \in chain \ {e} : hdr'[b].size = hdr[b].size /\ hdr'[b].next = hdr[b].next
  PROVE  Tiled'
<1>1. m \in Addr \ chain /\ e < m /\ m = e + HeaderSize + n BY SplitRoom DEF SplitAt
<1>2. \A b \in chain : b \in Nat /\ hdr[b].size \in Nat /\ End(b) \in Nat
  BY BlockInHeap, HeapAssumption DEF Header, End, Data
<1>3. m \in Nat /\ HeapEnd \in Nat BY <1>1, HeapAssumption DEF Addr, HeapEnd
<1>4. End(e)' = m /\ End(m)' = End(e)
  BY <1>1, <1>2, <1>3, HeapAssumption DEF End, Data
<1>5. \A b \in chain \ {e} : End(b)' = End(b) BY DEF End, Data
<1>6. m < End(e) /\ e < End(e) BY <1>1, <1>2, HeapAssumption DEF End, Data
<1>7. \A b \in chain' : \A c \in chain' : c <= b \/ End(b)' <= c
  <2> SUFFICES ASSUME NEW b \in chain', NEW c \in chain' PROVE c <= b \/ End(b)' <= c
    OBVIOUS
  <2>1. CASE b = e BY <2>1, <1>1, <1>2, <1>3, <1>4, <1>6 DEF Tiled
  <2>2. CASE b = m BY <2>2, <1>1, <1>2, <1>3, <1>4, <1>6 DEF Tiled
  <2>3. CASE b # e /\ b # m
    <3>1. b \in chain /\ End(b)' = End(b) BY <2>3, <1>5
    <3>2. e <= b \/ End(b) <= e BY <3>1 DEF Tiled
    <3>3. b <= e \/ End(e) <= b BY <3>1 DEF Tiled
    <3>4. CASE c = m BY <3>1, <3>2, <3>3, <3>4, <2>3, <1>1, <1>2, <1>3, <1>6
    <3>5. CASE c \in chain BY <3>1, <3>5 DEF Tiled
    <3> QED BY <3>4, <3>5
  <2> QED BY <2>1, <2>2, <2>3
<1>8. \A b \in chain' : IF hdr'[b].next = Null THEN End(b)' = HeapEnd
                        ELSE hdr'[b].next = End(b)' /\ End(b)' \in chain'
  <2>1. m # Null BY <1>1, HeapAssumption DEF Addr, Null
  <2> QED BY <2>1, <1>4, <1>5 DEF Tiled
<1> QED BY <1>7, <1>8 DEF Tiled

-----------------------------------------------------------------------------
(* merge() with the next block                                             *)

\* The block that next names begins where this one ends.
LEMMA NextBlock ==
  ASSUME TypeOK, Tiled, NEW e \in chain, NEW x, x = hdr[e].next, x # Null
  PROVE  /\ x \in chain /\ x = End(e) /\ e < x
         /\ hdr[e].size + hdr[x].size + HeaderSize \in 0 .. Word - 1
         /\ End(x) = Data(e) + hdr[e].size + hdr[x].size + HeaderSize
<1>1. x \in chain /\ x = End(e) BY DEF Tiled
<1>2. /\ e \in Nat /\ x \in Nat /\ hdr[e].size \in Nat /\ hdr[x].size \in Nat
      /\ End(x) \in Nat /\ End(x) <= HeapEnd
  BY <1>1, BlockInHeap, HeapAssumption DEF Header
<1>3. End(x) = e + HeaderSize + hdr[e].size + hdr[x].size + HeaderSize /\ e < x
  BY <1>1, <1>2, HeapAssumption DEF End, Data
<1> QED BY <1>1, <1>2, <1>3, HeapAssumption DEF HeapEnd, Data

\* The headers that merge(entry, Next) leaves.
LEMMA MergeFields ==
  ASSUME TypeOK, Tiled, NEW e \in chain, NEW x, x = hdr[e].next, x # Null,
         NEW h, h = MergeNext(hdr, e)
  PROVE  /\ h \in [Addr -> Header]
         /\ h[e].size = hdr[e].size + hdr[x].size + HeaderSize
         /\ h[e].next = hdr[x].next
         /\ h[e].free = hdr[e].free /\ h[e].prev = hdr[e].prev
         /\ \A b \in Addr \ {e} :
              /\ h[b].size = hdr[b].size /\ h[b].next = hdr[b].next
              /\ h[b].free = hdr[b].free
              /\ h[b].prev = IF b = hdr[x].next THEN e ELSE hdr[b].prev
<1> DEFINE g == hdr[x].next
           j == [hdr EXCEPT ![e].size = hdr[e].size + hdr[x].size + HeaderSize, ![e].next = g]
<1>1. /\ x \in chain /\ e \in Addr /\ x \in Addr /\ e < x /\ e \in Nat /\ x \in Nat
      /\ hdr \in [Addr -> Header]
      /\ hdr[e].size + hdr[x].size + HeaderSize \in 0 .. Word - 1
  BY NextBlock, BlockInHeap DEF TypeOK
<1>2. g # e
  <2>1. CASE g = Null BY <2>1, <1>1, HeapAssumption DEF Addr, Null
  <2>2. CASE g # Null
    <3>1. x < g BY <2>2, <1>1, NextBlock
    <3>2. g \in Nat BY <2>2, <1>1, NextBlock, BlockInHeap
    <3> QED BY <3>1, <3>2, <1>1
  <2> QED BY <2>1, <2>2
<1>3. Absorb(hdr, e, x) = j BY <1>1, WrapSmall DEF Absorb
<1>4. /\ j \in [Addr -> Header] /\ j[e].size = hdr[e].size + hdr[x].size + HeaderSize
      /\ j[e].next = g /\ j[e].free = hdr[e].free /\ j[e].prev = hdr[e].prev
      /\ \A b \in Addr \ {e} : j[b] = hdr[b]
  BY <1>1 DEF Header
<1>5. h = IF g # Null THEN [j EXCEPT ![g].prev = e] ELSE j BY <1>3 DEF MergeNext
<1>6. CASE g = Null
  <2>1. Null \notin Addr BY HeapAssumption DEF Null, Addr
  <2> QED BY <1>4, <1>5, <1>6, <2>1
<1>7. CASE g # Null
  <2>1. g \in Addr BY <1>7, <1>1 DEF Header
  <2> HIDE DEF j
  <2>2. h = [j EXCEPT ![g] = [j[g] EXCEPT !.prev = e]] BY <1>5, <1>7
  <2>3. [j[g] EXCEPT !.prev = e] \in Header BY <2>1, <1>1, <1>4 DEF Header
  <2>4. /\ h \in [Addr -> Header] /\ h[g] = [j[g] EXCEPT !.prev = e]
        /\ \A b \in Addr \ {g} : h[b] = j[b]
    BY <2>1, <2>2, <2>3, <1>4
  <2>5. j[g] = hdr[g] /\ hdr[g] \in Header BY <2>1, <1>1, <1>2, <1>4
  <2>6. /\ h[g].size = hdr[g].size /\ h[g].next = hdr[g].next
        /\ h[g].free = hdr[g].free /\ h[g].prev = e
    BY <2>4, <2>5 DEF Header
  <2>7. h[e] = j[e] BY <1>1, <1>2, <2>4
  <2>8. \A b \in Addr \ {e, g} : h[b] = hdr[b] BY <1>4, <2>4
  <2> QED BY <2>4, <2>6, <2>7, <2>8, <1>4
<1> QED BY <1>6, <1>7

\* merge(entry, Next) keeps the tiling.
LEMMA MergeTiled ==
  ASSUME TypeOK, Tiled, NEW e \in chain, NEW x, x = hdr[e].next, x # Null,
         hdr' = MergeNext(hdr, e), chain' = chain \ {x}
  PROVE  Tiled'
<1>1. /\ x \in chain /\ x = End(e) /\ e < x /\ Root \in chain
      /\ End(x) = Data(e) + hdr[e].size + hdr[x].size + HeaderSize
  BY NextBlock DEF Tiled
<1>2. \A b \in chain : b \in Addr /\ b \in Nat /\ End(b) \in Nat /\ b < End(b)
  BY BlockInHeap, HeapAssumption
<1>3. End(e)' = End(x)
  <2>1. hdr'[e].size = hdr[e].size + hdr[x].size + HeaderSize BY MergeFields
  <2>2. hdr[e].size \in Nat /\ hdr[x].size \in Nat /\ e \in Nat
    BY <1>1, BlockInHeap, HeapAssumption DEF Header
  <2> QED BY <1>1, <2>1, <2>2, HeapAssumption DEF End, Data
<1>4. \A b \in chain \ {e} : End(b)' = End(b) /\ hdr'[b].next = hdr[b].next
  BY <1>2, MergeFields DEF End, Data
<1>5. Root \in chain'
  <2>1. e \in Addr BY <1>2
  <2>2. Root <= e /\ Root \in Nat /\ e \in Nat BY <2>1, HeapAssumption DEF Root, Addr, HeapEnd
  <2>3. x \in Nat BY <1>1, <1>2
  <2>4. Root # x BY <1>1, <2>2, <2>3
  <2> QED BY <1>1, <2>4
<1>6. \A b \in chain' : \A c \in chain' : c <= b \/ End(b)' <= c
  <2> SUFFICES ASSUME NEW b \in chain', NEW c \in chain' PROVE c <= b \/ End(b)' <= c
    OBVIOUS
  <2>1. CASE b = e
    <3>1. c <= e \/ x <= c BY <1>1 DEF Tiled
    <3>2. c <= x \/ End(x) <= c BY <1>1 DEF Tiled
    <3> QED BY <2>1, <3>1, <3>2, <1>1, <1>2, <1>3
  <2>2. CASE b # e BY <2>2, <1>4 DEF Tiled
  <2> QED BY <2>1, <2>2
<1>7. \A b \in chain' : IF hdr'[b].next = Null THEN End(b)' = HeapEnd
                        ELSE hdr'[b].next = End(b)' /\ End(b)' \in chain'
  <2> SUFFICES ASSUME NEW b \in chain'
               PROVE  IF hdr'[b].next = Null THEN End(b)' = HeapEnd
                      ELSE hdr'[b].next = End(b)' /\ End(b)' \in chain'
    OBVIOUS
  <2>1. CASE b = e
    <3>1. hdr'[e].next = hdr[x].next BY MergeFields
    <3>2. End(x) # x BY <1>1, <1>2
    <3> QED BY <2>1, <3>1, <3>2, <1>1, <1>3 DEF Tiled
  <2>2. CASE b # e
    <3>1. End(b) # x
      <4>1. e <= b \/ End(b) <= e BY DEF Tiled
      <4>2. b <= e \/ End(e) <= b BY DEF Tiled
      <4> QED BY <2>2, <4>1, <4>2, <1>1, <1>2
    <3> QED BY <2>2, <3>1, <1>4 DEF Tiled
  <2> QED BY <2>1, <2>2
<1> QED BY <1>5, <1>6, <1>7 DEF Tiled

-----------------------------------------------------------------------------
(* Every step keeps the invariant                                          *)

\* A step that frees and shrinks no block in use keeps HeldUsed.
LEMMA HeldUsedKept ==
  ASSUME HeldUsed, UNCHANGED held,
         \A b \in chain : ~hdr[b].free =>
           b \in chain' /\ ~hdr'[b].free /\ hdr'[b].size = hdr[b].size
  PROVE  HeldUsed'
BY DEF HeldUsed, Holds, Entry

\* A step that gives nothing to a caller keeps HeldOnce.
LEMMA HeldOnceKept == HeldOnce /\ UNCHANGED held => HeldOnce'
BY DEF HeldOnce, Holds

\* The heap of HeapInfo::init satisfies the invariant.
LEMMA InitIInv == Init => IInv
<1> SUFFICES ASSUME Init PROVE IInv OBVIOUS
<1>1. Root \in Addr /\ Root # Null /\ RootHeader \in Header /\ Unwritten \in Header
  BY HeapAssumption DEF Root, Addr, HeapEnd, RootHeader, Unwritten, Header, Null
<1>2. TypeOK
  BY <1>1, HeapAssumption DEF Init, TypeOK, Slot, EmptySlot, Null
<1>3. Tiled
  BY <1>1, HeapAssumption DEF Init, Tiled, End, Data, Root, RootHeader, HeapEnd, Addr
<1>4. HeldUsed /\ HeldOnce /\ Underway /\ FirstFit
  BY DEF Init, HeldUsed, HeldOnce, Underway, FirstFit, Holds, EmptySlot
<1> QED BY <1>2, <1>3, <1>4 DEF IInv

\* Entering mallocAligned keeps it.
LEMMA CallKeeps ==
  ASSUME IInv, NEW s \in Slots, NEW n \in Sizes, NEW a \in Alignments, ~Holds(s),
         MallocAlignedCall(s, n, a)
  PROVE  IInv'
<1>2. /\ pc' = "aligned" /\ cur' = Root /\ UNCHANGED <<hdr, chain, held>>
      /\ req' = [slot |-> s, size |-> n, align |-> a]
  BY DEF MallocAlignedCall, Call
<1>3. Root \in chain BY DEF IInv, Tiled
<1>4. TypeOK'
  BY <1>2, <1>3, HeapAssumption DEF IInv, TypeOK, Request
<1>5. Tiled' BY <1>2 DEF IInv, Tiled, End, Data
<1>6. HeldUsed' /\ HeldOnce' BY <1>2, HeldUsedKept, HeldOnceKept DEF IInv
<1>7. Underway' BY <1>2 DEF Underway, Holds
<1>8. FirstFit'
  <2>1. \A b \in chain : ~(b < Root)
    BY HeapAssumption DEF IInv, TypeOK, Addr, Root, HeapEnd
  <2>2. Root # Null BY HeapAssumption DEF Root, Null
  <2> QED BY <1>2, <2>1, <2>2 DEF FirstFit
<1> QED BY <1>4, <1>5, <1>6, <1>7, <1>8 DEF IInv

LEMMA AskKeeps == IInv /\ AskAligned => IInv'
BY CallKeeps DEF AskAligned, FirstEmpty

\* Passing over a block keeps it.
LEMMA WalkKeeps == IInv /\ Walk => IInv'
<1> SUFFICES ASSUME IInv, Walk PROVE IInv' OBVIOUS
<1>1. /\ pc = "aligned" /\ pc' = pc /\ cur # Null /\ cur \in chain /\ PassesOver(cur)
      /\ cur' = hdr[cur].next /\ UNCHANGED <<hdr, chain, held, req>>
  BY DEF Walk, Aligned, Plain, IInv, Underway, TypeOK
<1>2. cur' \in chain \cup {Null} BY <1>1 DEF IInv, Tiled
<1>3. TypeOK' BY <1>1, <1>2 DEF IInv, TypeOK
<1>4. Tiled' BY <1>1 DEF IInv, Tiled, End, Data
<1>5. HeldUsed' /\ HeldOnce' BY <1>1, HeldUsedKept, HeldOnceKept DEF IInv
<1>6. Underway' BY <1>1 DEF IInv, Underway, Holds
<1>7. FirstFit'
  <2> SUFFICES ASSUME NEW b \in chain, cur' = Null \/ b < cur' PROVE PassesOver(b)
    BY <1>1 DEF FirstFit, PassesOver, Padding
  <2>1. b \in Nat /\ cur \in Nat /\ End(cur) \in Nat /\ End(b) <= HeapEnd /\ b < End(b)
    BY <1>1, BlockInHeap, HeapAssumption DEF IInv
  <2>2. b <= cur \/ End(cur) <= b BY <1>1 DEF IInv, Tiled
  <2>3. End(cur) = (IF cur' = Null THEN HeapEnd ELSE cur') BY <1>1 DEF IInv, Tiled
  <2>4. End(b) \in Nat /\ HeapEnd \in Nat BY BlockInHeap, HeapAssumption DEF IInv, HeapEnd
  <2>5. b <= cur BY <2>1, <2>2, <2>3, <2>4
  <2>6. b = cur \/ b < cur BY <2>1, <2>5
  <2> QED BY <2>6, <1>1 DEF IInv, FirstFit
<1> QED BY <1>3, <1>4, <1>5, <1>6, <1>7 DEF IInv

\* Splitting off the room before an aligned start keeps it, and the padding block is passed over next.
LEMMA PadKeeps == IInv /\ Pad => IInv'
<1> SUFFICES ASSUME IInv, Pad PROVE IInv' OBVIOUS
<1> DEFINE pad == Padding(cur, req.align)  n == pad - HeaderSize  m == SplitAt(cur, n)
<1>1. /\ pc = "aligned" /\ cur \in chain /\ cur # Null /\ ~PassesOver(cur) /\ pad # 0
      /\ hdr' = Split(hdr, cur, n) /\ chain' = chain \cup {m}
      /\ UNCHANGED <<held, pc, cur, req>>
      /\ req.size \in Nat /\ req.align \in Nat \ {0}
  BY HeapAssumption DEF Pad, Aligned, IInv, TypeOK, Underway
<1>2. cur \in Addr /\ cur \in Nat /\ hdr[cur].size \in Nat
  BY <1>1, BlockInHeap DEF IInv, Header
<1>3. n \in Nat /\ n + HeaderSize <= hdr[cur].size
  <2>1. pad \in Nat BY <1>1, <1>2, PaddingRange
  <2>2. pad \notin 1 .. HeaderSize - 1 /\ ~(hdr[cur].size < req.size + pad)
    BY <1>1 DEF PassesOver
  <2> HIDE DEF pad
  <2> QED BY <1>1, <1>2, <2>1, <2>2, HeapAssumption
<1> HIDE DEF n
<1>4. /\ hdr' \in [Addr -> Header] /\ hdr'[cur].size = n /\ hdr'[cur].next = m
      /\ hdr'[m] = [size |-> hdr[cur].size - n - HeaderSize, free |-> TRUE,
                    prev |-> cur, next |-> hdr[cur].next]
      /\ \A b \in Addr \ {cur, m} : hdr'[b] = hdr[b]
  BY <1>1, <1>3, SplitFields DEF IInv
<1>5. m \in Addr \ chain /\ cur < m BY <1>1, <1>3, SplitRoom DEF IInv
<1>6. \A b \in chain \ {cur} : hdr'[b] = hdr[b] BY <1>4, <1>5 DEF IInv, TypeOK
<1>7. TypeOK' BY <1>1, <1>4, <1>5 DEF IInv, TypeOK
<1>8. Tiled' BY <1>1, <1>3, <1>4, <1>6, SplitTiled DEF IInv
<1>9. HeldUsed' /\ HeldOnce'
  <2>1. hdr[cur].free BY <1>1 DEF PassesOver
  <2> QED BY <2>1, <1>1, <1>6, HeldUsedKept, HeldOnceKept DEF IInv
<1>10. Underway' BY <1>1 DEF IInv, Underway, Holds
<1>11. FirstFit'
  <2> SUFFICES ASSUME NEW b \in chain', b < cur PROVE PassesOver(b)'
    BY <1>1 DEF FirstFit
  <2>1. b # m /\ b # cur
    <3>1. m \in Int BY <1>5, HeapAssumption DEF Addr, HeapEnd
    <3> QED BY <1>2, <1>5, <3>1
  <2>2. b \in chain /\ hdr'[b] = hdr[b] BY <2>1, <1>1, <1>6
  <2>3. PassesOver(b) BY <2>2, <1>1 DEF IInv, FirstFit
  <2> QED BY <2>2, <2>3, <1>1 DEF PassesOver, Padding
<1> QED BY <1>7, <1>8, <1>9, <1>10, <1>11 DEF IInv

\* The block that TakeAligned hands out, and what becomes of the others.
LEMMA TakeFields ==
  ASSUME IInv, TakeAligned
  PROVE  /\ pc = "aligned" /\ pc' = "idle" /\ cur' = Null /\ req' = NoRequest
         /\ cur \in chain /\ hdr[cur].free
         /\ req \in [slot : Slots, size : Sizes, align : Alignments] /\ ~Holds(req.slot)
         /\ Padding(cur, req.align) = 0
         /\ held' = [held EXCEPT ![req.slot] =
                       [ptr |-> Data(cur), size |-> req.size, align |-> req.align]]
         /\ hdr' \in [Addr -> Header] /\ Tiled'
         /\ ~hdr'[cur].free /\ req.size <= hdr'[cur].size /\ hdr'[cur].prev = hdr[cur].prev
         /\ \A b \in chain \ {cur} : hdr'[b] = hdr[b]
         /\ \/ chain' = chain /\ hdr'[cur].next = hdr[cur].next
            \/ \E m \in Addr \ chain :
                 /\ chain' = chain \cup {m} /\ cur < m
                 /\ hdr'[cur].next = m
                 /\ hdr'[m].prev = cur /\ hdr'[m].free /\ hdr'[m].next = hdr[cur].next
         /\ Divisible(cur, req.size) => hdr'[cur].size = req.size /\ hdr'[cur].next # Null
<1> DEFINE n == req.size  m == SplitAt(cur, n)
<1>1. /\ pc = "aligned" /\ cur \in chain /\ ~PassesOver(cur) /\ Padding(cur, req.align) = 0
      /\ req \in [slot : Slots, size : Sizes, align : Alignments] /\ ~Holds(req.slot)
      /\ pc' = "idle" /\ cur' = Null /\ req' = NoRequest
  BY DEF TakeAligned, Aligned, Return, IInv, TypeOK, Underway
<1>2. hdr[cur].free /\ ~(hdr[cur].size < n + 0) BY <1>1 DEF PassesOver
<1>3. /\ cur \in Addr /\ cur \in Nat /\ hdr[cur].size \in 0 .. Word - 1 /\ n \in Nat
      /\ chain \subseteq Addr /\ hdr \in [Addr -> Header]
  <2>1. cur \in Addr /\ cur \in Nat /\ hdr[cur] \in Header BY <1>1, BlockInHeap DEF IInv
  <2>2. n \in Nat
    <3>1. req.size \in Sizes BY <1>1
    <3> QED BY <3>1, HeapAssumption
  <2> QED BY <2>1, <2>2 DEF IInv, TypeOK, Header
<1>4. held' = [held EXCEPT ![req.slot] = [ptr |-> Data(cur), size |-> n, align |-> req.align]]
  BY DEF TakeAligned, Settle
<1>5. CASE Divisible(cur, n)
  <2>1. hdr' = [Split(hdr, cur, n) EXCEPT ![cur].free = FALSE] /\ chain' = chain \cup {m}
    BY <1>5 DEF TakeAligned, Settle
  <2>2. n + HeaderSize <= hdr[cur].size
    BY <1>3, <1>5, HeapAssumption DEF Divisible
  <2>3. m \in Addr \ chain /\ cur < m BY <1>1, <1>3, <2>2, SplitRoom DEF IInv
  <2> DEFINE h == Split(hdr, cur, n)
  <2>4. /\ h \in [Addr -> Header] /\ h[cur].size = n /\ h[cur].next = m
        /\ h[cur].prev = hdr[cur].prev
        /\ h[m] = [size |-> hdr[cur].size - n - HeaderSize, free |-> TRUE,
                   prev |-> cur, next |-> hdr[cur].next]
        /\ \A b \in Addr \ {cur, m} : h[b] = hdr[b]
    BY <1>1, <1>3, <2>2, SplitFields DEF IInv
  <2> HIDE DEF h, m, n
  <2>5. hdr' = [h EXCEPT ![cur].free = FALSE] BY <2>1 DEF h, m, n
  <2>6. /\ hdr' \in [Addr -> Header] /\ hdr'[cur].size = n /\ hdr'[cur].next = m
        /\ ~hdr'[cur].free /\ hdr'[cur].prev = hdr[cur].prev
        /\ \A b \in Addr \ {cur} : hdr'[b] = h[b]
    BY <1>3, <2>4, <2>5 DEF Header
  <2>7. hdr'[m] = h[m] /\ \A b \in chain \ {cur} : hdr'[b] = hdr[b]
    BY <1>3, <2>3, <2>4, <2>6
  <2>8. Tiled'
    BY <1>1, <1>3, <2>1, <2>2, <2>4, <2>6, <2>7, SplitTiled DEF IInv, m, n
  <2>9. hdr'[cur].next # Null
    BY <2>3, <2>6, HeapAssumption DEF Addr, Null
  <2> QED BY <1>1, <1>2, <1>3, <1>4, <2>1, <2>3, <2>4, <2>6, <2>7, <2>8, <2>9 DEF m, n
<1>6. CASE ~Divisible(cur, n)
  <2>1. hdr' = [hdr EXCEPT ![cur].free = FALSE] /\ chain' = chain
    BY <1>6 DEF TakeAligned, Settle
  <2>2. /\ hdr' \in [Addr -> Header] /\ hdr'[cur].size = hdr[cur].size
        /\ hdr'[cur].next = hdr[cur].next /\ hdr'[cur].prev = hdr[cur].prev
        /\ ~hdr'[cur].free
        /\ \A b \in Addr \ {cur} : hdr'[b] = hdr[b]
    BY <1>3, <2>1 DEF Header
  <2>3. Tiled' BY <1>3, <2>1, <2>2 DEF IInv, Tiled, End, Data
  <2>4. n <= hdr'[cur].size BY <1>2, <1>3, <2>2
  <2> QED BY <1>1, <1>2, <1>3, <1>4, <1>6, <2>1, <2>2, <2>3, <2>4
<1> QED BY <1>5, <1>6

\* Handing out a block keeps the invariant.
LEMMA TakeKeeps == IInv /\ TakeAligned => IInv'
<1> SUFFICES ASSUME IInv, TakeAligned PROVE IInv' OBVIOUS
<1> DEFINE r == req.slot
           new == [ptr |-> Data(cur), size |-> req.size, align |-> req.align]
<1>1. /\ pc' = "idle" /\ cur' = Null /\ req' = NoRequest /\ cur \in chain /\ hdr[cur].free
      /\ held' = [held EXCEPT ![r] = new] /\ r \in Slots
      /\ hdr' \in [Addr -> Header] /\ Tiled' /\ ~hdr'[cur].free
      /\ req.size <= hdr'[cur].size /\ \A b \in chain \ {cur} : hdr'[b] = hdr[b]
      /\ chain \subseteq chain' /\ chain' \subseteq Addr /\ new \in Slot
      /\ held \in [Slots -> Slot]
  <2>1. /\ req.slot \in Slots /\ req.size \in Nat /\ req.align \in Nat \ {0}
        /\ Data(cur) \in Nat
    <3>1. req.slot \in Slots /\ req.size \in Sizes /\ req.align \in Alignments /\ cur \in chain
      BY TakeFields
    <3>2. cur \in Nat BY <3>1, BlockInHeap DEF IInv
    <3> HIDE DEF r, new
    <3>3. Data(cur) \in Nat BY <3>2, HeapAssumption DEF Data
    <3>4. req.size \in Nat /\ req.align \in Nat \ {0} BY <3>1, HeapAssumption
    <3> QED BY <3>1, <3>3, <3>4
  <2> QED BY <2>1, TakeFields DEF IInv, TypeOK, Slot
<1> HIDE DEF r, new
<1>2. TypeOK' BY <1>1 DEF TypeOK
<1>3. \A s \in Slots : held'[s] = IF s = r THEN new ELSE held[s] BY <1>1
<1>4. new.ptr = Data(cur) /\ new.size = req.size /\ new.ptr - HeaderSize = cur
  BY <1>1, BlockInHeap, HeapAssumption DEF new, Data, IInv
<1>5. \A s \in Slots \ {r} : Holds(s) => Entry(s) \in chain \ {cur} BY <1>1 DEF IInv, HeldUsed
<1>6. HeldUsed'
  <2> SUFFICES ASSUME NEW s \in Slots, Holds(s)'
               PROVE  /\ Entry(s)' \in chain' /\ ~hdr'[Entry(s)'].free
                      /\ held'[s].size <= hdr'[Entry(s)'].size
    BY DEF HeldUsed
  <2>1. CASE s = r BY <2>1, <1>1, <1>3, <1>4 DEF Entry
  <2>2. CASE s # r
    <3>1. held'[s] = held[s] /\ Holds(s) /\ Entry(s)' = Entry(s)
      BY <2>2, <1>3 DEF Holds, Entry
    <3>2. Entry(s) \in chain \ {cur} BY <2>2, <3>1, <1>5
    <3> QED BY <3>1, <3>2, <1>1 DEF IInv, HeldUsed
  <2> QED BY <2>1, <2>2
<1>7. HeldOnce'
  <2>1. \A s \in Slots \ {r} : Holds(s)' => held'[s].ptr # new.ptr
    BY <1>3, <1>4, <1>5 DEF Holds, Entry
  <2> QED BY <2>1, <1>3 DEF IInv, HeldOnce, Holds
<1>8. Underway' /\ FirstFit' BY <1>1 DEF Underway, FirstFit
<1> QED BY <1>1, <1>2, <1>6, <1>7, <1>8 DEF IInv

\* Returning null keeps it.
LEMMA FailKeeps == IInv /\ Fail => IInv'
<1> SUFFICES ASSUME IInv, Fail PROVE IInv' OBVIOUS
<1>1. pc' = "idle" /\ cur' = Null /\ req' = NoRequest /\ UNCHANGED <<hdr, chain, held>>
  BY DEF Fail, Return
<1>2. TypeOK' BY <1>1 DEF IInv, TypeOK
<1>3. Tiled' BY <1>1 DEF IInv, Tiled, End, Data
<1>4. HeldUsed' /\ HeldOnce' BY <1>1, HeldUsedKept, HeldOnceKept DEF IInv
<1>5. Underway' /\ FirstFit' BY <1>1 DEF Underway, FirstFit
<1> QED BY <1>2, <1>3, <1>4, <1>5 DEF IInv

\* What entering free() changes.
LEMMA FreeFields ==
  ASSUME IInv, NEW s \in Slots, FreeCall(s)
  PROVE  /\ pc = "idle" /\ pc' = "freePrev" /\ Holds(s)
         /\ cur' = Entry(s) /\ Entry(s) \in chain /\ chain' = chain
         /\ req' = [slot |-> s, size |-> 0, align |-> 1]
         /\ held' = [held EXCEPT ![s] = EmptySlot]
         /\ hdr' \in [Addr -> Header] /\ hdr'[Entry(s)].free
         /\ \A b \in chain : /\ hdr'[b].size = hdr[b].size
                             /\ hdr'[b].next = hdr[b].next /\ hdr'[b].prev = hdr[b].prev
         /\ \A b \in chain \ {Entry(s)} : hdr'[b] = hdr[b]
<1>1. /\ pc = "idle" /\ pc' = "freePrev" /\ Holds(s) /\ cur' = Entry(s) /\ chain' = chain
      /\ req' = [slot |-> s, size |-> 0, align |-> 1]
      /\ held' = [held EXCEPT ![s] = EmptySlot]
      /\ hdr' = [hdr EXCEPT ![Entry(s)].free = TRUE]
  BY DEF FreeCall, Call, Holds
<1>2. Entry(s) \in chain BY <1>1 DEF IInv, HeldUsed
<1>3. hdr \in [Addr -> Header] /\ chain \subseteq Addr BY DEF IInv, TypeOK
<1> QED BY <1>1, <1>2, <1>3 DEF Header

\* Entering free() keeps it.
LEMMA FreeCallKeeps == ASSUME IInv, NEW s \in Slots, FreeCall(s) PROVE IInv'
<1>1. TypeOK'
  BY FreeFields, HeapAssumption DEF IInv, TypeOK, Slot, EmptySlot, Request, Null
<1>2. Tiled' BY FreeFields DEF IInv, Tiled, End, Data
<1>3. \A t \in Slots : Holds(t)' => t # s /\ Holds(t) /\ held'[t] = held[t]
  BY FreeFields DEF IInv, TypeOK, Holds, EmptySlot
<1>4. HeldOnce' BY <1>3 DEF IInv, HeldOnce
<1>5. HeldUsed'
  <2> SUFFICES ASSUME NEW t \in Slots, Holds(t)'
               PROVE  /\ Entry(t)' \in chain' /\ ~hdr'[Entry(t)'].free
                      /\ held'[t].size <= hdr'[Entry(t)'].size
    BY DEF HeldUsed
  <2>1. t # s /\ Holds(t) /\ held'[t] = held[t] /\ Entry(t)' = Entry(t) BY <1>3 DEF Entry
  <2>2. Entry(t) \in chain BY <2>1 DEF IInv, HeldUsed
  <2>3. Entry(t) # Entry(s)
    <3>1. held[t].ptr # held[s].ptr BY <2>1, FreeFields DEF IInv, HeldOnce
    <3>2. held[t].ptr \in Nat /\ held[s].ptr \in Nat BY DEF IInv, TypeOK, Slot
    <3> QED BY <3>1, <3>2, HeapAssumption DEF Entry
  <2> QED BY <2>1, <2>2, <2>3, FreeFields DEF IInv, HeldUsed
<1>6. Underway'
  <2>1. Entry(s) # Null BY FreeFields, HeapAssumption DEF IInv, TypeOK, Addr, Null
  <2> QED BY <2>1, FreeFields DEF Underway
<1>7. FirstFit' BY FreeFields DEF FirstFit
<1> QED BY <1>1, <1>2, <1>4, <1>5, <1>6, <1>7 DEF IInv

\* Going on to the second loop of free() keeps it.
LEMMA TurnKeeps == IInv /\ Turn => IInv'
<1> SUFFICES ASSUME IInv, Turn PROVE IInv' OBVIOUS
<1>1. pc = "freePrev" /\ pc' = "freeNext" /\ UNCHANGED <<hdr, chain, held, cur, req>>
  BY DEF Turn, FreeTurn
<1>2. TypeOK' BY <1>1 DEF IInv, TypeOK
<1>3. Tiled' BY <1>1 DEF IInv, Tiled, End, Data
<1>4. HeldUsed' /\ HeldOnce' BY <1>1, HeldUsedKept, HeldOnceKept DEF IInv
<1>5. Underway' /\ FirstFit' BY <1>1 DEF IInv, Underway, FirstFit
<1> QED BY <1>2, <1>3, <1>4, <1>5 DEF IInv

\* Merging block e with a free successor keeps what the callers hold.
LEMMA MergeKeepsHeld ==
  ASSUME IInv, NEW e \in chain, NEW x, x = hdr[e].next, x # Null, hdr[x].free,
         hdr' = MergeNext(hdr, e), chain' = chain \ {x}, held' = held
  PROVE  /\ hdr' \in [Addr -> Header] /\ chain' \subseteq Addr /\ e \in chain'
         /\ Tiled' /\ HeldUsed' /\ HeldOnce'
<1>1. x # e /\ chain \subseteq Addr
  BY NextBlock, BlockInHeap DEF IInv, TypeOK
<1>2. /\ hdr' \in [Addr -> Header] /\ hdr'[e].size >= hdr[e].size
      /\ \A b \in Addr : hdr'[b].free = hdr[b].free
      /\ \A b \in Addr \ {e} : hdr'[b].size = hdr[b].size
  <2>1. /\ hdr' \in [Addr -> Header] /\ hdr'[e].free = hdr[e].free
        /\ hdr'[e].size = hdr[e].size + hdr[x].size + HeaderSize
        /\ \A b \in Addr \ {e} : hdr'[b].size = hdr[b].size /\ hdr'[b].free = hdr[b].free
    BY MergeFields DEF IInv
  <2>2. hdr[e].size \in Nat /\ hdr[x].size \in Nat
    BY NextBlock, BlockInHeap, HeapAssumption DEF IInv, Header
  <2> QED BY <2>1, <2>2, HeapAssumption
<1>3. Tiled' BY MergeTiled DEF IInv
<1>4. HeldUsed'
  <2> SUFFICES ASSUME NEW s \in Slots, Holds(s)
               PROVE  /\ Entry(s) \in chain' /\ ~hdr'[Entry(s)].free
                      /\ held[s].size <= hdr'[Entry(s)].size
    BY DEF HeldUsed, Holds, Entry
  <2>1. /\ Entry(s) \in chain /\ ~hdr[Entry(s)].free
        /\ held[s].size <= hdr[Entry(s)].size
    BY DEF IInv, HeldUsed
  <2>2. hdr'[Entry(s)].size >= hdr[Entry(s)].size
    BY <2>1, <1>1, <1>2, BlockInHeap, HeapAssumption DEF IInv, Header
  <2>3. /\ held[s].size \in Int /\ hdr[Entry(s)].size \in Int
        /\ hdr'[Entry(s)].size \in Int
    BY <2>1, <1>1, <1>2, HeapAssumption DEF IInv, TypeOK, Slot, Header
  <2> QED BY <2>1, <2>2, <2>3, <1>1, <1>2
<1>5. HeldOnce' BY HeldOnceKept DEF IInv
<1> QED BY <1>1, <1>2, <1>3, <1>4, <1>5

\* Merging with a free successor keeps it.
LEMMA FreeMergeNextKeeps == IInv /\ FreeMergeNext => IInv'
<1> SUFFICES ASSUME IInv, FreeMergeNext PROVE IInv' OBVIOUS
<1> DEFINE x == hdr[cur].next
<1>1. /\ pc = "freeNext" /\ cur \in chain /\ cur # Null /\ x # Null /\ hdr[x].free
      /\ hdr' = MergeNext(hdr, cur) /\ chain' = chain \ {x} /\ UNCHANGED <<held, pc, cur, req>>
  BY DEF FreeMergeNext, NextFree, IInv, TypeOK, Underway
<1>2. /\ hdr' \in [Addr -> Header] /\ chain' \subseteq Addr /\ cur \in chain'
      /\ Tiled' /\ HeldUsed' /\ HeldOnce'
  BY <1>1, MergeKeepsHeld
<1>3. TypeOK' BY <1>1, <1>2 DEF IInv, TypeOK
<1>4. Underway' /\ FirstFit' BY <1>1 DEF IInv, Underway, FirstFit
<1> QED BY <1>2, <1>3, <1>4 DEF IInv

\* Returning from free() keeps it.
LEMMA FreeReturnKeeps == IInv /\ FreeReturn => IInv'
<1> SUFFICES ASSUME IInv, FreeReturn PROVE IInv' OBVIOUS
<1>1. pc' = "idle" /\ cur' = Null /\ req' = NoRequest /\ UNCHANGED <<hdr, chain, held>>
  BY DEF FreeReturn, Return
<1>2. TypeOK' BY <1>1 DEF IInv, TypeOK
<1>3. Tiled' BY <1>1 DEF IInv, Tiled, End, Data
<1>4. HeldUsed' /\ HeldOnce' BY <1>1, HeldUsedKept, HeldOnceKept DEF IInv
<1>5. Underway' /\ FirstFit' BY <1>1 DEF Underway, FirstFit
<1> QED BY <1>2, <1>3, <1>4, <1>5 DEF IInv

\* So does doing nothing.
LEMMA StutterKeeps == IInv /\ UNCHANGED vars => IInv'
<1> SUFFICES ASSUME IInv, UNCHANGED vars PROVE IInv' OBVIOUS
<1>1. UNCHANGED <<hdr, chain, held, pc, cur, req>> BY DEF vars
<1>2. TypeOK' BY <1>1 DEF IInv, TypeOK
<1>3. Tiled' BY <1>1 DEF IInv, Tiled, End, Data
<1>4. HeldUsed' /\ HeldOnce' BY <1>1, HeldUsedKept, HeldOnceKept DEF IInv
<1>5. Underway' /\ FirstFit' BY <1>1 DEF IInv, Underway, FirstFit, PassesOver, Padding, Holds
<1> QED BY <1>2, <1>3, <1>4, <1>5 DEF IInv

\* Every such step keeps the invariant.
LEMMA NextKeeps == IInv /\ [SharedNext]_vars => IInv'
<1> SUFFICES ASSUME IInv, [SharedNext]_vars PROVE IInv' OBVIOUS
<1>1. CASE AskAligned BY <1>1, AskKeeps
<1>2. CASE Walk BY <1>2, WalkKeeps
<1>3. CASE Pad BY <1>3, PadKeeps
<1>4. CASE TakeAligned BY <1>4, TakeKeeps
<1>5. CASE Fail BY <1>5, FailKeeps
<1>6. CASE FreeLast BY <1>6, FreeCallKeeps DEF FreeLast
<1>7. CASE Turn BY <1>7, TurnKeeps
<1>8. CASE FreeMergeNext BY <1>8, FreeMergeNextKeeps
<1>9. CASE FreeReturn BY <1>9, FreeReturnKeeps
<1>10. CASE UNCHANGED vars BY <1>10, StutterKeeps
<1> QED
  BY <1>1, <1>2, <1>3, <1>4, <1>5, <1>6, <1>7, <1>8, <1>9, <1>10
  DEF SharedNext, ArenaNext

-----------------------------------------------------------------------------
(* What the callers rely on                                                *)

\* It holds in every behaviour of such steps.
LEMMA Invariance == Init /\ [][SharedNext]_vars => []IInv
<1>1. Init => IInv BY InitIInv
<1>2. IInv /\ [SharedNext]_vars => IInv' BY NextKeeps
<1> QED BY <1>1, <1>2, PTL

\* It holds of the arena.
LEMMA ArenaIInv == ArenaSpec => []IInv
<1>1. [ArenaNext]_vars => [SharedNext]_vars BY DEF SharedNext
<1> QED BY <1>1, Invariance, PTL DEF ArenaSpec

\* What a caller holds lies in the heap.
LEMMA HeldInHeap ==
  IInv => \A s \in Slots : Holds(s) => HeapBase < held[s].ptr /\ Last(s) <= HeapEnd
<1> SUFFICES ASSUME IInv, NEW s \in Slots, Holds(s)
             PROVE  HeapBase < held[s].ptr /\ Last(s) <= HeapEnd
  OBVIOUS
<1> DEFINE e == Entry(s)
<1>1. e \in chain /\ held[s].size <= hdr[e].size BY DEF IInv, HeldUsed
<1>2. e \in Addr /\ e \in Nat /\ End(e) <= HeapEnd /\ hdr[e].size \in Nat
  BY <1>1, BlockInHeap, HeapAssumption DEF IInv, Header
<1>3. held[s].ptr \in Nat /\ held[s].size \in Nat BY DEF IInv, TypeOK, Slot
<1>4. held[s].ptr = Data(e) BY <1>3, HeapAssumption DEF Entry, Data
<1>5. HeapBase <= e BY <1>2, HeapAssumption DEF Addr, HeapEnd
<1> HIDE DEF e
<1> QED BY <1>1, <1>2, <1>3, <1>4, <1>5, HeapAssumption DEF Last, End, Data, HeapEnd

\* Blocks do not overlap, so neither do the regions inside them.
LEMMA RegionsApart == IInv => NewlyAllocated
<1> SUFFICES ASSUME IInv, NEW s \in Slots, Holds(s)
             PROVE  /\ \A t \in Slots \ {s} : Holds(t) => Apart(s, t)
                    /\ \A b \in chain : OffHeader(s, b)
  BY HeldInHeap DEF NewlyAllocated
<1>1. \A t \in Slots : Holds(t) =>
        /\ Entry(t) \in chain /\ Entry(t) \in Nat /\ End(Entry(t)) \in Nat
        /\ held[t].ptr = Data(Entry(t)) /\ Last(t) <= End(Entry(t))
        /\ held[t].ptr \in Nat /\ Last(t) \in Nat
  <2> SUFFICES ASSUME NEW t \in Slots, Holds(t)
               PROVE  /\ Entry(t) \in chain /\ Entry(t) \in Nat /\ End(Entry(t)) \in Nat
                      /\ held[t].ptr = Data(Entry(t)) /\ Last(t) <= End(Entry(t))
                      /\ held[t].ptr \in Nat /\ Last(t) \in Nat
    OBVIOUS
  <2>1. Entry(t) \in chain /\ held[t].size <= hdr[Entry(t)].size BY DEF IInv, HeldUsed
  <2>2. Entry(t) \in Nat /\ hdr[Entry(t)].size \in Nat
    BY <2>1, BlockInHeap, HeapAssumption DEF IInv, Header
  <2>3. held[t].ptr \in Nat /\ held[t].size \in Nat BY DEF IInv, TypeOK, Slot
  <2> HIDE DEF Entry
  <2>4. held[t].ptr = Data(Entry(t)) BY <2>3, HeapAssumption DEF Entry, Data
  <2> QED BY <2>1, <2>2, <2>3, <2>4, HeapAssumption DEF Last, End, Data
<1>2. \A b \in chain : b \in Nat /\ End(b) \in Nat /\ Data(b) \in Nat /\ b < Data(b) /\ Data(b) <= End(b)
  BY BlockInHeap, HeapAssumption DEF IInv, Data
<1>3. ASSUME NEW b \in chain PROVE OffHeader(s, b)
  <2> DEFINE e == Entry(s)
  <2>1. e \in chain /\ e \in Nat /\ held[s].ptr = Data(e) /\ Last(s) <= End(e) /\ Last(s) \in Nat
    BY <1>1
  <2>2. b <= e \/ End(e) <= b BY <2>1 DEF IInv, Tiled
  <2>3. e <= b \/ End(b) <= e BY <2>1 DEF IInv, Tiled
  <2> HIDE DEF e
  <2>4. CASE b = e
    <3>1. Data(b) = held[s].ptr BY <2>1, <2>4
    <3>2. Data(b) \in Nat BY <1>2
    <3> QED BY <3>1, <3>2 DEF OffHeader
  <2>5. CASE b < e
    <3>1. /\ b \in Nat /\ Data(b) \in Nat /\ Data(b) <= End(b) /\ End(b) \in Nat
          /\ e \in Nat /\ e < Data(e) /\ Data(e) \in Nat
      BY <2>1, <1>2
    <3>2. End(b) <= e BY <2>3, <2>5, <3>1
    <3>3. Data(b) <= Data(e) BY <3>1, <3>2
    <3> QED BY <2>1, <3>3 DEF OffHeader
  <2>6. CASE e < b
    <3>1. End(e) <= b /\ End(e) \in Nat /\ b \in Nat BY <2>1, <2>2, <2>6, <1>2
    <3> QED BY <2>1, <3>1 DEF OffHeader
  <2> QED BY <2>1, <2>4, <2>5, <2>6, <1>2
<1>4. ASSUME NEW t \in Slots \ {s}, Holds(t) PROVE Apart(s, t)
  <2> DEFINE e == Entry(s)  f == Entry(t)
  <2>1. /\ e \in chain /\ e \in Nat /\ held[s].ptr = Data(e) /\ Last(s) <= End(e)
        /\ f \in chain /\ f \in Nat /\ held[t].ptr = Data(f) /\ Last(t) <= End(f)
        /\ Last(s) \in Nat /\ Last(t) \in Nat
    BY <1>1, <1>4
  <2>2. f <= e \/ End(e) <= f BY <2>1 DEF IInv, Tiled
  <2>3. e <= f \/ End(f) <= e BY <2>1 DEF IInv, Tiled
  <2>4. held[s].ptr # held[t].ptr BY <1>4 DEF IInv, HeldOnce
  <2> HIDE DEF e, f
  <2>5. e # f BY <2>1, <2>4
  <2>6. e < f \/ f < e BY <2>1, <2>5
  <2> QED BY <2>1, <2>2, <2>3, <2>6, <1>2 DEF Apart
<1> QED BY <1>3, <1>4

\* Handing out a region is a step of the abstract heap, ...
LEMMA TakeMaps == ASSUME IInv, IInv', TakeAligned PROVE Abs!Next
<1>1. PICK s \in Slots, n \in Sizes, a \in Alignments, c \in chain :
         /\ s = req.slot /\ n = req.size /\ a = req.align /\ c = cur
  BY TakeFields
<1> DEFINE p == Data(c)  new == [ptr |-> p, size |-> n, align |-> a]
<1>2. ~Holds(s) /\ Padding(c, a) = 0 /\ held' = [held EXCEPT ![s] = new]
  BY <1>1, TakeFields
<1>3. c \in Nat /\ n \in Nat /\ a \in Nat \ {0}
  BY BlockInHeap, HeapAssumption DEF IInv
<1>4. p \in Nat /\ p # Null BY <1>3, HeapAssumption DEF Data, Null
<1>5. p % a = 0 BY <1>2, <1>3, NoPadding
<1> HIDE DEF p
<1>6. held \in [Slots -> Slot] BY DEF IInv, TypeOK
<1>7. held'[s] = new /\ \A t \in Slots \ {s} : held'[t] = held[t] BY <1>2, <1>6
<1>8. held'[s].ptr = p /\ held'[s].size = n /\ Holds(s)' BY <1>4, <1>7 DEF Holds
<1>9. HeapBase < p /\ p + n <= HeapEnd
  <2>1. NewlyAllocated' BY RegionsApart, PTL
  <2> QED BY <1>8, <2>1 DEF Last, NewlyAllocated
<1>10. \A t \in Slots \ {s} : held[t].ptr # Null => Abs!DisjointFrom(p, n, held[t])
  <2>1. NewlyAllocated' BY RegionsApart, PTL
  <2> SUFFICES ASSUME NEW t \in Slots \ {s}, held[t].ptr # Null
               PROVE  Abs!DisjointFrom(p, n, held[t])
    OBVIOUS
  <2>2. Holds(t)' /\ held'[t] = held[t] BY <1>7 DEF Holds
  <2>3. Apart(s, t)' BY <1>8, <2>1, <2>2 DEF NewlyAllocated
  <2> QED BY <1>8, <2>2, <2>3 DEF Apart, Last, Abs!DisjointFrom
<1>11. p \in HeapBase .. HeapEnd
  BY <1>3, <1>4, <1>9, HeapAssumption DEF HeapEnd
<1>12. held[s].ptr = Abs!Null BY <1>2 DEF Holds, Null, Abs!Null
<1>13. Abs!Allocate(s, p, n, a)
  BY <1>2, <1>5, <1>9, <1>10, <1>12 DEF Abs!Allocate, Abs!NewRegion, Abs!Null, Null
<1> QED BY <1>11, <1>13 DEF Abs!Next

\* ... and so is taking one back.
LEMMA FreeMaps == ASSUME IInv, NEW s \in Slots, FreeCall(s) PROVE Abs!Next
<1>1. Holds(s) /\ held' = [held EXCEPT ![s] = EmptySlot] BY FreeFields
<1>2. Abs!Release(s)
  BY <1>1 DEF Abs!Release, Abs!Null, Abs!EmptySlot, Holds, Null, EmptySlot
<1> QED BY <1>2 DEF Abs!Next

\* The other steps leave the callers' view alone.
LEMMA StepMaps == IInv /\ IInv' /\ [SharedNext]_vars => [Abs!Next]_held
<1> SUFFICES ASSUME IInv, IInv', SharedNext \/ UNCHANGED vars, held' # held PROVE Abs!Next
  OBVIOUS
<1>1. TakeAligned \/ FreeLast
  BY DEF SharedNext, ArenaNext, vars, AskAligned, MallocAlignedCall, Walk, Pad, Fail,
         Turn, FreeTurn, FreeMergeNext, FreeReturn
<1> QED BY <1>1, TakeMaps, FreeMaps DEF FreeLast

\* Behaviours map to behaviours of the abstract heap.
LEMMA SharedRefines == Init /\ [][SharedNext]_vars => Abs!Spec
<1>1. Init => Abs!Init
  BY DEF Init, Abs!Init, EmptySlot, Abs!EmptySlot, Null, Abs!Null
<1>2. IInv /\ IInv' /\ [SharedNext]_vars => [Abs!Next]_held BY StepMaps
<1> QED BY <1>1, <1>2, Invariance, PTL DEF Abs!Spec

-----------------------------------------------------------------------------
(* The theorems about callers that only take                               *)

\* Whatever the sizes and alignments asked of mallocAligned, every link it
\* leaves behind points into the heap, and no size wraps around.
THEOREM ArenaTypes == ArenaSpec => []TypeOK
<1>1. IInv => TypeOK BY DEF IInv
<1> QED BY <1>1, ArenaIInv, PTL

\* split() cuts the heap into blocks without gap or overlap, also where
\* mallocAligned splits off the room before an aligned start.
THEOREM ArenaTiled == ArenaSpec => []Tiled
<1>1. IInv => Tiled BY DEF IInv
<1> QED BY <1>1, ArenaIInv, PTL

\* What operator new hands out is no one else's, and holds no header.
THEOREM ArenaNewlyAllocated == ArenaSpec => []NewlyAllocated
<1> QED BY ArenaIInv, RegionsApart, PTL

\* mallocAligned returns null only when no block of the heap would have done.
THEOREM ArenaFirstFit == ArenaSpec => []FirstFit
<1>1. IInv => FirstFit BY DEF IInv
<1> QED BY <1>1, ArenaIInv, PTL

\* To its callers the block list is the heap that memory.hpp describes: the
\* regions it hands out lie in the heap, are aligned and meet no other.
THEOREM ArenaImplements == ArenaSpec => AbsSpec
<1>1. [ArenaNext]_vars => [SharedNext]_vars BY DEF SharedNext
<1> QED BY <1>1, SharedRefines, PTL DEF ArenaSpec, AbsSpec

-----------------------------------------------------------------------------
(* Callers that delete in the reverse order of new, as the objects of one  *)
(* scope do: the prev links then mirror the next links, and the heap comes *)
(* back whole.  IInv does not see this, since any other order breaks it;   *)
(* what makes it true here is that the blocks in use always lie below the  *)
(* one free block, in the order of their slots.                            *)

Freeing == pc \in {"freePrev", "freeNext"}

\* A block that is free is the last one, or the one that free() works on.
OnlyLastFree == \A b \in chain : hdr[b].free => hdr[b].next = Null \/ (Freeing /\ b = cur)

EveryUsedHeld == \A b \in chain : ~hdr[b].free => \E s \in Slots : Holds(s) /\ Entry(s) = b

\* The slots in use come first, in the order of their addresses.
SlotOrder ==
  \A s, t \in Slots : t < s /\ Holds(s) => Holds(t) /\ held[t].ptr < held[s].ptr

Asked == pc = "aligned" => FirstEmpty(req.slot) /\ req.align <= HeaderSize

\* free() works above every block that is still in use.
FreeAboveUsed == Freeing => hdr[cur].free /\ \A b \in chain : ~hdr[b].free => b < cur

SInv == IInv /\ Links /\ OnlyLastFree /\ EveryUsedHeld /\ SlotOrder /\ Asked /\ FreeAboveUsed

-----------------------------------------------------------------------------
(* Every step keeps the invariant                                          *)

\* Steps that leave the list and the slots alone.
LEMMA SameHeap ==
  ASSUME SInv, IInv', UNCHANGED <<hdr, chain, held>>,
         (Freeing => Freeing' /\ cur' = cur) \/ OnlyLastFree', Asked', FreeAboveUsed'
  PROVE  SInv'
<1>1. Links' /\ EveryUsedHeld' /\ SlotOrder'
  BY DEF SInv, Links, EveryUsedHeld, SlotOrder, Holds, Entry
<1>2. OnlyLastFree' BY DEF SInv, OnlyLastFree, Freeing
<1> QED BY <1>1, <1>2 DEF SInv

\* The invariant of the stack holds at first.
LEMMA InitSInv == Init => SInv
<1> SUFFICES ASSUME Init PROVE SInv OBVIOUS
<1>1. IInv BY InitIInv
<1>2. Links /\ OnlyLastFree /\ EveryUsedHeld /\ SlotOrder /\ Asked /\ FreeAboveUsed
  BY HeapAssumption DEF Init, Links, OnlyLastFree, EveryUsedHeld, SlotOrder, Asked, FreeAboveUsed,
     Freeing, RootHeader, Root, Addr, HeapEnd, Holds, EmptySlot
<1> QED BY <1>1, <1>2 DEF SInv

\* Entering operator new keeps it.
LEMMA SAsk == SInv /\ IInv' /\ AskNew => SInv'
<1> SUFFICES ASSUME SInv, IInv', AskNew PROVE SInv' OBVIOUS
<1>1. PICK s \in Slots, n \in Sizes, a \in Alignments :
        a <= HeaderSize /\ FirstEmpty(s) /\ MallocAlignedCall(s, n, a)
  BY DEF AskNew
<1>2. /\ pc = "idle" /\ pc' = "aligned" /\ UNCHANGED <<hdr, chain, held>>
      /\ req' = [slot |-> s, size |-> n, align |-> a]
  BY <1>1 DEF MallocAlignedCall, Call
<1>3. Asked' /\ FreeAboveUsed' BY <1>1, <1>2 DEF Asked, FreeAboveUsed, Freeing, FirstEmpty, Holds
<1>4. ~Freeing BY <1>2 DEF Freeing
<1> QED BY <1>2, <1>3, <1>4, SameHeap

\* Passing over a block keeps it.
LEMMA SWalk == SInv /\ IInv' /\ Walk => SInv'
<1> SUFFICES ASSUME SInv, IInv', Walk PROVE SInv' OBVIOUS
<1>1. pc = "aligned" /\ UNCHANGED <<hdr, chain, held, pc, req>>
  BY DEF Walk, Plain, Aligned, SInv, IInv, Underway
<1>2. Asked' /\ FreeAboveUsed' /\ ~Freeing
  BY <1>1 DEF SInv, Asked, FreeAboveUsed, Freeing, FirstEmpty, Holds
<1> QED BY <1>1, <1>2, SameHeap

\* Returning null keeps it.
LEMMA SFail == SInv /\ IInv' /\ Fail => SInv'
<1> SUFFICES ASSUME SInv, IInv', Fail PROVE SInv' OBVIOUS
<1>1. pc = "aligned" /\ pc' = "idle" /\ UNCHANGED <<hdr, chain, held>>
  BY DEF Fail, Return, Plain, Aligned, SInv, IInv, Underway
<1>2. Asked' /\ FreeAboveUsed' /\ ~Freeing BY <1>1 DEF Asked, FreeAboveUsed, Freeing
<1> QED BY <1>1, <1>2, SameHeap

\* A first block without a successor is the whole heap.
LEMMA RootAlone ==
  ASSUME IInv, hdr[Root].next = Null
  PROVE  /\ chain = {Root}
         /\ hdr[Root].free /\ hdr[Root].prev = Null => hdr[Root] = RootHeader
<1>1. Root \in chain /\ End(Root) = HeapEnd BY DEF IInv, Tiled
<1>2. Root \in Nat /\ hdr[Root] \in Header /\ hdr[Root].size \in Nat /\ HeapEnd \in Nat
  BY <1>1, BlockInHeap, HeapAssumption DEF IInv, Header, HeapEnd
<1>3. hdr[Root].size = HeapSize - HeaderSize
  BY <1>1, <1>2, HeapAssumption DEF End, Data, HeapEnd, Root
<1>4. hdr[Root].free /\ hdr[Root].prev = Null => hdr[Root] = RootHeader
  BY <1>2, <1>3 DEF Header, RootHeader
<1>5. ASSUME NEW b \in chain PROVE b = Root
  <2>1. b <= Root \/ End(Root) <= b BY <1>1 DEF IInv, Tiled
  <2>2. b \in Addr /\ b \in Nat BY BlockInHeap DEF IInv
  <2> QED BY <2>1, <2>2, <1>1, <1>2, HeapAssumption DEF Addr, Root
<1> QED BY <1>1, <1>4, <1>5

\* While only the last block is free, handing it out keeps the links right.
LEMMA TakeLinks ==
  ASSUME IInv, Links, OnlyLastFree, TakeAligned
  PROVE  hdr[cur].next = Null /\ Links' /\ OnlyLastFree'
<1>1. PICK c \in chain : c = cur
  BY TakeFields
<1>2. /\ pc = "aligned" /\ pc' = "idle" /\ hdr[c].free
      /\ ~hdr'[c].free /\ hdr'[c].prev = hdr[c].prev
      /\ \A b \in chain \ {c} : hdr'[b] = hdr[b]
      /\ \/ chain' = chain /\ hdr'[c].next = hdr[c].next
         \/ \E m \in Addr \ chain :
              /\ chain' = chain \cup {m} /\ hdr'[c].next = m
              /\ hdr'[m].prev = c /\ hdr'[m].free /\ hdr'[m].next = hdr[c].next
  BY <1>1, TakeFields
<1>3. hdr[c].next = Null BY <1>2 DEF OnlyLastFree, Freeing
<1>4. /\ Root \in chain /\ Root \in chain' /\ Null \notin chain' /\ Null \notin chain
      /\ \A b \in chain : hdr[b].next # Null => hdr[b].next \in chain
  BY <1>2, HeapAssumption DEF IInv, Tiled, TypeOK, Addr, Null
<1>5. Links'
  <2>1. ASSUME NEW b \in chain', hdr'[b].next # Null PROVE hdr'[hdr'[b].next].prev = b
    <3>1. CASE b = c BY <2>1, <3>1, <1>2, <1>3 DEF Links
    <3>2. CASE b \in chain \ {c}
      <4>1. hdr'[b] = hdr[b] BY <3>2, <1>2
      <4>2. hdr'[hdr[b].next].prev = hdr[hdr[b].next].prev BY <2>1, <3>2, <4>1, <1>2, <1>4
      <4> QED BY <2>1, <3>2, <4>1, <4>2 DEF Links
    <3>3. CASE b \notin chain BY <2>1, <3>3, <1>2, <1>3, <1>4
    <3> QED BY <3>1, <3>2, <3>3
  <2>2. ASSUME NEW b \in chain', b # Root
        PROVE  hdr'[b].prev \in chain' /\ hdr'[hdr'[b].prev].next = b
    <3>1. CASE b \in chain
      <4>1. hdr'[b].prev = hdr[b].prev BY <3>1, <1>2
      <4>2. hdr[b].prev \in chain /\ hdr[hdr[b].prev].next = b BY <2>2, <3>1 DEF Links
      <4>3. hdr[b].prev # c BY <3>1, <4>2, <1>3, <1>4
      <4> QED BY <4>1, <4>2, <4>3, <1>2
    <3>2. CASE b \notin chain BY <2>2, <3>2, <1>2
    <3> QED BY <3>1, <3>2
  <2>3. hdr'[Root].prev = Null BY <1>2, <1>4 DEF Links
  <2> QED BY <2>1, <2>2, <2>3 DEF Links
<1>6. OnlyLastFree' BY <1>2, <1>3 DEF OnlyLastFree, Freeing
<1> QED BY <1>1, <1>3, <1>5, <1>6

\* Every block in use has a holder: also the one that is handed out, ...
LEMMA TakeUsedHeld == ASSUME IInv, EveryUsedHeld, TakeAligned PROVE EveryUsedHeld'
<1>1. PICK r \in Slots, n \in Sizes, a \in Alignments, c \in chain :
         r = req.slot /\ n = req.size /\ a = req.align /\ c = cur
  BY TakeFields
<1> DEFINE new == [ptr |-> Data(c), size |-> n, align |-> a]
<1>2. /\ ~Holds(r) /\ held' = [held EXCEPT ![r] = new]
      /\ \A b \in chain \ {c} : hdr'[b] = hdr[b]
      /\ \/ chain' = chain
         \/ \E m \in Addr : chain' = chain \cup {m} /\ hdr'[m].free
  BY <1>1, TakeFields
<1>3. c \in Nat /\ new.ptr = Data(c) /\ Data(c) \in Nat /\ Data(c) # Null
  BY BlockInHeap, HeapAssumption DEF IInv, Data, Null
<1> HIDE DEF new
<1>4. held'[r] = new /\ \A t \in Slots \ {r} : held'[t] = held[t] BY <1>2 DEF IInv, TypeOK
<1> SUFFICES ASSUME NEW b \in chain', ~hdr'[b].free
             PROVE  \E s \in Slots : Holds(s)' /\ Entry(s)' = b
  BY DEF EveryUsedHeld
<1>5. CASE b = c
  <2>1. Holds(r)' /\ Entry(r)' = c
    BY <1>3, <1>4, HeapAssumption DEF Holds, Entry, Data
  <2> QED BY <1>5, <2>1
<1>6. CASE b # c
  <2>1. b \in chain /\ hdr'[b] = hdr[b] BY <1>2, <1>6
  <2>2. PICK s \in Slots : Holds(s) /\ Entry(s) = b BY <2>1 DEF EveryUsedHeld
  <2>3. s # r BY <2>2, <1>2
  <2> QED BY <2>2, <2>3, <1>4 DEF Holds, Entry
<1> QED BY <1>5, <1>6

\* ... when another is given back, ...
LEMMA FreeUsedHeld ==
  ASSUME IInv, EveryUsedHeld, NEW s \in Slots, FreeCall(s) PROVE EveryUsedHeld'
<1>1. /\ chain' = chain /\ held' = [held EXCEPT ![s] = EmptySlot] /\ hdr'[Entry(s)].free
      /\ \A b \in chain \ {Entry(s)} : hdr'[b] = hdr[b]
  BY FreeFields
<1>2. \A t \in Slots \ {s} : held'[t] = held[t] BY <1>1 DEF IInv, TypeOK
<1> SUFFICES ASSUME NEW b \in chain, ~hdr'[b].free
             PROVE  \E t \in Slots : Holds(t)' /\ Entry(t)' = b
  BY <1>1 DEF EveryUsedHeld
<1>3. b # Entry(s) /\ ~hdr[b].free BY <1>1
<1>4. PICK t \in Slots : Holds(t) /\ Entry(t) = b BY <1>3 DEF EveryUsedHeld
<1>5. t # s BY <1>3, <1>4
<1> QED BY <1>2, <1>4, <1>5 DEF Holds, Entry

\* ... and when two blocks become one.
LEMMA MergeUsedHeld ==
  ASSUME IInv, EveryUsedHeld, NEW e \in chain, NEW x, x = hdr[e].next, x # Null,
         hdr' = MergeNext(hdr, e), chain' = chain \ {x}, held' = held
  PROVE  EveryUsedHeld'
<1>1. \A b \in chain : hdr'[b].free = hdr[b].free
  <2>1. chain \subseteq Addr BY DEF IInv, TypeOK
  <2>2. hdr'[e].free = hdr[e].free /\ \A b \in Addr \ {e} : hdr'[b].free = hdr[b].free
    BY MergeFields DEF IInv
  <2> QED BY <2>1, <2>2
<1> QED BY <1>1 DEF EveryUsedHeld, Holds, Entry

\* Handing out a block keeps it: the block taken is the free one at the end.
LEMMA STake == SInv /\ IInv' /\ TakeAligned => SInv'
<1> SUFFICES ASSUME SInv, IInv', TakeAligned PROVE SInv' OBVIOUS
<1>1. PICK r \in Slots, n \in Sizes, a \in Alignments, c \in chain :
         r = req.slot /\ n = req.size /\ a = req.align /\ c = cur
  BY TakeFields DEF SInv
<1> DEFINE new == [ptr |-> Data(c), size |-> n, align |-> a]
<1>2. pc = "aligned" /\ pc' = "idle" /\ ~Holds(r) /\ held' = [held EXCEPT ![r] = new] /\ hdr[c].free
  BY <1>1, TakeFields DEF SInv
<1>3. hdr[c].next = Null BY <1>1, TakeLinks DEF SInv
<1>5. held \in [Slots -> Slot] /\ FirstEmpty(r) BY <1>1, <1>2 DEF SInv, IInv, TypeOK, Asked
<1>6. held'[r] = new /\ \A t \in Slots \ {r} : held'[t] = held[t] BY <1>2, <1>5
<1>7. c \in Nat /\ End(c) = HeapEnd /\ new.ptr = Data(c) /\ Data(c) \in Nat /\ Data(c) # Null
  BY <1>3, BlockInHeap, HeapAssumption DEF SInv, IInv, Tiled, Data, Null
<1> HIDE DEF new
<1>8. Links' /\ OnlyLastFree' /\ EveryUsedHeld' BY TakeLinks, TakeUsedHeld DEF SInv
<1>11. SlotOrder'
  <2> SUFFICES ASSUME NEW s \in Slots, NEW t \in Slots, t < s, Holds(s)'
               PROVE  Holds(t)' /\ held'[t].ptr < held'[s].ptr
    BY DEF SlotOrder
  <2>1. CASE s = r
    <3>1. t # r /\ Holds(t)
      <4>1. t \in 1 .. s - 1 BY HeapAssumption DEF Slots
      <4> QED BY <2>1, <4>1, <1>5, HeapAssumption DEF FirstEmpty, Slots
    <3>2. Entry(t) \in chain /\ Entry(t) # c /\ held[t].ptr \in Nat
      BY <3>1, <1>2 DEF SInv, IInv, HeldUsed, TypeOK, Slot
    <3>3. PICK e \in chain : e = Entry(t) BY <3>2
    <3>4. e \in Nat /\ End(e) \in Nat /\ End(e) <= HeapEnd /\ e < End(e) /\ HeapEnd \in Nat
      BY BlockInHeap, HeapAssumption DEF SInv, IInv, HeapEnd
    <3>5. e <= c \/ End(c) <= e BY DEF SInv, IInv, Tiled
    <3>6. e < c BY <3>2, <3>3, <3>4, <3>5, <1>7
    <3>7. held[t].ptr < Data(c)
      BY <3>2, <3>3, <3>4, <3>6, <1>7, HeapAssumption DEF Entry, Data
    <3> QED BY <2>1, <3>1, <3>7, <1>6, <1>7 DEF Holds
  <2>2. CASE s # r
    <3>1. Holds(s) /\ held'[s] = held[s] BY <2>2, <1>6 DEF Holds
    <3>2. Holds(t) /\ held[t].ptr < held[s].ptr BY <3>1 DEF SInv, SlotOrder
    <3>3. t # r BY <3>2, <1>2
    <3> QED BY <3>1, <3>2, <3>3, <1>6 DEF Holds
  <2> QED BY <2>1, <2>2
<1>12. Asked' /\ FreeAboveUsed' BY <1>2 DEF Asked, FreeAboveUsed, Freeing
<1> QED BY <1>8, <1>11, <1>12 DEF SInv

\* Entering free() with the last slot keeps it.
LEMMA SFree == ASSUME SInv, IInv', FreeLast PROVE SInv'
<1>1. PICK s \in Slots : LastHeld(s) /\ FreeCall(s) BY DEF FreeLast
<1>2. PICK e \in chain : e = Entry(s) BY <1>1, FreeFields DEF SInv
<1>3. /\ pc = "idle" /\ pc' = "freePrev" /\ cur' = e /\ chain' = chain
      /\ held' = [held EXCEPT ![s] = EmptySlot] /\ hdr'[e].free
      /\ \A b \in chain : hdr'[b].next = hdr[b].next /\ hdr'[b].prev = hdr[b].prev
      /\ \A b \in chain \ {e} : hdr'[b] = hdr[b]
  BY <1>1, <1>2, FreeFields DEF SInv
<1>4. held \in [Slots -> Slot] BY DEF SInv, IInv, TypeOK
<1>5. \A t \in Slots : Holds(t)' <=> Holds(t) /\ t # s BY <1>3, <1>4 DEF Holds, EmptySlot
<1>6. \A t \in Slots \ {s} : held'[t] = held[t] /\ Entry(t)' = Entry(t) BY <1>3, <1>4 DEF Entry
<1>7. \A t \in Slots : Holds(t) /\ t # s => t < s BY <1>1, HeapAssumption DEF LastHeld, Slots
<1>8. Links'
  <2>1. \A b \in chain : hdr[b].next # Null => hdr[b].next \in chain BY DEF SInv, IInv, Tiled
  <2>2. ASSUME NEW b \in chain, b # Root
        PROVE  hdr'[b].prev \in chain' /\ hdr'[hdr'[b].prev].next = b
    BY <2>2, <1>3 DEF SInv, Links
  <2>3. ASSUME NEW b \in chain, hdr'[b].next # Null PROVE hdr'[hdr'[b].next].prev = b
    BY <2>1, <2>3, <1>3 DEF SInv, Links
  <2>4. Root \in chain => hdr'[Root].prev = Null BY <1>3 DEF SInv, Links
  <2> QED BY <2>2, <2>3, <2>4, <1>3 DEF Links
<1>9. OnlyLastFree' BY <1>3 DEF SInv, OnlyLastFree, Freeing
<1>10. EveryUsedHeld' BY <1>1, FreeUsedHeld DEF SInv
<1>11. SlotOrder'
  <2> SUFFICES ASSUME NEW u \in Slots, NEW t \in Slots, t < u, Holds(u)'
               PROVE  Holds(t)' /\ held'[t].ptr < held'[u].ptr
    BY DEF SlotOrder
  <2>1. Holds(u) /\ u # s /\ u < s BY <1>5, <1>7
  <2>2. Holds(t) /\ held[t].ptr < held[u].ptr BY <2>1 DEF SInv, SlotOrder
  <2>3. t # s BY <2>1, HeapAssumption DEF Slots
  <2> QED BY <2>1, <2>2, <2>3, <1>5, <1>6
<1>12. FreeAboveUsed'
  <2> SUFFICES ASSUME NEW b \in chain, ~hdr'[b].free PROVE b < e
    BY <1>3 DEF FreeAboveUsed
  <2>1. b # e /\ ~hdr[b].free BY <1>3
  <2>2. PICK t \in Slots : Holds(t) /\ Entry(t) = b BY <2>1 DEF SInv, EveryUsedHeld
  <2>3. t # s BY <2>1, <2>2, <1>2
  <2>4. Holds(s) BY <1>1 DEF LastHeld
  <2>5. held[t].ptr < held[s].ptr BY <2>2, <2>3, <2>4, <1>7 DEF SInv, SlotOrder
  <2>6. held[t].ptr \in Nat /\ held[s].ptr \in Nat BY <1>4 DEF Slot
  <2> QED BY <2>2, <2>5, <2>6, <1>2, HeapAssumption DEF Entry
<1>13. Asked' BY <1>3 DEF Asked
<1> QED BY <1>8, <1>9, <1>10, <1>11, <1>12, <1>13 DEF SInv

\* Going on to the second loop of free() keeps it.
LEMMA STurn == SInv /\ IInv' /\ Turn => SInv'
<1> SUFFICES ASSUME SInv, IInv', Turn PROVE SInv' OBVIOUS
<1>1. pc = "freePrev" /\ pc' = "freeNext" /\ UNCHANGED <<hdr, chain, held, cur, req>>
  BY DEF Turn, FreeTurn
<1>2. Asked' /\ FreeAboveUsed' /\ Freeing'
  BY <1>1 DEF SInv, Asked, FreeAboveUsed, Freeing
<1> QED BY <1>1, <1>2, SameHeap

\* Nothing is free above the block that free() has grown.
LEMMA SReturn == SInv /\ IInv' /\ FreeReturn => SInv'
<1> SUFFICES ASSUME SInv, IInv', FreeReturn PROVE SInv' OBVIOUS
<1>1. /\ pc = "freeNext" /\ pc' = "idle" /\ UNCHANGED <<hdr, chain, held>>
      /\ ~NextFree(cur) /\ cur \in chain
  BY DEF FreeReturn, Return, SInv, IInv, TypeOK, Underway
<1>2. Asked' /\ FreeAboveUsed' BY <1>1 DEF Asked, FreeAboveUsed, Freeing
<1>3. hdr[cur].next = Null
  <2> SUFFICES ASSUME hdr[cur].next # Null PROVE FALSE OBVIOUS
  <2>1. PICK x \in chain : x = hdr[cur].next /\ cur < x BY <1>1, NextBlock DEF SInv, IInv
  <2>2. ~hdr[x].free BY <2>1, <1>1 DEF NextFree
  <2>3. x < cur BY <2>2, <1>1 DEF SInv, FreeAboveUsed, Freeing
  <2>4. x \in Nat /\ cur \in Nat BY <1>1, BlockInHeap DEF SInv, IInv
  <2> QED BY <2>1, <2>3, <2>4
<1>4. OnlyLastFree' BY <1>1, <1>3 DEF SInv, OnlyLastFree, Freeing
<1> QED BY <1>1, <1>2, <1>4, SameHeap

\* Merging with the free tail keeps it.
LEMMA SMerge == SInv /\ IInv' /\ FreeMergeNext => SInv'
<1> SUFFICES ASSUME SInv, IInv', FreeMergeNext PROVE SInv' OBVIOUS
<1>1. PICK c \in chain, x \in chain :
        /\ c = cur /\ x = hdr[c].next /\ x # Null /\ hdr[x].free /\ x # c
  <2>1. cur \in chain /\ hdr[cur].next # Null /\ hdr[hdr[cur].next].free
    BY DEF FreeMergeNext, NextFree, SInv, IInv, TypeOK, Underway
  <2>2. hdr[cur].next \in chain /\ cur < hdr[cur].next BY <2>1, NextBlock DEF SInv, IInv
  <2>3. cur \in Nat BY <2>1, BlockInHeap DEF SInv, IInv
  <2> QED BY <2>1, <2>2, <2>3
<1> DEFINE g == hdr[x].next
<1>2. /\ pc = "freeNext" /\ pc' = pc /\ cur' = c /\ UNCHANGED <<held, req>>
      /\ hdr' = MergeNext(hdr, c) /\ chain' = chain \ {x} /\ chain \subseteq Addr
  BY <1>1 DEF FreeMergeNext, SInv, IInv, TypeOK
<1>3. /\ hdr'[c].next = g /\ hdr'[c].free = hdr[c].free /\ hdr'[c].prev = hdr[c].prev
      /\ \A b \in chain \ {c} :
           /\ hdr'[b].next = hdr[b].next /\ hdr'[b].free = hdr[b].free
           /\ hdr'[b].prev = IF b = g THEN c ELSE hdr[b].prev
  BY <1>1, <1>2, MergeFields DEF SInv, IInv
<1>4. /\ Root \in chain /\ Null \notin chain
      /\ \A b \in chain : hdr[b].next # Null => hdr[b].next \in chain
  BY HeapAssumption DEF SInv, IInv, Tiled, TypeOK, Addr, Null
<1>5. \A b \in chain : hdr[b].next # Null => hdr[hdr[b].next].prev = b BY DEF SInv, Links
<1>6. Links'
  <2> SUFFICES ASSUME NEW b \in chain \ {x}
               PROVE  /\ hdr'[b].next # Null => hdr'[hdr'[b].next].prev = b
                      /\ IF b = Root THEN hdr'[b].prev = Null
                           ELSE hdr'[b].prev \in chain \ {x} /\ hdr'[hdr'[b].prev].next = b
    BY <1>2 DEF Links
  <2>1. b = Root => hdr'[b].prev = Null
    <3>1. Root # g BY <1>1, <1>4, <1>5 DEF SInv, Links
    <3> QED BY <3>1, <1>3 DEF SInv, Links
  <2>3. b # Root => hdr'[b].prev \in chain \ {x} /\ hdr'[hdr'[b].prev].next = b
    <3> SUFFICES ASSUME b # Root
                 PROVE  hdr'[b].prev \in chain \ {x} /\ hdr'[hdr'[b].prev].next = b
      OBVIOUS
    <3>1. hdr[b].prev \in chain /\ hdr[hdr[b].prev].next = b BY DEF SInv, Links
    <3>2. CASE b = g
      <4>1. g # Null BY <3>2, <1>4
      <4>2. c < x /\ x < g BY <1>1, <4>1, NextBlock DEF SInv, IInv
      <4>3. c \in Nat /\ x \in Nat /\ g \in Nat BY <3>2, BlockInHeap DEF SInv, IInv
      <4>4. c # g BY <4>2, <4>3
      <4> QED BY <3>2, <4>4, <1>1, <1>3
    <3>3. CASE b # g
      <4>1. hdr[b].prev # x BY <3>1, <3>3
      <4>2. hdr[b].prev # c BY <3>1, <1>1
      <4>3. hdr'[b].prev = hdr[b].prev BY <3>3, <1>3
      <4> QED BY <3>1, <4>1, <4>2, <4>3, <1>3
    <3> QED BY <3>2, <3>3
  <2>2. hdr'[b].next # Null => hdr'[hdr'[b].next].prev = b
    <3>1. CASE b = c
      <4>1. g # Null => g \in chain /\ g # c
        <5>1. g = c => hdr[c].prev = x BY <1>1, <1>5, <1>4
        <5>2. g # Null => x < g BY <1>1, NextBlock DEF SInv, IInv
        <5>3. c < x BY <1>1, NextBlock DEF SInv, IInv
        <5>4. c \in Nat /\ x \in Nat BY BlockInHeap DEF SInv, IInv
        <5> QED BY <5>2, <5>3, <5>4, <1>4
      <4> QED BY <3>1, <4>1, <1>3
    <3>2. CASE b # c
      <4>1. hdr'[b].next = hdr[b].next BY <3>2, <1>3
      <4>2. hdr[b].next # Null => hdr[b].next # g BY <3>2, <1>1, <1>5
      <4> QED BY <3>2, <4>1, <4>2, <1>3, <1>4, <1>5
    <3> QED BY <3>1, <3>2
  <2> QED BY <2>1, <2>2, <2>3
<1>7. OnlyLastFree' BY <1>1, <1>2, <1>3 DEF SInv, OnlyLastFree, Freeing
<1>8. \A b \in chain : hdr'[b].free = hdr[b].free BY <1>3
<1>9. EveryUsedHeld' BY <1>1, <1>2, MergeUsedHeld DEF SInv
<1>10. SlotOrder' BY <1>2 DEF SInv, SlotOrder, Holds
<1>11. FreeAboveUsed' BY <1>1, <1>2, <1>8 DEF SInv, FreeAboveUsed, Freeing
<1>12. Asked' BY <1>2 DEF Asked
<1> QED BY <1>6, <1>7, <1>9, <1>10, <1>11, <1>12 DEF SInv

\* So does doing nothing.
LEMMA SStutter == SInv /\ IInv' /\ UNCHANGED vars => SInv'
<1> SUFFICES ASSUME SInv, IInv', UNCHANGED vars PROVE SInv' OBVIOUS
<1>1. UNCHANGED <<hdr, chain, held, pc, cur, req>> BY DEF vars
<1>2. Asked' /\ FreeAboveUsed' /\ (Freeing => Freeing')
  BY <1>1 DEF SInv, Asked, FreeAboveUsed, Freeing, FirstEmpty, Holds
<1> QED BY <1>1, <1>2, SameHeap

\* What is free when delete starts lies behind the block: free() never looks back.
LEMMA NoMergeBack == SInv => ~FreeMergePrev
<1> SUFFICES ASSUME SInv, FreeMergePrev PROVE FALSE OBVIOUS
<1>1. cur \in chain /\ hdr[cur].prev # Null /\ hdr[hdr[cur].prev].free
  BY DEF FreeMergePrev, PrevFree, SInv, IInv, TypeOK, Underway
<1>2. PICK p \in chain : p = hdr[cur].prev /\ hdr[p].next = cur BY <1>1 DEF SInv, Links
<1>3. cur # Null /\ cur \in Nat BY <1>1, BlockInHeap, HeapAssumption DEF SInv, IInv, Addr, Null
<1>4. p = cur BY <1>1, <1>2, <1>3 DEF SInv, OnlyLastFree
<1>5. cur < hdr[cur].next BY <1>1, <1>2, <1>3, <1>4, NextBlock DEF SInv, IInv
<1> QED BY <1>2, <1>3, <1>4, <1>5

\* Padding for an alignment up to the size of a header is never split off.
LEMMA SmallAlignment == IInv /\ Pad => ~(req.align <= HeaderSize)
<1> SUFFICES ASSUME IInv, Pad, req.align <= HeaderSize PROVE FALSE OBVIOUS
<1>1. /\ cur \in chain /\ Padding(cur, req.align) # 0
      /\ Padding(cur, req.align) \notin 1 .. HeaderSize - 1
  BY DEF Pad, PassesOver, IInv, TypeOK
<1>2. req.align \in Nat \ {0}
  BY HeapAssumption DEF Pad, Aligned, IInv, Underway
<1>3. cur \in Nat BY <1>1, BlockInHeap DEF IInv
<1>4. Padding(cur, req.align) \in 0 .. req.align - 1 BY <1>2, <1>3, PaddingRange
<1> QED BY <1>1, <1>2, <1>4, HeapAssumption

LEMMA NoPad == SInv => ~Pad
BY SmallAlignment DEF SInv, Asked, Pad, Aligned

\* So the steps of the stack are those that IInv is proved for.
LEMMA StackShared == SInv /\ [StackNext]_vars => [SharedNext]_vars
<1>1. AskNew => AskAligned BY DEF AskNew, AskAligned
<1> QED BY <1>1, NoMergeBack, NoPad DEF StackNext, FreePrev, Turn, SharedNext, ArenaNext

\* Every step keeps it.
LEMMA StackKeeps == SInv /\ [StackNext]_vars => SInv'
<1> SUFFICES ASSUME SInv, [StackNext]_vars PROVE SInv' OBVIOUS
<1>1. IInv' BY NextKeeps, StackShared DEF SInv
<1>2. CASE AskNew BY <1>1, <1>2, SAsk
<1>3. CASE FreeLast BY <1>1, <1>3, SFree
<1>4. CASE Walk BY <1>1, <1>4, SWalk
<1>5. CASE TakeAligned BY <1>1, <1>5, STake
<1>6. CASE Fail BY <1>1, <1>6, SFail
<1>7. CASE Turn BY <1>1, <1>7, STurn
<1>8. CASE FreeMergeNext BY <1>1, <1>8, SMerge
<1>9. CASE FreeReturn BY <1>1, <1>9, SReturn
<1>10. CASE UNCHANGED vars BY <1>1, <1>10, SStutter
<1> QED
  BY <1>2, <1>3, <1>4, <1>5, <1>6, <1>7, <1>8, <1>9, <1>10, NoMergeBack, NoPad
  DEF StackNext, FreePrev, Turn

\* It holds in every behaviour.
LEMMA StackInvariance == StackSpec => []SInv
<1>1. Init => SInv BY InitSInv
<1>2. SInv /\ [StackNext]_vars => SInv' BY StackKeeps
<1> QED BY <1>1, <1>2, PTL DEF StackSpec

\* And with it the invariant of HeapProofs.
LEMMA StackIInv == StackSpec => []IInv
<1>1. SInv => IInv BY DEF SInv
<1> QED BY <1>1, StackInvariance, PTL

-----------------------------------------------------------------------------
(* The theorems about callers that delete in the reverse order of new      *)

\* No delete takes a region from another caller or hands it out twice.
THEOREM StackNewlyAllocated == StackSpec => []NewlyAllocated
<1> QED BY StackIInv, RegionsApart, PTL

\* The list stays a tiling of the heap through every split and merge.
THEOREM StackTiled == StackSpec => []Tiled
<1>1. IInv => Tiled BY DEF IInv
<1> QED BY <1>1, StackIInv, PTL

\* split() and merge() keep the links of the list in both directions: the
\* successor whose prev split() does not update is never there.
THEOREM StackLinks == StackSpec => []Links
<1>1. SInv => Links BY DEF SInv
<1> QED BY <1>1, StackInvariance, PTL

\* When the last object is gone the heap is one free block again, whatever was
\* allocated before: delete loses no byte.
THEOREM StackFullRecovery == StackSpec => []FullRecovery
<1>1. SInv => FullRecovery
  <2> SUFFICES ASSUME SInv, pc = "idle", \A s \in Slots : ~Holds(s)
               PROVE  chain = {Root} /\ hdr[Root] = RootHeader
    BY DEF FullRecovery
  <2>1. \A b \in chain : hdr[b].free BY DEF SInv, EveryUsedHeld
  <2>2. Root \in chain BY DEF SInv, IInv, Tiled
  <2>3. hdr[Root].free /\ hdr[Root].next = Null /\ hdr[Root].prev = Null
    BY <2>1, <2>2 DEF SInv, OnlyLastFree, Freeing, Links
  <2> QED BY <2>3, RootAlone DEF SInv
<1> QED BY <1>1, StackInvariance, PTL

\* To its callers the block list is the abstract heap: delete gives a region
\* up and changes no other.
THEOREM StackImplements == StackSpec => AbsSpec
<1>1. SInv /\ [StackNext]_vars => [SharedNext]_vars BY StackShared
<1> QED BY <1>1, StackInvariance, SharedRefines, PTL DEF StackSpec, AbsSpec
=============================================================================
