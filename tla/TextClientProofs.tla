-------------------------- MODULE TextClientProofs --------------------------
(***************************************************************************)
(* Proofs about setText and ~Text over the heap, for a string that         *)
(* outlives the Text and for every heap, string and text.                  *)
(*                                                                         *)
(* These callers do not delete in the reverse order of new, so a split     *)
(* leaves prev links that name the wrong block (Links fails), and free()   *)
(* would merge with whatever such a link names.  What saves it is the      *)
(* place of the blocks: the string is the first block, and behind it (the  *)
(* seat) comes the texture object or, under the first text, its pixels and *)
(* then the object.  A new object takes the seat again, because all that   *)
(* lies between it and the new pixels has been merged before.              *)
(***************************************************************************)
EXTENDS TextClient, HeapProofs

\* operator new asks for one alignment, and a header keeps it.
OneAlignment == \A a, b \in Alignments : a = b /\ a <= HeaderSize

\* The first string, the first pixels and the first object leave a block behind them.
Roomy ==
  \A n \in StringSizes :
    /\ HeapSize - HeaderSize > (n + HeaderSize) * 2
    /\ \A m \in PixelSizes :
         /\ HeapSize - 2 * HeaderSize - n > (m + HeaderSize) * 2
         /\ HeapSize - 3 * HeaderSize - n - m > (TextureSize + HeaderSize) * 2

-----------------------------------------------------------------------------
(* The inductive invariant                                                 *)

Seat == hdr[Root].next
Mirrored(b) == hdr[b].next # Null => hdr[hdr[b].next].prev = b
Fits(b) == \A a \in Alignments : Padding(b, a) = 0
HeldAre(S) == \A s \in Slots : Holds(s) <=> s \in S

\* The object's block o is at the seat or, under the first text, right behind it.
Seated(o) ==
  /\ Seat \in chain /\ hdr[Seat].prev = Root /\ Fits(Seat)
  /\ o \in chain /\ Mirrored(o) /\ TextureSize <= hdr[o].size
  /\ \/ o = Seat
     \/ hdr[Seat].next = o /\ hdr[o].prev = Seat /\ (Roomy => hdr[o].next # Null)

\* What free() of pixels in block p finds when it looks back is in use.
LooksAtUsed(p, o) == p # o /\ (p = Seat \/ (o = Seat /\ hdr[p].prev = o))

\* New pixels are never at the seat.
Behind(s) == Holds(s) => Entry(s) # Seat

\* Until the first object is there, nothing has been given back.
First(s) ==
  /\ Links /\ OnlyLastFree
  /\ Holds(s) => Entry(s) = Seat /\ Fits(Seat)
  /\ Roomy => /\ Holds(Argument) => hdr[Root].size \in StringSizes
              /\ Holds(s) => hdr[Seat].size \in PixelSizes

\* The call that runs, if one does, is a new of these sizes for slot s.
Asks(s, sizes) == pc \in {"idle", "aligned"} /\ (pc = "aligned" => req.slot = s /\ req.size \in sizes)

\* The slots in S are held, those in T may be, and no other is.
Holding(S, T) == \A s \in Slots : (s \in S => Holds(s)) /\ (Holds(s) => s \in S \cup T)

NoText ==
  /\ Holding({}, {}) /\ pc \in {"idle", "freePrev", "freeNext"}
  /\ Freeing => cur = Root
  /\ pc = "idle" => chain = {Root} /\ hdr[Root] = RootHeader

FirstText ==
  /\ First(Fresh)
  /\ at = "called" => Holding({}, {Argument}) /\ Asks(Argument, StringSizes)
  /\ at = "old" => Holding({Argument}, {Fresh}) /\ Asks(Fresh, PixelSizes)
  /\ at = "texture" => Holding({Argument, Fresh}, {}) /\ pc = "idle"

OldText ==
  /\ Holding({Argument, Object, pixels}, IF at = "old" THEN {Fresh} ELSE {})
  /\ Asks(Fresh, PixelSizes) /\ (at # "old" => pc = "idle")
  /\ Seated(Entry(Object)) /\ LooksAtUsed(Entry(pixels), Entry(Object))
  /\ Behind(Fresh)

PixelsGone ==
  /\ Holding({Argument, Object} \cup IF at = "oldObject" THEN {Fresh} ELSE {}, {})
  /\ pc \in {"idle", "freePrev", "freeNext"}
  /\ Seated(Entry(Object)) /\ (Freeing => LooksAtUsed(cur, Entry(Object)))
  /\ Behind(Fresh)

ObjectGone ==
  /\ Holding({Argument} \cup IF at = "texture" THEN {Fresh} ELSE {}, {})
  /\ pc \in {"idle", "freePrev", "freeNext"}
  /\ Behind(Fresh)
  /\ Freeing => Seated(cur)
  /\ pc = "freeNext" => cur = Seat
  /\ pc = "idle" /\ at = "texture" => Seated(Seat) /\ hdr[Entry(Fresh)].prev = Seat

NewObject ==
  /\ Holding({Argument, pixels}, {Object}) /\ Asks(Object, {TextureSize})
  /\ pc = "aligned" => \/ First(pixels)
                       \/ Seated(Seat) /\ Behind(pixels) /\ hdr[Entry(pixels)].prev = Seat
  /\ Holds(Object) => Seated(Entry(Object)) /\ LooksAtUsed(Entry(pixels), Entry(Object))

\* What holds at each place of the client.
Stage ==
  /\ at \in {"oldObject", "destroy", "end", "made"} => pixels # 0
  /\ at = "panic" => pc = "idle"
  /\ at = "caller" /\ pixels = 0 => NoText
  /\ at \in {"called", "old", "texture"} /\ pixels = 0 => FirstText
  /\ at \in {"caller", "called", "old"} /\ pixels # 0 => OldText
  /\ at \in {"oldObject", "destroy"} => PixelsGone
  /\ at = "end" \/ (at = "texture" /\ pixels # 0) => ObjectGone
  /\ at = "made" => NewObject

\* What holds at every place.
Grounded ==
  /\ hdr[Root].prev = Null
  /\ Holds(Argument) => Entry(Argument) = Root
  /\ Freeing => hdr[cur].free
  /\ at \in {"called", "old", "oldObject", "texture", "made"} => texts < MaxTexts

TInv ==
  /\ IInv /\ TextTypeOK /\ EveryUsedHeld /\ Grounded
  /\ pc = "fault" => ~Roomy
  /\ pc # "fault" => Stage

-----------------------------------------------------------------------------
(* Blocks and slots                                                        *)

\* The two slots for pixels take turns.
LEMMA FreshSlot ==
  ASSUME pixels \in PixelSlots \cup {0}
  PROVE  Fresh \in PixelSlots /\ Fresh # pixels
<1>1. \E s \in PixelSlots : s # pixels
  BY DEF PixelSlots
<1> QED BY <1>1 DEF Fresh

LEMMA FourSlots == Slots = {1, 2, 3, 4}
BY TextAssumption DEF Slots

\* Addresses of blocks are numbers other than null.
LEMMA BlockAddress == ASSUME IInv PROVE chain \subseteq Nat \ {0} /\ Root \in chain /\ Null \notin chain
<1>1. \A b \in chain : b \in Nat /\ b \in Addr
  BY BlockInHeap DEF IInv
<1>2. 0 \notin Addr
  BY HeapAssumption DEF Addr
<1> QED BY <1>1, <1>2 DEF IInv, Tiled, Null

\* A block with another above it is followed by a block that is not above that one.
LEMMA Follows ==
  ASSUME IInv, NEW a \in chain, NEW b \in chain, a < b
  PROVE  hdr[a].next \in chain /\ a < hdr[a].next /\ hdr[a].next <= b
<1>1. a \in Nat /\ b \in Nat /\ End(a) \in Nat /\ End(b) \in Nat /\ b < End(b) /\ End(b) <= HeapEnd
  BY BlockInHeap, HeapAssumption DEF IInv
<1>2. End(a) <= b
  BY <1>1 DEF IInv, Tiled
<1>3. HeapEnd \in Nat
  BY HeapAssumption DEF HeapEnd
<1>4. hdr[a].next # Null /\ hdr[a].next = End(a) /\ End(a) \in chain
  BY <1>1, <1>2, <1>3 DEF IInv, Tiled
<1>5. a < End(a)
  BY <1>4, NextBlock DEF IInv
<1> QED BY <1>2, <1>4, <1>5

\* The string is below everything else, and the seat below everything but the string.
LEMMA SeatFirst ==
  ASSUME IInv, NEW b \in chain, b # Root
  PROVE  Root < b /\ Seat \in chain /\ Root < Seat /\ Seat <= b
<1>1. b \in Addr /\ b \in Nat /\ Root \in chain /\ Root \in Nat
  BY BlockInHeap DEF IInv, Tiled
<1>2. Root < b
  BY <1>1, HeapAssumption DEF Addr, HeapEnd, Root
<1> QED BY <1>1, <1>2, Follows DEF Seat

\* Two blocks do not have the same successor.
LEMMA OnePredecessor ==
  ASSUME IInv, NEW a \in chain, NEW b \in chain, hdr[a].next = hdr[b].next, hdr[a].next # Null
  PROVE  a = b
<1>1. a \in Nat /\ b \in Nat /\ hdr[a].next \in chain /\ hdr[a].next \in Nat
  BY BlockAddress DEF IInv, Tiled
<1>2. a < hdr[a].next /\ b < hdr[b].next
  BY NextBlock DEF IInv
<1>3. ~(a < b) /\ ~(b < a)
  BY <1>1, <1>2, Follows
<1> QED BY <1>1, <1>3

\* A pointer in use is the data of its block, and no two have one block.
LEMMA HeldBlock ==
  ASSUME IInv, NEW s \in Slots, Holds(s)
  PROVE  /\ Entry(s) \in chain /\ ~hdr[Entry(s)].free
         /\ \A t \in Slots : Holds(t) /\ Entry(t) = Entry(s) => t = s
<1>1. Entry(s) \in chain /\ ~hdr[Entry(s)].free
  BY DEF IInv, HeldUsed
<1>2. \A t \in Slots : held[t].ptr \in Nat
  BY DEF IInv, TypeOK, Slot
<1>3. ASSUME NEW t \in Slots, Holds(t), Entry(t) = Entry(s) PROVE t = s
  <2>1. held[t].ptr = held[s].ptr
    BY <1>2, <1>3, HeapAssumption DEF Entry
  <2> QED BY <1>3, <2>1 DEF IInv, HeldOnce
<1> QED BY <1>1, <1>3

-----------------------------------------------------------------------------
(* What the steps of the heap do to the seat                               *)

\* Where the object is.
LEMMA SeatedPlaces ==
  ASSUME IInv, NEW o \in chain, Seated(o)
  PROVE  /\ Seat # Null /\ Root # Seat /\ Root # o /\ Seat <= o /\ Root < Seat
         /\ hdr[Seat].next # Seat /\ hdr[o].next # o /\ hdr[o].next # Seat
<1>1. Root \in chain /\ Seat \in chain /\ Seat # Null /\ o # Null /\ \A b \in chain : b \in Nat
  BY BlockAddress DEF Seated
<1>2. Root < Seat
  BY <1>1, NextBlock DEF IInv, Seat
<1>3. o = Seat \/ Seat < o
  <2>1. o = Seat \/ hdr[Seat].next = o
    BY DEF Seated
  <2> QED BY <1>1, <2>1, NextBlock DEF IInv
<1>4. hdr[Seat].next # Null => Seat < hdr[Seat].next
  BY <1>1, NextBlock DEF IInv
<1>5. hdr[o].next # Null => o < hdr[o].next /\ hdr[o].next \in chain
  BY <1>1, NextBlock DEF IInv
<1> QED BY <1>1, <1>2, <1>3, <1>4, <1>5, BlockAddress

\* Steps that leave these fields leave the object where it is.
LEMMA SeatedKept ==
  ASSUME NEW o, Seated(o), hdr'[Root].next = hdr[Root].next, Seat \in chain', o \in chain',
         \A b \in {Seat, o} : hdr'[b].prev = hdr[b].prev /\ hdr'[b].next = hdr[b].next,
         TextureSize <= hdr'[o].size,
         hdr[o].next # Null => hdr'[hdr[o].next].prev = hdr[hdr[o].next].prev
  PROVE  Seated(o)' /\ Seat' = Seat
<1>1. Seat' = Seat
  BY DEF Seat
<1>2. hdr'[Seat].prev = hdr[Seat].prev /\ hdr'[Seat].next = hdr[Seat].next
      /\ hdr'[o].prev = hdr[o].prev /\ hdr'[o].next = hdr[o].next
  OBVIOUS
<1>3. Mirrored(o)'
  BY <1>2 DEF Seated, Mirrored
<1>4. Fits(Seat)'
  BY <1>1 DEF Seated, Fits, Padding, Data
<1> QED BY <1>1, <1>2, <1>3, <1>4 DEF Seated, Roomy

\* Handing out another block.
LEMMA SeatedTake ==
  ASSUME IInv, NEW o \in chain, Seated(o), TakeAligned, cur \notin {Root, Seat, o}
  PROVE  Seated(o)' /\ Seat' = Seat
<1>1. /\ cur \in chain /\ \A b \in chain \ {cur} : hdr'[b] = hdr[b]
      /\ hdr'[cur].prev = hdr[cur].prev /\ chain \subseteq chain'
  BY TakeFields
<1>2. hdr[o].next # Null => hdr[o].next \in chain
  BY DEF IInv, Tiled
<1>3. \A b \in chain : hdr'[b].prev = hdr[b].prev
  BY <1>1
<1>4. Root \in chain /\ Seat \in chain
  BY BlockAddress DEF Seated
<1>5. hdr'[Root] = hdr[Root] /\ hdr'[Seat] = hdr[Seat] /\ hdr'[o] = hdr[o]
  BY <1>1, <1>4
<1>6. TextureSize <= hdr'[o].size
  BY <1>5 DEF Seated
<1> QED BY <1>1, <1>2, <1>3, <1>4, <1>5, <1>6, SeatedKept

\* Marking a block as free.
LEMMA SeatedMark ==
  ASSUME IInv, NEW o \in chain, Seated(o), NEW s \in Slots, FreeCall(s)
  PROVE  Seated(o)' /\ Seat' = Seat
<1>1. /\ chain' = chain
      /\ \A b \in chain : /\ hdr'[b].size = hdr[b].size
                          /\ hdr'[b].next = hdr[b].next /\ hdr'[b].prev = hdr[b].prev
  BY FreeFields
<1>2. hdr[o].next # Null => hdr[o].next \in chain
  BY DEF IInv, Tiled
<1>3. Root \in chain /\ Seat \in chain
  BY BlockAddress DEF Seated
<1>4. TextureSize <= hdr'[o].size
  BY <1>1 DEF Seated
<1> QED BY <1>1, <1>2, <1>3, <1>4, SeatedKept

\* Merging blocks behind an object that is at the seat.
LEMMA SeatedMergeBehind ==
  ASSUME IInv, Seated(Seat), NEW e \in chain, e \notin {Root, Seat},
         NEW x, x = hdr[e].next, x # Null, hdr' = MergeNext(hdr, e), chain' = chain \ {x}
  PROVE  Seated(Seat)' /\ Seat' = Seat /\ hdr'[e].prev = hdr[e].prev
<1> DEFINE g == hdr[x].next
<1>1. /\ Root \in chain /\ Seat \in chain /\ x \in chain /\ chain \subseteq Addr
      /\ Null \notin chain /\ \A b \in chain : b \in Nat
  BY BlockAddress DEF IInv, Tiled, TypeOK, Seated
<1>2. /\ hdr'[e].prev = hdr[e].prev
      /\ \A b \in Addr \ {e} :
           /\ hdr'[b].size = hdr[b].size /\ hdr'[b].next = hdr[b].next
           /\ hdr'[b].prev = IF b = g THEN e ELSE hdr[b].prev
  BY MergeFields DEF IInv
<1>3. e < x /\ (g # Null => x < g /\ g \in chain) /\ Root < Seat /\ Seat < e
  <2>1. Root < Seat /\ Seat <= e
    BY SeatFirst
  <2>2. e < x /\ (g # Null => x < g /\ g \in chain)
    BY <1>1, NextBlock DEF IInv
  <2> QED BY <1>1, <2>1, <2>2
<1> DEFINE n == hdr[Seat].next
<1>4. n \in chain /\ n <= e
  BY <1>1, <1>3, Follows
<1>5. n # g /\ Seat # g /\ Root # e /\ Seat # e
  <2>1. CASE g = Null
    BY <2>1, <1>1, <1>4
  <2>2. CASE g # Null
    <3>1. g \in Nat /\ x \in Nat /\ e \in Nat /\ n \in Nat /\ Seat \in Nat
      BY <2>2, <1>1, <1>3, <1>4
    <3> QED BY <2>2, <3>1, <1>3, <1>4
  <2> QED BY <2>1, <2>2
<1>6. hdr'[n].prev = hdr[n].prev
  BY <1>1, <1>2, <1>4, <1>5
<1>7. hdr'[Seat].size = hdr[Seat].size /\ hdr'[Seat].next = hdr[Seat].next
      /\ hdr'[Seat].prev = hdr[Seat].prev /\ hdr'[Root].next = hdr[Root].next
  BY <1>1, <1>2, <1>5
<1>8. Seat \in chain' /\ TextureSize <= hdr'[Seat].size
  BY <1>1, <1>3, <1>7 DEF Seated
<1> QED BY <1>2, <1>6, <1>7, <1>8, SeatedKept

\* Merging the seat with the block behind it.
LEMMA SeatedMergeAt ==
  ASSUME IInv, NEW s \in chain, s = Seat, hdr[s].prev = Root, Fits(s),
         NEW x, x = hdr[s].next, x # Null,
         TextureSize <= hdr[s].size \/ TextureSize <= hdr[x].size,
         hdr' = MergeNext(hdr, s), chain' = chain \ {x}
  PROVE  Seated(s)' /\ Seat' = s
<1> DEFINE g == hdr[x].next
<1>1. /\ Root \in chain /\ x \in chain /\ chain \subseteq Addr /\ Null \notin chain
      /\ \A b \in chain : b \in Nat
  BY BlockAddress DEF IInv, Tiled, TypeOK
<1>2. /\ hdr'[s].size = hdr[s].size + hdr[x].size + HeaderSize
      /\ hdr'[s].next = g /\ hdr'[s].prev = hdr[s].prev
      /\ \A b \in Addr \ {s} :
           /\ hdr'[b].next = hdr[b].next
           /\ hdr'[b].prev = IF b = g THEN s ELSE hdr[b].prev
  BY MergeFields DEF IInv
<1>3. Root < s /\ s < x /\ (g # Null => x < g /\ g \in chain)
  <2>1. Root < s
    BY <1>1, NextBlock DEF IInv, Seat
  <2> QED BY <1>1, <2>1, NextBlock DEF IInv
<1>4. s # g /\ s # x /\ Root # s
  <2>1. g = Null \/ g \in Nat
    BY <1>1, <1>3
  <2> QED BY <1>1, <1>3, <2>1
<1>5. Seat' = s
  BY <1>1, <1>2, <1>4 DEF Seat
<1>6. Mirrored(s)'
  BY <1>1, <1>2, <1>3, <1>4 DEF Mirrored
<1>7. TextureSize <= hdr'[s].size
  <2>1. hdr[s].size \in Nat /\ hdr[x].size \in Nat
    BY <1>1, BlockInHeap, HeapAssumption DEF IInv, Header
  <2>2. TextureSize \in Nat
    BY TextAssumption, HeapAssumption
  <2> QED BY <1>2, <2>1, <2>2, HeapAssumption
<1>8. Fits(s)'
  BY DEF Fits, Padding, Data
<1> QED BY <1>1, <1>2, <1>4, <1>5, <1>6, <1>7, <1>8 DEF Seated

\* merge(entry, Previous) of blocks that are neighbours is merge(previous, Next).
LEMMA MergeBack ==
  ASSUME IInv, FreeMergePrev, UNCHANGED <<held, req>>,
         NEW q \in chain, q = hdr[cur].prev, hdr[q].next = cur, hdr[q].prev # Null,
         hdr[cur].free, hdr[cur].next # Null
  PROVE  /\ pc = "freePrev" /\ pc' = pc /\ cur' = q /\ hdr[q].free
         /\ cur \in chain /\ cur # Null /\ hdr' = MergeNext(hdr, q) /\ chain' = chain \ {cur}
         /\ IInv'
<1>1. /\ pc = "freePrev" /\ pc' = pc /\ cur' = q /\ hdr[q].free
      /\ hdr' = MergePrev(hdr, cur) /\ chain' = chain \ {cur} /\ cur \in chain /\ cur # Null
  BY DEF FreeMergePrev, PrevFree, MergePrevFaults, IInv, TypeOK, Underway
<1>2. MergePrev(hdr, cur) = MergeNext(hdr, q)
  <2> DEFINE j == Absorb(hdr, q, cur)  g == hdr[cur].next
  <2>1. MergePrev(hdr, cur) = [j EXCEPT ![g].prev = q]
    BY DEF MergePrev
  <2>2. MergeNext(hdr, q) = [j EXCEPT ![g].prev = q]
    BY DEF MergeNext
  <2> QED BY <2>1, <2>2
<1>3. /\ hdr' \in [Addr -> Header] /\ chain' \subseteq Addr /\ q \in chain'
      /\ Tiled' /\ HeldUsed' /\ HeldOnce'
  BY <1>1, <1>2, MergeKeepsHeld
<1>4. TypeOK'
  BY <1>1, <1>3 DEF IInv, TypeOK
<1>5. q # Null
  BY BlockAddress
<1>6. Underway' /\ FirstFit'
  BY <1>1, <1>5 DEF IInv, Underway, FirstFit
<1> QED BY <1>1, <1>2, <1>3, <1>4, <1>6 DEF IInv

\* The loop of mallocAligned does not get past a free seat that is big enough.
LEMMA SeatServes ==
  ASSUME IInv, pc = "aligned", ~hdr[Root].free, Seated(Seat), hdr[Seat].free,
         req.size = TextureSize, cur = Null \/ (cur \in chain /\ hdr[cur].free)
  PROVE  cur = Seat
<1>1. req.align \in Alignments /\ TextureSize \in Nat /\ Seat \in chain
  BY HeapAssumption, TextAssumption DEF IInv, Underway, Seated
<1>2. Padding(Seat, req.align) = 0 /\ TextureSize <= hdr[Seat].size
  BY <1>1 DEF Seated, Fits
<1>3. hdr[Seat].size \in Nat
  BY <1>1, BlockInHeap, HeapAssumption DEF IInv, Header
<1>4. ~PassesOver(Seat)
  BY <1>1, <1>2, <1>3 DEF PassesOver
<1>5. cur # Null /\ ~(Seat < cur)
  BY <1>1, <1>4 DEF IInv, FirstFit
<1>6. cur \in chain /\ cur # Root
  BY <1>5
<1>7. Seat <= cur /\ Seat \in Nat /\ cur \in Nat
  BY <1>1, <1>6, SeatFirst, BlockAddress
<1> QED BY <1>5, <1>7

\* The new object takes the seat.
LEMMA SeatTaken ==
  ASSUME IInv, TakeAligned, Seated(Seat), cur = Seat, req.size = TextureSize
  PROVE  Seated(Seat)' /\ Seat' = Seat
<1>1. PICK s \in chain : s = Seat
  BY DEF Seated
<1>2. /\ \A b \in chain \ {s} : hdr'[b] = hdr[b]
      /\ hdr'[s].prev = hdr[s].prev /\ req.size <= hdr'[s].size /\ chain \subseteq chain'
      /\ \/ hdr'[s].next = hdr[s].next
         \/ \E m \in Addr \ chain : hdr'[s].next = m /\ hdr'[m].prev = s
  BY <1>1, TakeFields
<1>3. Root \in chain /\ Root # s /\ hdr[s].next # s /\ (hdr[s].next # Null => hdr[s].next \in chain)
  BY <1>1, BlockAddress, SeatedPlaces DEF IInv, Tiled
<1>4. Seat' = s
  BY <1>1, <1>2, <1>3 DEF Seat
<1>5. Mirrored(s)'
  <2>1. Mirrored(s)
    BY <1>1 DEF Seated
  <2> QED BY <1>1, <1>2, <1>3, <2>1 DEF Mirrored
<1>6. Fits(s)'
  BY <1>1 DEF Seated, Fits, Padding, Data
<1>7. hdr'[s].prev = Root /\ s \in chain' /\ TextureSize <= hdr'[s].size
  BY <1>1, <1>2 DEF Seated
<1> QED BY <1>1, <1>4, <1>5, <1>6, <1>7 DEF Seated

-----------------------------------------------------------------------------
(* The calls of setText and ~Text keep the invariant                       *)

\* Each slot has one role.
LEMMA Roles ==
  ASSUME TextTypeOK
  PROVE  /\ Slots = {Argument, Object} \cup PixelSlots /\ 0 \notin Slots
         /\ Argument # Object /\ Argument \notin PixelSlots /\ Object \notin PixelSlots
         /\ Fresh \in PixelSlots /\ Fresh # pixels /\ pixels \in PixelSlots \cup {0}
         /\ pixels # 0 => PixelSlots = {pixels, Fresh}
<1>1. pixels \in PixelSlots \cup {0}
  BY DEF TextTypeOK
<1>2. Fresh \in PixelSlots /\ Fresh # pixels
  BY <1>1, FreshSlot
<1>3. /\ Slots = {Argument, Object} \cup PixelSlots /\ 0 \notin Slots
      /\ Argument # Object /\ Argument \notin PixelSlots /\ Object \notin PixelSlots
  BY FourSlots DEF Argument, Object, PixelSlots
<1>4. pixels # 0 => PixelSlots = {pixels, Fresh}
  BY <1>1, <1>2 DEF PixelSlots
<1> QED BY <1>1, <1>2, <1>3, <1>4

\* Steps that leave blocks and slots alone leave all of this alone.
LEMMA SameBlocks ==
  ASSUME UNCHANGED <<hdr, chain, held>>
  PROVE  /\ Seat' = Seat
         /\ \A s : Holds(s)' = Holds(s) /\ Entry(s)' = Entry(s)
         /\ \A s : Behind(s) => Behind(s)'
         /\ \A o : Seated(o) => Seated(o)'
         /\ \A p, o : LooksAtUsed(p, o) => LooksAtUsed(p, o)'
         /\ \A S, T : Holding(S, T) => Holding(S, T)'
<1>1. Seat' = Seat
  BY DEF Seat
<1>2. \A s : Holds(s)' = Holds(s) /\ Entry(s)' = Entry(s)
  BY DEF Holds, Entry
<1>3. ASSUME NEW o, Seated(o) PROVE Seated(o)'
  <2>1. Mirrored(o)' /\ Fits(Seat)'
    BY <1>1, <1>3 DEF Seated, Mirrored, Fits, Padding, Data
  <2> QED BY <1>1, <1>3, <2>1 DEF Seated, Roomy
<1>4. \A p, o : LooksAtUsed(p, o) => LooksAtUsed(p, o)'
  BY <1>1 DEF LooksAtUsed
<1>5. \A S, T : Holding(S, T) => Holding(S, T)'
  BY <1>2 DEF Holding
<1> QED BY <1>1, <1>2, <1>3, <1>4, <1>5 DEF Behind

\* And what the first text knows, while no block is being given back.
LEMMA SameFirst ==
  ASSUME NEW s, First(s), UNCHANGED <<hdr, chain, held>>, ~Freeing
  PROVE  First(s)'
<1>1. Links' /\ OnlyLastFree'
  BY DEF First, Links, OnlyLastFree
<1>2. Seat' = Seat /\ Holds(s)' = Holds(s) /\ Entry(s)' = Entry(s)
      /\ Holds(Argument)' = Holds(Argument)
  BY SameBlocks
<1>3. Fits(Seat)' = Fits(Seat)
  BY <1>2 DEF Fits, Padding, Data
<1> QED BY <1>1, <1>2, <1>3 DEF First, Roomy

Places == {"caller", "called", "old", "oldObject", "texture", "made", "destroy", "end", "panic"}
InSetText == {"called", "old", "oldObject", "texture", "made"}

LEMMA SameBase ==
  ASSUME TInv, IInv', UNCHANGED <<hdr, chain, held>>, pc' \in {"idle", "aligned"},
         at' \in Places, texts' \in 0 .. MaxTexts, pixels' \in PixelSlots \cup {0},
         at' \in InSetText => texts' < MaxTexts, Stage'
  PROVE  TInv'
<1>1. TextTypeOK'
  BY DEF TextTypeOK, Places, IInv
<1>2. EveryUsedHeld'
  BY DEF TInv, EveryUsedHeld, Holds, Entry
<1>3. Grounded'
  <2>1. ~Freeing'
    BY DEF Freeing
  <2> QED BY <2>1, SameBlocks DEF TInv, Grounded, InSetText
<1>4. pc' # "fault"
  OBVIOUS
<1> QED BY <1>1, <1>2, <1>3, <1>4 DEF TInv

\* Entering operator new.
LEMMA NewKeeps ==
  ASSUME IInv, NEW s \in Slots, NEW sizes, sizes \subseteq Sizes, ~Holds(s), New(s, sizes)
  PROVE  /\ IInv' /\ pc = "idle" /\ pc' = "aligned" /\ UNCHANGED <<hdr, chain, held>>
         /\ req'.slot = s /\ req'.size \in sizes /\ ~Freeing
<1>1. PICK n \in sizes, a \in Alignments : MallocAlignedCall(s, n, a)
  BY DEF New
<1>2. IInv'
  BY <1>1, CallKeeps
<1> QED BY <1>1, <1>2 DEF MallocAlignedCall, Call, Freeing

LEMMA TextSizes == StringSizes \subseteq Sizes /\ PixelSizes \subseteq Sizes /\ {TextureSize} \subseteq Sizes
BY TextAssumption

LEMMA NewStringKeeps == ASSUME TInv, NewString PROVE TInv'
<1>1. /\ pc = "idle" /\ at = "caller" /\ at' = "called" /\ texts < MaxTexts /\ ~Holds(Argument)
      /\ New(Argument, StringSizes) /\ UNCHANGED <<texts, pixels>>
  BY DEF NewString, Go
<1>2. /\ IInv /\ TextTypeOK /\ Stage /\ Argument \in Slots
      /\ Slots = {Argument, Object} \cup PixelSlots /\ Fresh \in PixelSlots
  BY <1>1, Roles DEF TInv
<1>3. /\ IInv' /\ pc' = "aligned" /\ UNCHANGED <<hdr, chain, held>>
      /\ req'.slot = Argument /\ req'.size \in StringSizes /\ ~Freeing
  BY <1>1, <1>2, NewKeeps, TextSizes
<1>4. pixels = 0
  BY <1>1, <1>2 DEF Stage, OldText, Holding
<1>5. Holding({}, {}) /\ chain = {Root} /\ hdr[Root] = RootHeader
  BY <1>1, <1>2, <1>4 DEF Stage, NoText
<1>6. First(Fresh)
  <2>1. Links /\ OnlyLastFree
    BY <1>5 DEF Links, OnlyLastFree, RootHeader
  <2>2. ~Holds(Fresh)
    BY <1>2, <1>5 DEF Holding
  <2> QED BY <1>1, <2>1, <2>2 DEF First
<1>7. FirstText'
  <2>1. Fresh' = Fresh
    BY <1>1 DEF Fresh
  <2>2. First(Fresh)'
    BY <1>3, <1>6, <2>1, SameFirst
  <2>3. Holding({}, {Argument})'
    BY <1>3, <1>5, SameBlocks DEF Holding
  <2> QED BY <1>1, <1>3, <2>2, <2>3 DEF FirstText, Asks
<1>8. Stage'
  BY <1>1, <1>4, <1>7 DEF Stage
<1> QED BY <1>1, <1>2, <1>3, <1>8, SameBase DEF TextTypeOK, Places

LEMMA NewPixelsKeeps == ASSUME TInv, NewPixels PROVE TInv'
<1>1. /\ pc = "idle" /\ at = "called" /\ at' = "old" /\ Holds(Argument)
      /\ New(Fresh, PixelSizes) /\ UNCHANGED <<texts, pixels>>
  BY DEF NewPixels, Go
<1>2. /\ IInv /\ TextTypeOK /\ Stage /\ texts < MaxTexts /\ Fresh \in Slots /\ Fresh # pixels
      /\ Fresh # Argument /\ Fresh # Object
  BY <1>1, Roles DEF TInv, Grounded
<1>3. Fresh' = Fresh
  BY <1>1 DEF Fresh
<1>4. CASE pixels = 0
  <2>1. First(Fresh) /\ Holding({}, {Argument})
    BY <1>1, <1>2, <1>4 DEF Stage, FirstText
  <2>2. ~Holds(Fresh)
    BY <1>2, <2>1 DEF Holding
  <2>3. /\ IInv' /\ pc' = "aligned" /\ UNCHANGED <<hdr, chain, held>>
        /\ req'.slot = Fresh /\ req'.size \in PixelSizes /\ ~Freeing
    BY <1>1, <1>2, <2>2, NewKeeps, TextSizes
  <2>4. First(Fresh)'
    BY <1>3, <2>1, <2>3, SameFirst
  <2>5. Holding({Argument}, {Fresh})'
    BY <1>1, <2>1, <2>3, SameBlocks DEF Holding
  <2>6. FirstText'
    BY <1>1, <1>3, <2>3, <2>4, <2>5 DEF FirstText, Asks
  <2>7. Stage'
    BY <1>1, <1>4, <2>6 DEF Stage
  <2> QED BY <1>1, <1>2, <2>3, <2>7, SameBase DEF TextTypeOK, Places
<1>5. CASE pixels # 0
  <2>1. OldText
    BY <1>1, <1>2, <1>5 DEF Stage
  <2>2. Holding({Argument, Object, pixels}, {}) /\ ~Holds(Fresh)
    BY <1>1, <1>2, <2>1 DEF OldText, Holding
  <2>3. /\ IInv' /\ pc' = "aligned" /\ UNCHANGED <<hdr, chain, held>>
        /\ req'.slot = Fresh /\ req'.size \in PixelSizes
    BY <1>1, <1>2, <2>2, NewKeeps, TextSizes
  <2>4. Holding({Argument, Object, pixels}, {Fresh})'
    BY <1>1, <2>2, <2>3, SameBlocks DEF Holding
  <2>5. Seated(Entry(Object))' /\ LooksAtUsed(Entry(pixels), Entry(Object))' /\ Behind(Fresh)'
    BY <1>1, <1>3, <2>1, <2>3, SameBlocks DEF OldText
  <2>6. OldText'
    BY <1>1, <1>3, <2>3, <2>4, <2>5 DEF OldText, Asks
  <2>7. Stage'
    BY <1>1, <1>5, <2>6 DEF Stage
  <2> QED BY <1>1, <1>2, <2>3, <2>7, SameBase DEF TextTypeOK, Places
<1> QED BY <1>4, <1>5

LEMMA NoOldTextureKeeps == ASSUME TInv, NoOldTexture PROVE TInv'
<1>1. /\ pc = "idle" /\ at = "old" /\ at' = "texture" /\ Holds(Fresh) /\ pixels = 0
      /\ UNCHANGED <<vars, texts, pixels>> /\ UNCHANGED <<hdr, chain, held, pc, cur, req>>
  BY DEF NoOldTexture, Go, vars
<1>2. IInv /\ TextTypeOK /\ Stage /\ texts < MaxTexts
  BY <1>1 DEF TInv, Grounded
<1>3. IInv'
  BY <1>1, <1>2, StutterKeeps
<1>4. Fresh' = Fresh
  BY <1>1 DEF Fresh
<1>5. First(Fresh) /\ Holding({Argument}, {Fresh})
  BY <1>1, <1>2 DEF Stage, FirstText
<1>6. First(Fresh)'
  BY <1>1, <1>4, <1>5, SameFirst DEF Freeing
<1>7. Holding({Argument, Fresh}, {})'
  BY <1>1, <1>4, <1>5, SameBlocks DEF Holding
<1>8. Stage'
  BY <1>1, <1>4, <1>6, <1>7 DEF Stage, FirstText
<1> QED BY <1>1, <1>2, <1>3, <1>8, SameBase DEF TextTypeOK, Places

LEMMA NewTextureKeeps == ASSUME TInv, NewTexture PROVE TInv'
<1>1. /\ pc = "idle" /\ at = "texture" /\ at' = "made" /\ New(Object, {TextureSize})
      /\ pixels' = Fresh /\ UNCHANGED texts
  BY DEF NewTexture, Go
<1>2. /\ IInv /\ TextTypeOK /\ Stage /\ texts < MaxTexts /\ Object \in Slots
      /\ Fresh \in PixelSlots /\ 0 \notin PixelSlots /\ Object # Argument /\ Object # Fresh
  BY <1>1, Roles DEF TInv, Grounded
<1>3. Holding({Argument, Fresh}, {})
  BY <1>1, <1>2 DEF Stage, FirstText, ObjectGone, Holding
<1>4. ~Holds(Object)
  BY <1>2, <1>3 DEF Holding
<1>5. /\ IInv' /\ pc' = "aligned" /\ UNCHANGED <<hdr, chain, held>>
      /\ req'.slot = Object /\ req'.size \in {TextureSize} /\ ~Freeing
  BY <1>1, <1>2, <1>4, NewKeeps, TextSizes
<1>6. Holding({Argument, pixels}, {Object})'
  BY <1>1, <1>3, <1>5, SameBlocks DEF Holding
<1>7. First(pixels)' \/ (Seated(Seat) /\ Behind(pixels) /\ hdr[Entry(pixels)].prev = Seat)'
  <2>1. CASE pixels = 0
    <3>1. First(Fresh)
      BY <1>1, <1>2, <2>1 DEF Stage, FirstText
    <3>2. PICK f : f = Fresh
      OBVIOUS
    <3>3. First(f)'
      BY <1>5, <3>1, <3>2, SameFirst
    <3> QED BY <1>1, <3>2, <3>3
  <2>2. CASE pixels # 0
    <3>1. Seated(Seat) /\ Behind(Fresh) /\ hdr[Entry(Fresh)].prev = Seat
      BY <1>1, <1>2, <2>2 DEF Stage, ObjectGone
    <3>2. PICK f : f = Fresh
      OBVIOUS
    <3>3. Seated(Seat)' /\ Behind(f)' /\ Seat' = Seat /\ Entry(f)' = Entry(f)
      BY <1>5, <3>1, <3>2, SameBlocks
    <3>4. Behind(pixels)' /\ hdr'[Entry(pixels)'] .prev = Seat'
      BY <1>1, <1>5, <3>1, <3>2, <3>3
    <3> QED BY <3>3, <3>4
  <2> QED BY <2>1, <2>2
<1>8. ~Holds(Object)'
  BY <1>4, <1>5, SameBlocks
<1>9. NewObject'
  BY <1>5, <1>6, <1>7, <1>8 DEF NewObject, Asks
<1>10. Stage'
  BY <1>1, <1>2, <1>9 DEF Stage
<1> QED BY <1>1, <1>2, <1>5, <1>10, SameBase DEF TextTypeOK, Places, InSetText

\* Without memory the kernel stops.
LEMMA PanicKeeps == ASSUME TInv, Panic PROVE TInv'
<1>1. /\ pc = "idle" /\ at' = "panic" /\ UNCHANGED <<vars, texts, pixels>>
      /\ UNCHANGED <<hdr, chain, held, pc, cur, req>>
  BY DEF Panic, vars
<1>2. IInv'
  BY <1>1, StutterKeeps DEF TInv
<1>3. Stage'
  BY <1>1 DEF Stage
<1> QED BY <1>1, <1>2, <1>3, SameBase DEF TInv, TextTypeOK, Places, InSetText

LEMMA SetTextReturnsKeeps == ASSUME TInv, SetTextReturns PROVE TInv'
<1>1. /\ pc = "idle" /\ at = "made" /\ at' = "caller" /\ Holds(Object) /\ texts' = texts + 1
      /\ UNCHANGED <<vars, pixels>> /\ UNCHANGED <<hdr, chain, held, pc, cur, req>>
  BY DEF SetTextReturns, Go, vars
<1>2. /\ IInv /\ TextTypeOK /\ Stage /\ texts < MaxTexts /\ pixels # 0
      /\ Fresh # pixels /\ Fresh \in Slots /\ Fresh # Argument /\ Fresh # Object
  BY <1>1, Roles DEF TInv, Grounded, Stage
<1>3. IInv'
  BY <1>1, <1>2, StutterKeeps
<1>4. /\ Holding({Argument, pixels}, {Object})
      /\ Seated(Entry(Object)) /\ LooksAtUsed(Entry(pixels), Entry(Object))
  BY <1>1, <1>2 DEF Stage, NewObject
<1>5. Fresh' = Fresh
  BY <1>1 DEF Fresh
<1>6. Holding({Argument, Object, pixels}, {})' /\ ~Holds(Fresh)'
  <2>1. Holding({Argument, Object, pixels}, {})
    BY <1>1, <1>4 DEF Holding
  <2>2. ~Holds(Fresh)
    BY <1>2, <2>1 DEF Holding
  <2> QED BY <1>1, <1>5, <2>1, <2>2, SameBlocks
<1>7. Seated(Entry(Object))' /\ LooksAtUsed(Entry(pixels), Entry(Object))'
  BY <1>1, <1>4, SameBlocks
<1>8. OldText'
  BY <1>1, <1>5, <1>6, <1>7 DEF OldText, Asks, Behind
<1>9. Stage'
  BY <1>1, <1>2, <1>8 DEF Stage
<1>10. texts' \in 0 .. MaxTexts
  BY <1>1, <1>2, TextAssumption DEF TextTypeOK
<1> QED BY <1>1, <1>2, <1>3, <1>9, <1>10, SameBase DEF TextTypeOK, Places, InSetText

LEMMA SetTextAgainKeeps == ASSUME TInv, SetTextAgain PROVE TInv'
<1>1. /\ pc = "idle" /\ at = "caller" /\ at' = "called" /\ Holds(Argument) /\ texts < MaxTexts
      /\ UNCHANGED <<vars, texts, pixels>> /\ UNCHANGED <<hdr, chain, held, pc, cur, req>>
  BY DEF SetTextAgain, Go, vars
<1>2. IInv /\ TextTypeOK /\ Stage /\ Argument \in Slots
  BY <1>1, Roles DEF TInv
<1>3. IInv'
  BY <1>1, <1>2, StutterKeeps
<1>4. pixels # 0 /\ OldText
  BY <1>1, <1>2 DEF Stage, NoText, Holding
<1>5. Holding({Argument, Object, pixels}, {})' /\ Fresh' = Fresh
  <2>1. Fresh' = Fresh
    BY <1>1 DEF Fresh
  <2> QED BY <1>1, <1>4, <2>1, SameBlocks DEF OldText, Holding
<1>6. Seated(Entry(Object))' /\ LooksAtUsed(Entry(pixels), Entry(Object))' /\ Behind(Fresh)'
  BY <1>1, <1>4, <1>5, SameBlocks DEF OldText
<1>7. OldText'
  BY <1>1, <1>5, <1>6 DEF OldText, Asks
<1>8. Stage'
  BY <1>1, <1>4, <1>7 DEF Stage
<1> QED BY <1>1, <1>2, <1>3, <1>8, SameBase DEF TextTypeOK, Places

\* What entering free() does to the other slots and to the links.
LEMMA AfterDelete ==
  ASSUME IInv, NEW s \in Slots, Delete(s)
  PROVE  /\ pc = "idle" /\ pc' = "freePrev" /\ Freeing' /\ chain' = chain
         /\ Holds(s) /\ Entry(s) \in chain /\ cur' = Entry(s) /\ hdr'[cur'].free
         /\ \A t \in Slots : Holds(t)' = (Holds(t) /\ t # s)
         /\ \A t \in Slots \ {s} : Entry(t)' = Entry(t)
         /\ \A b \in chain : hdr'[b].next = hdr[b].next /\ hdr'[b].prev = hdr[b].prev
         /\ Seat' = Seat
<1>1. /\ pc = "idle" /\ pc' = "freePrev" /\ Holds(s) /\ chain' = chain
      /\ cur' = Entry(s) /\ Entry(s) \in chain /\ hdr'[Entry(s)].free
      /\ held' = [held EXCEPT ![s] = EmptySlot]
      /\ \A b \in chain : hdr'[b].next = hdr[b].next /\ hdr'[b].prev = hdr[b].prev
  BY FreeFields DEF Delete
<1>2. held \in [Slots -> Slot] /\ Root \in chain
  BY BlockAddress DEF IInv, TypeOK
<1>3. \A t \in Slots : Holds(t)' = (Holds(t) /\ t # s)
  BY <1>1, <1>2 DEF Holds, EmptySlot
<1>4. \A t \in Slots \ {s} : Entry(t)' = Entry(t)
  BY <1>1, <1>2 DEF Entry
<1>5. Seat' = Seat
  BY <1>1, <1>2 DEF Seat
<1> QED BY <1>1, <1>3, <1>4, <1>5 DEF Freeing

\* Entering free().
LEMMA DeleteKeeps ==
  ASSUME TInv, NEW s \in Slots, Delete(s),
         at' \in Places, texts' \in 0 .. MaxTexts, pixels' \in PixelSlots \cup {0},
         at' \in InSetText => texts' < MaxTexts, Stage'
  PROVE  TInv'
<1>1. IInv /\ EveryUsedHeld /\ Grounded
  BY DEF TInv
<1>2. IInv'
  BY <1>1, FreeCallKeeps DEF Delete
<1>3. TextTypeOK'
  BY <1>2 DEF TextTypeOK, Places, IInv
<1>4. EveryUsedHeld'
  BY <1>1, FreeUsedHeld DEF Delete
<1>5. Grounded'
  <2>1. Argument \in Slots /\ Root \in chain
    BY <1>1, Roles, BlockAddress DEF TInv
  <2>2. hdr'[Root].prev = Null
    BY <1>1, <2>1, AfterDelete DEF Grounded
  <2>3. Holds(Argument)' => Entry(Argument)' = Root
    BY <1>1, <2>1, AfterDelete DEF Grounded
  <2>4. hdr'[cur'].free
    BY <1>1, AfterDelete
  <2> QED BY <2>2, <2>3, <2>4 DEF Grounded, InSetText
<1>6. pc' # "fault"
  BY <1>1, AfterDelete
<1> QED BY <1>2, <1>3, <1>4, <1>5, <1>6 DEF TInv

\* The pixels go, and the object stays where it is.
LEMMA PixelsDeleted ==
  ASSUME TInv, OldText, pixels # 0, Delete(pixels), UNCHANGED pixels,
         (at = "old" /\ Holds(Fresh) /\ at' = "oldObject") \/ (at = "caller" /\ at' = "destroy")
  PROVE  PixelsGone'
<1>1. /\ IInv /\ Argument # Object /\ Fresh # pixels /\ Object # Fresh /\ Argument # Fresh
      /\ Slots = {Argument, Object, pixels, Fresh} /\ pixels # Argument /\ pixels # Object
  BY Roles DEF TInv
<1>2. Fresh' = Fresh
  BY DEF Fresh
<1>3. /\ pc' = "freePrev" /\ cur' = Entry(pixels) /\ Entry(pixels) \in chain
      /\ \A t \in Slots : Holds(t)' = (Holds(t) /\ t # pixels)
      /\ \A t \in Slots \ {pixels} : Entry(t)' = Entry(t)
      /\ \A b \in chain : hdr'[b].next = hdr[b].next /\ hdr'[b].prev = hdr[b].prev
      /\ Seat' = Seat
  BY <1>1, AfterDelete
<1>4. PICK o \in chain : o = Entry(Object)
  BY <1>1, HeldBlock DEF OldText, Holding
<1>5. Entry(Object)' = o
  BY <1>1, <1>3, <1>4
<1>6. Seated(Entry(Object))'
  <2>1. Seated(o)'
    BY <1>1, <1>4, SeatedMark DEF OldText, Delete
  <2> QED BY <1>5, <2>1
<1>7. LooksAtUsed(cur, Entry(Object))'
  <2>1. LooksAtUsed(Entry(pixels), o)
    BY <1>4 DEF OldText
  <2>2. cur' # o /\ (cur' = Seat' \/ (o = Seat' /\ hdr'[cur'].prev = o))
    BY <1>3, <2>1 DEF LooksAtUsed
  <2> QED BY <1>5, <2>2 DEF LooksAtUsed
<1>8. Holding({Argument, Object} \cup (IF at = "oldObject" THEN {Fresh} ELSE {}), {})'
  <2>1. CASE at = "old"
    <3>1. Holding({Argument, Object, pixels}, {Fresh}) /\ Holds(Fresh) /\ at' = "oldObject"
      BY <2>1 DEF OldText
    <3> QED BY <1>1, <1>2, <1>3, <3>1 DEF Holding
  <2>2. CASE at = "caller"
    <3>1. Holding({Argument, Object, pixels}, {}) /\ at' = "destroy"
      BY <2>2 DEF OldText
    <3> QED BY <1>1, <1>3, <3>1 DEF Holding
  <2> QED BY <2>1, <2>2
<1>9. Behind(Fresh)'
  BY <1>1, <1>2, <1>3 DEF OldText, Behind
<1> QED BY <1>3, <1>6, <1>7, <1>8, <1>9 DEF PixelsGone

\* The object goes.
LEMMA ObjectDeleted ==
  ASSUME TInv, PixelsGone, pixels # 0, Delete(Object), UNCHANGED pixels,
         (at = "oldObject" /\ at' = "texture") \/ (at = "destroy" /\ at' = "end")
  PROVE  ObjectGone'
<1>1. /\ IInv /\ Argument # Object /\ Fresh # pixels /\ Object # Fresh /\ Argument # Fresh
      /\ Slots = {Argument, Object, pixels, Fresh} /\ pixels # Argument /\ pixels # Object
  BY Roles DEF TInv
<1>2. Fresh' = Fresh
  BY DEF Fresh
<1>3. /\ pc' = "freePrev" /\ cur' = Entry(Object) /\ Entry(Object) \in chain
      /\ \A t \in Slots : Holds(t)' = (Holds(t) /\ t # Object)
      /\ \A t \in Slots \ {Object} : Entry(t)' = Entry(t)
      /\ Seat' = Seat
  BY <1>1, AfterDelete
<1>4. Seated(cur)'
  <2>1. PICK o \in chain : o = Entry(Object)
    BY <1>3
  <2>2. Seated(o)'
    BY <1>1, <2>1, SeatedMark DEF PixelsGone, Delete
  <2> QED BY <1>3, <2>1, <2>2
<1>5. Holding({Argument} \cup (IF at = "texture" THEN {Fresh} ELSE {}), {})'
  <2>1. CASE at = "oldObject"
    <3>1. Holding({Argument, Object, Fresh}, {}) /\ at' = "texture"
      BY <2>1 DEF PixelsGone, Holding
    <3> QED BY <1>1, <1>2, <1>3, <3>1 DEF Holding
  <2>2. CASE at = "destroy"
    <3>1. Holding({Argument, Object}, {}) /\ at' = "end"
      BY <2>2 DEF PixelsGone, Holding
    <3> QED BY <1>1, <1>3, <3>1 DEF Holding
  <2> QED BY <2>1, <2>2
<1>6. Behind(Fresh)'
  BY <1>1, <1>2, <1>3 DEF PixelsGone, Behind
<1> QED BY <1>3, <1>4, <1>5, <1>6 DEF ObjectGone

LEMMA DeleteOldPixelsKeeps == ASSUME TInv, DeleteOldPixels PROVE TInv'
<1>1. /\ pc = "idle" /\ at = "old" /\ at' = "oldObject" /\ Holds(Fresh) /\ pixels # 0
      /\ Delete(pixels) /\ UNCHANGED <<texts, pixels>>
  BY DEF DeleteOldPixels, Go
<1>2. TextTypeOK /\ texts < MaxTexts /\ pixels \in Slots /\ OldText
  BY <1>1, Roles DEF TInv, Grounded, Stage
<1>3. PixelsGone'
  BY <1>1, <1>2, PixelsDeleted
<1>4. Stage'
  BY <1>1, <1>3 DEF Stage
<1> QED BY <1>1, <1>2, <1>4, DeleteKeeps DEF TextTypeOK, Places

LEMMA DestroyPixelsKeeps == ASSUME TInv, DestroyPixels PROVE TInv'
<1>1. /\ pc = "idle" /\ at = "caller" /\ at' = "destroy" /\ pixels # 0
      /\ Delete(pixels) /\ UNCHANGED <<texts, pixels>>
  BY DEF DestroyPixels, Go
<1>2. TextTypeOK /\ pixels \in Slots /\ OldText
  BY <1>1, Roles DEF TInv, Stage
<1>3. PixelsGone'
  BY <1>1, <1>2, PixelsDeleted
<1>4. Stage'
  BY <1>1, <1>3 DEF Stage
<1> QED BY <1>1, <1>2, <1>4, DeleteKeeps DEF TextTypeOK, Places, InSetText

LEMMA DeleteOldObjectKeeps == ASSUME TInv, DeleteOldObject PROVE TInv'
<1>1. /\ pc = "idle" /\ at = "oldObject" /\ at' = "texture"
      /\ Delete(Object) /\ UNCHANGED <<texts, pixels>>
  BY DEF DeleteOldObject, Go
<1>2. TextTypeOK /\ texts < MaxTexts /\ Object \in Slots /\ pixels # 0 /\ PixelsGone
  BY <1>1, Roles DEF TInv, Grounded, Stage
<1>3. ObjectGone'
  BY <1>1, <1>2, ObjectDeleted
<1>4. Stage'
  BY <1>1, <1>2, <1>3 DEF Stage
<1> QED BY <1>1, <1>2, <1>4, DeleteKeeps DEF TextTypeOK, Places

LEMMA DestroyObjectKeeps == ASSUME TInv, DestroyObject PROVE TInv'
<1>1. /\ pc = "idle" /\ at = "destroy" /\ at' = "end"
      /\ Delete(Object) /\ UNCHANGED <<texts, pixels>>
  BY DEF DestroyObject, Go
<1>2. TextTypeOK /\ Object \in Slots /\ pixels # 0 /\ PixelsGone
  BY <1>1, Roles DEF TInv, Stage
<1>3. ObjectGone'
  BY <1>1, <1>2, ObjectDeleted
<1>4. Stage'
  BY <1>1, <1>2, <1>3 DEF Stage
<1> QED BY <1>1, <1>2, <1>4, DeleteKeeps DEF TextTypeOK, Places, InSetText

\* The string goes last.
LEMMA LeaveScopeKeeps == ASSUME TInv, LeaveScope PROVE TInv'
<1>1. /\ pc = "idle" /\ at = "end" /\ at' = "caller" /\ Delete(Argument)
      /\ texts' = 0 /\ pixels' = 0
  BY DEF LeaveScope, Go
<1>2. /\ IInv /\ TextTypeOK /\ Grounded /\ Argument \in Slots /\ ObjectGone
  BY <1>1, Roles DEF TInv, Stage
<1>3. /\ pc' = "freePrev" /\ cur' = Entry(Argument) /\ Holds(Argument)
      /\ \A t \in Slots : Holds(t)' = (Holds(t) /\ t # Argument)
  BY <1>1, <1>2, AfterDelete
<1>4. Holding({Argument}, {})
  BY <1>1, <1>2 DEF ObjectGone, Holding
<1>5. NoText'
  <2>1. Holding({}, {})'
    BY <1>3, <1>4 DEF Holding
  <2>2. cur' = Root
    BY <1>2, <1>3 DEF Grounded
  <2> QED BY <1>3, <2>1, <2>2 DEF NoText
<1>6. Stage'
  BY <1>1, <1>5 DEF Stage
<1>7. texts' \in 0 .. MaxTexts
  BY <1>1, TextAssumption
<1> QED BY <1>1, <1>2, <1>6, <1>7, DeleteKeeps DEF Places, InSetText

-----------------------------------------------------------------------------
(* The loop of mallocAligned keeps the invariant                           *)

LEMMA SameClient ==
  UNCHANGED client => at' = at /\ texts' = texts /\ pixels' = pixels /\ Fresh' = Fresh
BY DEF client, Fresh

\* Where the loop runs.
LEMMA AlignedStages ==
  ASSUME TInv, pc = "aligned"
  PROVE  /\ Stage
         /\ \/ pixels = 0 /\ at \in {"called", "old"} /\ FirstText
            \/ pixels # 0 /\ at = "old" /\ OldText
            \/ pixels # 0 /\ at = "made" /\ NewObject
<1>1. Stage /\ at \in Places
  BY DEF TInv, TextTypeOK, Places
<1>2. CASE pixels = 0
  BY <1>1, <1>2 DEF Places, Stage, NoText, FirstText, OldText, PixelsGone, ObjectGone
<1>3. CASE pixels # 0
  BY <1>1, <1>3 DEF Places, Stage, NoText, FirstText, OldText, PixelsGone, ObjectGone
<1> QED BY <1>1, <1>2, <1>3

\* Passing over a block, and giving up.
LEMMA QuietKeeps ==
  ASSUME TInv, IInv', pc = "aligned", pc' \in {"idle", "aligned"}, pc' = "aligned" => req' = req,
         UNCHANGED <<hdr, chain, held>>, UNCHANGED client
  PROVE  TInv'
<1>1. at' = at /\ texts' = texts /\ pixels' = pixels /\ Fresh' = Fresh
  BY SameClient
<1>2. TextTypeOK /\ at \in Places /\ (at \in InSetText => texts < MaxTexts)
  BY DEF TInv, TextTypeOK, Places, Grounded, InSetText
<1>3. \A s, S : Asks(s, S) => Asks(s, S)'
  BY DEF Asks
<1>4. ~Freeing
  BY DEF Freeing
<1>5. Stage'
  <2>1. CASE pixels = 0 /\ at \in {"called", "old"} /\ FirstText
    <3>1. First(Fresh)'
      BY <1>1, <1>4, <2>1, SameFirst DEF FirstText
    <3>2. at' = "called" => Holding({}, {Argument})' /\ Asks(Argument, StringSizes)'
      BY <1>1, <1>3, <2>1, SameBlocks DEF FirstText
    <3>3. at' = "old" => Holding({Argument}, {Fresh})' /\ Asks(Fresh, PixelSizes)'
      BY <1>1, <1>3, <2>1, SameBlocks DEF FirstText
    <3> QED BY <1>1, <2>1, <3>1, <3>2, <3>3 DEF Stage, FirstText
  <2>2. CASE pixels # 0 /\ at = "old" /\ OldText
    <3>1. Holding({Argument, Object, pixels}, {Fresh})' /\ Asks(Fresh, PixelSizes)'
      BY <1>1, <1>3, <2>2, SameBlocks DEF OldText
    <3>2. Seated(Entry(Object))' /\ LooksAtUsed(Entry(pixels), Entry(Object))' /\ Behind(Fresh)'
      BY <1>1, <2>2, SameBlocks DEF OldText
    <3> QED BY <1>1, <2>2, <3>1, <3>2 DEF Stage, OldText
  <2>3. CASE pixels # 0 /\ at = "made" /\ NewObject
    <3>1. Holding({Argument, pixels}, {Object})' /\ Asks(Object, {TextureSize})'
      BY <1>1, <1>3, <2>3, SameBlocks DEF NewObject
    <3>2. Holds(Object)' => Seated(Entry(Object))' /\ LooksAtUsed(Entry(pixels), Entry(Object))'
      BY <1>1, <2>3, SameBlocks DEF NewObject
    <3>3. First(pixels)' \/ (Seated(Seat) /\ Behind(pixels) /\ hdr[Entry(pixels)].prev = Seat)'
      <4>1. CASE First(pixels)
        BY <1>1, <1>4, <4>1, SameFirst
      <4>2. CASE Seated(Seat) /\ Behind(pixels) /\ hdr[Entry(pixels)].prev = Seat
        <5>1. Seated(Seat)' /\ Behind(pixels)'
          BY <1>1, <4>2, SameBlocks
        <5>2. hdr'[Entry(pixels)'].prev = Seat'
          BY <1>1, <4>2, SameBlocks
        <5> QED BY <5>1, <5>2
      <4> QED BY <2>3, <4>1, <4>2 DEF NewObject
    <3> QED BY <1>1, <2>3, <3>1, <3>2, <3>3 DEF Stage, NewObject
  <2> QED BY <2>1, <2>2, <2>3, AlignedStages
<1> QED BY <1>1, <1>2, <1>5, SameBase DEF TextTypeOK

LEMMA WalkStep == ASSUME TInv, Walk, UNCHANGED client PROVE TInv'
<1>1. IInv'
  BY WalkKeeps DEF TInv
<1>2. pc = "aligned" /\ pc' = pc /\ req' = req /\ UNCHANGED <<hdr, chain, held>>
  BY DEF Walk, Aligned, Plain, TInv, IInv, Underway
<1> QED BY <1>1, <1>2, QuietKeeps

LEMMA FailStep == ASSUME TInv, Fail, UNCHANGED client PROVE TInv'
<1>1. IInv'
  BY FailKeeps DEF TInv
<1>2. pc = "aligned" /\ pc' = "idle" /\ UNCHANGED <<hdr, chain, held>>
  BY DEF Fail, Return, Aligned, Plain, TInv, IInv, Underway
<1> QED BY <1>1, <1>2, QuietKeeps

LEMMA NoTextPad == ASSUME TInv, OneAlignment PROVE ~Pad
<1>1. IInv
  BY DEF TInv
<1>2. Pad => req.align \in Alignments
  BY <1>1 DEF Pad, Aligned, IInv, Underway
<1> QED BY <1>1, <1>2, SmallAlignment DEF OneAlignment

-----------------------------------------------------------------------------
(* The heap of HeapInfo::init, before the first text                       *)

LEMMA InitTInv == ASSUME TextInit PROVE TInv
<1>1. Init /\ at = "caller" /\ texts = 0 /\ pixels = 0
  BY DEF TextInit
<1>2. IInv
  BY <1>1, InitIInv
<1>3. pc = "idle" /\ chain = {Root} /\ hdr[Root] = RootHeader /\ \A s \in Slots : ~Holds(s)
  BY <1>1, HeapAssumption DEF Init, Holds, EmptySlot, RootHeader, Root, Addr, HeapEnd
<1>4. TextTypeOK
  BY <1>1, <1>2, TextAssumption DEF TextTypeOK, IInv
<1>5. EveryUsedHeld
  BY <1>3 DEF EveryUsedHeld, RootHeader
<1>6. Grounded
  <2>1. Argument \in Slots
    BY <1>4, Roles
  <2> QED BY <1>1, <1>3, <2>1 DEF Grounded, Freeing, RootHeader
<1>7. Stage
  <2>1. NoText
    BY <1>3 DEF NoText, Holding, Freeing
  <2> QED BY <1>1, <2>1 DEF Stage
<1> QED BY <1>2, <1>3, <1>4, <1>5, <1>6, <1>7 DEF TInv

-----------------------------------------------------------------------------
(* The loops of free() keep the invariant                                  *)

\* Where they run.
LEMMA FreeingStages ==
  ASSUME TInv, Freeing
  PROVE  /\ IInv /\ Stage /\ EveryUsedHeld /\ hdr[Root].prev = Null /\ hdr[cur].free
         /\ cur \in chain /\ (Holds(Argument) => Entry(Argument) = Root)
         /\ \/ pixels = 0 /\ at = "caller" /\ NoText
            \/ pixels # 0 /\ at \in {"oldObject", "destroy"} /\ PixelsGone
            \/ pixels # 0 /\ at \in {"texture", "end"} /\ ObjectGone
<1>1. Stage /\ at \in Places /\ pc \in {"freePrev", "freeNext"} /\ IInv
  BY DEF TInv, TextTypeOK, Places, Freeing
<1>2. cur \in chain
  BY <1>1 DEF IInv, TypeOK, Underway
<1>3. CASE pixels = 0
  BY <1>1, <1>2, <1>3 DEF Places, Stage, FirstText, OldText, TInv, Grounded, Asks
<1>4. CASE pixels # 0
  BY <1>1, <1>2, <1>4 DEF Places, Stage, OldText, NewObject, TInv, Grounded, Asks
<1> QED BY <1>3, <1>4

\* The stage is all that such a step has to show.
LEMMA FreeBase ==
  ASSUME TInv, IInv', UNCHANGED client, UNCHANGED held, EveryUsedHeld', hdr'[Root].prev = Null,
         Freeing' => hdr'[cur'].free, pc' # "fault", Stage'
  PROVE  TInv'
<1>1. at' = at /\ texts' = texts /\ pixels' = pixels
  BY SameClient
<1>2. TextTypeOK'
  BY <1>1 DEF TInv, TextTypeOK, IInv
<1>3. Grounded'
  BY <1>1 DEF TInv, Grounded, Holds, Entry
<1> QED BY <1>2, <1>3 DEF TInv

\* A stage of free() after the step.
LEMMA StageOf ==
  ASSUME UNCHANGED client,
         \/ pixels = 0 /\ at = "caller" /\ NoText'
         \/ pixels # 0 /\ at \in {"oldObject", "destroy"} /\ PixelsGone'
         \/ pixels # 0 /\ at \in {"texture", "end"} /\ ObjectGone'
  PROVE  Stage'
BY SameClient DEF Stage

\* What pixels find in front of them is in use.
LEMMA PixelsTurn ==
  ASSUME TInv, Freeing, PixelsGone
  PROVE  ~PrevFree(cur) /\ (hdr[cur].next # Null /\ hdr[hdr[cur].next].free => Entry(Object) = Seat)
<1>1. /\ IInv /\ Argument \in Slots /\ Object \in Slots /\ Holds(Argument) /\ Holds(Object)
      /\ Entry(Argument) = Root
  BY FreeingStages, Roles DEF TInv, PixelsGone, Holding
<1>2. ~hdr[Root].free /\ ~hdr[Entry(Object)].free
  BY <1>1, HeldBlock
<1>3. LooksAtUsed(cur, Entry(Object)) /\ Seated(Entry(Object))
  BY DEF PixelsGone
<1>4. CASE cur = Seat
  <2>1. hdr[cur].prev = Root /\ hdr[cur].next = Entry(Object)
    BY <1>3, <1>4 DEF Seated, LooksAtUsed
  <2> QED BY <1>2, <2>1 DEF PrevFree
<1>5. CASE Entry(Object) = Seat /\ hdr[cur].prev = Entry(Object)
  BY <1>2, <1>5 DEF PrevFree
<1> QED BY <1>3, <1>4, <1>5 DEF LooksAtUsed

\* The object's block looks back at the string, or at the free seat.
LEMMA ObjectTurn ==
  ASSUME TInv, Freeing, ObjectGone
  PROVE  /\ cur = Seat => ~PrevFree(cur)
         /\ cur # Seat => hdr[Seat].free /\ hdr[cur].prev = Seat /\ hdr[Seat].next = cur /\ PrevFree(cur)
<1>1. /\ IInv /\ Argument \in Slots /\ Holds(Argument) /\ Entry(Argument) = Root
      /\ EveryUsedHeld /\ Seated(cur)
  BY FreeingStages, Roles DEF TInv, ObjectGone, Holding
<1>2. CASE cur = Seat
  <2>1. ~hdr[Root].free
    BY <1>1, HeldBlock
  <2> QED BY <1>1, <1>2, <2>1 DEF Seated, PrevFree
<1>3. CASE cur # Seat
  <2>1. hdr[Seat].next = cur /\ hdr[cur].prev = Seat /\ Seat \in chain /\ cur \in chain
    BY <1>1, <1>3 DEF Seated
  <2>2. Seat # Null /\ Root # Seat
    BY <1>1, <2>1, SeatedPlaces
  <2>3. hdr[Seat].free
    <3>1. SUFFICES ASSUME ~hdr[Seat].free PROVE FALSE
      OBVIOUS
    <3>2. PICK s \in Slots : Holds(s) /\ Entry(s) = Seat
      BY <1>1, <2>1, <3>1 DEF EveryUsedHeld
    <3>3. s = Fresh
      BY <1>1, <2>2, <3>2 DEF ObjectGone, Holding
    <3> QED BY <3>2, <3>3 DEF ObjectGone, Behind
  <2> QED BY <1>3, <2>1, <2>2, <2>3 DEF PrevFree
<1> QED BY <1>2, <1>3

\* free() finds nothing more behind the block.
LEMMA TurnStep == ASSUME TInv, Turn, UNCHANGED client PROVE TInv'
<1>1. /\ pc = "freePrev" /\ pc' = "freeNext" /\ UNCHANGED <<hdr, chain, held, cur, req>>
      /\ ~PrevFree(cur) /\ Freeing
  BY DEF Turn, FreeTurn, Freeing
<1>2. IInv'
  BY TurnKeeps DEF TInv
<1>3. at' = at /\ pixels' = pixels /\ Fresh' = Fresh
  BY SameClient
<1>4. EveryUsedHeld'
  BY <1>1 DEF TInv, EveryUsedHeld, Holds, Entry
<1>5. NoText => NoText'
  BY <1>1, SameBlocks DEF NoText, Freeing
<1>6. PixelsGone => PixelsGone'
  <2>1. SUFFICES ASSUME PixelsGone PROVE PixelsGone'
    OBVIOUS
  <2>2. Holding({Argument, Object} \cup (IF at = "oldObject" THEN {Fresh} ELSE {}), {})'
    BY <1>1, <1>3, <2>1, SameBlocks DEF PixelsGone
  <2>3. Seated(Entry(Object))' /\ LooksAtUsed(cur, Entry(Object))' /\ Behind(Fresh)'
    BY <1>1, <1>3, <2>1, SameBlocks DEF PixelsGone
  <2> QED BY <1>1, <2>2, <2>3 DEF PixelsGone
<1>7. ObjectGone => ObjectGone'
  <2>1. SUFFICES ASSUME ObjectGone PROVE ObjectGone'
    OBVIOUS
  <2>2. Holding({Argument} \cup (IF at = "texture" THEN {Fresh} ELSE {}), {})'
    BY <1>1, <1>3, <2>1, SameBlocks DEF ObjectGone
  <2>3. Seated(cur)' /\ Behind(Fresh)' /\ Seat' = Seat
    BY <1>1, <1>3, <2>1, SameBlocks DEF ObjectGone
  <2>4. cur = Seat
    BY <1>1, <2>1, ObjectTurn
  <2> QED BY <1>1, <2>2, <2>3, <2>4 DEF ObjectGone
<1>8. Stage'
  BY <1>1, <1>5, <1>6, <1>7, FreeingStages, StageOf
<1> QED BY <1>1, <1>2, <1>4, <1>8, FreeingStages, FreeBase

\* Merging does not touch the back link of the first block.
LEMMA MergeAtRoot ==
  ASSUME IInv, hdr[Root].prev = Null, NEW e \in chain, hdr[e].free,
         NEW x, x = hdr[e].next, x # Null, hdr' = MergeNext(hdr, e)
  PROVE  hdr'[Root].prev = Null /\ hdr'[e].free
<1> DEFINE g == hdr[x].next
<1>1. /\ hdr'[e].free /\ hdr'[e].prev = hdr[e].prev
      /\ \A b \in Addr \ {e} : hdr'[b].prev = IF b = g THEN e ELSE hdr[b].prev
  <2>1. hdr'[e].free
    BY MergeFields DEF IInv
  <2>2. hdr'[e].prev = hdr[e].prev
    BY MergeFields DEF IInv
  <2>3. \A b \in Addr \ {e} : hdr'[b].prev = IF b = g THEN e ELSE hdr[b].prev
    BY MergeFields DEF IInv
  <2> QED BY <2>1, <2>2, <2>3
<1>2. Root \in chain /\ Root \in Addr /\ x \in chain /\ Null \notin chain /\ \A b \in chain : b \in Nat
  BY BlockAddress, NextBlock DEF IInv, TypeOK
<1>3. g # Root
  <2>1. CASE g = Null
    BY <2>1, <1>2
  <2>2. CASE g # Null
    <3>1. x < g /\ g \in chain
      BY <1>2, <2>2, NextBlock DEF IInv
    <3>2. x # Root => Root < x
      BY <1>2, SeatFirst
    <3> QED BY <1>2, <3>1, <3>2
  <2> QED BY <2>1, <2>2
<1> QED BY <1>1, <1>2, <1>3

\* Looking back, only the object's block finds a free neighbour, and only when
\* it is not at the seat: the two become one block at the seat.
LEMMA MergePrevStep ==
  ASSUME TInv, FreeMergePrev, UNCHANGED <<held, req>>, UNCHANGED client
  PROVE  TInv'
<1>1. pc = "freePrev" /\ PrevFree(cur) /\ Freeing
  BY DEF FreeMergePrev, Freeing
<1>2. /\ IInv /\ Stage /\ EveryUsedHeld /\ hdr[Root].prev = Null /\ hdr[cur].free /\ cur \in chain
  BY <1>1, FreeingStages
<1>3. pixels # 0 /\ at \in {"texture", "end"} /\ ObjectGone
  <2>1. ~NoText
    BY <1>1, <1>2 DEF NoText, PrevFree
  <2>2. ~PixelsGone
    BY <1>1, PixelsTurn
  <2> QED BY <1>1, <2>1, <2>2, FreeingStages
<1>4. /\ cur # Seat /\ hdr[Seat].free /\ hdr[cur].prev = Seat /\ hdr[Seat].next = cur
      /\ Seated(cur) /\ Behind(Fresh)
      /\ Holding({Argument} \cup (IF at = "texture" THEN {Fresh} ELSE {}), {})
  <2>1. Seated(cur) /\ Behind(Fresh)
        /\ Holding({Argument} \cup (IF at = "texture" THEN {Fresh} ELSE {}), {})
    BY <1>1, <1>3 DEF ObjectGone
  <2> QED BY <1>1, <1>3, <2>1, ObjectTurn
<1>5. at' = at /\ pixels' = pixels /\ Fresh' = Fresh /\ texts' = texts
  BY SameClient
<1>6. PICK q \in chain : q = Seat
  BY <1>4 DEF Seated
<1>7. hdr[q].prev = Root /\ Root # Null /\ q # Null /\ cur # Null
  <2>1. Root \in chain /\ Null \notin chain
    BY <1>2, BlockAddress
  <2> QED BY <1>2, <1>4, <1>6, <2>1 DEF Seated
<1>8. CASE hdr[cur].next = Null
  <2>1. pc' = "fault" /\ UNCHANGED <<hdr, chain, cur>>
    BY <1>4, <1>6, <1>7, <1>8 DEF FreeMergePrev, MergePrevFaults
  <2>2. ~Roomy
    BY <1>4, <1>8 DEF Seated
  <2>3. IInv'
    <3>1. TypeOK' /\ Tiled'
      BY <1>2, <2>1 DEF IInv, TypeOK, Tiled, End, Data
    <3>2. HeldUsed' /\ HeldOnce'
      BY <1>2, <2>1, HeldUsedKept, HeldOnceKept DEF IInv
    <3> QED BY <1>2, <2>1, <3>1, <3>2 DEF IInv, Underway, FirstFit
  <2>4. EveryUsedHeld'
    BY <1>2, <2>1 DEF EveryUsedHeld, Holds, Entry
  <2>5. Grounded'
    BY <1>5, <2>1 DEF TInv, Grounded, Freeing, Holds, Entry
  <2>6. TextTypeOK'
    BY <1>5, <2>3 DEF TInv, TextTypeOK, IInv
  <2> QED BY <2>1, <2>2, <2>3, <2>4, <2>5, <2>6 DEF TInv, Roomy
<1>9. CASE hdr[cur].next # Null
  <2>1. /\ pc' = pc /\ cur' = q /\ hdr[q].free /\ IInv'
        /\ hdr' = MergeNext(hdr, q) /\ chain' = chain \ {cur}
    BY <1>2, <1>4, <1>6, <1>7, <1>9, MergeBack
  <2>2. PICK x \in chain : x = cur
    BY <1>2
  <2>3. x = hdr[q].next /\ x # Null /\ chain' = chain \ {x}
    BY <1>4, <1>6, <1>7, <2>1, <2>2
  <2>4. Fits(q) /\ TextureSize <= hdr[x].size
    BY <1>4, <1>6, <2>2 DEF Seated
  <2>5. Seated(q)' /\ Seat' = q
    BY <1>2, <1>6, <1>7, <2>1, <2>3, <2>4, SeatedMergeAt
  <2>6. EveryUsedHeld'
    BY <1>2, <1>6, <2>1, <2>3, MergeUsedHeld
  <2>7. hdr'[Root].prev = Null /\ hdr'[q].free
    BY <1>2, <1>6, <2>1, <2>3, MergeAtRoot
  <2>8. ObjectGone'
    <3>1. Holding({Argument} \cup (IF at = "texture" THEN {Fresh} ELSE {}), {})'
      BY <1>4, <1>5 DEF Holding, Holds
    <3>2. Seated(cur)'
      BY <2>1, <2>5
    <3>3. Behind(Fresh)'
      BY <1>4, <1>5, <1>6, <2>5 DEF Behind, Holds, Entry
    <3> QED BY <1>1, <2>1, <2>5, <3>1, <3>2, <3>3 DEF ObjectGone
  <2>9. Stage'
    BY <1>3, <2>8, StageOf
  <2> QED BY <1>1, <2>1, <2>6, <2>7, <2>9, FreeBase
<1> QED BY <1>8, <1>9

\* Looking ahead, a block of pixels behind the object, or the block at the
\* seat, takes in the free block behind it.
LEMMA MergeNextStep == ASSUME TInv, FreeMergeNext, UNCHANGED client PROVE TInv'
<1> DEFINE x == hdr[cur].next
<1>1. /\ pc = "freeNext" /\ Freeing /\ x # Null /\ hdr[x].free
      /\ hdr' = MergeNext(hdr, cur) /\ chain' = chain \ {x} /\ UNCHANGED <<held, pc, cur, req>>
  BY DEF FreeMergeNext, NextFree, Freeing
<1>2. /\ IInv /\ Stage /\ EveryUsedHeld /\ hdr[Root].prev = Null /\ hdr[cur].free /\ cur \in chain
  BY <1>1, FreeingStages
<1>3. IInv'
  BY <1>2, FreeMergeNextKeeps
<1>4. PICK e \in chain : e = cur
  BY <1>2
<1>5. x = hdr[e].next /\ hdr' = MergeNext(hdr, e)
  BY <1>1, <1>4
<1> HIDE DEF x
<1>6. EveryUsedHeld' /\ hdr'[Root].prev = Null /\ hdr'[cur'].free
  BY <1>1, <1>2, <1>4, <1>5, MergeUsedHeld, MergeAtRoot
<1>7. at' = at /\ pixels' = pixels /\ Fresh' = Fresh
  BY SameClient
<1>8. \A s : Holds(s)' = Holds(s) /\ Entry(s)' = Entry(s)
  BY <1>1 DEF Holds, Entry
<1>9. ASSUME NoText PROVE NoText'
  BY <1>1, <1>8, <1>9 DEF NoText, Holding, Freeing
<1>10. ASSUME PixelsGone PROVE PixelsGone'
  <2>1. /\ Seated(Entry(Object)) /\ LooksAtUsed(cur, Entry(Object)) /\ Behind(Fresh)
        /\ Holding({Argument, Object} \cup (IF at = "oldObject" THEN {Fresh} ELSE {}), {})
    BY <1>1, <1>10 DEF PixelsGone
  <2>2. Entry(Object) = Seat /\ Seat \in chain
    BY <1>1, <1>4, <1>5, <1>10, <2>1, PixelsTurn DEF Seated
  <2>3. e # Seat /\ hdr[e].prev = Seat
    BY <1>4, <2>1, <2>2 DEF LooksAtUsed
  <2>4. e # Root
    BY <1>2, <2>2, <2>3, BlockAddress
  <2>5. Seated(Seat)' /\ Seat' = Seat /\ hdr'[e].prev = hdr[e].prev
    <3>1. Seated(Seat)
      BY <2>1, <2>2
    <3> QED BY <1>1, <1>2, <1>5, <2>3, <2>4, <3>1, SeatedMergeBehind
  <2>6. Entry(Object)' = Seat'
    BY <1>8, <2>2, <2>5
  <2>7. Seated(Entry(Object))'
    BY <2>5, <2>6
  <2>8. LooksAtUsed(cur, Entry(Object))'
    BY <1>1, <1>4, <2>3, <2>5, <2>6 DEF LooksAtUsed
  <2>9. Behind(Fresh)'
    BY <1>7, <1>8, <2>1, <2>5 DEF Behind
  <2>10. Holding({Argument, Object} \cup (IF at = "oldObject" THEN {Fresh} ELSE {}), {})'
    BY <1>7, <1>8, <2>1 DEF Holding
  <2> QED BY <1>1, <2>7, <2>8, <2>9, <2>10 DEF PixelsGone
<1>11. ASSUME ObjectGone PROVE ObjectGone'
  <2>1. /\ Seated(cur) /\ cur = Seat /\ Behind(Fresh)
        /\ Holding({Argument} \cup (IF at = "texture" THEN {Fresh} ELSE {}), {})
    BY <1>1, <1>11 DEF ObjectGone
  <2>2. e = Seat /\ hdr[e].prev = Root /\ Fits(e) /\ TextureSize <= hdr[e].size
    BY <1>4, <2>1 DEF Seated
  <2>3. Seated(e)' /\ Seat' = e
    BY <1>1, <1>2, <1>5, <2>2, SeatedMergeAt
  <2>4. Seated(cur)' /\ cur' = Seat'
    BY <1>1, <1>4, <2>3
  <2>5. Behind(Fresh)'
    BY <1>7, <1>8, <2>1, <2>2, <2>3 DEF Behind
  <2>6. Holding({Argument} \cup (IF at = "texture" THEN {Fresh} ELSE {}), {})'
    BY <1>7, <1>8, <2>1 DEF Holding
  <2> QED BY <1>1, <2>4, <2>5, <2>6 DEF ObjectGone
<1>12. Stage'
  BY <1>1, <1>9, <1>10, <1>11, FreeingStages, StageOf
<1> QED BY <1>1, <1>3, <1>6, <1>12, FreeBase

\* When free() returns, the heap is whole, or the seat is ready for the next object.
LEMMA FreeReturnStep == ASSUME TInv, FreeReturn, UNCHANGED client PROVE TInv'
<1>1. /\ pc = "freeNext" /\ Freeing /\ ~NextFree(cur) /\ pc' = "idle"
      /\ UNCHANGED <<hdr, chain, held>>
  BY DEF FreeReturn, Return, Freeing
<1>2. /\ IInv /\ Stage /\ EveryUsedHeld /\ hdr[Root].prev = Null /\ hdr[cur].free /\ cur \in chain
      /\ (Holds(Argument) => Entry(Argument) = Root)
  BY <1>1, FreeingStages
<1>3. IInv'
  BY <1>2, FreeReturnKeeps
<1>4. EveryUsedHeld' /\ hdr'[Root].prev = Null /\ ~Freeing'
  BY <1>1, <1>2 DEF EveryUsedHeld, Holds, Entry, Freeing
<1>5. at' = at /\ pixels' = pixels /\ Fresh' = Fresh
  BY SameClient
<1>6. ASSUME NoText PROVE NoText'
  <2>1. cur = Root /\ Holding({}, {}) /\ \A b \in chain : hdr[b].free
    BY <1>1, <1>2, <1>6 DEF NoText, Holding, EveryUsedHeld
  <2>2. hdr[Root].next = Null
    BY <1>1, <1>2, <2>1 DEF NextFree, IInv, Tiled
  <2>3. chain = {Root} /\ hdr[Root] = RootHeader
    BY <1>2, <2>1, <2>2, RootAlone
  <2>4. Holding({}, {})'
    BY <1>1, <2>1, SameBlocks
  <2> QED BY <1>1, <2>3, <2>4, <1>4 DEF NoText
<1>7. ASSUME PixelsGone PROVE PixelsGone'
  <2>1. Holding({Argument, Object} \cup (IF at = "oldObject" THEN {Fresh} ELSE {}), {})'
    BY <1>1, <1>5, <1>7, SameBlocks DEF PixelsGone
  <2>2. Seated(Entry(Object))' /\ Behind(Fresh)'
    BY <1>1, <1>5, <1>7, SameBlocks DEF PixelsGone
  <2> QED BY <1>1, <1>4, <2>1, <2>2 DEF PixelsGone
<1>8. ASSUME ObjectGone PROVE ObjectGone'
  <2>1. /\ Seated(Seat) /\ cur = Seat /\ Behind(Fresh)
        /\ Holding({Argument} \cup (IF at = "texture" THEN {Fresh} ELSE {}), {})
    BY <1>1, <1>8 DEF ObjectGone
  <2>2. Holding({Argument} \cup (IF at = "texture" THEN {Fresh} ELSE {}), {})'
    BY <1>1, <1>5, <2>1, SameBlocks
  <2>3. Seated(Seat)' /\ Behind(Fresh)' /\ Seat' = Seat
    BY <1>1, <1>5, <2>1, SameBlocks
  <2>4. ASSUME at = "texture" PROVE hdr[Entry(Fresh)].prev = Seat
    <3> DEFINE f == Entry(Fresh)
    <3>1. /\ Holds(Argument) /\ Holds(Fresh) /\ Argument \in Slots /\ Fresh \in Slots
          /\ Argument # Fresh /\ Entry(Argument) = Root
      BY <1>2, <2>1, <2>4, Roles DEF TInv, Holding
    <3>2. f \in chain /\ f # Root /\ f # Seat /\ Seat \in chain
      BY <1>2, <2>1, <3>1, HeldBlock DEF Behind, Seated
    <3>3. Seat < f
      <4>1. Seat <= f /\ f \in Nat /\ Seat \in Nat
        BY <1>2, <3>2, SeatFirst, BlockAddress
      <4> QED BY <3>2, <4>1
    <3>4. PICK s \in chain : s = Seat
      BY <3>2
    <3> DEFINE n == hdr[s].next
    <3>5. n \in chain /\ s < n /\ n # Null
      BY <1>2, <3>2, <3>3, <3>4, Follows, BlockAddress
    <3>6. ~hdr[n].free
      BY <1>1, <2>1, <3>4, <3>5 DEF NextFree
    <3>7. PICK t \in Slots : Holds(t) /\ Entry(t) = n
      BY <1>2, <3>5, <3>6 DEF EveryUsedHeld
    <3>8. n # Root
      <4>1. s # Root
        BY <1>2, <2>1, <3>4, SeatedPlaces
      <4>2. Root < s /\ Root \in Nat /\ s \in Nat /\ n \in Nat
        BY <1>2, <3>5, <4>1, SeatFirst, BlockAddress
      <4> QED BY <3>5, <4>2
    <3>9. t = Fresh
      BY <2>1, <2>4, <3>1, <3>7, <3>8 DEF Holding
    <3>10. hdr[n].prev = s
      BY <2>1, <3>4, <3>5 DEF Seated, Mirrored
    <3> QED BY <3>4, <3>7, <3>9, <3>10
  <2>5. at' = "texture" => hdr'[Entry(Fresh)'].prev = Seat'
    BY <1>1, <1>5, <2>3, <2>4, SameBlocks
  <2> QED BY <1>1, <1>4, <2>2, <2>3, <2>5 DEF ObjectGone
<1>9. Stage'
  BY <1>1, <1>6, <1>7, <1>8, FreeingStages, StageOf
<1> QED BY <1>1, <1>3, <1>4, <1>9, FreeBase

-----------------------------------------------------------------------------
(* Handing out a block keeps the invariant                                 *)

\* The slot that gets the block, and what stays as it is.
LEMMA AfterTake ==
  ASSUME TInv, OneAlignment, TakeAligned
  PROVE  /\ IInv /\ IInv' /\ EveryUsedHeld /\ EveryUsedHeld' /\ pc = "aligned" /\ pc' = "idle" /\ ~Freeing
         /\ cur \in chain /\ hdr[cur].free /\ Fits(cur) /\ req.slot \in Slots /\ ~Holds(req.slot)
         /\ req.size \in Nat /\ req.size <= hdr'[cur].size
         /\ \A s \in Slots : Holds(s)' = (Holds(s) \/ s = req.slot)
         /\ \A s \in Slots : Entry(s)' = IF s = req.slot THEN cur ELSE Entry(s)
         /\ chain \subseteq chain'
         /\ \A b \in chain : hdr'[b].prev = hdr[b].prev
         /\ \A b \in chain \ {cur} : hdr'[b] = hdr[b]
<1>1. PICK r \in Slots, n \in Sizes, a \in Alignments, c \in chain :
         r = req.slot /\ n = req.size /\ a = req.align /\ c = cur
  BY TakeFields DEF TInv
<1> DEFINE new == [ptr |-> Data(c), size |-> n, align |-> a]
<1>2. /\ pc = "aligned" /\ pc' = "idle" /\ hdr[c].free /\ ~Holds(r) /\ Padding(c, a) = 0
      /\ held' = [held EXCEPT ![r] = new] /\ n <= hdr'[c].size
      /\ \A b \in chain \ {c} : hdr'[b] = hdr[b]
      /\ hdr'[c].prev = hdr[c].prev /\ chain \subseteq chain'
  BY <1>1, TakeFields DEF TInv
<1>3. IInv /\ IInv' /\ EveryUsedHeld /\ EveryUsedHeld'
  BY TakeKeeps, TakeUsedHeld DEF TInv
<1>4. c \in Nat /\ new.ptr = Data(c) /\ Data(c) # Null /\ Data(c) - HeaderSize = c /\ n \in Nat
  BY <1>3, BlockInHeap, HeapAssumption DEF IInv, Data, Null
<1> HIDE DEF new
<1>5. held'[r] = new /\ \A s \in Slots \ {r} : held'[s] = held[s]
  BY <1>2, <1>3 DEF IInv, TypeOK
<1>6. \A s \in Slots : Holds(s)' = (Holds(s) \/ s = r)
  <2>1. Holds(r)'
    BY <1>4, <1>5 DEF Holds
  <2>2. ASSUME NEW s \in Slots PROVE Holds(s)' = (Holds(s) \/ s = r)
    <3>1. CASE s = r
      BY <2>1, <3>1
    <3>2. CASE s # r
      BY <1>5, <3>2 DEF Holds
    <3> QED BY <3>1, <3>2
  <2> QED BY <2>2
<1>7. \A s \in Slots : Entry(s)' = IF s = r THEN c ELSE Entry(s)
  BY <1>4, <1>5 DEF Entry
<1>8. Fits(c)
  BY <1>1, <1>2 DEF Fits, OneAlignment
<1>9. ~Freeing
  BY <1>2 DEF Freeing
<1>10. \A b \in chain : hdr'[b].prev = hdr[b].prev
  BY <1>2
<1> QED BY <1>1, <1>2, <1>3, <1>4, <1>6, <1>7, <1>8, <1>9, <1>10

\* The string is given the first block; then the stage is all that is to be shown.
LEMMA TakeBase ==
  ASSUME TInv, OneAlignment, TakeAligned, UNCHANGED client,
         req.slot = Argument => cur = Root, Stage'
  PROVE  TInv'
<1>1. at' = at /\ texts' = texts /\ pixels' = pixels
  BY SameClient
<1>2. IInv' /\ EveryUsedHeld' /\ pc' = "idle"
  BY AfterTake
<1>3. TextTypeOK'
  BY <1>1, <1>2 DEF TInv, TextTypeOK, IInv
<1>4. Grounded'
  <2>1. Argument \in Slots /\ Root \in chain
    BY Roles, BlockAddress DEF TInv
  <2>2. hdr'[Root].prev = Null
    BY <2>1, AfterTake DEF TInv, Grounded
  <2>3. Holds(Argument)' => Entry(Argument)' = Root
    BY <2>1, AfterTake DEF TInv, Grounded
  <2> QED BY <1>1, <1>2, <2>2, <2>3 DEF TInv, Grounded, Freeing
<1> QED BY <1>2, <1>3, <1>4 DEF TInv

\* Until the first object is there, the block handed out is the last one.
LEMMA LastOne ==
  ASSUME IInv, NEW c \in chain, hdr[c].next = Null, NEW b \in chain, hdr[b].next = Null
  PROVE  b = c
<1>1. b \in Nat /\ c \in Nat /\ Null \notin chain
  BY BlockAddress
<1>2. ~(b < c) /\ ~(c < b)
  BY <1>1, Follows
<1> QED BY <1>1, <1>2

\* The size of the last block, behind one or two others.
LEMMA LastSize ==
  ASSUME IInv, NEW c \in chain, hdr[c].next = Null, NEW n \in Nat, NEW m \in Nat,
         hdr[Root].size = n
  PROVE  /\ hdr[Root].next = c => hdr[c].size = HeapSize - 2 * HeaderSize - n
         /\ \A p \in chain : hdr[Root].next = p /\ hdr[p].next = c /\ hdr[p].size = m
              => hdr[c].size = HeapSize - 3 * HeaderSize - n - m
<1>1. Root \in chain /\ Null \notin chain /\ c \in Nat /\ hdr[c].size \in Nat
  BY BlockAddress, BlockInHeap, HeapAssumption DEF IInv, Header
<1>2. c + HeaderSize + hdr[c].size = HeapBase + HeapSize
  BY DEF IInv, Tiled, End, Data, HeapEnd
<1>3. \A p \in chain : hdr[Root].next = p => p = HeapBase + HeaderSize + n
  BY <1>1 DEF IInv, Tiled, End, Data, Root
<1>4. \A p \in chain : hdr[p].next = c /\ hdr[p].size = m => c = p + HeaderSize + m
  BY <1>1 DEF IInv, Tiled, End, Data
<1>5. HeaderSize \in Nat /\ HeapSize \in Nat /\ HeapBase \in Nat
  BY HeapAssumption
<1>6. hdr[Root].next = c => hdr[c].size = HeapSize - 2 * HeaderSize - n
  BY <1>1, <1>2, <1>3, <1>5
<1>7. ASSUME NEW p \in chain, hdr[Root].next = p, hdr[p].next = c, hdr[p].size = m
      PROVE  hdr[c].size = HeapSize - 3 * HeaderSize - n - m
  BY <1>1, <1>2, <1>3, <1>4, <1>5, <1>7
<1> QED BY <1>6, <1>7

\* The string.
LEMMA TakeString ==
  ASSUME TInv, OneAlignment, TakeAligned, UNCHANGED client, pixels = 0, at = "called", FirstText
  PROVE  TInv'
<1>1. /\ First(Fresh) /\ Holding({}, {Argument}) /\ req.slot = Argument /\ req.size \in StringSizes
      /\ Argument \in Slots /\ Fresh \in Slots /\ Argument # Fresh
  BY AfterTake, Roles DEF TInv, FirstText, Asks
<1>2. Links /\ OnlyLastFree
  BY <1>1 DEF First
<1>3. hdr[Root].free /\ hdr[Root].next = Null /\ hdr[Root].prev = Null
  <2>1. \A s \in Slots : ~Holds(s)
    BY <1>1, AfterTake DEF Holding
  <2>2. hdr[Root].free
    BY <2>1, AfterTake, BlockAddress DEF EveryUsedHeld
  <2> QED BY <1>2, <2>2, AfterTake, BlockAddress DEF OnlyLastFree, TInv, Grounded
<1>4. cur = Root /\ hdr[Root] = RootHeader
  BY <1>3, AfterTake, RootAlone
<1>5. at' = at /\ pixels' = pixels /\ Fresh' = Fresh
  BY SameClient
<1>6. Holding({}, {Argument})' /\ ~Holds(Fresh)'
  <2>1. ~Holds(Fresh)
    BY <1>1 DEF Holding
  <2> QED BY <1>1, <1>5, <2>1, AfterTake DEF Holding
<1>7. Roomy => hdr'[Root].size \in StringSizes
  <2>1. SUFFICES ASSUME Roomy PROVE hdr'[Root].size \in StringSizes
    OBVIOUS
  <2>2. Divisible(cur, req.size)
    BY <1>1, <1>4, <2>1 DEF Roomy, Divisible, RootHeader
  <2>3. hdr'[cur].size = req.size
    BY <2>2, TakeFields DEF TInv
  <2> QED BY <1>1, <1>4, <2>3
<1>8. First(Fresh)'
  <2>1. Links' /\ OnlyLastFree'
    BY <1>2, AfterTake, TakeLinks
  <2> QED BY <1>5, <1>6, <1>7, <2>1 DEF First, Roomy
<1>9. Stage'
  BY <1>5, <1>6, <1>8, AfterTake DEF Stage, FirstText, Asks
<1> QED BY <1>4, <1>9, TakeBase

\* The first pixels go to the block behind the string, the seat.
LEMMA TakeFirstPixels ==
  ASSUME TInv, OneAlignment, TakeAligned, UNCHANGED client, pixels = 0, at = "old", FirstText
  PROVE  TInv'
<1>1. /\ First(Fresh) /\ Holding({Argument}, {Fresh}) /\ req.slot = Fresh /\ req.size \in PixelSizes
      /\ Argument \in Slots /\ Fresh \in Slots /\ Argument # Fresh
  BY AfterTake, Roles DEF TInv, FirstText, Asks
<1>2. Links /\ OnlyLastFree /\ (Roomy => hdr[Root].size \in StringSizes)
  BY <1>1 DEF First, Holding
<1>3. Holds(Argument) /\ Entry(Argument) = Root /\ \A s \in Slots : Holds(s) => s = Argument
  BY <1>1, AfterTake DEF Holding, TInv, Grounded
<1>4. cur # Root /\ cur \in chain /\ Root \in chain
  BY <1>1, <1>3, AfterTake, HeldBlock
<1>5. Seat \in chain /\ Root # Seat
  <2>1. Root < Seat /\ Seat \in chain /\ Root \in Nat
    BY <1>4, AfterTake, SeatFirst, BlockAddress
  <2> QED BY <2>1
<1>6. hdr[Seat].free
  BY <1>3, <1>5, AfterTake DEF EveryUsedHeld
<1>7. hdr[Seat].next = Null /\ hdr[cur].next = Null
  BY <1>2, <1>5, <1>6, AfterTake, TakeLinks DEF OnlyLastFree
<1>8. Seat = cur
  BY <1>4, <1>5, <1>7, AfterTake, LastOne
<1>9. at' = at /\ pixels' = pixels /\ Fresh' = Fresh
  BY SameClient
<1>10. hdr'[Root] = hdr[Root] /\ Seat' = cur
  BY <1>4, <1>8, AfterTake DEF Seat
<1>11. Holding({Argument}, {Fresh})' /\ Entry(Fresh)' = cur
  BY <1>1, <1>3, <1>9, AfterTake DEF Holding
<1>12. Roomy => hdr'[Root].size \in StringSizes /\ hdr'[cur].size \in PixelSizes
  <2>1. SUFFICES ASSUME Roomy PROVE hdr'[Root].size \in StringSizes /\ hdr'[cur].size \in PixelSizes
    OBVIOUS
  <2>2. PICK n \in StringSizes : n = hdr[Root].size
    BY <1>2, <2>1
  <2>3. n \in Nat
    BY TextAssumption, HeapAssumption
  <2>4. hdr[cur].size = HeapSize - 2 * HeaderSize - n
    BY <1>4, <1>7, <1>8, <2>2, <2>3, AfterTake, LastSize DEF Seat
  <2>5. Divisible(cur, req.size)
    BY <1>1, <2>1, <2>4 DEF Roomy, Divisible
  <2>6. hdr'[cur].size = req.size
    BY <2>5, TakeFields DEF TInv
  <2> QED BY <1>1, <1>2, <1>10, <2>1, <2>6
<1>13. First(Fresh)'
  <2>1. Links' /\ OnlyLastFree'
    BY <1>2, AfterTake, TakeLinks
  <2>2. Fits(Seat)'
    BY <1>10, AfterTake DEF Fits, Padding, Data
  <2> QED BY <1>9, <1>10, <1>11, <1>12, <2>1, <2>2 DEF First, Roomy
<1>14. Stage'
  BY <1>9, <1>11, <1>13, AfterTake DEF Stage, FirstText, Asks
<1> QED BY <1>1, <1>14, TakeBase

\* The first object goes right behind the first pixels, which are at the seat.
LEMMA TakeFirstObject ==
  ASSUME TInv, OneAlignment, TakeAligned, pixels \in PixelSlots, req.slot = Object,
         req.size = TextureSize, Holding({Argument, pixels}, {Object}), First(pixels)
  PROVE  \E c, p \in chain : c = cur /\ p = Entry(pixels) /\ Seated(c)' /\ LooksAtUsed(p, c)'
<1>1. /\ Argument \in Slots /\ Object \in Slots /\ pixels \in Slots /\ Argument # pixels
      /\ Object # pixels /\ Object # Argument /\ Root \in chain
  BY AfterTake, Roles, BlockAddress DEF TInv
<1>2. /\ Links /\ OnlyLastFree /\ Holds(Argument) /\ Holds(pixels)
      /\ Entry(pixels) = Seat /\ Fits(Seat) /\ Entry(Argument) = Root
      /\ (Roomy => hdr[Root].size \in StringSizes /\ hdr[Seat].size \in PixelSizes)
  BY <1>1 DEF First, Holding, TInv, Grounded
<1>3. PICK p \in chain : p = Seat
  BY <1>1, <1>2, AfterTake, HeldBlock
<1>4. PICK c \in chain : c = cur
  BY AfterTake
<1>5. c # Root /\ c # p /\ Root # p
  <2>1. ~hdr[Root].free /\ ~hdr[p].free /\ Root # p
    BY <1>1, <1>2, <1>3, AfterTake, HeldBlock
  <2> QED BY <1>4, <2>1, AfterTake
<1>6. hdr[c].next = Null /\ Links' /\ OnlyLastFree'
  BY <1>2, <1>4, AfterTake, TakeLinks
<1>7. hdr[p].prev = Root
  <2>1. hdr[Root].next = p /\ p # Null
    BY <1>3, AfterTake, BlockAddress DEF Seat
  <2> QED BY <1>1, <2>1, <1>2 DEF Links
<1>8. hdr[c].prev = p /\ hdr[p].next = c
  <2>1. PICK q \in chain : q = hdr[c].prev /\ hdr[q].next = c
    BY <1>2, <1>5 DEF Links
  <2>2. hdr[q].next # Null
    BY <2>1, AfterTake, BlockAddress
  <2>3. ~hdr[q].free
    BY <1>2, <2>2, AfterTake DEF OnlyLastFree
  <2>4. PICK s \in Slots : Holds(s) /\ Entry(s) = q
    BY <2>3, AfterTake DEF EveryUsedHeld
  <2>5. s \in {Argument, pixels}
    BY <2>4, AfterTake DEF Holding
  <2>6. q # Root
    BY <1>3, <1>5, <2>1 DEF Seat
  <2> QED BY <1>2, <1>3, <2>1, <2>4, <2>5, <2>6
<1>9. hdr'[Root] = hdr[Root] /\ hdr'[p] = hdr[p] /\ hdr'[c].prev = p /\ chain \subseteq chain'
  BY <1>1, <1>4, <1>5, <1>8, AfterTake
<1>10. Seat' = p
  BY <1>3, <1>9 DEF Seat
<1>11. Roomy => hdr'[c].next # Null
  <2>1. SUFFICES ASSUME Roomy PROVE hdr'[c].next # Null
    OBVIOUS
  <2>2. PICK n \in StringSizes, m \in PixelSizes : n = hdr[Root].size /\ m = hdr[p].size
    BY <1>2, <1>3, <2>1
  <2>3. n \in Nat /\ m \in Nat
    BY TextAssumption, HeapAssumption
  <2>4. hdr[c].size = HeapSize - 3 * HeaderSize - n - m
    BY <1>3, <1>6, <1>8, <2>2, <2>3, AfterTake, LastSize DEF Seat
  <2>5. Divisible(cur, req.size)
    BY <1>4, <2>1, <2>2, <2>4 DEF Roomy, Divisible
  <2> QED BY <1>4, <2>5, TakeFields DEF TInv
<1>12. TextureSize <= hdr'[c].size
  BY <1>4, AfterTake
<1>13. Mirrored(c)'
  BY <1>6, <1>9 DEF Links, Mirrored
<1>14. Fits(p)'
  BY <1>2, <1>3 DEF Fits, Padding, Data
<1> HIDE DEF Fits, Mirrored
<1>15. Seated(c)' /\ LooksAtUsed(p, c)'
  BY <1>5, <1>7, <1>8, <1>9, <1>10, <1>11, <1>12, <1>13, <1>14 DEF Seated, LooksAtUsed, Roomy
<1> QED BY <1>2, <1>3, <1>4, <1>15

\* A later object takes the seat again: it is free, big enough and the first that is.
LEMMA TakeNextObject ==
  ASSUME TInv, OneAlignment, TakeAligned, pixels \in PixelSlots,
         req.size = TextureSize, Holding({Argument, pixels}, {Object}), req.slot = Object,
         Seated(Seat), Behind(pixels), hdr[Entry(pixels)].prev = Seat
  PROVE  \E c, p \in chain : c = cur /\ p = Entry(pixels) /\ Seated(c)' /\ LooksAtUsed(p, c)'
<1>1. /\ Argument \in Slots /\ Object \in Slots /\ pixels \in Slots /\ Root \in chain /\ Seat \in chain
      /\ Holds(Argument) /\ Holds(pixels) /\ Entry(Argument) = Root
  BY AfterTake, Roles, BlockAddress DEF TInv, Holding, Grounded, Seated
<1>2. PICK p \in chain : p = Entry(pixels)
  BY <1>1, AfterTake, HeldBlock
<1>3. ~hdr[Root].free /\ p # Seat /\ Root # Seat
  BY <1>1, <1>2, AfterTake, HeldBlock, SeatedPlaces DEF Behind
<1>4. hdr[Seat].free
  <2>1. SUFFICES ASSUME ~hdr[Seat].free PROVE FALSE
    OBVIOUS
  <2>2. PICK s \in Slots : Holds(s) /\ Entry(s) = Seat
    BY <1>1, <2>1, AfterTake DEF EveryUsedHeld
  <2>3. s \in {Argument, pixels}
    BY <2>2, AfterTake DEF Holding
  <2> QED BY <1>1, <1>2, <1>3, <2>2, <2>3
<1>5. cur = Seat
  BY <1>3, <1>4, AfterTake, SeatServes
<1>6. PICK c \in chain : c = cur
  BY AfterTake
<1>7. Seated(Seat)' /\ Seat' = c
  BY <1>5, <1>6, AfterTake, SeatTaken
<1>8. Seated(c)'
  BY <1>7
<1>9. LooksAtUsed(p, c)'
  <2>1. hdr'[p].prev = c
    BY <1>2, <1>5, <1>6, AfterTake
  <2> QED BY <1>3, <1>5, <1>6, <1>7, <2>1 DEF LooksAtUsed
<1> QED BY <1>2, <1>6, <1>8, <1>9

LEMMA TakeObject ==
  ASSUME TInv, OneAlignment, TakeAligned, UNCHANGED client, pixels # 0, at = "made", NewObject
  PROVE  TInv'
<1>1. /\ Argument \in Slots /\ Object \in Slots /\ pixels \in PixelSlots /\ pixels \in Slots
      /\ Argument # pixels /\ Object # pixels /\ Object # Argument
  BY Roles DEF TInv
<1>2. /\ Holding({Argument, pixels}, {Object}) /\ req.slot = Object /\ req.size = TextureSize
  BY AfterTake DEF NewObject, Asks
<1>3. PICK c, p \in chain : c = cur /\ p = Entry(pixels) /\ Seated(c)' /\ LooksAtUsed(p, c)'
  <2>1. First(pixels) \/ (Seated(Seat) /\ Behind(pixels) /\ hdr[Entry(pixels)].prev = Seat)
    BY AfterTake DEF NewObject
  <2> QED BY <1>1, <1>2, <2>1, TakeFirstObject, TakeNextObject
<1>4. at' = at /\ pixels' = pixels
  BY SameClient
<1>5. Holding({Argument, pixels}, {Object})'
  BY <1>1, <1>2, <1>4, AfterTake DEF Holding
<1>6. Entry(Object)' = c /\ Entry(pixels)' = p
  <2>1. PICK f \in Slots : f = pixels
    BY <1>1
  <2>2. Entry(Object)' = c /\ Entry(f)' = p
    BY <1>1, <1>2, <1>3, <2>1, AfterTake
  <2> QED BY <1>4, <2>1, <2>2
<1>7. Seated(Entry(Object))' /\ LooksAtUsed(Entry(pixels), Entry(Object))'
  BY <1>3, <1>6
<1>8. NewObject'
  BY <1>5, <1>7, AfterTake DEF NewObject, Asks
<1>9. Stage'
  BY <1>1, <1>4, <1>8, Roles DEF Stage
<1> QED BY <1>1, <1>2, <1>9, TakeBase

\* The next pixels go to neither of the blocks in use, so not to the seat.
LEMMA TakeNextPixels ==
  ASSUME TInv, OneAlignment, TakeAligned, UNCHANGED client, pixels # 0, at = "old", OldText
  PROVE  TInv'
<1>1. /\ Argument \in Slots /\ Object \in Slots /\ pixels \in Slots /\ Fresh \in Slots
      /\ Argument # Fresh /\ Object # Fresh /\ pixels # Fresh /\ pixels # Object
  BY Roles DEF TInv
<1>2. /\ Holding({Argument, Object, pixels}, {Fresh}) /\ req.slot = Fresh /\ req.size \in PixelSizes
      /\ Seated(Entry(Object)) /\ LooksAtUsed(Entry(pixels), Entry(Object))
  BY AfterTake DEF OldText, Asks
<1>3. Holds(Argument) /\ Entry(Argument) = Root /\ Holds(Object) /\ Holds(pixels)
  BY <1>1, <1>2 DEF Holding, TInv, Grounded
<1>4. PICK c, o, p \in chain : c = cur /\ o = Entry(Object) /\ p = Entry(pixels)
  BY <1>1, <1>3, AfterTake, HeldBlock
<1>5. c \notin {Root, o, p}
  BY <1>1, <1>3, <1>4, AfterTake, HeldBlock
<1>6. c # Seat /\ LooksAtUsed(p, o) /\ Seated(o)
  BY <1>2, <1>4, <1>5 DEF LooksAtUsed
<1>7. Seated(o)' /\ Seat' = Seat
  BY <1>4, <1>5, <1>6, AfterTake, SeatedTake
<1>8. LooksAtUsed(p, o)'
  <2>1. hdr'[p].prev = hdr[p].prev
    BY AfterTake
  <2> QED BY <1>6, <1>7, <2>1 DEF LooksAtUsed
<1>9. at' = at /\ pixels' = pixels /\ Fresh' = Fresh
  BY SameClient
<1>10. PICK f, g \in Slots : f = Fresh /\ g = pixels
  BY <1>1
<1>11. Holds(f)' /\ Entry(f)' = c /\ Entry(Object)' = o /\ Entry(g)' = p
  BY <1>1, <1>2, <1>4, <1>10, AfterTake
<1>12. Holding({Argument, Object, pixels}, {Fresh})'
  BY <1>1, <1>2, <1>9, AfterTake DEF Holding
<1>13. Seated(Entry(Object))' /\ LooksAtUsed(Entry(pixels), Entry(Object))' /\ Behind(Fresh)'
  <2>1. Behind(f)'
    BY <1>6, <1>7, <1>11 DEF Behind
  <2> QED BY <1>7, <1>8, <1>9, <1>10, <1>11, <2>1
<1>14. OldText'
  BY <1>9, <1>12, <1>13, AfterTake DEF OldText, Asks
<1>15. Stage'
  BY <1>9, <1>14 DEF Stage
<1> QED BY <1>1, <1>2, <1>15, TakeBase

LEMMA TakeStep == ASSUME TInv, OneAlignment, TakeAligned, UNCHANGED client PROVE TInv'
<1>1. CASE pixels = 0 /\ at \in {"called", "old"} /\ FirstText
  BY <1>1, TakeString, TakeFirstPixels
<1>2. CASE pixels # 0 /\ at = "old" /\ OldText
  BY <1>2, TakeNextPixels
<1>3. CASE pixels # 0 /\ at = "made" /\ NewObject
  BY <1>3, TakeObject
<1> QED BY <1>1, <1>2, <1>3, AlignedStages, AfterTake

-----------------------------------------------------------------------------
(* Every step keeps the invariant                                          *)

LEMMA HeapStepKeeps == ASSUME TInv, OneAlignment, HeapStep PROVE TInv'
<1>1. UNCHANGED client
  BY DEF HeapStep
<1>2. CASE Walk
  BY <1>1, <1>2, WalkStep
<1>3. CASE Pad
  BY <1>3, NoTextPad
<1>4. CASE TakeAligned
  BY <1>1, <1>4, TakeStep
<1>5. CASE Fail
  BY <1>1, <1>5, FailStep
<1>6. CASE FreePrev
  <2>1. CASE FreeMergePrev
    BY <1>1, <1>6, <2>1, MergePrevStep DEF FreePrev
  <2>2. CASE FreeTurn
    BY <1>1, <1>6, <2>2, TurnStep DEF FreePrev, Turn
  <2> QED BY <1>6, <2>1, <2>2 DEF FreePrev
<1>7. CASE FreeMergeNext
  BY <1>1, <1>7, MergeNextStep
<1>8. CASE FreeReturn
  BY <1>1, <1>8, FreeReturnStep
<1> QED BY <1>2, <1>3, <1>4, <1>5, <1>6, <1>7, <1>8 DEF HeapStep

LEMMA TStutter == ASSUME TInv, UNCHANGED textVars PROVE TInv'
<1>1. UNCHANGED <<hdr, chain, held, pc, cur, req>> /\ UNCHANGED vars
      /\ UNCHANGED client /\ at' = at /\ texts' = texts /\ pixels' = pixels
  BY DEF textVars, vars, client
<1>2. IInv'
  BY <1>1, StutterKeeps DEF TInv
<1>3. TextTypeOK' /\ EveryUsedHeld' /\ Grounded'
  BY <1>1, <1>2 DEF TInv, TextTypeOK, IInv, EveryUsedHeld, Grounded, Freeing, Holds, Entry
<1>4. pc # "fault" => Stage'
  <2>1. SUFFICES ASSUME pc # "fault" PROVE Stage'
    OBVIOUS
  <2>2. Stage
    BY <2>1 DEF TInv
  <2>3. Fresh' = Fresh
    BY <1>1 DEF Fresh
  <2>4. NoText => NoText'
    BY <1>1, SameBlocks DEF NoText, Freeing
  <2>5. \A s \in Slots : First(s) => First(s)'
    <3>1. ASSUME NEW s \in Slots, First(s) PROVE First(s)'
      <4>1. Links' /\ OnlyLastFree'
        BY <1>1, <3>1 DEF First, Links, OnlyLastFree, Freeing
      <4>2. Seat' = Seat /\ Fits(Seat)' = Fits(Seat)
        BY <1>1, SameBlocks DEF Fits, Padding, Data
      <4> QED BY <1>1, <3>1, <4>1, <4>2, SameBlocks DEF First, Roomy
    <3> QED BY <3>1
  <2>6. \A s, S : Asks(s, S) => Asks(s, S)'
    BY <1>1 DEF Asks
  <2>7. FirstText => FirstText'
    <3>1. SUFFICES ASSUME FirstText PROVE FirstText'
      OBVIOUS
    <3>2. PICK f \in Slots : f = Fresh
      BY Roles DEF TInv
    <3>3. First(Fresh)'
      BY <2>3, <2>5, <3>1, <3>2 DEF FirstText
    <3> QED BY <1>1, <2>3, <2>6, <3>1, <3>3, SameBlocks DEF FirstText
  <2>8. OldText => OldText'
    BY <1>1, <2>3, <2>6, SameBlocks DEF OldText
  <2>9. PixelsGone => PixelsGone'
    BY <1>1, <2>3, SameBlocks DEF PixelsGone, Freeing
  <2>10. ObjectGone => ObjectGone'
    BY <1>1, <2>3, SameBlocks DEF ObjectGone, Freeing
  <2>11. at = "made" /\ NewObject => NewObject'
    <3>1. SUFFICES ASSUME at = "made", NewObject PROVE NewObject'
      OBVIOUS
    <3>2. pixels \in Slots
      BY <2>2, <3>1, Roles DEF TInv, Stage
    <3>3. First(pixels) => First(pixels)'
      BY <1>1, <2>5, <3>2
    <3> QED BY <1>1, <2>6, <3>1, <3>3, SameBlocks DEF NewObject
  <2> QED BY <1>1, <2>2, <2>4, <2>7, <2>8, <2>9, <2>10, <2>11 DEF Stage
<1> QED BY <1>1, <1>2, <1>3, <1>4 DEF TInv, Roomy

LEMMA TNextKeeps == ASSUME TInv, OneAlignment, [ScopeNext]_textVars PROVE TInv'
<1>1. CASE NewPixels BY <1>1, NewPixelsKeeps
<1>2. CASE DeleteOldPixels BY <1>2, DeleteOldPixelsKeeps
<1>3. CASE DeleteOldObject BY <1>3, DeleteOldObjectKeeps
<1>4. CASE NoOldTexture BY <1>4, NoOldTextureKeeps
<1>5. CASE NewTexture BY <1>5, NewTextureKeeps
<1>6. CASE Panic BY <1>6, PanicKeeps
<1>7. CASE DestroyPixels BY <1>7, DestroyPixelsKeeps
<1>8. CASE DestroyObject BY <1>8, DestroyObjectKeeps
<1>9. CASE NewString BY <1>9, NewStringKeeps
<1>10. CASE HeapStep BY <1>10, HeapStepKeeps
<1>11. CASE SetTextReturns BY <1>11, SetTextReturnsKeeps
<1>12. CASE SetTextAgain BY <1>12, SetTextAgainKeeps
<1>13. CASE LeaveScope BY <1>13, LeaveScopeKeeps
<1>14. CASE UNCHANGED textVars BY <1>14, TStutter
<1> QED BY <1>1, <1>2, <1>3, <1>4, <1>5, <1>6, <1>7, <1>8, <1>9, <1>10, <1>11, <1>12, <1>13, <1>14
        DEF ScopeNext, TextNext

LEMMA ScopeInvariance == OneAlignment /\ ScopeSpec => []TInv
<1> SUFFICES ASSUME OneAlignment PROVE ScopeSpec => []TInv
  OBVIOUS
<1>1. TextInit => TInv
  BY InitTInv
<1>2. TInv /\ [ScopeNext]_textVars => TInv'
  BY TNextKeeps
<1> QED BY <1>1, <1>2, PTL DEF ScopeSpec

\* A step of setText, ~Text or the heap under them is a step of the abstract heap.
LEMMA TextStepMaps == TInv /\ TInv' /\ [ScopeNext]_textVars => [Abs!Next]_held
<1> SUFFICES ASSUME TInv, TInv', [ScopeNext]_textVars, held' # held PROVE Abs!Next
  OBVIOUS
<1>1. CASE \E s \in {Argument, Object, pixels} \ {0} : FreeCall(s)
  <2>1. PICK s \in Slots : FreeCall(s)
    BY <1>1, Roles DEF TInv
  <2> QED BY <2>1, FreeMaps DEF TInv
<1>2. CASE TakeAligned
  BY <1>2, TakeMaps DEF TInv
<1>3. TakeAligned \/ \E s \in {Argument, Object, pixels} \ {0} : FreeCall(s)
  <2>1. CASE DeleteOldPixels \/ DestroyPixels
    BY <2>1, Roles DEF DeleteOldPixels, DestroyPixels, Delete
  <2>2. CASE DeleteOldObject \/ DestroyObject \/ LeaveScope
    BY <2>2 DEF DeleteOldObject, DestroyObject, LeaveScope, Delete, Argument, Object
  <2>3. CASE HeapStep
    BY <2>3 DEF HeapStep, Walk, Pad, Fail, FreePrev, FreeMergeNext, FreeReturn
  <2>4. CASE NewPixels \/ NewTexture \/ NewString
    BY <2>4 DEF NewPixels, NewTexture, NewString, New, MallocAlignedCall
  <2> QED BY <2>1, <2>2, <2>3, <2>4
          DEF ScopeNext, TextNext, NoOldTexture, Panic, SetTextReturns, SetTextAgain, textVars, vars
<1> QED BY <1>1, <1>2, <1>3

-----------------------------------------------------------------------------
(* The theorems about setText and ~Text                                    *)

\* Whatever setText and ~Text take and give back, in any number of calls and
\* scopes, every link of the list points into the heap and no size wraps.
THEOREM TextTypesCorrect == OneAlignment /\ ScopeSpec => []TextTypeOK
<1>1. TInv => TextTypeOK
  BY DEF TInv
<1> QED BY <1>1, ScopeInvariance, PTL

\* The string, the pixels and the texture object that are there at one time
\* never share a byte with each other or with a header, although the deletes of
\* setText merge blocks by links that splits have left wrong.
THEOREM TextNewlyAllocated == OneAlignment /\ ScopeSpec => []NewlyAllocated
<1>1. TInv => IInv
  BY DEF TInv
<1> QED BY <1>1, ScopeInvariance, RegionsApart, PTL

\* When ~Text and ~string have run, the heap is the one block of init() again:
\* no order of sizes leaves a fragment behind.
THEOREM TextGivesAllBack == OneAlignment /\ ScopeSpec => []ScopeGivesAllBack
<1>1. TInv => ScopeGivesAllBack
  BY DEF TInv, Stage, NoText, ScopeGivesAllBack
<1> QED BY <1>1, ScopeInvariance, PTL

\* free() never writes through the null next of a last block, in a heap where
\* the first string, pixels and object leave a block behind them.
THEOREM TextNeverFaults == OneAlignment /\ Roomy /\ ScopeSpec => []NoFault
<1> SUFFICES ASSUME Roomy PROVE OneAlignment /\ ScopeSpec => []NoFault
  OBVIOUS
<1>1. TInv => NoFault
  BY DEF TInv, NoFault
<1> QED BY <1>1, ScopeInvariance, PTL

\* To the text the block list is the heap that memory.hpp describes.
THEOREM TextHeapImplements == OneAlignment /\ ScopeSpec => AbsSpec
<1>1. TextInit => Abs!Init
  BY DEF TextInit, Init, Abs!Init, EmptySlot, Abs!EmptySlot, Null, Abs!Null
<1> QED BY <1>1, TextStepMaps, ScopeInvariance, PTL DEF ScopeSpec, Abs!Spec, AbsSpec
=============================================================================
