---------------------------- MODULE TextureProofs ----------------------------
(***************************************************************************)
(* Theorems about Texture for any number of textures, blocks and files and *)
(* every size: who owns which block, and what is in reach behind it.       *)
(***************************************************************************)
EXTENDS Texture, TLAPS

Records == [base : Blocks \cup Files, at : Nat, width : Nat, height : Nat,
            upsideDown : BOOLEAN, holdingUniqueData : BOOLEAN]
Entries == [size : Nat, content : {"pixels", "anything"}]

TextureTypes ==
  /\ textures \in [Slots -> Records \cup {None}]
  /\ Live \subseteq Blocks /\ heap \in [Live -> Entries]
  /\ badDelete = FALSE /\ panicked \in BOOLEAN

\* A texture over a block has a live one, as large as its pixels; only such a
\* texture holds unique data.
Seated(h, t) ==
  /\ t.holdingUniqueData => t.base \in Blocks
  /\ t.base \in Blocks => t.base \in DOMAIN h /\ t.at = 0 /\ h[t.base].size = DataSize(t)

\* A texture over a file begins where its format says.
Borrowed(t) ==
  t.base \in Files =>
    /\ t.width = t.base.width /\ t.height = t.base.height
    /\ (t.base.format = "bmp" /\ t.at = t.base.offset) \/ t.base.format = "gob"

AllSeated == \A s \in Slots : textures[s] # None => Seated(heap, textures[s]) /\ Borrowed(textures[s])

Apart ==
  \A s, r \in Slots :
    s # r /\ textures[s] # None /\ textures[r] # None /\ textures[s].base \in Blocks
      => textures[s].base # textures[r].base

TextureInv == TextureTypes /\ AllSeated /\ Apart

-----------------------------------------------------------------------------
LEMMA SizeInNat ==
  ASSUME NEW width \in Nat, NEW height \in Nat
  PROVE  4 * width * height \in Nat
OBVIOUS

\* A new block leaves the others as they were.
LEMMA NewBlockAdded ==
  ASSUME TextureTypes, NEW b, NewBlock(b), NEW size \in Nat, NEW content \in {"pixels", "anything"}
  PROVE  /\ With(b, size, content) \in [Live \cup {b} -> Entries]
         /\ DOMAIN With(b, size, content) = Live \cup {b} /\ Live \cup {b} \subseteq Blocks
         /\ With(b, size, content)[b].size = size
         /\ \A c \in Live : With(b, size, content)[c] = heap[c]
<1>1. [size |-> size, content |-> content] \in Entries
  BY DEF Entries
<1>2. \A c \in Live : heap[c] \in Entries
  BY DEF TextureTypes
<1> QED BY <1>1, <1>2 DEF With, TextureTypes, NewBlock, Live

\* A step that puts t into one slot and takes no block from another keeps all.
LEMMA AssignKeeps ==
  ASSUME TextureInv, NEW s \in Slots, NEW t \in Records \cup {None},
         textures' = [textures EXCEPT ![s] = t],
         heap' \in [Live' -> Entries], Live' \subseteq Blocks,
         \A r \in Slots : /\ r # s /\ textures[r] # None /\ textures[r].base \in Live
                          => /\ textures[r].base \in Live'
                             /\ heap'[textures[r].base].size = heap[textures[r].base].size,
         t # None => Seated(heap', t) /\ Borrowed(t),
         t # None /\ t.base \in Blocks =>
           \A r \in Slots : r # s /\ textures[r] # None => textures[r].base # t.base,
         badDelete' = FALSE, panicked' \in BOOLEAN
  PROVE  TextureInv'
<1>1. TextureTypes'
  BY DEF TextureInv, TextureTypes
<1>2. AllSeated'
  BY DEF TextureInv, TextureTypes, AllSeated, Seated, Live
<1>3. Apart'
  BY DEF TextureInv, TextureTypes, Apart
<1> QED BY <1>1, <1>2, <1>3 DEF TextureInv

LEMMA TextureInitInv == TextureInit => TextureInv
BY DEF TextureInit, TextureInv, TextureTypes, AllSeated, Apart, Live, Entries

\* A texture over a new block has it and shares it with none.
LEMMA FreshTexture ==
  ASSUME TextureTypes, AllSeated, NEW b, NewBlock(b), NEW t \in Records, t.base = b, t.at = 0
  PROVE  /\ t # None /\ Borrowed(t) /\ DataSize(t) \in Nat
         /\ \A r \in Slots : textures[r] # None => textures[r].base # b
         /\ \A h : b \in DOMAIN h /\ h[b].size = DataSize(t) => Seated(h, t)
<1>1. b \in Blocks /\ b \notin Live /\ b \notin Files
  BY TextureAssumption DEF NewBlock
<1>2. t # None
  BY TextureAssumption DEF Records
<1>3. DataSize(t) \in Nat
  BY SizeInNat DEF DataSize, Records
<1>4. \A r \in Slots : textures[r] # None => textures[r].base # b
  BY <1>1 DEF TextureTypes, AllSeated, Seated, Live
<1> QED BY <1>1, <1>2, <1>3, <1>4 DEF Borrowed, Seated

LEMMA OverNewBlock ==
  ASSUME TextureInv, NEW s \in Slots, NEW b, NewBlock(b), NEW t \in Records, t.base = b, t.at = 0,
         NEW content \in {"pixels", "anything"}, heap' = With(b, DataSize(t), content),
         Assign(s, t), UNCHANGED badDelete
  PROVE  TextureInv'
<1>1. TextureTypes /\ AllSeated
  BY DEF TextureInv
<1>2. /\ t # None /\ Borrowed(t) /\ DataSize(t) \in Nat
      /\ \A r \in Slots : textures[r] # None => textures[r].base # b
      /\ \A h : b \in DOMAIN h /\ h[b].size = DataSize(t) => Seated(h, t)
  BY <1>1, FreshTexture
<1>3. PICK size \in Nat : size = DataSize(t)
  BY <1>2
<1>7. heap' = With(b, size, content)
  BY <1>3
<1>8. /\ With(b, size, content) \in [Live \cup {b} -> Entries]
      /\ DOMAIN With(b, size, content) = Live \cup {b} /\ Live \cup {b} \subseteq Blocks
      /\ With(b, size, content)[b].size = size
      /\ \A c \in Live : With(b, size, content)[c] = heap[c]
  <2>0. TextureTypes /\ NewBlock(b) /\ size \in Nat /\ content \in {"pixels", "anything"}
    BY <1>1
  <2>1. With(b, size, content) \in [Live \cup {b} -> Entries]
    BY <2>0, NewBlockAdded
  <2>2. DOMAIN With(b, size, content) = Live \cup {b} /\ Live \cup {b} \subseteq Blocks
    BY <2>0, NewBlockAdded
  <2>3. With(b, size, content)[b].size = size
    BY <2>0, NewBlockAdded
  <2>4. \A c \in Live : With(b, size, content)[c] = heap[c]
    BY <2>0, NewBlockAdded
  <2> QED BY <2>1, <2>2, <2>3, <2>4
<1>4. /\ heap' \in [Live \cup {b} -> Entries] /\ DOMAIN heap' = Live \cup {b} /\ Live \cup {b} \subseteq Blocks
      /\ heap'[b].size = size /\ \A c \in Live : heap'[c] = heap[c]
  BY <1>7, <1>8
<1>5. Seated(heap', t)
  BY <1>2, <1>3, <1>4
<1>6. badDelete' = FALSE /\ panicked' \in BOOLEAN /\ textures' = [textures EXCEPT ![s] = t]
  BY <1>1 DEF Assign, TextureTypes
<1> QED BY <1>2, <1>4, <1>5, <1>6, AssignKeeps DEF Live

LEMMA AdoptCreateStep ==
  ASSUME TextureInv, NEW s \in Slots, NEW b \in Blocks, NEW width \in Sides, NEW height \in Sides,
         Adopt(s, b, width, height) \/ Create(s, b, width, height)
  PROVE  TextureInv'
<1>1. PICK t : t = TextureOver(b, 0, width, height, FALSE, TRUE)
  OBVIOUS
<1>2. t \in Records /\ t.base = b /\ t.at = 0
  BY <1>1, TextureAssumption DEF TextureOver, Records
<1>3. DataSize(t) = 4 * width * height
  BY <1>1 DEF TextureOver, DataSize
<1>4. PICK content \in {"pixels", "anything"} : heap' = With(b, DataSize(t), content)
  BY <1>3 DEF Adopt, Create
<1>5. NewBlock(b) /\ Assign(s, t) /\ UNCHANGED badDelete
  BY <1>1 DEF Adopt, Create
<1> QED BY <1>2, <1>4, <1>5, OverNewBlock

LEMMA FromFileStep ==
  ASSUME TextureInv, NEW s \in Slots, NEW f \in Files, FromGob(s, f) \/ FromBmp(s, f)
  PROVE  TextureInv'
<1>1. TextureTypes /\ UNCHANGED <<heap, badDelete>> /\ f \notin Blocks /\ f.width \in Nat /\ f.height \in Nat /\ f.offset \in Nat
  BY TextureAssumption DEF TextureInv, FromGob, FromBmp
<1>2. CASE panicked' = TRUE /\ UNCHANGED textures
  BY <1>1, <1>2 DEF TextureInv, TextureTypes, AllSeated, Apart, Live
<1>3. ASSUME NEW at \in Nat, NEW upsideDown \in BOOLEAN,
             (f.format = "bmp" /\ at = f.offset) \/ f.format = "gob",
             Assign(s, TextureOver(f, at, f.width, f.height, upsideDown, FALSE))
      PROVE  TextureInv'
  <2> DEFINE t == TextureOver(f, at, f.width, f.height, upsideDown, FALSE)
  <2>1. /\ t \in Records /\ t.base = f /\ t.at = at /\ t.width = f.width /\ t.height = f.height
        /\ ~t.holdingUniqueData
    BY <1>1 DEF TextureOver, Records
  <2>2. Borrowed(t) /\ Seated(heap, t)
    BY <1>1, <1>3, <2>1 DEF Borrowed, Seated
  <2>3. /\ badDelete' = FALSE /\ panicked' \in BOOLEAN /\ textures' = [textures EXCEPT ![s] = t]
        /\ heap' \in [Live' -> Entries] /\ Live' \subseteq Blocks /\ Live' = Live
    BY <1>1, <1>3 DEF Assign, TextureTypes, Live
  <2> HIDE DEF t
  <2> QED BY <1>1, <2>1, <2>2, <2>3, AssignKeeps
<1>4. CASE FromGob(s, f)
  <2>1. HeaderSize + 1 \in Nat
    BY DEF HeaderSize
  <2> QED BY <1>3, <1>4, <2>1 DEF FromGob
<1>5. CASE FromBmp(s, f)
  <2>1. CASE f.header # 56
    BY <1>2, <1>5, <2>1 DEF FromBmp
  <2>2. CASE f.header = 56
    <3>1. f.format = "bmp" /\ Assign(s, TextureOver(f, f.offset, f.width, f.height, TRUE, FALSE))
      BY <1>5, <2>2 DEF FromBmp, BmpPixels
    <3> QED BY <1>1, <1>3, <3>1
  <2> QED BY <2>1, <2>2
<1> QED BY <1>4, <1>5

\* What is in a slot that holds a texture.
LEMMA HeldTexture ==
  ASSUME TextureInv, NEW s \in Slots, Holds(s), NEW t, t = textures[s]
  PROVE  /\ t \in Records /\ t # None /\ Seated(heap, t)
         /\ t.holdingUniqueData => t.base \in Live
         /\ \A r \in Slots : r # s /\ textures[r] # None /\ t.base \in Blocks => textures[r].base # t.base
         /\ ContentOf(t.base) \in {"pixels", "anything"}
<1>1. t \in Records /\ t # None /\ Seated(heap, t)
  BY DEF TextureInv, TextureTypes, AllSeated, Holds
<1>2. t.holdingUniqueData => t.base \in Live
  BY <1>1 DEF Seated, Live
<1>3. \A r \in Slots : r # s /\ textures[r] # None /\ t.base \in Blocks => textures[r].base # t.base
  BY DEF TextureInv, Apart, Holds
<1>4. ContentOf(t.base) \in {"pixels", "anything"}
  BY DEF TextureInv, TextureTypes, Entries, ContentOf
<1> QED BY <1>1, <1>2, <1>3, <1>4

LEMMA UpdateStep ==
  ASSUME TextureInv, NEW s \in Slots, NEW b \in Blocks, Update(s, b)
  PROVE  TextureInv'
<1>1. PICK t : t = textures[s]
  OBVIOUS
<1>2. /\ TextureTypes /\ Holds(s) /\ t \in Records /\ t # None /\ Seated(heap, t)
      /\ t.holdingUniqueData => t.base \in Live
  BY <1>1, HeldTexture DEF TextureInv, Update
<1>3. CASE t.holdingUniqueData
  <2>1. /\ heap' = [c \in Live |-> IF c = t.base THEN [heap[c] EXCEPT !.content = "pixels"] ELSE heap[c]]
        /\ UNCHANGED <<textures, panicked, badDelete>>
    BY <1>1, <1>3 DEF Update
  <2>2. \A c \in Live : [heap[c] EXCEPT !.content = "pixels"] \in Entries /\ heap[c] \in Entries
                        /\ [heap[c] EXCEPT !.content = "pixels"].size = heap[c].size
    BY <1>2 DEF TextureTypes, Entries
  <2>3. /\ heap' \in [Live -> Entries] /\ DOMAIN heap' = Live
        /\ \A c \in Live : heap'[c].size = heap[c].size
    BY <2>1, <2>2
  <2>4. TextureTypes'
    BY <1>2, <2>1, <2>3 DEF TextureTypes, Live
  <2>5. AllSeated' /\ Apart'
    BY <2>1, <2>3 DEF TextureInv, AllSeated, Apart, Seated, Live
  <2> QED BY <2>4, <2>5 DEF TextureInv
<1>4. CASE ~t.holdingUniqueData
  <2>1. PICK u : u = [t EXCEPT !.base = b, !.at = 0]
    OBVIOUS
  <2>2. u \in Records /\ u.base = b /\ u.at = 0 /\ u.width = t.width /\ u.height = t.height
    BY <1>2, <2>1 DEF Records
  <2>3. DataSize(u) = DataSize(t)
    BY <2>2 DEF DataSize
  <2>4. NewBlock(b) /\ heap' = With(b, DataSize(t), "pixels") /\ Assign(s, u) /\ UNCHANGED badDelete
    BY <1>1, <1>4, <2>1 DEF Update
  <2>5. heap' = With(b, DataSize(u), "pixels")
    BY <2>3, <2>4
  <2> QED BY <2>2, <2>4, <2>5, OverNewBlock
<1> QED BY <1>3, <1>4

LEMMA ResizeStep ==
  ASSUME TextureInv, NEW s \in Slots, NEW b \in Blocks, NEW width \in Sides, NEW height \in Sides,
         Resize(s, b, width, height)
  PROVE  TextureInv'
<1>1. PICK t : t = textures[s]
  OBVIOUS
<1>2. PICK content : content = ContentOf(t.base)
  OBVIOUS
<1>3. /\ TextureTypes /\ AllSeated /\ NewBlock(b) /\ Holds(s) /\ t \in Records
      /\ t.holdingUniqueData => t.base \in Live
      /\ \A r \in Slots : r # s /\ textures[r] # None /\ t.base \in Blocks => textures[r].base # t.base
      /\ content \in {"pixels", "anything"}
  BY <1>1, <1>2, HeldTexture DEF TextureInv, Resize
<1>4. PICK u : u = Resized(t, b, width, height)
  OBVIOUS
<1>5. u \in Records /\ u.base = b /\ u.at = 0 /\ u.width = width /\ u.height = height
  BY <1>3, <1>4, TextureAssumption DEF Resized, Records
<1>6. PICK size : size = 4 * width * height
  OBVIOUS
<1>7. size = DataSize(u)
  BY <1>5, <1>6 DEF DataSize
<1>8. /\ u # None /\ Borrowed(u) /\ size \in Nat
      /\ \A r \in Slots : textures[r] # None => textures[r].base # b
      /\ \A h : b \in DOMAIN h /\ h[b].size = size => Seated(h, u)
  BY <1>3, <1>5, <1>7, FreshTexture
<1>9. PICK grown : grown = With(b, size, content)
  OBVIOUS
<1>10. /\ heap' = IF Drops(t) THEN Without(grown, t.base) ELSE grown
       /\ badDelete' = (badDelete \/ (Drops(t) /\ t.base \notin Live))
       /\ Assign(s, u)
  BY <1>1, <1>2, <1>4, <1>6, <1>9 DEF Resize
<1>11. badDelete' = FALSE /\ panicked' \in BOOLEAN /\ textures' = [textures EXCEPT ![s] = u]
  BY <1>3, <1>10 DEF Assign, TextureTypes, Drops
<1>12. grown \in [Live \cup {b} -> Entries] /\ DOMAIN grown = Live \cup {b} /\ Live \cup {b} \subseteq Blocks
  BY <1>3, <1>8, <1>9, NewBlockAdded
<1>13. grown[b].size = size
  BY <1>3, <1>8, <1>9, NewBlockAdded
<1>14. \A c \in Live : grown[c] = heap[c]
  BY <1>3, <1>9 DEF With, NewBlock
<1>15. CASE ~t.holdingUniqueData
  <2>1. heap' = grown
    BY <1>10, <1>15 DEF Drops
  <2>2. heap' \in [Live' -> Entries] /\ Live' \subseteq Blocks /\ Live' = Live \cup {b} /\ Seated(heap', u)
    BY <1>8, <1>12, <1>13, <2>1 DEF Live
  <2> QED BY <1>5, <1>8, <1>11, <1>14, <2>1, <2>2, AssignKeeps
<1>16. CASE t.holdingUniqueData
  <2>1. heap' = Without(grown, t.base) /\ t.base \in Live /\ t.base # b /\ t.base \in Blocks
    BY <1>3, <1>10, <1>16 DEF Drops, NewBlock, TextureTypes
  <2>2. /\ heap' \in [(Live \cup {b}) \ {t.base} -> Entries] /\ DOMAIN heap' = (Live \cup {b}) \ {t.base}
        /\ \A c \in (Live \cup {b}) \ {t.base} : heap'[c] = grown[c]
    <3>1. PICK base : base = t.base
      OBVIOUS
    <3>2. heap' = Without(grown, base)
      BY <2>1, <3>1
    <3>3. /\ heap' \in [(Live \cup {b}) \ {base} -> Entries] /\ DOMAIN heap' = (Live \cup {b}) \ {base}
          /\ \A c \in (Live \cup {b}) \ {base} : heap'[c] = grown[c]
      BY <1>12, <3>2 DEF Without
    <3> QED BY <3>1, <3>3
  <2>3. /\ heap' \in [Live' -> Entries] /\ Live' \subseteq Blocks /\ Live' = (Live \cup {b}) \ {t.base}
        /\ Seated(heap', u)
    BY <1>8, <1>12, <1>13, <2>1, <2>2 DEF Live
  <2>4. \A r \in Slots : /\ r # s /\ textures[r] # None /\ textures[r].base \in Live
                        => /\ textures[r].base \in Live'
                           /\ heap'[textures[r].base].size = heap[textures[r].base].size
    BY <1>3, <1>14, <2>1, <2>2, <2>3
  <2> QED BY <1>5, <1>8, <1>11, <2>3, <2>4, AssignKeeps
<1> QED BY <1>15, <1>16

LEMMA DestroyStep ==
  ASSUME TextureInv, NEW s \in Slots, Destroy(s)
  PROVE  TextureInv'
<1>1. PICK t : t = textures[s]
  OBVIOUS
<1>2. /\ TextureTypes /\ t \in Records
      /\ t.holdingUniqueData => t.base \in Live /\ t.base \in Blocks
      /\ \A r \in Slots : r # s /\ textures[r] # None /\ t.base \in Blocks => textures[r].base # t.base
  BY <1>1, HeldTexture DEF TextureInv, Destroy, TextureTypes
<1>3. badDelete' = FALSE /\ panicked' \in BOOLEAN /\ textures' = [textures EXCEPT ![s] = None]
  BY <1>1, <1>2 DEF Destroy, Assign, TextureTypes, Destroys
<1>4. CASE ~t.holdingUniqueData
  <2>1. heap' = heap /\ Live' = Live
    BY <1>1, <1>4 DEF Destroy, Destroys, Live
  <2> QED BY <1>2, <1>3, <2>1, AssignKeeps DEF TextureTypes
<1>5. CASE t.holdingUniqueData
  <2>1. heap' = Without(heap, t.base)
    BY <1>1, <1>5 DEF Destroy, Destroys
  <2>2. /\ heap' \in [Live \ {t.base} -> Entries] /\ DOMAIN heap' = Live \ {t.base}
        /\ \A c \in Live \ {t.base} : heap'[c] = heap[c]
    <3>1. PICK base : base = t.base
      OBVIOUS
    <3>2. heap' = Without(heap, base) /\ heap \in [Live -> Entries] /\ DOMAIN heap = Live
      BY <1>2, <2>1, <3>1 DEF TextureTypes, Live
    <3>3. /\ heap' \in [Live \ {base} -> Entries] /\ DOMAIN heap' = Live \ {base}
          /\ \A c \in Live \ {base} : heap'[c] = heap[c]
      BY <3>2 DEF Without
    <3> QED BY <3>1, <3>3
  <2>3. heap' \in [Live' -> Entries] /\ Live' \subseteq Blocks /\ Live' = Live \ {t.base}
    BY <1>2, <2>2 DEF Live, TextureTypes
  <2>4. \A r \in Slots : /\ r # s /\ textures[r] # None /\ textures[r].base \in Live
                        => /\ textures[r].base \in Live'
                           /\ heap'[textures[r].base].size = heap[textures[r].base].size
    BY <1>2, <1>5, <2>2, <2>3
  <2> QED BY <1>3, <2>3, <2>4, AssignKeeps
<1> QED BY <1>4, <1>5

LEMMA ExhaustedStep == TextureInv /\ Exhausted => TextureInv'
BY DEF TextureInv, Exhausted, TextureTypes, AllSeated, Seated, Borrowed, Apart, Live

LEMMA TextureStutterStep == TextureInv /\ UNCHANGED textureVars => TextureInv'
BY DEF TextureInv, textureVars, TextureTypes, AllSeated, Seated, Borrowed, Apart, Live

LEMMA TextureInvStep == TextureInv /\ [TextureNext]_textureVars => TextureInv'
BY AdoptCreateStep, FromFileStep, UpdateStep, ResizeStep, DestroyStep, ExhaustedStep, TextureStutterStep
   DEF TextureNext

\* Who owns what, after any sequence of the operations.
THEOREM OwnershipInvariant == TextureSpec => []TextureInv
BY TextureInitInv, TextureInvStep, PTL DEF TextureSpec

LEMMA TextureTypeOKHolds == TextureInv => TextureTypeOK
BY DEF TextureInv, TextureTypes, Records, Entries, TextureTypeOK

\* Every variable keeps its type.
THEOREM TextureTypesCorrect == TextureSpec => []TextureTypeOK
BY TextureTypeOKHolds, OwnershipInvariant, PTL

LEMMA DeletesLiveHolds == TextureInv => DeletesLive
BY DEF TextureInv, TextureTypes, DeletesLive

\* Whatever is resized, updated or destroyed, only a live block is deleted.
THEOREM NeverDeletesDead == TextureSpec => []DeletesLive
BY DeletesLiveHolds, OwnershipInvariant, PTL

LEMMA ExclusiveHolds == TextureInv => Exclusive
BY DEF TextureInv, TextureTypes, Apart, Exclusive

\* Two textures never share a block of the heap.
THEOREM NeverShares == TextureSpec => []Exclusive
BY ExclusiveHolds, OwnershipInvariant, PTL

\* Without images of the format of the font, pixels are always in reach.
THEOREM PixelsInReach ==
  ASSUME \A f \in Files : f.format = "bmp"
  PROVE  TextureSpec => []DataFits
<1>1. ASSUME TextureInv, NEW t \in Textures
      PROVE  t.base \in Live \cup Files /\ t.at + DataSize(t) <= SizeOf(t.base)
  <2>1. t \in Records /\ Seated(heap, t) /\ Borrowed(t)
    BY <1>1 DEF TextureInv, TextureTypes, AllSeated, Textures
  <2>2. DataSize(t) \in Nat
    BY <2>1, SizeInNat DEF DataSize, Records
  <2>3. CASE t.base \in Blocks
    BY <2>1, <2>2, <2>3 DEF Seated, SizeOf, Live
  <2>4. CASE t.base \in Files
    <3>1. t.base \notin Live
      BY <1>1, <2>4, TextureAssumption DEF TextureInv, TextureTypes
    <3>2. PICK f \in Files : f = t.base
      BY <2>4
    <3>3. t.at = f.offset /\ DataSize(t) = 4 * f.width * f.height /\ f.format = "bmp"
      BY <2>1, <3>2 DEF Borrowed, DataSize
    <3> QED BY <3>1, <3>2, <3>3, TextureAssumption DEF SizeOf
  <2> QED BY <2>1, <2>3, <2>4 DEF Records
<1>2. TextureInv => DataFits
  BY <1>1 DEF DataFits
<1> QED BY <1>2, OwnershipInvariant, PTL

\* Slots that keep their texture keep its block.
LEMMA OwnedKept ==
  ASSUME TextureTypes, NEW s \in Slots, NEW t, textures' = [textures EXCEPT ![s] = t],
         NEW H, \/ textures[s] = None \/ ~textures[s].holdingUniqueData
                \/ textures[s].base \notin H
                \/ t # None /\ t.holdingUniqueData /\ t.base = textures[s].base
  PROVE  OwnedBy(textures) \cap H \subseteq OwnedBy(textures')
<1> SUFFICES ASSUME NEW r \in Slots, textures[r] # None, textures[r].holdingUniqueData,
                    textures[r].base \in H
             PROVE  textures[r].base \in OwnedBy(textures')
  BY DEF OwnedBy
<1>1. CASE r = s
  BY <1>1 DEF OwnedBy, TextureTypes
<1>2. CASE r # s
  BY <1>2 DEF OwnedBy, TextureTypes
<1> QED BY <1>1, <1>2

\* A block of which a texture holds the only copy is never lost.
THEOREM OwnersNeverLose == TextureSpec => [][OwnersFree]_textureVars
<1> DEFINE Kept == OwnedBy(textures) \cap DOMAIN heap' \subseteq OwnedBy(textures')
<1>1. ASSUME UNCHANGED textures PROVE Kept
  BY <1>1 DEF OwnedBy
<1>2. ASSUME TextureInv, NEW s \in Slots, NEW b \in Blocks, NEW width \in Sides, NEW height \in Sides,
             Adopt(s, b, width, height) \/ Create(s, b, width, height)
      PROVE  Kept
  BY <1>2, OwnedKept DEF Adopt, Create, Assign, Vacant, TextureInv
<1>3. ASSUME TextureInv, NEW s \in Slots, NEW f \in Files, FromGob(s, f) \/ FromBmp(s, f)
      PROVE  Kept
  <2>1. PICK t : UNCHANGED textures \/ (textures[s] = None /\ textures' = [textures EXCEPT ![s] = t])
    BY <1>3 DEF FromGob, FromBmp, Assign, Vacant
  <2>2. TextureTypes
    BY <1>3 DEF TextureInv
  <2> QED BY <1>1, <2>1, <2>2, OwnedKept
<1>4. ASSUME TextureInv, NEW s \in Slots, NEW b \in Blocks, Update(s, b)
      PROVE  Kept
  BY <1>1, <1>4, OwnedKept DEF Update, Assign, TextureInv
<1>5. ASSUME TextureInv, NEW s \in Slots, NEW b \in Blocks, NEW width \in Sides, NEW height \in Sides,
             Resize(s, b, width, height)
      PROVE  Kept
  <2>1. textures[s].holdingUniqueData => textures[s].base \notin DOMAIN heap'
    BY <1>5 DEF Resize, Drops, Without
  <2> QED BY <1>5, <2>1, OwnedKept DEF Resize, Assign, TextureInv
<1>6. ASSUME TextureInv, NEW s \in Slots, Destroy(s)
      PROVE  Kept
  <2>1. textures[s].holdingUniqueData => textures[s].base \notin DOMAIN heap'
    BY <1>6 DEF Destroy, Destroys, Without
  <2> QED BY <1>6, <2>1, OwnedKept DEF Destroy, Assign, TextureInv
<1>7. TextureInv /\ [TextureNext]_textureVars => [Kept]_textureVars
  BY <1>1, <1>2, <1>3, <1>4, <1>5, <1>6 DEF TextureNext, Exhausted, textureVars
<1>8. TextureInv /\ [TextureNext]_textureVars => [OwnersFree]_textureVars
  BY <1>7 DEF OwnersFree
<1> QED BY <1>8, OwnershipInvariant, PTL DEF TextureSpec

\* A texture that keeps its block keeps what the block shows.
LEMMA SlotKept ==
  ASSUME TextureInv, NEW r \in Slots, UNCHANGED textures[r], Live' \subseteq Live \cup Blocks,
         \A b \in Live \cap Live' : heap'[b].content = heap[b].content \/ heap'[b].content = "pixels"
  PROVE  ShowsPixels(textures[r]) => ShowsPixels(textures[r])'
<1> SUFFICES ASSUME ShowsPixels(textures[r]), textures[r].base \in Live'
             PROVE  heap'[textures[r].base].content = "pixels"
  BY DEF ShowsPixels, Live
<1>1. textures[r] # None
  BY DEF ShowsPixels
<1>2. textures[r] \in Records /\ Seated(heap, textures[r]) /\ Live \subseteq Blocks
  BY <1>1 DEF TextureInv, TextureTypes, AllSeated
<1>3. textures[r].base \in Blocks
  BY <1>2, TextureAssumption
<1>4. textures[r].base \in Live
  BY <1>2, <1>3 DEF Seated, Live
<1>5. heap[textures[r].base].content = "pixels"
  BY <1>4 DEF ShowsPixels
<1> QED BY <1>4, <1>5

\* A texture that shows pixels never comes to show what an earlier owner of its
\* block has left: update() fills what it allocates, resize() copies.
THEOREM PixelsAlwaysShown == TextureSpec => [][KeepsPixels]_textureVars
<1> DEFINE Kept(r) == ShowsPixels(textures[r]) /\ textures'[r] # None => ShowsPixels(textures[r])'
           Copied == \A b \in Live \cap Live' : \/ heap'[b].content = heap[b].content
                                                \/ heap'[b].content = "pixels"
<1>1. ASSUME TextureInv, NEW s \in Slots, NEW t, Assign(s, t), Live' \subseteq Live \cup Blocks, Copied,
             ShowsPixels(textures[s]) /\ t # None => (t.base \in Live' => heap'[t.base].content = "pixels"),
             NEW r \in Slots
      PROVE  Kept(r)
  <2>1. CASE r = s
    BY <1>1, <2>1 DEF TextureInv, TextureTypes, Assign, ShowsPixels, Live
  <2>2. CASE r # s
    BY <1>1, <2>2, SlotKept DEF TextureInv, TextureTypes, Assign
  <2> QED BY <2>1, <2>2
<1>2. ASSUME TextureInv, UNCHANGED textures, Live' \subseteq Live \cup Blocks, Copied, NEW r \in Slots
      PROVE  Kept(r)
  BY <1>2, SlotKept
<1>3. ASSUME TextureInv, NEW s \in Slots, NEW b \in Blocks, NEW width \in Sides, NEW height \in Sides,
             Adopt(s, b, width, height) \/ Create(s, b, width, height), NEW r \in Slots
      PROVE  Kept(r)
  <2>1. PICK t : Assign(s, t)
    BY <1>3 DEF Adopt, Create
  <2>2. Live' \subseteq Live \cup Blocks /\ Copied
    BY <1>3 DEF Adopt, Create, With, NewBlock, Live
  <2>3. ~ShowsPixels(textures[s])
    BY <1>3 DEF Adopt, Create, Vacant, ShowsPixels
  <2> QED BY <1>1, <1>3, <2>1, <2>2, <2>3
<1>4. ASSUME TextureInv, NEW s \in Slots, NEW f \in Files, FromGob(s, f) \/ FromBmp(s, f), NEW r \in Slots
      PROVE  Kept(r)
  <2>1. PICK t : UNCHANGED textures \/ Assign(s, t)
    BY <1>4 DEF FromGob, FromBmp
  <2>2. Live' \subseteq Live \cup Blocks /\ Copied
    BY <1>4 DEF FromGob, FromBmp, Live
  <2>3. ~ShowsPixels(textures[s])
    BY <1>4 DEF FromGob, FromBmp, Vacant, ShowsPixels
  <2> QED BY <1>1, <1>2, <1>4, <2>1, <2>2, <2>3
<1>5. ASSUME TextureInv, NEW s \in Slots, NEW b \in Blocks, Update(s, b), NEW r \in Slots
      PROVE  Kept(r)
  <2>1. CASE textures[s].holdingUniqueData
    <3>1. Live' \subseteq Live \cup Blocks /\ Copied /\ UNCHANGED textures
      BY <1>5, <2>1 DEF Update, Live, TextureInv, TextureTypes, Entries
    <3> QED BY <1>2, <1>5, <3>1
  <2>2. CASE ~textures[s].holdingUniqueData
    <3> DEFINE t == [textures[s] EXCEPT !.base = b, !.at = 0]
    <3>1. Assign(s, t) /\ Live' \subseteq Live \cup Blocks /\ Copied
      BY <1>5, <2>2 DEF Update, With, NewBlock, Live
    <3>2. textures[s] \in Records
      BY <1>5 DEF Update, Holds, TextureInv, TextureTypes
    <3>3. t.base = b
      BY <3>2 DEF Records
    <3>4. heap'[b].content = "pixels"
      BY <1>5, <2>2 DEF Update, With
    <3> HIDE DEF t
    <3> QED BY <1>1, <1>5, <3>1, <3>3, <3>4
  <2> QED BY <2>1, <2>2
<1>6. ASSUME TextureInv, NEW s \in Slots, NEW b \in Blocks, NEW width \in Sides, NEW height \in Sides,
             Resize(s, b, width, height), NEW r \in Slots
      PROVE  Kept(r)
  <2> DEFINE t == Resized(textures[s], b, width, height)
             grown == With(b, 4 * width * height, ContentOf(textures[s].base))
  <2>1. /\ Assign(s, t) /\ NewBlock(b) /\ Holds(s)
        /\ (heap' = grown \/ heap' = Without(grown, textures[s].base))
    BY <1>6 DEF Resize
  <2>2. Live' \subseteq Live \cup Blocks /\ Copied
    BY <2>1 DEF With, Without, NewBlock, Live
  <2>3. textures[s] \in Records /\ Seated(heap, textures[s]) /\ Live \subseteq Blocks
    BY <1>6, <2>1 DEF Holds, TextureInv, TextureTypes, AllSeated
  <2>4. t.base = b
    BY <2>3 DEF Records, Resized
  <2>5. ASSUME ShowsPixels(textures[s]), b \in Live'
        PROVE  heap'[b].content = "pixels"
    <3>1. ContentOf(textures[s].base) = "pixels"
      BY <2>5 DEF ShowsPixels, ContentOf
    <3>2. grown[b].content = "pixels"
      BY <3>1 DEF With
    <3> HIDE DEF grown
    <3>3. CASE heap' = Without(grown, textures[s].base)
      BY <2>5, <3>2, <3>3 DEF Without, Live
    <3> QED BY <2>1, <3>2, <3>3
  <2> HIDE DEF t
  <2> QED BY <1>1, <1>6, <2>1, <2>2, <2>4, <2>5
<1>7. ASSUME TextureInv, NEW s \in Slots, Destroy(s), NEW r \in Slots
      PROVE  Kept(r)
  <2>1. Assign(s, None) /\ Live' \subseteq Live \cup Blocks /\ Copied
    BY <1>7 DEF Destroy, Without, Live
  <2> QED BY <1>1, <1>7, <2>1
<1>8. ASSUME TextureInv, Exhausted \/ UNCHANGED textureVars, NEW r \in Slots
      PROVE  Kept(r)
  BY <1>2, <1>8 DEF Exhausted, textureVars, Live
<1>9. TextureInv /\ [TextureNext]_textureVars => [KeepsPixels]_textureVars
  BY <1>3, <1>4, <1>5, <1>6, <1>7, <1>8 DEF TextureNext, KeepsPixels
<1> QED BY <1>9, OwnershipInvariant, PTL DEF TextureSpec

\* What a texture owns and shows it keeps, whatever happens to the others.
THEOREM PixelsAlwaysKept == TextureSpec => PixelsKept
BY OwnersNeverLose, PixelsAlwaysShown, PTL DEF PixelsKept

\* Without images of the format of the font, every texture has its pixels in
\* reach and, on the heap, for itself.
THEOREM PixelsAlwaysSafe ==
  ASSUME \A f \in Files : f.format = "bmp"
  PROVE  TextureSpec => []PixelsSafe
<1>1. DeletesLive /\ DataFits /\ Exclusive => PixelsSafe
  BY DEF PixelsSafe
<1> QED BY <1>1, NeverDeletesDead, PixelsInReach, NeverShares, PTL
=============================================================================
