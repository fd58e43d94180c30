------------------------------ MODULE Texture ------------------------------
(***************************************************************************)
(* Who owns the pixels of a Texture (kernel/graphics/texture.cpp): data    *)
(* borrowed from an image file in the kernel, or a block of the heap, from *)
(* construction through update() and resize() to destruction.              *)
(*                                                                         *)
(* The heap is what AbstractHeap promises: a block that nobody holds.      *)
(***************************************************************************)
EXTENDS Integers, FiniteSets

CONSTANTS
  Slots,   \* variables that can hold a texture
  Blocks,  \* bound: blocks of the heap
  Files,   \* image files: format, bytes, offset of the pixels, width and height
  Sides,   \* widths and heights that callers ask for
  None     \* no texture: a null pointer

ASSUME TextureAssumption ==
  /\ Blocks \cap Files = {} /\ Sides \subseteq Nat \ {0}
  /\ None \notin [base : Blocks \cup Files, at : Nat, width : Nat, height : Nat,
                  upsideDown : BOOLEAN, holdingUniqueData : BOOLEAN]
  /\ \A f \in Files : f.bytes \in Nat /\ f.offset \in Nat /\ f.width \in Nat /\ f.height \in Nat
  /\ \A f \in Files : f.format = "bmp" => f.offset + 4 * f.width * f.height <= f.bytes

VARIABLES
  textures,   \* slot to texture
  heap,       \* live block to its size and content
  badDelete,  \* delete has been given what is not a live block
  panicked    \* operator new found no block, or a bitmap was not supported

textureVars == <<textures, heap, badDelete, panicked>>

DataSize(t) == 4 * t.width * t.height
TextureOver(base, at, width, height, upsideDown, unique) ==
  [base |-> base, at |-> at, width |-> width, height |-> height,
   upsideDown |-> upsideDown, holdingUniqueData |-> unique]

TextureInit ==
  /\ textures = [s \in Slots |-> None]
  /\ heap = [b \in {} |-> {}]
  /\ badDelete = FALSE /\ panicked = FALSE

-----------------------------------------------------------------------------
Runs == ~panicked
Holds(s) == Runs /\ textures[s] # None
Vacant(s) == Runs /\ textures[s] = None
Live == DOMAIN heap

With(b, size, content) ==
  [c \in Live \cup {b} |-> IF c = b THEN [size |-> size, content |-> content] ELSE heap[c]]
Without(h, b) == [c \in DOMAIN h \ {b} |-> h[c]]
NewBlock(b) == b \in Blocks \ Live
Assign(s, t) == textures' = [textures EXCEPT ![s] = t] /\ UNCHANGED panicked

\* operator new panics, before the texture has changed.
Exhausted ==
  /\ Runs /\ Blocks \subseteq Live
  /\ panicked' = TRUE /\ UNCHANGED <<textures, heap, badDelete>>

\* Texture(dataStart, width, height, upsideDown, uniqueData) as setText calls it:
\* the texture takes over a block that the caller has filled.
Adopt(s, b, width, height) ==
  /\ Vacant(s) /\ NewBlock(b)
  /\ heap' = With(b, 4 * width * height, "pixels")
  /\ Assign(s, TextureOver(b, 0, width, height, FALSE, TRUE)) /\ UNCHANGED badDelete

\* Texture(width, height): the block keeps what was in it.
Create(s, b, width, height) ==
  /\ Vacant(s) /\ NewBlock(b)
  /\ heap' = With(b, 4 * width * height, "anything")
  /\ Assign(s, TextureOver(b, 0, width, height, FALSE, TRUE)) /\ UNCHANGED badDelete

HeaderSize == 24   \* sizeof(GobImageHeader)

\* fromGob believes that the header is followed by one more byte.
FromGob(s, f) ==
  /\ Vacant(s) /\ f.format = "gob"
  /\ Assign(s, TextureOver(f, HeaderSize + 1, f.width, f.height, FALSE, FALSE))
  /\ UNCHANGED <<heap, badDelete>>

BmpPixels(f) == f.offset

\* fromBmp panics on a header of another length; another signature gives null.
FromBmp(s, f) ==
  /\ Vacant(s)
  /\ \/ /\ f.format = "bmp" /\ f.header = 56
        /\ Assign(s, TextureOver(f, BmpPixels(f), f.width, f.height, TRUE, FALSE))
     \/ /\ f.format = "bmp" /\ f.header # 56
        /\ panicked' = TRUE /\ UNCHANGED textures
  /\ UNCHANGED <<heap, badDelete>>

\* update(): a copy of its own, that the texture does not mark as its own.
Update(s, b) ==
  LET t == textures[s] IN
  /\ Holds(s)
  /\ IF t.holdingUniqueData
       THEN /\ heap' = [c \in Live |-> IF c = t.base THEN [heap[c] EXCEPT !.content = "pixels"] ELSE heap[c]]
            /\ UNCHANGED <<textures, panicked>>
       ELSE /\ NewBlock(b) /\ heap' = With(b, DataSize(t), "pixels")
            /\ Assign(s, [t EXCEPT !.base = b, !.at = 0])
  /\ UNCHANGED badDelete

\* resize(): delete of the old data only when it is the texture's own.
DropsNever(t) == FALSE
Drops(t) == t.holdingUniqueData

ContentOfNew(base) == "anything"
ContentOf(base) == IF base \in Live THEN heap[base].content ELSE "pixels"

ResizedForgetsData(t, b, width, height) == [t EXCEPT !.width = width, !.height = height]
ResizedKeepsWidth(t, b, width, height) == [t EXCEPT !.base = b, !.at = 0, !.height = height]
Resized(t, b, width, height) == [t EXCEPT !.base = b, !.at = 0, !.width = width, !.height = height]

Resize(s, b, width, height) ==
  LET t == textures[s]
      grown == With(b, 4 * width * height, ContentOf(t.base))
  IN /\ Holds(s) /\ NewBlock(b)
     /\ heap' = IF Drops(t) THEN Without(grown, t.base) ELSE grown
     /\ badDelete' = (badDelete \/ (Drops(t) /\ t.base \notin Live))
     /\ Assign(s, Resized(t, b, width, height))

DestroysAlways(t) == TRUE
Destroys(t) == t.holdingUniqueData
Destroy(s) ==
  LET t == textures[s] IN
  /\ Holds(s)
  /\ heap' = IF Destroys(t) THEN Without(heap, t.base) ELSE heap
  /\ badDelete' = (badDelete \/ (Destroys(t) /\ t.base \notin Live))
  /\ Assign(s, None)

TextureNext ==
  \/ Exhausted
  \/ \E s \in Slots, f \in Files : FromGob(s, f) \/ FromBmp(s, f)
  \/ \E s \in Slots, b \in Blocks : Update(s, b)
  \/ \E s \in Slots, b \in Blocks, width, height \in Sides :
       Adopt(s, b, width, height) \/ Create(s, b, width, height) \/ Resize(s, b, width, height)
  \/ \E s \in Slots : Destroy(s)
TextureSpec == TextureInit /\ [][TextureNext]_textureVars

-----------------------------------------------------------------------------
\* The variables have their types.
TextureTypeOK ==
  /\ \A s \in Slots : textures[s] # None =>
       /\ textures[s].base \in Blocks \cup Files /\ textures[s].at \in Nat
       /\ textures[s].width \in Nat /\ textures[s].height \in Nat
       /\ textures[s].upsideDown \in BOOLEAN /\ textures[s].holdingUniqueData \in BOOLEAN
  /\ Live \subseteq Blocks
  /\ \A b \in Live : heap[b].size \in Nat /\ heap[b].content \in {"pixels", "anything"}
  /\ badDelete \in BOOLEAN /\ panicked \in BOOLEAN

Textures == {textures[s] : s \in {r \in Slots : textures[r] # None}}

\* Nothing but a live block is ever deleted: no image of the kernel, nothing twice.
DeletesLive == ~badDelete

SizeOf(base) == IF base \in Live THEN heap[base].size ELSE base.bytes

\* What a texture draws from, updates and resizes from lies inside a live block
\* or inside its file, also after a resize or a destruction of others.
DataFits == \A t \in Textures : t.base \in Live \cup Files /\ t.at + DataSize(t) <= SizeOf(t.base)

\* Two textures never share a block of the heap.
Exclusive ==
  \A s, r \in Slots :
    s # r /\ textures[s] # None /\ textures[r] # None /\ textures[s].base \in Live
      => textures[s].base # textures[r].base

\* Every texture has its pixels in reach and, on the heap, for itself.
PixelsSafe == DeletesLive /\ DataFits /\ Exclusive

OwnedBy(ts) == {ts[s].base : s \in {r \in Slots : ts[r] # None /\ ts[r].holdingUniqueData}}

\* A block that a texture has taken as its own is never lost: it stays a texture's
\* own until it is deleted.
OwnersFree == OwnedBy(textures) \cap DOMAIN heap' \subseteq OwnedBy(textures')

\* t is over a file or over a block that has been filled.
ShowsPixels(t) == t # None /\ (t.base \in Live => heap[t.base].content = "pixels")

\* A texture that shows pixels goes on showing pixels: update() and resize() give
\* none of the textures what the last owner of a block has left in it.
KeepsPixels ==
  \A s \in Slots :
    ShowsPixels(textures[s]) /\ textures'[s] # None => ShowsPixels(textures[s])'

\* What a texture owns and shows it keeps, whatever happens to the others.
PixelsKept == [][OwnersFree /\ KeepsPixels]_textureVars
=============================================================================
