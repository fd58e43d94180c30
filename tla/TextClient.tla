----------------------------- MODULE TextClient -----------------------------
(***************************************************************************)
(* Text::setText and ~Text over the kernel heap: the place of the kernel   *)
(* that gives memory back while it holds more.                             *)
(*                                                                         *)
(* setText takes memory for the pixels of the new text, deletes the        *)
(* texture of the old one and makes a new texture object; ~Text deletes    *)
(* the texture.  The argument is a std::string: in ScopeSpec a variable    *)
(* declared before the Text and destroyed after it, in TemporarySpec the   *)
(* temporary that setText("...") makes and that dies with the call.  Each  *)
(* new and delete runs the loops of Heap to their end before the next.     *)
(***************************************************************************)
EXTENDS HeapClients

CONSTANTS
  MaxTexts,     \* bound: calls of setText on one Text
  StringSizes,  \* capacities of a string
  PixelSizes,   \* bytes of pixels of a text
  TextureSize   \* sizeof(Texture)

ASSUME TextAssumption ==
  /\ MaxTexts \in Nat
  /\ StringSizes \cup PixelSizes \cup {TextureSize} \subseteq Sizes \ {0}
  /\ MaxHeld = 4

VARIABLES
  at,     \* what the code does after the heap call that runs, or runs next
  texts,  \* setText calls that have returned
  pixels  \* slot of m_resultTexture->m_data, 0 while m_resultTexture is null

client == <<at, texts, pixels>>
textVars == <<vars, at, texts, pixels>>

Argument == 1               \* slot of the string
Object == 2                 \* slot of m_resultTexture
PixelSlots == {3, 4}        \* slots of `data` and of the old texture's pixels
Fresh == CHOOSE s \in PixelSlots : s # pixels

TextInit == Init /\ at = "caller" /\ texts = 0 /\ pixels = 0

Go(from, to) == pc = "idle" /\ at = from /\ at' = to
New(s, sizes) == \E n \in sizes, a \in Alignments : MallocAlignedCall(s, n, a)
Delete(s) == FreeCall(s)

-----------------------------------------------------------------------------
(* setText                                                                 *)

NewPixels ==
  Holds(Argument) /\ Go("called", "old") /\ New(Fresh, PixelSizes) /\ UNCHANGED <<texts, pixels>>

\* delete m_resultTexture: ~Texture gives the pixels back, then the object goes.
DeleteOldPixels ==
  /\ Holds(Fresh) /\ pixels # 0
  /\ Go("old", "oldObject") /\ Delete(pixels) /\ UNCHANGED <<texts, pixels>>
DeleteOldObject ==
  Go("oldObject", "texture") /\ Delete(Object) /\ UNCHANGED <<texts, pixels>>
NoOldTexture ==
  Holds(Fresh) /\ pixels = 0 /\ Go("old", "texture") /\ UNCHANGED <<vars, texts, pixels>>

NewTexture ==
  /\ Go("texture", "made") /\ New(Object, {TextureSize})
  /\ pixels' = Fresh /\ UNCHANGED texts

\* operator new panics on a null, and nothing runs after that.
Panic ==
  /\ \/ at = "called" /\ ~Holds(Argument)
     \/ at = "old" /\ ~Holds(Fresh)
     \/ at = "made" /\ ~Holds(Object)
  /\ pc = "idle" /\ at' = "panic" /\ UNCHANGED <<vars, texts, pixels>>

(* ~Text *)

DestroyPixels ==
  pixels # 0 /\ Go("caller", "destroy") /\ Delete(pixels) /\ UNCHANGED <<texts, pixels>>
DestroyObject == Go("destroy", "end") /\ Delete(Object) /\ UNCHANGED <<texts, pixels>>

-----------------------------------------------------------------------------
(* The string                                                              *)

NewString ==
  /\ texts < MaxTexts /\ ~Holds(Argument)
  /\ Go("caller", "called") /\ New(Argument, StringSizes) /\ UNCHANGED <<texts, pixels>>

\* A variable: it outlives the call and the Text.
SetTextReturns ==
  Holds(Object) /\ Go("made", "caller") /\ texts' = texts + 1 /\ UNCHANGED <<vars, pixels>>
SetTextAgain ==
  /\ texts < MaxTexts /\ Holds(Argument)
  /\ Go("caller", "called") /\ UNCHANGED <<vars, texts, pixels>>
LeaveScope ==
  Go("end", "caller") /\ Delete(Argument) /\ texts' = 0 /\ pixels' = 0

\* A temporary: it dies when the call returns.
SetTextReturnsTemporary ==
  /\ Holds(Object) /\ Go("made", "caller") /\ Delete(Argument)
  /\ texts' = texts + 1 /\ UNCHANGED pixels
LeaveScopeTemporary ==
  Go("end", "caller") /\ texts' = 0 /\ pixels' = 0 /\ UNCHANGED vars

HeapStep ==
  /\ Walk \/ Pad \/ TakeAligned \/ Fail \/ FreePrev \/ FreeMergeNext \/ FreeReturn
  /\ UNCHANGED client

TextNext ==
  \/ NewPixels \/ DeleteOldPixels \/ DeleteOldObject \/ NoOldTexture \/ NewTexture \/ Panic
  \/ DestroyPixels \/ DestroyObject \/ NewString \/ HeapStep
ScopeNext == TextNext \/ SetTextReturns \/ SetTextAgain \/ LeaveScope
TemporaryNext == TextNext \/ SetTextReturnsTemporary \/ LeaveScopeTemporary

ScopeSpec == TextInit /\ [][ScopeNext]_textVars /\ WF_textVars(HeapStep)
TemporarySpec == TextInit /\ [][TemporaryNext]_textVars

-----------------------------------------------------------------------------
\* The variables have their types.
TextTypeOK ==
  /\ TypeOK
  /\ at \in {"caller", "called", "old", "oldObject", "texture", "made", "destroy", "end", "panic"}
  /\ texts \in 0 .. MaxTexts
  /\ pixels \in PixelSlots \cup {0}

\* When the string and the Text are gone, the heap is the one block of init()
\* again, in whatever order setText and the destructors gave their blocks back.
ScopeGivesAllBack ==
  pc = "idle" /\ at = "caller" /\ pixels = 0 /\ ~Holds(Argument)
    => chain = {Root} /\ hdr[Root] = RootHeader
=============================================================================
