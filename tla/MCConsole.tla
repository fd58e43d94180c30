----------------------------- MODULE MCConsole ------------------------------
(***************************************************************************)
(* One behaviour for each of these parts of the screen and the keyboard: a *)
(* call of drawTexture, the textures and their pixels, the layout of a     *)
(* text, the key states.  As in MCMachine the parts share no state and do  *)
(* not interleave.                                                         *)
(***************************************************************************)
EXTENDS Draw, MCTexture, MCTextLayout, MCKeyStates

VARIABLE part

otherThanDrawing == <<textureVars, layoutVars, keyVars>>
otherThanTextures == <<drawVars, layoutVars, keyVars>>
otherThanLayout == <<drawVars, textureVars, keyVars>>
otherThanKeys == <<drawVars, textureVars, layoutVars>>
consoleVars == <<part, drawVars, otherThanDrawing>>

NoDrawing ==
  /\ pos = [x |-> 0, y |-> 0] /\ texWidth = 0 /\ texHeight = 0 /\ upsideDown = FALSE
NoText == text = <<>>

ConsoleInit ==
  /\ part \in {"drawing", "textures", "layout", "keys"}
  /\ (part = "drawing" \/ NoDrawing) /\ DrawInit
  /\ TextureInit
  /\ (part = "layout" \/ NoText) /\ LayoutInit
  /\ KeyStatesInit

DrawingStep == part = "drawing" /\ DrawNext /\ UNCHANGED <<part, otherThanDrawing>>
TexturesStep == part = "textures" /\ TextureNext /\ UNCHANGED <<part, otherThanTextures>>
LayoutStep == part = "layout" /\ LayoutNext /\ UNCHANGED <<part, otherThanLayout>>
KeysStep == part = "keys" /\ KeyStatesNext /\ UNCHANGED <<part, otherThanKeys>>

ConsoleNext == DrawingStep \/ TexturesStep \/ LayoutStep \/ KeysStep
ConsoleSpec == ConsoleInit /\ [][ConsoleNext]_consoleVars

-----------------------------------------------------------------------------
\* The variables of all parts have their types.
ConsoleTypeOK == DrawTypeOK /\ TextureTypeOK /\ LayoutTypeOK /\ KeyStatesTypeOK
=============================================================================
