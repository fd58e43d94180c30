-------------------------------- MODULE Draw --------------------------------
(***************************************************************************)
(* Graphics::drawTexture of kernel/graphics/graphics.cpp: one row of the   *)
(* texture per step, over the framebuffer and the row of memory behind it. *)
(***************************************************************************)
EXTENDS Graphics

CONSTANTS
  Positions,    \* coordinates that callers pass
  TextureSides  \* widths and heights of textures

ASSUME DrawAssumption ==
  /\ Positions \subseteq 0 .. Word - 1 /\ TextureSides \subseteq 0 .. Word - 1

VARIABLES
  shown,   \* cell to the pixel of the texture it shows, 0 for what was there before
  pos, texWidth, texHeight, upsideDown,  \* the call: position and the texture's properties
  line,    \* row of the texture
  phase,
  texels   \* pixels of the texture that have been read

drawing == <<pos, texWidth, texHeight, upsideDown>>
drawVars == <<shown, drawing, line, phase, texels>>

Behind == Pitch * Height .. Pitch * (Height + 1) - 1

\* Pixel (px, py) of the texture, counted from 1 in memory order.
Texel(px, py) == py * texWidth + px + 1

DrawInit ==
  /\ shown = [c \in Cells \cup Behind |-> 0]
  /\ pos \in [x : Positions, y : Positions]
  /\ texWidth \in TextureSides /\ texHeight \in TextureSides /\ upsideDown \in BOOLEAN
  /\ line = 0 /\ phase = "draw" /\ texels = {}

DrawEndUnclipped == (pos.x + texWidth) % Word
DrawEnd == Lesser(Width, (pos.x + texWidth) % Word)

\* The row just below the screen is not skipped.
Skips == (pos.y + line) % Word > Height \/ pos.x >= DrawEnd

FlippedRowOne == IF upsideDown THEN texHeight - line ELSE line
FlippedRow == IF upsideDown THEN texHeight - line - 1 ELSE line

\* One row of the texture; sourceRect is not looked at.
DrawRow ==
  LET count == DrawEnd - pos.x
      start == Pixel(pos.x, (pos.y + line) % Word)
      row == [k \in 0 .. count - 1 |-> Texel(k, FlippedRow)]
  IN /\ phase = "draw" /\ line < texHeight
     /\ line' = line + 1
     /\ IF Skips THEN UNCHANGED <<shown, texels>>
          ELSE /\ shown' = [c \in DOMAIN shown |->
                              IF c \in Mempattern(start, count) THEN row[c - start] ELSE shown[c]]
               /\ texels' = texels \cup {row[k] : k \in DOMAIN row}
     /\ UNCHANGED <<drawing, phase>>

DrawReturns ==
  /\ phase = "draw" /\ line = texHeight
  /\ phase' = "done" /\ UNCHANGED <<shown, drawing, line, texels>>

DrawNext == DrawRow \/ DrawReturns
DrawSpec == DrawInit /\ [][DrawNext]_drawVars

-----------------------------------------------------------------------------
\* The variables have their types.
DrawTypeOK ==
  /\ \A c \in Cells \cup Behind : shown[c] \in 0 .. texWidth * texHeight
  /\ line \in 0 .. texHeight /\ phase \in {"draw", "done"} /\ texels \subseteq Nat

\* Every read is of a pixel of the texture, at any position, clipped or not,
\* upside down or not.
SourceFits == texels \subseteq 1 .. texWidth * texHeight

\* The texture's pixel at column px of the screen and row py, if there is one.
Wanted(px, py) ==
  LET row == (py - pos.y + Word) % Word IN
  IF pos.x <= px /\ px < pos.x + texWidth /\ row < texHeight
    THEN Texel(px - pos.x, IF upsideDown THEN texHeight - 1 - row ELSE row)
    ELSE 0

\* A texture that starts on or right of the left border is shown where it belongs,
\* cut off at the other borders, the upper one with a position that has wrapped
\* round included; nothing else on the screen, nor the padding of its rows, changes.
ShowsTexture ==
  phase = "done" /\ pos.x + texWidth < Word =>
    \A px \in 0 .. Pitch - 1, py \in 0 .. Height - 1 :
      shown[Pixel(px, py)] = IF px < Width THEN Wanted(px, py) ELSE 0

\* drawTexture reads inside the texture and shows it where it belongs.
DrawsTexture == SourceFits /\ ShowsTexture
=============================================================================
