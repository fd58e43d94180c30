--------------------------- MODULE ConsoleProofs ---------------------------
(***************************************************************************)
(* Theorems about the parts of MCConsole: drawTexture for every texture,   *)
(* screen and position, the key states for every keyboard, and the         *)
(* behaviours of the whole module, of which each part has its own          *)
(* invariant.                                                              *)
(***************************************************************************)
EXTENDS MCConsole, TextureProofs, TextLayoutProofs

-----------------------------------------------------------------------------
(* Draw.  After each row, the rows of the texture drawn so far are shown.  *)

LEMMA ScreenNumbers ==
  /\ {Width, Height, Word, Pitch} \subseteq Nat \ {0}
  /\ Pitch >= Width /\ Word > Width + Height
BY GraphicsAssumption

\* A cell is in one place only.
LEMMA PixelsApart ==
  ASSUME NEW px \in 0 .. Pitch - 1, NEW py \in Nat, NEW qx \in 0 .. Pitch - 1, NEW qy \in Nat,
         Pixel(px, py) = Pixel(qx, qy)
  PROVE  px = qx /\ py = qy
<1>1. Pitch \in Nat /\ px \in Nat /\ qx \in Nat /\ py * Pitch + px = qy * Pitch + qx
  BY ScreenNumbers DEF Pixel
<1>2. ASSUME NEW k \in Nat, NEW m \in Nat, k < m PROVE k * Pitch + Pitch <= m * Pitch
  <2>1. (m - k - 1) * Pitch \in Nat /\ m * Pitch = (m - k - 1) * Pitch + k * Pitch + Pitch
    <3>1. m - k - 1 \in Nat /\ Pitch \in Nat
      BY <1>1, <1>2
    <3> QED BY <3>1
  <2>2. k * Pitch \in Nat
    BY <1>1
  <2> QED BY <1>1, <2>1, <2>2
<1>3. py * Pitch \in Nat /\ qy * Pitch \in Nat
  BY <1>1
<1>4. ~(py < qy) /\ ~(qy < py)
  BY <1>1, <1>2, <1>3
<1>5. py = qy
  BY <1>4
<1> QED BY <1>1, <1>3, <1>5

\* The cells of the row behind the screen included.
LEMMA PixelsInMemory ==
  ASSUME NEW px \in 0 .. Pitch - 1, NEW py \in 0 .. Height
  PROVE  /\ Pixel(px, py) \in Nat
         /\ py < Height => Pixel(px, py) \in Cells
         /\ py = Height => Pixel(px, py) \in Behind
<1>1. /\ Height \in Nat /\ Pitch \in Nat /\ px \in Nat /\ px < Pitch /\ py \in Nat /\ py * Pitch \in Nat
  BY ScreenNumbers
<1>2. ASSUME py < Height PROVE py * Pitch + Pitch <= Pitch * Height
  <2>1. Height - 1 - py \in Nat
    BY <1>1, <1>2
  <2>2. (Height - 1 - py) * Pitch \in Nat /\ Pitch * Height = (Height - 1 - py) * Pitch + py * Pitch + Pitch
    BY <1>1, <2>1
  <2> QED BY <1>1, <2>2
<1>3. Height * Pitch = Pitch * Height /\ Pitch * (Height + 1) = Pitch * Height + Pitch /\ Pitch * Height \in Nat
  BY <1>1
<1>4. py < Height => Pixel(px, py) \in Cells
  BY <1>1, <1>2, <1>3 DEF Pixel, Cells
<1>5. py = Height => Pixel(px, py) \in Behind
  BY <1>1, <1>3 DEF Pixel, Behind
<1> QED BY <1>1, <1>4, <1>5 DEF Pixel

\* Sums of two words.
LEMMA WordSum ==
  ASSUME NEW p \in 0 .. Word - 1, NEW k \in 0 .. Word - 1
  PROVE  (p + k) % Word = IF p + k < Word THEN p + k ELSE p + k - Word
<1>1. Word \in Nat \ {0}
  BY ScreenNumbers
<1>2. CASE p + k < Word
  BY <1>1, <1>2
<1>3. CASE p + k >= Word
  BY <1>1, <1>3
<1> QED BY <1>1, <1>2, <1>3

\* The row of the texture that row py of the screen would show.
TextureRow(py) == (py - pos.y + Word) % Word

Drawing ==
  /\ pos \in [x : 0 .. Word - 1, y : 0 .. Word - 1]
  /\ texWidth \in 0 .. Word - 1 /\ texHeight \in 0 .. Word - 1 /\ upsideDown \in BOOLEAN
  /\ line \in 0 .. texHeight /\ phase \in {"draw", "done"}

RowsShown ==
  pos.x + texWidth < Word =>
    \A px \in 0 .. Pitch - 1, py \in 0 .. Height - 1 :
      shown[Pixel(px, py)] = IF px < Width /\ TextureRow(py) < line THEN Wanted(px, py) ELSE 0

DrawInv ==
  /\ Drawing
  /\ shown \in [Cells \cup Behind -> 0 .. texWidth * texHeight]
  /\ SourceFits
  /\ phase = "done" => line = texHeight
  /\ RowsShown

LEMMA RowOnScreen ==
  ASSUME Drawing, NEW py \in 0 .. Height - 1, NEW k \in 0 .. Word - 1
  PROVE  /\ TextureRow(py) \in 0 .. Word - 1
         /\ TextureRow(py) = k <=> (pos.y + k) % Word = py
<1>1. pos.y \in 0 .. Word - 1 /\ Word \in Nat \ {0} /\ py \in 0 .. Word - 1
  BY ScreenNumbers DEF Drawing
<1>2. TextureRow(py) = IF py < pos.y THEN py - pos.y + Word ELSE py - pos.y
  <2>1. CASE py < pos.y
    BY <1>1, <2>1 DEF TextureRow
  <2>2. CASE py >= pos.y
    <3>1. (py - pos.y + Word) % Word = py - pos.y
      BY <1>1, <2>2
    <3> QED BY <1>1, <2>2, <3>1 DEF TextureRow
  <2> QED BY <1>1, <2>1, <2>2
<1>3. (pos.y + k) % Word = IF pos.y + k < Word THEN pos.y + k ELSE pos.y + k - Word
  BY <1>1, WordSum
<1> QED BY <1>1, <1>2, <1>3

LEMMA TexelRange ==
  ASSUME Drawing, NEW px \in 0 .. texWidth - 1, NEW py \in 0 .. texHeight - 1
  PROVE  Texel(px, py) \in 1 .. texWidth * texHeight
<1>1. /\ texWidth \in Nat /\ texHeight \in Nat /\ px \in Nat /\ py \in Nat /\ texHeight - 1 - py \in Nat
      /\ px + 1 <= texWidth
  BY ScreenNumbers DEF Drawing
<1>2. /\ py * texWidth \in Nat /\ (texHeight - 1 - py) * texWidth \in Nat
      /\ texWidth * texHeight = (texHeight - 1 - py) * texWidth + py * texWidth + texWidth
  BY <1>1
<1> QED BY <1>1, <1>2 DEF Texel

LEMMA DrawInitInv == DrawInit => DrawInv
<1> SUFFICES ASSUME DrawInit PROVE DrawInv
  OBVIOUS
<1>1. Drawing
  <2>1. pos \in [x : Positions, y : Positions] /\ Positions \subseteq 0 .. Word - 1
    BY DrawAssumption DEF DrawInit
  <2>2. pos \in [x : 0 .. Word - 1, y : 0 .. Word - 1]
    BY <2>1
  <2>3. texWidth \in 0 .. Word - 1 /\ texHeight \in 0 .. Word - 1 /\ upsideDown \in BOOLEAN
    BY DrawAssumption DEF DrawInit
  <2>4. line \in 0 .. texHeight
    BY <2>3, ScreenNumbers DEF DrawInit
  <2> QED BY <2>2, <2>3, <2>4 DEF DrawInit, Drawing
<1>2. texWidth * texHeight \in Nat
  BY <1>1, ScreenNumbers DEF Drawing
<1>3. shown \in [Cells \cup Behind -> 0 .. texWidth * texHeight] /\ SourceFits
  BY <1>2 DEF DrawInit, SourceFits
<1>4. RowsShown
  <2> SUFFICES ASSUME NEW px \in 0 .. Pitch - 1, NEW py \in 0 .. Height - 1
               PROVE  shown[Pixel(px, py)] = 0 /\ ~(TextureRow(py) < line)
    BY DEF RowsShown
  <2>1. Pixel(px, py) \in Cells
    BY PixelsInMemory, ScreenNumbers
  <2>2. TextureRow(py) \in 0 .. Word - 1
    BY <1>1, RowOnScreen, ScreenNumbers
  <2> QED BY <2>1, <2>2, ScreenNumbers DEF DrawInit
<1> QED BY <1>1, <1>3, <1>4 DEF DrawInit, DrawInv

\* A row that is not skipped: its columns are columns of the texture.
LEMMA RowClipped ==
  ASSUME Drawing, ~Skips
  PROVE  /\ DrawEnd \in Nat /\ DrawEnd <= Width /\ pos.x < DrawEnd /\ pos.x + texWidth < Word
         /\ DrawEnd = IF Width < pos.x + texWidth THEN Width ELSE pos.x + texWidth
         /\ (pos.y + line) % Word \in 0 .. Height
<1>1. /\ pos.x \in 0 .. Word - 1 /\ texWidth \in 0 .. Word - 1 /\ pos.y \in 0 .. Word - 1 /\ line \in Nat
      /\ Word \in Nat \ {0} /\ Width \in Nat /\ Height \in Nat
  BY ScreenNumbers DEF Drawing
<1>2. pos.x < DrawEnd /\ (pos.y + line) % Word <= Height /\ (pos.y + line) % Word \in Nat
  <2>1. (pos.y + line) % Word \in 0 .. Word - 1 /\ (pos.x + texWidth) % Word \in 0 .. Word - 1
    BY <1>1
  <2>2. DrawEnd \in Nat
    BY <1>1, <2>1 DEF DrawEnd, Lesser
  <2> QED BY <1>1, <2>1, <2>2 DEF Skips
<1>3. (pos.x + texWidth) % Word = IF pos.x + texWidth < Word THEN pos.x + texWidth ELSE pos.x + texWidth - Word
  BY <1>1, WordSum
<1>4. pos.x + texWidth < Word
  <2> SUFFICES ASSUME ~(pos.x + texWidth < Word) PROVE FALSE
    OBVIOUS
  <2>1. (pos.x + texWidth) % Word = pos.x + texWidth - Word
    BY <1>3
  <2> QED BY <1>1, <1>2, <2>1 DEF DrawEnd, Lesser
<1>5. DrawEnd = IF Width < pos.x + texWidth THEN Width ELSE pos.x + texWidth
  BY <1>1, <1>3, <1>4 DEF DrawEnd, Lesser
<1> QED BY <1>1, <1>2, <1>4, <1>5

\* Where a row that is skipped would be, the screen shows no texture.
LEMMA SkippedShowsNothing ==
  ASSUME Drawing, line < texHeight, Skips, pos.x + texWidth < Word,
         NEW px \in 0 .. Width - 1, NEW py \in 0 .. Height - 1, TextureRow(py) = line
  PROVE  Wanted(px, py) = 0
<1>1. /\ pos.x \in Nat /\ texWidth \in Nat /\ pos.y \in Nat /\ line \in 0 .. Word - 1 /\ texHeight \in Nat
      /\ Word \in Nat \ {0} /\ Width \in Nat /\ Height \in Nat /\ px \in Nat /\ py \in Nat /\ px < Width
  BY ScreenNumbers DEF Drawing
<1>2. (pos.y + line) % Word = py
  BY <1>1, RowOnScreen
<1>3. pos.x >= DrawEnd
  BY <1>1, <1>2 DEF Skips
<1>4. DrawEnd = IF Width < pos.x + texWidth THEN Width ELSE pos.x + texWidth
  <2>1. (pos.x + texWidth) % Word = pos.x + texWidth
    BY <1>1
  <2> QED BY <1>1, <2>1 DEF DrawEnd, Lesser
<1>5. ~(pos.x <= px /\ px < pos.x + texWidth)
  BY <1>1, <1>3, <1>4
<1> QED BY <1>5 DEF Wanted

\* The row that is drawn.
Start == Pixel(pos.x, (pos.y + line) % Word)
LineTexel(k) == Texel(k, FlippedRow)

LEMMA RowTexels ==
  ASSUME Drawing, line < texHeight, ~Skips, NEW k \in 0 .. DrawEnd - pos.x - 1
  PROVE  LineTexel(k) \in 1 .. texWidth * texHeight
<1>1. k \in 0 .. texWidth - 1
  BY RowClipped, ScreenNumbers DEF Drawing
<1>2. FlippedRow \in 0 .. texHeight - 1
  BY DEF Drawing, FlippedRow
<1> QED BY <1>1, <1>2, TexelRange DEF LineTexel

LEMMA RowWritten ==
  ASSUME DrawInv, DrawRow, ~Skips
  PROVE  /\ \A c \in Cells \cup Behind :
              shown'[c] = IF c - Start \in 0 .. DrawEnd - pos.x - 1 THEN LineTexel(c - Start) ELSE shown[c]
         /\ shown' = [c \in Cells \cup Behind |-> shown'[c]]
         /\ texels' = texels \cup {LineTexel(k) : k \in 0 .. DrawEnd - pos.x - 1}
<1> DEFINE count == DrawEnd - pos.x
           row == [k \in 0 .. count - 1 |-> Texel(k, FlippedRow)]
<1>1. Start \in Nat /\ count \in Nat \ {0}
  <2>1. /\ DrawEnd \in Nat /\ pos.x \in Nat /\ pos.x < DrawEnd /\ DrawEnd <= Width
        /\ (pos.y + line) % Word \in 0 .. Height
    BY RowClipped DEF DrawInv, Drawing
  <2>2. pos.x \in 0 .. Pitch - 1
    BY <2>1, ScreenNumbers
  <2> QED BY <2>1, <2>2, PixelsInMemory DEF Start
<1>2. /\ shown' = [c \in DOMAIN shown |-> IF c \in Mempattern(Start, count) THEN row[c - Start] ELSE shown[c]]
      /\ texels' = texels \cup {row[k] : k \in DOMAIN row}
  BY DEF DrawRow, Start
<1>3. DOMAIN shown = Cells \cup Behind
  BY DEF DrawInv
<1>4. \A c \in Cells \cup Behind : c \in Int
  BY ScreenNumbers DEF Cells, Behind
<1>5. \A c \in Cells \cup Behind : c \in Mempattern(Start, count) <=> c - Start \in 0 .. count - 1
  BY <1>1, <1>4 DEF Mempattern
<1>6. \A k \in 0 .. count - 1 : row[k] = LineTexel(k)
  BY DEF LineTexel
<1>7. texels' = texels \cup {LineTexel(k) : k \in 0 .. count - 1}
  BY <1>2, <1>6
<1> QED BY <1>2, <1>3, <1>5, <1>6, <1>7

LEMMA DrawRowTypes == DrawInv /\ DrawRow => Drawing' /\ line' = line + 1 /\ UNCHANGED drawing
<1> SUFFICES ASSUME DrawInv, DrawRow PROVE Drawing' /\ line' = line + 1 /\ UNCHANGED drawing
  OBVIOUS
<1>1. line < texHeight /\ line' = line + 1 /\ UNCHANGED <<drawing, phase>>
  BY DEF DrawRow
<1>2. line' \in 0 .. texHeight
  BY <1>1, ScreenNumbers DEF DrawInv, Drawing
<1> QED BY <1>1, <1>2 DEF DrawInv, Drawing, drawing

\* What is wanted at a place does not change.
LEMMA WantedKept ==
  ASSUME UNCHANGED drawing, NEW px, NEW py
  PROVE  Wanted(px, py)' = Wanted(px, py) /\ TextureRow(py)' = TextureRow(py)
BY DEF drawing, Wanted, TextureRow, Texel

\* The cell that a drawn row leaves at a place of the screen.
LEMMA PlaceWritten ==
  ASSUME DrawInv, DrawRow, ~Skips, NEW px \in 0 .. Pitch - 1, NEW py \in 0 .. Height - 1
  PROVE  shown'[Pixel(px, py)] =
           IF TextureRow(py) = line /\ pos.x <= px /\ px < DrawEnd THEN LineTexel(px - pos.x)
           ELSE shown[Pixel(px, py)]
<1> DEFINE row == (pos.y + line) % Word
           k == Pixel(px, py) - Start
<1>1. /\ DrawEnd \in Nat /\ pos.x \in Nat /\ pos.x < DrawEnd /\ DrawEnd <= Width /\ row \in 0 .. Height
      /\ Width \in Nat /\ Height \in Nat /\ Pitch \in Nat /\ Pitch >= Width /\ px \in Nat /\ py \in Nat
      /\ py \in 0 .. Height
  BY RowClipped, ScreenNumbers DEF DrawInv, Drawing
<1>2. Pixel(px, py) \in Cells /\ Pixel(px, py) \in Nat
  BY <1>1, PixelsInMemory
<1>3. line \in 0 .. Word - 1
  BY ScreenNumbers DEF DrawRow, DrawInv, Drawing
<1>4. TextureRow(py) = line <=> row = py
  BY <1>3, RowOnScreen DEF DrawInv
<1>5. row * Pitch \in Nat /\ Start = row * Pitch + pos.x
  BY <1>1 DEF Start, Pixel
<1>6. ASSUME k \in 0 .. DrawEnd - pos.x - 1 PROVE row = py /\ px = pos.x + k
  <2> HIDE DEF row
  <2>1. PICK d \in Nat : d = k /\ d < DrawEnd - pos.x
    BY <1>1, <1>6
  <2> HIDE DEF k
  <2>2. Pixel(px, py) = Pixel(pos.x + d, row)
    BY <1>1, <1>2, <1>5, <2>1 DEF Pixel, k
  <2>3. pos.x + d \in 0 .. Pitch - 1 /\ row \in Nat /\ py \in Nat
    BY <1>1, <2>1
  <2> QED BY <2>1, <2>2, <2>3, PixelsApart
<1>7. ASSUME row = py PROVE k = px - pos.x
  BY <1>1, <1>5, <1>7 DEF Pixel
<1>8. k \in 0 .. DrawEnd - pos.x - 1 <=> row = py /\ pos.x <= px /\ px < DrawEnd
  BY <1>1, <1>6, <1>7
<1>9. shown'[Pixel(px, py)] = IF k \in 0 .. DrawEnd - pos.x - 1 THEN LineTexel(k) ELSE shown[Pixel(px, py)]
  BY <1>2, RowWritten
<1> QED BY <1>4, <1>7, <1>8, <1>9

LEMMA RowDrawn == DrawInv /\ DrawRow /\ ~Skips => DrawInv'
<1> SUFFICES ASSUME DrawInv, DrawRow, ~Skips PROVE DrawInv'
  OBVIOUS
<1>1. Drawing' /\ line' = line + 1 /\ UNCHANGED <<drawing, phase>> /\ phase = "draw" /\ line < texHeight
  BY DrawRowTypes DEF DrawRow
<1>2. \A k \in 0 .. DrawEnd - pos.x - 1 : LineTexel(k) \in 1 .. texWidth * texHeight
  BY <1>1, RowTexels DEF DrawInv
<1>3. shown' \in [Cells \cup Behind -> 0 .. texWidth * texHeight]
  <2>1. \A c \in Cells \cup Behind : shown'[c] \in 0 .. texWidth * texHeight
    BY <1>2, RowWritten DEF DrawInv
  <2> QED BY <2>1, RowWritten
<1>4. SourceFits'
  BY <1>1, <1>2, RowWritten DEF DrawInv, SourceFits, drawing
<1>5. ASSUME NEW px \in 0 .. Pitch - 1, NEW py \in 0 .. Height - 1
      PROVE  shown'[Pixel(px, py)] = IF px < Width /\ TextureRow(py) < line' THEN Wanted(px, py) ELSE 0
  <2>1. /\ DrawEnd = IF Width < pos.x + texWidth THEN Width ELSE pos.x + texWidth
        /\ DrawEnd \in Nat /\ DrawEnd <= Width /\ pos.x + texWidth < Word
    BY RowClipped DEF DrawInv
  <2>2. /\ px \in Nat /\ Width \in Nat /\ pos.x \in Nat /\ texWidth \in Nat /\ line \in Nat
        /\ TextureRow(py) \in Nat /\ line \in 0 .. Word - 1
    BY <1>1, RowOnScreen, ScreenNumbers DEF DrawInv, Drawing
  <2>3. shown[Pixel(px, py)] = IF px < Width /\ TextureRow(py) < line THEN Wanted(px, py) ELSE 0
    BY <2>1 DEF DrawInv, RowsShown
  <2>4. CASE TextureRow(py) # line
    BY <1>1, <2>2, <2>3, <2>4, PlaceWritten
  <2>5. CASE TextureRow(py) = line
    <3>1. shown[Pixel(px, py)] = 0
      BY <2>2, <2>3, <2>5
    <3>2. Wanted(px, py) = IF pos.x <= px /\ px < pos.x + texWidth THEN LineTexel(px - pos.x) ELSE 0
      <4>1. texHeight - 1 - line = texHeight - line - 1
        BY <2>2 DEF DrawInv, Drawing
      <4> QED BY <1>1, <2>5, <4>1 DEF Wanted, LineTexel, FlippedRow, TextureRow
    <3>3. px < DrawEnd <=> px < Width /\ px < pos.x + texWidth
      BY <2>1, <2>2
    <3>4. TextureRow(py) < line'
      BY <1>1, <2>2, <2>5
    <3> QED BY <2>5, <3>1, <3>2, <3>3, <3>4, PlaceWritten
  <2> QED BY <2>4, <2>5
<1>6. RowsShown'
  BY <1>1, <1>5, WantedKept DEF RowsShown
<1> QED BY <1>1, <1>3, <1>4, <1>6 DEF DrawInv, drawing

LEMMA RowSkipped == DrawInv /\ DrawRow /\ Skips => DrawInv'
<1> SUFFICES ASSUME DrawInv, DrawRow, Skips PROVE DrawInv'
  OBVIOUS
<1>1. /\ Drawing' /\ line' = line + 1 /\ UNCHANGED <<drawing, phase, shown, texels>>
      /\ phase = "draw" /\ line < texHeight
  BY DrawRowTypes DEF DrawRow
<1>2. ASSUME pos.x + texWidth < Word, NEW px \in 0 .. Pitch - 1, NEW py \in 0 .. Height - 1
      PROVE  shown[Pixel(px, py)] = IF px < Width /\ TextureRow(py) < line' THEN Wanted(px, py) ELSE 0
  <2>1. shown[Pixel(px, py)] = IF px < Width /\ TextureRow(py) < line THEN Wanted(px, py) ELSE 0
    BY <1>2 DEF DrawInv, RowsShown
  <2>2. /\ TextureRow(py) \in Nat /\ line \in Nat /\ line \in 0 .. Word - 1 /\ px \in Nat /\ Width \in Nat
    BY <1>1, RowOnScreen, ScreenNumbers DEF DrawInv, Drawing
  <2>3. CASE TextureRow(py) # line
    BY <1>1, <2>1, <2>2, <2>3
  <2>4. CASE TextureRow(py) = line /\ px < Width
    <3>1. Wanted(px, py) = 0
      BY <1>1, <1>2, <2>2, <2>4, SkippedShowsNothing DEF DrawInv
    <3> QED BY <1>1, <2>1, <2>2, <2>4, <3>1
  <2>5. CASE ~(px < Width)
    BY <2>1, <2>5
  <2> QED BY <2>3, <2>4, <2>5
<1>3. RowsShown'
  BY <1>1, <1>2, WantedKept DEF RowsShown, drawing
<1> QED BY <1>1, <1>3 DEF DrawInv, drawing, SourceFits

LEMMA DrawInvStep == DrawInv /\ [DrawNext]_drawVars => DrawInv'
<1>1. ASSUME DrawInv, DrawReturns \/ UNCHANGED drawVars PROVE DrawInv'
  <2>1. UNCHANGED <<shown, drawing, line, texels>> /\ phase' \in {"draw", "done"}
        /\ (phase' = "done" => line = texHeight)
    BY <1>1 DEF DrawReturns, drawVars, DrawInv, Drawing
  <2>2. RowsShown'
    BY <1>1, <2>1, WantedKept DEF DrawInv, RowsShown, drawing
  <2> QED BY <1>1, <2>1, <2>2 DEF DrawInv, Drawing, SourceFits, drawing
<1> QED BY <1>1, RowDrawn, RowSkipped DEF DrawNext

LEMMA DrawTypeOKHolds == DrawInv => DrawTypeOK
<1> SUFFICES ASSUME DrawInv PROVE DrawTypeOK
  OBVIOUS
<1>1. texWidth * texHeight \in Nat
  BY ScreenNumbers DEF DrawInv, Drawing
<1> QED BY <1>1 DEF DrawInv, Drawing, SourceFits, DrawTypeOK

LEMMA DrawsTextureHolds == DrawInv => DrawsTexture
<1> SUFFICES ASSUME DrawInv, phase = "done", pos.x + texWidth < Word,
                    NEW px \in 0 .. Pitch - 1, NEW py \in 0 .. Height - 1
             PROVE  shown[Pixel(px, py)] = IF px < Width THEN Wanted(px, py) ELSE 0
  BY DEF DrawsTexture, ShowsTexture, DrawInv
<1>1. shown[Pixel(px, py)] = IF px < Width /\ TextureRow(py) < line THEN Wanted(px, py) ELSE 0
  BY DEF DrawInv, RowsShown
<1>2. line = texHeight
  BY DEF DrawInv
<1>3. ~(TextureRow(py) < line) => Wanted(px, py) = 0
  BY <1>2 DEF Wanted, TextureRow
<1> QED BY <1>1, <1>3

\* drawTexture reads inside the texture and shows it where it belongs, for every
\* texture, screen, pitch and position that does not wrap round at the right.
THEOREM TextureAlwaysDrawn == DrawSpec => []DrawsTexture
<1>1. DrawSpec => []DrawInv
  BY DrawInitInv, DrawInvStep, PTL DEF DrawSpec
<1> QED BY <1>1, DrawsTextureHolds, PTL

-----------------------------------------------------------------------------
(* KeyStates: what the bytes that wait in the controller will leave.       *)

\* The codes of the game's keys: above those of the first 28 keys, whose places in
\* the previous states a code without a key reaches, and below the prefix's, 96.
LEMMA GameCodes ==
  /\ KeyCount = 100
  /\ \A name \in GameKeys : KeyCode(name) \in {30, 32, 57}
<1>1. KeyCount = 100 /\ DOMAIN KeyNames = 1 .. 100
  BY DEF KeyCount, KeyNames
<1>2. KeyNames[31] = "A" /\ \A c \in DOMAIN KeyNames : KeyNames[c] = "A" => c = 31
  BY DEF KeyNames
<1>3. KeyNames[33] = "D" /\ \A c \in DOMAIN KeyNames : KeyNames[c] = "D" => c = 33
  BY DEF KeyNames
<1>4. KeyNames[58] = "SPACE" /\ \A c \in DOMAIN KeyNames : KeyNames[c] = "SPACE" => c = 58
  BY DEF KeyNames
<1>5. KeyCode("A") = 30 /\ KeyCode("D") = 32 /\ KeyCode("SPACE") = 57
  BY <1>1, <1>2, <1>3, <1>4 DEF KeyCode
<1> QED BY <1>1, <1>5 DEF GameKeys

\* When the bytes of f have been handled, code c is down or not.
Settles(f, state, c, down) ==
  \/ \E m \in 1 .. Len(f) :
       f[m] % 128 = c /\ (f[m] < 128 <=> down) /\ \A l \in m + 1 .. Len(f) : f[l] % 128 # c
  \/ (\A l \in 1 .. Len(f) : f[l] % 128 # c) /\ (state[c] <=> down)

LEMMA AppendSettles ==
  ASSUME NEW f \in Seq(0 .. 255), NEW state, NEW c, NEW e \in 0 .. 255, NEW down \in BOOLEAN
  PROVE  /\ e % 128 = c => Settles(Append(f, e), state, c, e < 128)
         /\ e % 128 # c /\ Settles(f, state, c, down) => Settles(Append(f, e), state, c, down)
<1> DEFINE g == Append(f, e)
<1>1. /\ Len(g) = Len(f) + 1 /\ Len(f) \in Nat /\ g[Len(f) + 1] = e
      /\ \A m \in 1 .. Len(f) : g[m] = f[m]
  OBVIOUS
<1>2. \A m \in 1 .. Len(g) : m \in 1 .. Len(f) \/ m = Len(f) + 1
  BY <1>1
<1> HIDE DEF g
<1>3. ASSUME e % 128 = c PROVE Settles(g, state, c, e < 128)
  <2>1. Len(f) + 1 \in 1 .. Len(g) /\ \A l \in Len(f) + 1 + 1 .. Len(g) : g[l] % 128 # c
    BY <1>1
  <2> QED BY <1>1, <1>3, <2>1 DEF Settles
<1>4. ASSUME e % 128 # c, Settles(f, state, c, down) PROVE Settles(g, state, c, down)
  <2>1. ASSUME NEW m \in 1 .. Len(f), f[m] % 128 = c, f[m] < 128 <=> down, \A l \in m + 1 .. Len(f) : f[l] % 128 # c
        PROVE  Settles(g, state, c, down)
    <3>1. m \in 1 .. Len(g) /\ g[m] = f[m] /\ \A l \in m + 1 .. Len(g) : g[l] % 128 # c
      BY <1>1, <1>2, <1>4, <2>1
    <3> QED BY <2>1, <3>1 DEF Settles
  <2>2. ASSUME \A l \in 1 .. Len(f) : f[l] % 128 # c, state[c] <=> down
        PROVE  Settles(g, state, c, down)
    <3>1. \A l \in 1 .. Len(g) : g[l] % 128 # c
      BY <1>1, <1>2, <1>4, <2>2
    <3> QED BY <2>2, <3>1 DEF Settles
  <2> QED BY <1>4, <2>1, <2>2 DEF Settles
<1> QED BY <1>3, <1>4 DEF g

LEMMA TailSettles ==
  ASSUME NEW f \in Seq(0 .. 255), f # <<>>, NEW state, NEW after, NEW c, NEW down \in BOOLEAN,
         Settles(f, state, c, down),
         Head(f) % 128 = c => (after[c] <=> Head(f) < 128),
         Head(f) % 128 # c => (after[c] <=> state[c])
  PROVE  Settles(Tail(f), after, c, down)
<1> DEFINE g == Tail(f)
<1>1. /\ Len(g) = Len(f) - 1 /\ Len(f) \in Nat \ {0} /\ Head(f) = f[1]
      /\ \A m \in 1 .. Len(g) : g[m] = f[m + 1] /\ m + 1 \in 1 .. Len(f)
  OBVIOUS
<1> HIDE DEF g
<1>2. ASSUME NEW m \in 1 .. Len(f), f[m] % 128 = c, f[m] < 128 <=> down, \A l \in m + 1 .. Len(f) : f[l] % 128 # c
      PROVE  Settles(g, after, c, down)
  <2>1. CASE m = 1
    <3>1. \A l \in 1 .. Len(g) : g[l] % 128 # c
      BY <1>1, <1>2, <2>1
    <3>2. after[c] <=> down
      BY <1>1, <1>2, <2>1
    <3> QED BY <3>1, <3>2 DEF Settles
  <2>2. CASE m # 1
    <3>1. m - 1 \in 1 .. Len(g) /\ g[m - 1] = f[m]
      BY <1>1, <2>2
    <3>2. \A l \in m - 1 + 1 .. Len(g) : g[l] % 128 # c
      BY <1>1, <1>2, <2>2
    <3> QED BY <1>2, <3>1, <3>2 DEF Settles
  <2> QED BY <2>1, <2>2
<1>3. ASSUME \A l \in 1 .. Len(f) : f[l] % 128 # c, state[c] <=> down
      PROVE  Settles(g, after, c, down)
  <2>1. \A l \in 1 .. Len(g) : g[l] % 128 # c
    BY <1>1, <1>3
  <2>2. after[c] <=> down
    BY <1>1, <1>3
  <2> QED BY <2>1, <2>2 DEF Settles
<1> QED BY <1>2, <1>3 DEF Settles, g

LEMMA AppendOther ==
  \A f \in Seq(0 .. 255), e \in 0 .. 255, down \in BOOLEAN :
    \A state, c : e % 128 # c /\ Settles(f, state, c, down) => Settles(Append(f, e), state, c, down)
BY AppendSettles

\* What is required of the keyboard: the game's keys have codes of their own, and
\* no key has a code behind the keycodes.
GameKeyboard ==
  /\ \A k \in Keys, name \in GameKeys : k.code = KeyCode(name) <=> k.name = name
  /\ \A k, l \in Keys : k.name \in GameKeys /\ k.name = l.name => k = l
  /\ \A k \in Keys : k.code < KeyCount

UpSettles ==
  \A c \in 0 .. KeyCount - 1 : (\A k \in held : k.code # c) => Settles(fifo, bytes, c, FALSE)
DownSettles == \A k \in held : k.name \in GameKeys => Settles(fifo, bytes, k.code, TRUE)
CodesFit == \A m \in 1 .. Len(fifo) : fifo[m] % 128 < KeyCount

KeysInv == KeyStatesTypeOK /\ UpSettles /\ DownSettles /\ CodesFit /\ StaysInside

LEMMA KeyTypes ==
  ASSUME NEW k \in Keys
  PROVE  k.code \in 1 .. 127 /\ k.ext \in BOOLEAN
BY KeyStatesAssumption

LEMMA KeyByte ==
  ASSUME NEW code \in 1 .. 127, NEW up \in BOOLEAN
  PROVE  LET e == code + (IF up THEN 128 ELSE 0) IN
         e \in 0 .. 255 /\ e % 128 = code /\ (e < 128 <=> ~up)
<1>1. \A m \in 1 .. 127 : m % 128 = m /\ (m + 128) % 128 = m
  OBVIOUS
<1> QED BY <1>1

\* The bytes of a key, behind those that wait already.
Queued(f, k, up, g) ==
  \E h \in Seq(0 .. 255), e \in 0 .. 255 :
    /\ h = IF k.ext THEN Append(f, 224) ELSE f
    /\ g = Append(h, e) /\ e % 128 = k.code /\ (e < 128 <=> ~up)

LEMMA Sent ==
  ASSUME NEW f \in Seq(0 .. 255), NEW k \in Keys, NEW up \in BOOLEAN
  PROVE  Queued(f, k, up, f \o Scancodes(k, up)) /\ f \o Scancodes(k, up) \in Seq(0 .. 255)
<1> DEFINE e == k.code + (IF up THEN 128 ELSE 0)
           h == IF k.ext THEN Append(f, 224) ELSE f
<1>1. e \in 0 .. 255 /\ e % 128 = k.code /\ (e < 128 <=> ~up)
  <2>1. k.code \in 1 .. 127
    BY KeyTypes
  <2> QED BY ONLY <2>1, up \in BOOLEAN, KeyByte
<1>2. h \in Seq(0 .. 255)
  <2>1. Append(f, 224) \in Seq(0 .. 255)
    OBVIOUS
  <2> QED BY <2>1
<1>3. Scancodes(k, up) = (IF k.ext THEN <<224>> ELSE <<>>) \o <<e>>
  BY DEF Scancodes
<1> HIDE DEF e
<1>4. f \o Scancodes(k, up) = Append(h, e)
  <2>1. CASE k.ext
    <3>1. f \o (<<224>> \o <<e>>) = Append(Append(f, 224), e)
      BY <1>1
    <3> QED BY <1>3, <2>1, <3>1
  <2>2. CASE ~k.ext
    <3>1. f \o (<<>> \o <<e>>) = Append(f, e)
      BY <1>1
    <3> QED BY <1>3, <2>2, <3>1
  <2> QED BY <2>1, <2>2
<1>5. h = IF k.ext THEN Append(f, 224) ELSE f
  OBVIOUS
<1> HIDE DEF h
<1>6. Append(h, e) \in Seq(0 .. 255)
  BY <1>1, <1>2
<1> QED BY <1>1, <1>2, <1>4, <1>5, <1>6 DEF Queued

\* What they change, and what they leave.
LEMMA SentSettles ==
  ASSUME NEW f \in Seq(0 .. 255), NEW k \in Keys, NEW up \in BOOLEAN, NEW g, Queued(f, k, up, g), NEW state
  PROVE  /\ Settles(g, state, k.code, ~up)
         /\ \A c \in Nat : c # k.code /\ Settles(f, state, c, FALSE) => Settles(g, state, c, FALSE)
         /\ \A c \in Nat : c # k.code /\ c # 96 /\ Settles(f, state, c, TRUE) => Settles(g, state, c, TRUE)
<1>1. PICK h \in Seq(0 .. 255), e \in 0 .. 255 :
        /\ h = IF k.ext THEN Append(f, 224) ELSE f
        /\ g = Append(h, e) /\ e % 128 = k.code /\ (e < 128 <=> ~up)
  BY DEF Queued
<1>2. Settles(g, state, k.code, ~up)
  <2>1. Settles(g, state, k.code, e < 128)
    BY <1>1, AppendSettles
  <2> QED BY <1>1, <2>1 DEF Settles
<1>3. PICK prefix \in 0 .. 255 : prefix = 224 /\ prefix % 128 = 96 /\ ~(prefix < 128)
  OBVIOUS
<1>4. ASSUME NEW c, NEW down \in BOOLEAN, c # 96, k.ext, Settles(f, state, c, down)
      PROVE  Settles(h, state, c, down)
  <2>1. h = Append(f, prefix) /\ prefix % 128 # c
    BY <1>1, <1>3, <1>4
  <2>2. Settles(Append(f, prefix), state, c, down)
    BY <1>4, <2>1, AppendOther, Zenon
  <2> QED BY <2>1, <2>2
<1>5. ASSUME NEW c \in Nat, Settles(f, state, c, FALSE) PROVE Settles(h, state, c, FALSE)
  <2>1. CASE k.ext /\ c = 96
    <3>1. Settles(h, state, c, prefix < 128)
      BY <1>1, <1>3, <2>1, AppendSettles
    <3> QED BY <1>3, <3>1 DEF Settles
  <2>2. CASE k.ext /\ c # 96
    <3>1. FALSE \in BOOLEAN
      OBVIOUS
    <3> QED BY <1>5, <1>4, <2>2, <3>1, Zenon
  <2> QED BY <1>1, <1>5, <2>1, <2>2
<1>6. ASSUME NEW c \in Nat, c # 96, Settles(f, state, c, TRUE) PROVE Settles(h, state, c, TRUE)
  <2>1. CASE k.ext
    <3>1. TRUE \in BOOLEAN
      OBVIOUS
    <3> QED BY <1>6, <1>4, <2>1, <3>1, Zenon
  <2> QED BY <1>1, <1>6, <2>1
<1>7. ASSUME NEW c \in Nat, c # k.code, NEW down \in BOOLEAN, Settles(h, state, c, down)
      PROVE  Settles(g, state, c, down)
  <2>1. e % 128 # c
    BY <1>1, <1>7
  <2> QED BY <1>1, <1>7, <2>1, AppendOther, Zenon
<1> QED BY <1>2, <1>5, <1>6, <1>7

LEMMA KeysInitInv == KeyStatesInit => KeysInv
<1> SUFFICES ASSUME KeyStatesInit PROVE KeysInv
  OBVIOUS
<1>1. bytes \in [Offsets -> BOOLEAN] /\ fifo = <<>> /\ held = {} /\ Len(fifo) = 0 /\ MaxFifo \in Nat
  BY KeyStatesAssumption DEF KeyStatesInit
<1>2. KeyStatesTypeOK
  BY <1>1 DEF KeyStatesTypeOK
<1>3. \A c \in 0 .. KeyCount - 1 : c \in Offsets /\ c < 2 * KeyCount
  BY GameCodes DEF Offsets, KeyCount
<1>4. UpSettles
  <2> SUFFICES ASSUME NEW c \in 0 .. KeyCount - 1 PROVE Settles(fifo, bytes, c, FALSE)
    BY DEF UpSettles
  <2>1. ~bytes[c]
    <3>1. c \in Offsets /\ ~(c >= 2 * KeyCount)
      BY <1>3, GameCodes
    <3>2. bytes[c] <=> c >= 2 * KeyCount
      BY <3>1 DEF KeyStatesInit
    <3> QED BY <3>1, <3>2
  <2>2. \A l \in 1 .. Len(fifo) : FALSE
    BY <1>1
  <2> QED BY <2>1, <2>2 DEF Settles
<1>5. DownSettles /\ CodesFit
  BY <1>1 DEF DownSettles, CodesFit
<1>6. StaysInside
  BY DEF KeyStatesInit, StaysInside
<1> QED BY <1>2, <1>4, <1>5, <1>6 DEF KeysInv

LEMMA TwoWrites ==
  ASSUME NEW D, NEW f \in [D -> BOOLEAN], NEW a \in D, NEW b \in D, a # b,
         NEW v \in BOOLEAN, NEW w \in BOOLEAN, NEW g, g = [f EXCEPT ![b] = v, ![a] = w]
  PROVE  /\ g \in [D -> BOOLEAN] /\ g[a] = w /\ g[b] = v
         /\ \A o \in D : o # a /\ o # b => g[o] = f[o]
OBVIOUS

LEMMA HeadTail ==
  ASSUME NEW R, NEW f \in Seq(R), f # <<>>
  PROVE  /\ Head(f) \in R /\ Head(f) = f[1] /\ Tail(f) \in Seq(R)
         /\ Len(f) \in Nat \ {0} /\ Len(Tail(f)) = Len(f) - 1
         /\ \A m \in 1 .. Len(Tail(f)) : Tail(f)[m] = f[m + 1]
OBVIOUS

\* What handling one byte writes.
LEMMA HandledBytes ==
  ASSUME KeyStatesTypeOK, NEW sc \in 0 .. 255
  PROVE  /\ sc % 128 \in 0 .. 127 /\ Handled(sc) \in [Offsets -> BOOLEAN]
         /\ Handled(sc)[sc % 128] = (sc < 128)
         /\ Handled(sc)[100 + (sc % 128)] = (sc % 128 <= 100 /\ bytes[sc % 128])
         /\ \A o \in Offsets : o # sc % 128 /\ o # 100 + (sc % 128) => Handled(sc)[o] = bytes[o]
<1> DEFINE code == sc % 128
<1>1. code \in 0 .. 127 /\ Offsets = 0 .. 327
  BY GameCodes DEF Offsets, KeyCount
<1> HIDE DEF code
<1>2. ScancodeToKeycode(sc) = code /\ PreviousAt(code) = 100 + code /\ CurrentAt(code) = code
      /\ IsKeyPressed(code) = (code <= 100 /\ bytes[code]) /\ Pressed(sc) = (sc < 128)
  BY GameCodes DEF ScancodeToKeycode, PreviousAt, CurrentAt, IsKeyPressed, Pressed, code
<1>3. Handled(sc) = [bytes EXCEPT ![100 + code] = (code <= 100 /\ bytes[code]), ![code] = (sc < 128)]
  BY <1>2 DEF Handled
<1>4. code \in Offsets /\ 100 + code \in Offsets /\ code # 100 + code
  BY <1>1
<1>5. bytes \in [Offsets -> BOOLEAN]
  BY DEF KeyStatesTypeOK
<1>6. (code <= 100 /\ bytes[code]) \in BOOLEAN /\ (sc < 128) \in BOOLEAN
  OBVIOUS
<1> DEFINE before == code <= 100 /\ bytes[code]
           now == sc < 128
<1>7. before \in BOOLEAN /\ now \in BOOLEAN /\ Handled(sc) = [bytes EXCEPT ![100 + code] = before, ![code] = now]
  BY <1>3, <1>6
<1>8. PICK place \in Offsets : place = 100 + code
  BY <1>4
<1> HIDE DEF before, now
<1> DEFINE g == Handled(sc)
<1>9. /\ g \in [Offsets -> BOOLEAN] /\ g[code] = now /\ g[place] = before
      /\ \A o \in Offsets : o # code /\ o # place => g[o] = bytes[o]
  <2>1. g = [bytes EXCEPT ![place] = before, ![code] = now] /\ code # place
    BY <1>4, <1>7, <1>8
  <2> QED BY <1>4, <1>5, <1>7, <2>1, TwoWrites
<1>10. /\ Handled(sc) \in [Offsets -> BOOLEAN] /\ Handled(sc)[code] = now
       /\ Handled(sc)[100 + code] = before
       /\ \A o \in Offsets : o # code /\ o # 100 + code => Handled(sc)[o] = bytes[o]
  BY <1>8, <1>9, Zenon
<1> QED BY <1>1, <1>10, Zenon DEF code, before, now

LEMMA HandleTypes ==
  ASSUME KeyStatesTypeOK, Handle
  PROVE  /\ KeyStatesTypeOK' /\ Head(fifo) \in 0 .. 255 /\ fifo' = Tail(fifo) /\ fifo # <<>>
         /\ bytes' = Handled(Head(fifo)) /\ UNCHANGED held
<1>1. /\ fifo \in Seq(0 .. 255) /\ fifo # <<>> /\ fifo' = Tail(fifo) /\ Len(fifo) <= MaxFifo /\ MaxFifo \in Nat
      /\ bytes' = Handled(Head(fifo)) /\ UNCHANGED held
  BY KeyStatesAssumption DEF KeyStatesTypeOK, Handle
<1>2. Head(fifo) \in 0 .. 255 /\ Tail(fifo) \in Seq(0 .. 255) /\ Len(Tail(fifo)) <= MaxFifo
  <2>1. Head(fifo) \in 0 .. 255 /\ Tail(fifo) \in Seq(0 .. 255)
        /\ Len(fifo) \in Nat /\ Len(Tail(fifo)) = Len(fifo) - 1
    BY <1>1, HeadTail
  <2> QED BY <1>1, <2>1
<1>3. bytes' \in [Offsets -> BOOLEAN]
  BY <1>1, <1>2, HandledBytes
<1> QED BY <1>1, <1>2, <1>3 DEF KeyStatesTypeOK

LEMMA PressTypes ==
  ASSUME KeyStatesTypeOK, NEW k \in Keys, Press(k) \/ Release(k)
  PROVE  KeyStatesTypeOK'
<1>1. PICK up \in BOOLEAN : fifo' = fifo \o Scancodes(k, up) /\ Len(fifo) + 2 <= MaxFifo
  BY DEF Press, Release
<1>2. fifo \in Seq(0 .. 255) /\ fifo' \in Seq(0 .. 255) /\ Queued(fifo, k, up, fifo')
  BY <1>1, Sent DEF KeyStatesTypeOK
<1>3. Len(fifo') <= Len(fifo) + 2
  <2>1. PICK h \in Seq(0 .. 255), e \in 0 .. 255 :
          h = (IF k.ext THEN Append(fifo, 224) ELSE fifo) /\ fifo' = Append(h, e)
    BY <1>2 DEF Queued
  <2>2. Len(h) <= Len(fifo) + 1 /\ Len(h) \in Nat
    BY <1>2, <2>1
  <2> QED BY <1>2, <2>1, <2>2
<1>4. held' \subseteq Keys /\ UNCHANGED bytes
  BY DEF Press, Release, KeyStatesTypeOK
<1>5. Len(fifo') <= MaxFifo
  BY <1>1, <1>2, <1>3, KeyStatesAssumption
<1> QED BY <1>2, <1>4, <1>5 DEF KeyStatesTypeOK

LEMMA KeyTypesStep == KeyStatesTypeOK /\ [KeyStatesNext]_keyVars => KeyStatesTypeOK'
BY HandleTypes, PressTypes DEF KeyStatesNext, keyVars, KeyStatesTypeOK

\* A byte writes the current state of its own code, and the previous state of that
\* code: the current state of no code of a key but its own, for codes below the count.
LEMMA HandleKeys ==
  ASSUME GameKeyboard, KeysInv, Handle
  PROVE  KeysInv'
<1>1. /\ KeyStatesTypeOK' /\ Head(fifo) \in 0 .. 255 /\ fifo' = Tail(fifo) /\ fifo # <<>>
      /\ bytes' = Handled(Head(fifo)) /\ UNCHANGED held
  BY HandleTypes DEF KeysInv
<1>2. PICK sc \in 0 .. 255 : sc = Head(fifo)
  BY <1>1
<1>3. /\ sc % 128 \in 0 .. 127 /\ bytes'[sc % 128] = (sc < 128)
      /\ \A o \in Offsets : o # sc % 128 /\ o # 100 + (sc % 128) => bytes'[o] = bytes[o]
  BY <1>1, <1>2, HandledBytes DEF KeysInv
<1>4. fifo \in Seq(0 .. 255) /\ Offsets = 0 .. 327
  BY GameCodes DEF KeysInv, KeyStatesTypeOK, Offsets, KeyCount
<1>5. Len(fifo) \in Nat \ {0} /\ Head(fifo) = fifo[1] /\ Len(Tail(fifo)) = Len(fifo) - 1
      /\ \A m \in 1 .. Len(Tail(fifo)) : Tail(fifo)[m] = fifo[m + 1]
  BY <1>1, <1>4, HeadTail
<1>6. sc % 128 < 100
  BY <1>2, <1>5, GameCodes DEF KeysInv, CodesFit
<1>7. \A c \in 0 .. 99 : /\ Head(fifo) % 128 = c => (bytes'[c] <=> Head(fifo) < 128)
                         /\ Head(fifo) % 128 # c => (bytes'[c] <=> bytes[c])
  <2> SUFFICES ASSUME NEW c \in 0 .. 99
               PROVE  /\ sc % 128 = c => (bytes'[c] <=> sc < 128)
                      /\ sc % 128 # c => (bytes'[c] <=> bytes[c])
    BY <1>2
  <2>1. c \in Offsets
    BY <1>4
  <2>2. c # 100 + (sc % 128)
    <3>1. sc % 128 \in 0 .. 127
      BY <1>3
    <3> QED BY <3>1
  <2> QED BY <1>3, <2>1, <2>2, Zenon
<1>8. \A c \in 0 .. 99, down \in BOOLEAN : Settles(fifo, bytes, c, down) => Settles(Tail(fifo), bytes', c, down)
  BY <1>1, <1>4, <1>7, TailSettles
<1>9. UpSettles'
  <2> SUFFICES ASSUME NEW c \in 0 .. KeyCount - 1, \A k \in held : k.code # c
               PROVE  Settles(fifo', bytes', c, FALSE)
    BY <1>1, Zenon DEF UpSettles
  <2>1. FALSE \in BOOLEAN /\ Settles(fifo, bytes, c, FALSE)
    BY Zenon DEF KeysInv, UpSettles
  <2>2. c \in 0 .. 99
    BY GameCodes
  <2> QED BY <1>1, <1>8, <2>1, <2>2, Zenon
<1>10. DownSettles'
  <2> SUFFICES ASSUME NEW k \in held, k.name \in GameKeys
               PROVE  Settles(fifo', bytes', k.code, TRUE)
    BY <1>1, Zenon DEF DownSettles
  <2>1. TRUE \in BOOLEAN /\ Settles(fifo, bytes, k.code, TRUE)
    BY Zenon DEF KeysInv, DownSettles
  <2>2. k.code \in 0 .. 99
    <3>1. k \in Keys
      BY DEF KeysInv, KeyStatesTypeOK
    <3>2. k.code < 100 /\ k.code \in 1 .. 127
      BY <3>1, GameCodes, KeyTypes DEF GameKeyboard
    <3> QED BY <3>2
  <2> QED BY <1>1, <1>8, <2>1, <2>2, Zenon
<1>11. CodesFit'
  BY <1>1, <1>5 DEF KeysInv, CodesFit
<1>12. StaysInside'
  <2>1. ASSUME NEW o \in Offsets, o >= 2 * KeyCount PROVE bytes'[o]
    <3>1. bytes[o] /\ o # sc % 128 /\ o # 100 + (sc % 128)
      BY <1>3, <1>6, <2>1, GameCodes DEF KeysInv, StaysInside
    <3> QED BY <1>3, <3>1
  <2> QED BY <2>1 DEF StaysInside
<1> QED BY <1>1, <1>9, <1>10, <1>11, <1>12 DEF KeysInv

\* The bytes that a key sends have its code, or the prefix's.
LEMMA SentCodes ==
  ASSUME GameKeyboard, NEW f \in Seq(0 .. 255), NEW k \in Keys, NEW up \in BOOLEAN, NEW g,
         Queued(f, k, up, g), \A m \in 1 .. Len(f) : f[m] % 128 < KeyCount
  PROVE  \A m \in 1 .. Len(g) : g[m] % 128 < KeyCount
<1>1. PICK h \in Seq(0 .. 255), e \in 0 .. 255 :
        /\ h = IF k.ext THEN Append(f, 224) ELSE f
        /\ g = Append(h, e) /\ e % 128 = k.code
  BY DEF Queued
<1>2. k.code < KeyCount /\ 224 % 128 < KeyCount
  BY GameCodes DEF GameKeyboard
<1>3. \A m \in 1 .. Len(h) : h[m] % 128 < KeyCount
  BY <1>1, <1>2
<1>4. \A m \in 1 .. Len(g) : (m \in 1 .. Len(h) /\ g[m] = h[m]) \/ g[m] = e
  BY <1>1
<1> QED BY <1>1, <1>2, <1>3, <1>4

\* A key of the game shares its code with no other key, nor with the prefix.
LEMMA OwnCodes ==
  ASSUME GameKeyboard, NEW k \in Keys, NEW l \in Keys, k # l, l.name \in GameKeys
  PROVE  l.code # k.code /\ l.code # 96 /\ l.code \in Nat
<1>1. l.code = KeyCode(l.name)
  BY DEF GameKeyboard
<1>2. KeyCode(l.name) \in {30, 32, 57}
  BY GameCodes
<1>3. ASSUME k.code = l.code PROVE FALSE
  BY <1>1, <1>3 DEF GameKeyboard
<1> QED BY <1>1, <1>2, <1>3

LEMMA PressKeys ==
  ASSUME GameKeyboard, KeysInv, NEW k \in Keys, Press(k)
  PROVE  KeysInv'
<1>1. fifo' = fifo \o Scancodes(k, FALSE) /\ held' = held \cup {k} /\ UNCHANGED bytes
  BY DEF Press
<1>2. fifo \in Seq(0 .. 255) /\ FALSE \in BOOLEAN /\ held \subseteq Keys
  BY DEF KeysInv, KeyStatesTypeOK
<1>3. Queued(fifo, k, FALSE, fifo')
  BY <1>1, <1>2, Sent, Zenon
<1>4. KeyStatesTypeOK'
  BY PressTypes DEF KeysInv
<1>5. /\ Settles(fifo', bytes, k.code, TRUE)
      /\ \A c \in Nat : c # k.code /\ Settles(fifo, bytes, c, FALSE) => Settles(fifo', bytes, c, FALSE)
      /\ \A c \in Nat : c # k.code /\ c # 96 /\ Settles(fifo, bytes, c, TRUE) => Settles(fifo', bytes, c, TRUE)
  <2>1. Settles(fifo', bytes, k.code, ~FALSE)
    BY <1>2, <1>3, SentSettles, Zenon
  <2> QED BY <1>2, <1>3, <2>1, SentSettles
<1>6. UpSettles'
  <2> SUFFICES ASSUME NEW c \in 0 .. KeyCount - 1, \A l \in held' : l.code # c
               PROVE  Settles(fifo', bytes, c, FALSE)
    BY <1>1, Zenon DEF UpSettles
  <2>1. Settles(fifo, bytes, c, FALSE) /\ c # k.code
    BY <1>1, Zenon DEF KeysInv, UpSettles
  <2>2. c \in Nat
    BY GameCodes
  <2> QED BY <1>5, <2>1, <2>2, Zenon
<1>7. DownSettles'
  <2> SUFFICES ASSUME NEW l \in held', l.name \in GameKeys
               PROVE  Settles(fifo', bytes, l.code, TRUE)
    BY <1>1, Zenon DEF DownSettles
  <2>1. CASE l = k
    BY <1>5, <2>1, Zenon
  <2>2. CASE l # k
    <3>1. l \in held /\ l \in Keys
      BY <1>1, <1>2, <2>2
    <3>2. l.code # k.code /\ l.code # 96 /\ l.code \in Nat
      BY <2>2, <3>1, OwnCodes
    <3>3. Settles(fifo, bytes, l.code, TRUE)
      BY <3>1, Zenon DEF KeysInv, DownSettles
    <3> QED BY <1>5, <3>2, <3>3, Zenon
  <2> QED BY <2>1, <2>2
<1>8. CodesFit'
  BY <1>2, <1>3, SentCodes DEF KeysInv, CodesFit
<1>9. StaysInside'
  BY <1>1 DEF KeysInv, StaysInside
<1> QED BY <1>4, <1>6, <1>7, <1>8, <1>9 DEF KeysInv

LEMMA ReleaseKeys ==
  ASSUME GameKeyboard, KeysInv, NEW k \in Keys, Release(k)
  PROVE  KeysInv'
<1>1. fifo' = fifo \o Scancodes(k, TRUE) /\ held' = held \ {k} /\ k \in held /\ UNCHANGED bytes
  BY DEF Release
<1>2. fifo \in Seq(0 .. 255) /\ TRUE \in BOOLEAN /\ held \subseteq Keys
  BY DEF KeysInv, KeyStatesTypeOK
<1>3. Queued(fifo, k, TRUE, fifo')
  BY <1>1, <1>2, Sent, Zenon
<1>4. KeyStatesTypeOK'
  BY PressTypes DEF KeysInv
<1>5. /\ Settles(fifo', bytes, k.code, FALSE)
      /\ \A c \in Nat : c # k.code /\ Settles(fifo, bytes, c, FALSE) => Settles(fifo', bytes, c, FALSE)
      /\ \A c \in Nat : c # k.code /\ c # 96 /\ Settles(fifo, bytes, c, TRUE) => Settles(fifo', bytes, c, TRUE)
  <2>1. Settles(fifo', bytes, k.code, ~TRUE)
    BY <1>2, <1>3, SentSettles, Zenon
  <2> QED BY <1>2, <1>3, <2>1, SentSettles
<1>6. UpSettles'
  <2> SUFFICES ASSUME NEW c \in 0 .. KeyCount - 1, \A l \in held' : l.code # c
               PROVE  Settles(fifo', bytes, c, FALSE)
    BY <1>1, Zenon DEF UpSettles
  <2>1. CASE c = k.code
    BY <1>5, <2>1, Zenon
  <2>2. CASE c # k.code
    <3>1. \A l \in held : l.code # c
      BY <1>1, <2>2
    <3>2. Settles(fifo, bytes, c, FALSE)
      BY <3>1, Zenon DEF KeysInv, UpSettles
    <3>3. c \in Nat
      BY GameCodes
    <3> QED BY <1>5, <2>2, <3>2, <3>3, Zenon
  <2> QED BY <2>1, <2>2
<1>7. DownSettles'
  <2> SUFFICES ASSUME NEW l \in held', l.name \in GameKeys
               PROVE  Settles(fifo', bytes, l.code, TRUE)
    BY <1>1, Zenon DEF DownSettles
  <2>1. l \in held /\ l \in Keys /\ l # k
    BY <1>1, <1>2
  <2>2. l.code # k.code /\ l.code # 96 /\ l.code \in Nat
    BY <2>1, OwnCodes
  <2>3. Settles(fifo, bytes, l.code, TRUE)
    BY <2>1, Zenon DEF KeysInv, DownSettles
  <2> QED BY <1>5, <2>2, <2>3, Zenon
<1>8. CodesFit'
  BY <1>2, <1>3, SentCodes DEF KeysInv, CodesFit
<1>9. StaysInside'
  BY <1>1 DEF KeysInv, StaysInside
<1> QED BY <1>4, <1>6, <1>7, <1>8, <1>9 DEF KeysInv

LEMMA KeysInvStep == GameKeyboard /\ KeysInv /\ [KeyStatesNext]_keyVars => KeysInv'
<1> SUFFICES ASSUME GameKeyboard, KeysInv, [KeyStatesNext]_keyVars PROVE KeysInv'
  OBVIOUS
<1>1. CASE Handle
  BY <1>1, HandleKeys
<1>2. ASSUME NEW k \in Keys, Press(k) PROVE KeysInv'
  BY <1>2, PressKeys
<1>3. ASSUME NEW k \in Keys, Release(k) PROVE KeysInv'
  BY <1>3, ReleaseKeys
<1>4. CASE UNCHANGED keyVars
  BY <1>4 DEF keyVars, KeysInv, KeyStatesTypeOK, UpSettles, DownSettles, CodesFit, StaysInside
<1> QED BY <1>1, <1>2, <1>3, <1>4 DEF KeyStatesNext

\* With nothing left to handle, the states are the keys.
LEMMA KeysSoundHolds == GameKeyboard /\ KeysInv => KeysSound
<1> SUFFICES ASSUME GameKeyboard, KeysInv PROVE KeysSound
  OBVIOUS
<1>1. ASSUME fifo = <<>>, NEW c \in 0 .. 99, \A k \in held : k.code # c PROVE ~bytes[c]
  <2>1. Settles(fifo, bytes, c, FALSE)
    <3>1. c \in 0 .. KeyCount - 1
      BY GameCodes
    <3> QED BY <1>1, <3>1, Zenon DEF KeysInv, UpSettles
  <2>2. \A m \in 1 .. Len(fifo) : FALSE
    BY <1>1
  <2> QED BY <2>1, <2>2, Zenon DEF Settles
<1>2. ASSUME fifo = <<>>, NEW k \in held, k.name \in GameKeys PROVE bytes[k.code]
  <2>1. Settles(fifo, bytes, k.code, TRUE)
    BY <1>2, Zenon DEF KeysInv, DownSettles
  <2>2. \A m \in 1 .. Len(fifo) : FALSE
    BY <1>2
  <2> QED BY <2>1, <2>2, Zenon DEF Settles
<1>3. held \subseteq Keys
  BY DEF KeysInv, KeyStatesTypeOK
<1>4. GameKeysFollow
  <2> SUFFICES ASSUME fifo = <<>>, NEW name \in GameKeys
               PROVE  IsKeyPressed(KeyCode(name)) <=> \E k \in held : k.name = name
    BY DEF GameKeysFollow
  <2>1. KeyCode(name) \in 0 .. 99 /\ KeyCode(name) <= KeyCount
    BY GameCodes
  <2>2. \A k \in held : k.code = KeyCode(name) <=> k.name = name
    BY <1>3 DEF GameKeyboard
  <2>3. ASSUME NEW k \in held, k.name = name PROVE bytes[KeyCode(name)]
    BY <1>2, <2>2, <2>3
  <2>4. ASSUME ~\E k \in held : k.name = name PROVE ~bytes[KeyCode(name)]
    BY <1>1, <2>1, <2>2, <2>4
  <2> QED BY <2>1, <2>3, <2>4 DEF IsKeyPressed, CurrentAt
<1>5. NoStuckKey
  <2> SUFFICES ASSUME held = {}, fifo = <<>>, NEW c \in 0 .. KeyCount - 1
               PROVE  IsKeyReleased(c) /\ ~IsKeyPressed(c)
    BY DEF NoStuckKey
  <2>1. c \in 0 .. 99 /\ c <= KeyCount
    BY GameCodes
  <2>2. ~bytes[c]
    BY <1>1, <2>1
  <2> QED BY <2>1, <2>2 DEF IsKeyReleased, IsKeyPressed, CurrentAt
<1> QED BY <1>4, <1>5 DEF KeysInv, KeysSound

\* For every keyboard whose keys have codes below the count, and those of the game
\* codes of their own, the game sees its keys as they are, no key stays down, and
\* keyboard_handler writes nothing behind the key states.
THEOREM KeysAlwaysSound == GameKeyboard /\ KeyStatesSpec => []KeysSound
<1> SUFFICES ASSUME GameKeyboard PROVE KeyStatesSpec => []KeysSound
  OBVIOUS
<1>1. KeysInv /\ [KeyStatesNext]_keyVars => KeysInv'
  BY KeysInvStep
<1>2. KeyStatesSpec => []KeysInv
  BY <1>1, KeysInitInv, PTL DEF KeyStatesSpec
<1>3. KeysInv => KeysSound
  BY KeysSoundHolds
<1> QED BY <1>2, <1>3, PTL

\* The step of the key states under any keyboard, ones that write behind them too.
LEMMA UndisturbedStep ==
  KeyStatesTypeOK /\ [KeyStatesNext]_keyVars => [OthersMiss /\ RepeatsAreNotPresses]_keyVars
<1> SUFFICES ASSUME KeyStatesTypeOK, KeyStatesNext PROVE OthersMiss /\ RepeatsAreNotPresses
  OBVIOUS
<1>1. ASSUME Handle PROVE OthersMiss /\ RepeatsAreNotPresses
  <2>1. Head(fifo) \in 0 .. 255 /\ bytes' = Handled(Head(fifo))
    BY <1>1, HandleTypes
  <2>2. PICK sc \in 0 .. 255 : sc = Head(fifo)
    BY <2>1
  <2>3. /\ sc % 128 \in 0 .. 127
        /\ bytes'[100 + (sc % 128)] = (sc % 128 <= 100 /\ bytes[sc % 128])
        /\ \A o \in Offsets : o # sc % 128 /\ o # 100 + (sc % 128) => bytes'[o] = bytes[o]
    BY <2>1, <2>2, HandledBytes
  <2>4. Offsets = 0 .. 327
    BY GameCodes DEF Offsets, KeyCount
  <2>5. ASSUME NEW name \in GameKeys, sc \notin {KeyCode(name), KeyCode(name) + 128}
        PROVE  bytes'[KeyCode(name)] = bytes[KeyCode(name)] /\ bytes'[100 + KeyCode(name)] = bytes[100 + KeyCode(name)]
    <3>1. PICK c \in {30, 32, 57} : c = KeyCode(name)
      BY GameCodes
    <3>2. c # sc % 128
      BY <2>5, <3>1
    <3>3. c \in Offsets /\ 100 + c \in Offsets
      BY <2>4
    <3>4. c # 100 + (sc % 128) /\ 100 + c # sc % 128 /\ 100 + c # 100 + (sc % 128)
      <4>1. PICK m \in 0 .. 127 : m = sc % 128
        BY <2>3
      <4> QED BY <3>2, <4>1
    <3> QED BY <2>3, <3>1, <3>2, <3>3, <3>4, Zenon
  <2>6. OthersMiss
    BY <2>2, <2>5, GameCodes DEF OthersMiss, CurrentAt, PreviousAt
  <2>7. ASSUME NEW name \in GameKeys, sc = KeyCode(name), IsKeyPressed(KeyCode(name))
        PROVE  bytes'[100 + KeyCode(name)]
    <3>1. sc % 128 = sc /\ sc <= 100
      BY <2>7, GameCodes
    <3> QED BY <2>3, <2>7, <3>1 DEF IsKeyPressed, CurrentAt
  <2>8. RepeatsAreNotPresses
    BY <2>2, <2>7, GameCodes DEF RepeatsAreNotPresses, IsKeyJustPressed, PreviousAt
  <2> QED BY <2>6, <2>8
<1>2. ASSUME NEW k \in Keys, Press(k) \/ Release(k) PROVE OthersMiss /\ RepeatsAreNotPresses
  <2>1. PICK up \in BOOLEAN : fifo' = fifo \o Scancodes(k, up) /\ UNCHANGED bytes
    BY <1>2 DEF Press, Release
  <2>2. fifo \in Seq(0 .. 255) /\ Queued(fifo, k, up, fifo')
    BY <2>1, Sent DEF KeyStatesTypeOK
  <2>3. ~(Len(fifo') < Len(fifo))
    <3>1. PICK h \in Seq(0 .. 255), e \in 0 .. 255 :
            h = (IF k.ext THEN Append(fifo, 224) ELSE fifo) /\ fifo' = Append(h, e)
      BY <2>2 DEF Queued
    <3>2. Len(h) >= Len(fifo) /\ Len(h) \in Nat /\ Len(fifo) \in Nat
      BY <2>2, <3>1
    <3> QED BY <3>1, <3>2
  <2> QED BY <2>1, <2>3 DEF OthersMiss, RepeatsAreNotPresses
<1> QED BY <1>1, <1>2 DEF KeyStatesNext

\* A byte of another key, a prefix or a repetition never disturbs a key of the game.
THEOREM GameNeverDisturbed == KeyStatesSpec => GameUndisturbed
<1>1. KeyStatesInit => KeyStatesTypeOK
  BY KeysInitInv DEF KeysInv
<1>2. KeyStatesSpec => []KeyStatesTypeOK
  BY <1>1, KeyTypesStep, PTL DEF KeyStatesSpec
<1> QED BY <1>2, UndisturbedStep, PTL DEF KeyStatesSpec, GameUndisturbed

-----------------------------------------------------------------------------
(* The parts together.                                                     *)

ConsoleInv == DrawInv /\ TextureInv /\ LayoutInv /\ KeyStatesTypeOK

LEMMA ConsoleInitInv == ConsoleInit => ConsoleInv
BY DrawInitInv, TextureInitInv, LayoutInitInv, KeysInitInv DEF ConsoleInit, ConsoleInv, KeysInv

LEMMA ConsolePartsStep ==
  ASSUME ConsoleInv, [DrawNext]_drawVars, [TextureNext]_textureVars, [LayoutNext]_layoutVars,
         [KeyStatesNext]_keyVars
  PROVE  ConsoleInv'
BY DrawInvStep, TextureInvStep, LayoutInvStep, KeyTypesStep DEF ConsoleInv

\* A step of the console is a step of each part, or leaves it where it is.
LEMMA EveryConsolePartSteps ==
  ASSUME [ConsoleNext]_consoleVars
  PROVE  /\ [DrawNext]_drawVars /\ [TextureNext]_textureVars /\ [LayoutNext]_layoutVars
         /\ [KeyStatesNext]_keyVars
<1>1. CASE DrawingStep
  BY <1>1 DEF DrawingStep, otherThanDrawing
<1>2. CASE TexturesStep
  BY <1>2 DEF TexturesStep, otherThanTextures
<1>3. CASE LayoutStep
  BY <1>3 DEF LayoutStep, otherThanLayout
<1>4. CASE KeysStep
  BY <1>4 DEF KeysStep, otherThanKeys
<1>5. CASE UNCHANGED consoleVars
  BY <1>5 DEF consoleVars, otherThanDrawing
<1> QED BY <1>1, <1>2, <1>3, <1>4, <1>5 DEF ConsoleNext

LEMMA ConsoleInvStep == ConsoleInv /\ [ConsoleNext]_consoleVars => ConsoleInv'
BY ConsolePartsStep, EveryConsolePartSteps

\* The invariant of every part, in all behaviours of the console.
THEOREM ConsoleInvariant == ConsoleSpec => []ConsoleInv
BY ConsoleInitInv, ConsoleInvStep, PTL DEF ConsoleSpec

\* The variables of every part keep their types.
THEOREM ConsoleTypesCorrect == ConsoleSpec => []ConsoleTypeOK
<1>1. ConsoleInv => ConsoleTypeOK
  BY DrawTypeOKHolds, TextureTypeOKHolds, LayoutTypeOKHolds DEF ConsoleInv, ConsoleTypeOK
<1> QED BY <1>1, ConsoleInvariant, PTL
=============================================================================
