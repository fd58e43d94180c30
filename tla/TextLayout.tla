----------------------------- MODULE TextLayout -----------------------------
(***************************************************************************)
(* The two loops of Text::setText (kernel/graphics/text.cpp), the first of *)
(* which measures the text and the second copies a row of a glyph at a     *)
(* time from the font, and Font::getGlyphRect.  One turn of a loop is a    *)
(* step; a pixel is one cell.  TextClient has the memory around them.      *)
(***************************************************************************)
EXTENDS Integers, Sequences, FiniteSets

CONSTANTS
  Texts,                        \* strings that callers pass, as character codes
  CharWidth, CharHeight,        \* of the font
  Columns, FontRows,            \* glyphs in a row of the font's texture, and rows
  LayoutWord                    \* 2^64, scaled to the size of the instance

ASSUME TextLayoutAssumption ==
  /\ Texts \subseteq Seq(0 .. 255)
  /\ CharWidth \in Nat \ {0} /\ CharHeight \in Nat \ {0}
  /\ Columns \in Nat \ {0} /\ FontRows \in Nat \ {0} /\ LayoutWord \in Nat \ {0}

VARIABLES
  text,
  pc,                        \* "measure", "copy" or "done"
  i, j,                      \* characters and rows of a glyph done
  currWidth, width, height,  \* measured, in characters
  x, y,                      \* where the next glyph goes
  data,                      \* cell of the new texture to the cell of the font it shows
  reads                      \* cells of the font that were read, with the character

measured == <<currWidth, width, height>>
layoutVars == <<text, pc, i, j, measured, x, y, data, reads>>

Newline == 10
Greater(m, n) == IF m > n THEN m ELSE n

LayoutInit ==
  /\ text \in Texts /\ pc = "measure" /\ i = 0 /\ j = 0
  /\ currWidth = 0 /\ width = 0 /\ height = 0 /\ x = 0 /\ y = 0
  /\ data = [c \in {} |-> 0] /\ reads = {}

\* The newline itself counts as a character of its line.
LineWidthNoNewline == currWidth
LineWidth == currWidth + 1

Measure ==
  /\ pc = "measure" /\ i < Len(text)
  /\ i' = i + 1
  /\ IF text[i + 1] = Newline
       THEN height' = height + 1 /\ width' = Greater(width, LineWidth) /\ currWidth' = 0
       ELSE currWidth' = currWidth + 1 /\ UNCHANGED <<width, height>>
  /\ UNCHANGED <<text, pc, j, x, y, data, reads>>

\* The last line has no newline.  The new pixels are cleared: -1 stands for that.
Lines == height + 1
Measured ==
  /\ pc = "measure" /\ i = Len(text)
  /\ width' = Greater(width, currWidth) /\ height' = Lines
  /\ data' = [c \in 0 .. width' * height' * CharWidth * CharHeight - 1 |-> -1]
  /\ pc' = "copy" /\ i' = 0
  /\ UNCHANGED <<text, j, currWidth, x, y, reads>>

FontWidth == Columns * CharWidth
FontSize == FontWidth * FontRows * CharHeight

\* getGlyphRect: ch -= ' ' in a signed char, which then becomes a uint64_t.
SignedChar(n) == IF n % 256 < 128 THEN n % 256 ELSE (n % 256) - 256
GlyphIndexAsInt(ch) == (SignedChar(ch) - 32) % LayoutWord
GlyphIndex(ch) == SignedChar(ch - 32) % LayoutWord
GlyphX(ch) == (GlyphIndex(ch) % Columns) * CharWidth
GlyphY(ch) == (GlyphIndex(ch) \div Columns) * CharHeight

\* Cell of row j of a glyph in the font, and in the texture of the text.
FontCell(ch, row, k) == ((row + GlyphY(ch)) * FontWidth + GlyphX(ch) + k) % LayoutWord
CellAt(row, column, k) == row * width * CharWidth + column * CharWidth + k

RowsLeftOneMore == j <= CharHeight
RowsLeft == j < CharHeight

CopyRow ==
  LET ch == text[i + 1] IN
  /\ pc = "copy" /\ i < Len(text) /\ RowsLeft
  /\ data' = [c \in DOMAIN data |->
                IF \E k \in 0 .. CharWidth - 1 : c = CellAt(y + j, x, k)
                  THEN FontCell(ch, j, c - CellAt(y + j, x, 0)) ELSE data[c]]
  /\ reads' = reads \cup {<<ch, FontCell(ch, j, k)>> : k \in 0 .. CharWidth - 1}
  /\ j' = j + 1
  /\ UNCHANGED <<text, pc, i, measured, x, y>>

AdvanceKeepsColumn == IF text[i + 1] = Newline THEN x' = x + 1 /\ y' = y + 1 ELSE x' = x + 1 /\ y' = y
Advance == IF text[i + 1] = Newline THEN x' = 0 /\ y' = y + 1 ELSE x' = x + 1 /\ y' = y
NextCharacter ==
  /\ pc = "copy" /\ i < Len(text) /\ ~RowsLeft
  /\ i' = i + 1 /\ j' = 0 /\ Advance
  /\ UNCHANGED <<text, pc, measured, data, reads>>

Copied ==
  /\ pc = "copy" /\ i = Len(text)
  /\ pc' = "done" /\ UNCHANGED <<text, i, j, measured, x, y, data, reads>>

LayoutNext == Measure \/ Measured \/ CopyRow \/ NextCharacter \/ Copied
LayoutSpec == LayoutInit /\ [][LayoutNext]_layoutVars

-----------------------------------------------------------------------------
\* The variables have their types.
LayoutTypeOK ==
  /\ text \in Texts /\ pc \in {"measure", "copy", "done"}
  /\ i \in 0 .. Len(text) /\ j \in 0 .. CharHeight
  /\ currWidth \in Nat /\ width \in Nat /\ height \in Nat /\ x \in Nat /\ y \in Nat

\* The texture that the first loop measured has room for every glyph the second
\* one copies, in its row and in its column, newlines in any place included.
GlyphsFit ==
  pc = "copy" /\ i < Len(text) =>
    /\ x < width
    /\ j < CharHeight => y + j < height * CharHeight

\* Characters for which ch - ' ' is not negative as a signed char.  A newline is not
\* one of them, nor is any other character below 32 or from 160 on.
InFont(ch) == ch \in 32 .. 159

\* The glyphs of characters 32 to 159 are read from inside the font.  Nothing is said
\* of the others, a newline's included: their index wraps and lies in front of it.
ReadsFont == \A r \in reads : InFont(r[1]) => r[2] < FontSize

ShowsAt(ch, row, column) ==
  \A h \in 0 .. CharHeight - 1, k \in 0 .. CharWidth - 1 :
    data[CellAt(row + h, column, k)] = FontCell(ch, h, k)

NewlinesBefore(n) == {m \in 1 .. n - 1 : text[m] = Newline}
LineStart(n) == CHOOSE s \in {0} \cup NewlinesBefore(n) : \A m \in NewlinesBefore(n) : m <= s

\* The last line is complete, each glyph of it one character further right,
\* also when the lines before were longer.
LastLineShown ==
  pc = "done" =>
    \A n \in DOMAIN text :
      (\A m \in n .. Len(text) : text[m] # Newline) => ShowsAt(text[n], y, n - 1 - LineStart(n))

\* Glyphs of characters 32 to 159 come from inside the font, and the last line of a
\* text can be read.
TextShown == ReadsFont /\ LastLineShown
=============================================================================
