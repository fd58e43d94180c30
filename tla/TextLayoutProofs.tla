-------------------------- MODULE TextLayoutProofs --------------------------
(***************************************************************************)
(* Theorems about TextLayout for every text and every size of glyph: what  *)
(* the first loop of setText measures is enough for what the second does.  *)
(***************************************************************************)
EXTENDS TextLayout, FiniteSetTheorems, TLAPS

LayoutTypes ==
  /\ text \in Texts /\ text \in Seq(0 .. 255) /\ Len(text) \in Nat
  /\ pc \in {"measure", "copy", "done"}
  /\ i \in 0 .. Len(text) /\ j \in 0 .. CharHeight
  /\ currWidth \in Nat /\ width \in Nat /\ height \in Nat /\ x \in Nat /\ y \in Nat

\* Characters s + 1 to k are on one line, and the newlines among the first k.
OneLine(s, k) == \A m \in s + 1 .. k : text[m] # Newline
NewlinesTo(k) == {m \in 1 .. k : text[m] = Newline}

\* No line, a newline at its end included, of the first e characters is longer than w.
NoLonger(e, w) == \A k \in 1 .. e : \A s \in 0 .. k - 1 : OneLine(s, k - 1) => k - s <= w

MeasureInv ==
  pc = "measure" =>
    /\ x = 0 /\ y = 0 /\ j = 0
    /\ \A s \in 0 .. i : OneLine(s, i) => i - s <= currWidth
    /\ NoLonger(i, Greater(width, currWidth))
    /\ height = Cardinality(NewlinesTo(i))

CopyInv ==
  pc = "copy" =>
    /\ NoLonger(Len(text), width)
    /\ height = Cardinality(NewlinesTo(Len(text))) + 1
    /\ x <= i /\ OneLine(i - x, i)
    /\ y = Cardinality(NewlinesTo(i))

LayoutInv == LayoutTypes /\ MeasureInv /\ CopyInv

-----------------------------------------------------------------------------
\* A glyph of the last line ends inside h rows of c cells.
LEMMA LastRowFits ==
  ASSUME NEW h \in Nat \ {0}, NEW c \in Nat \ {0}
  PROVE  h - 1 + c <= h * c
<1>1. (h - 1) * (c - 1) >= 0
  OBVIOUS
<1>2. (h - 1) * (c - 1) = h * c - h - c + 1
  OBVIOUS
<1> QED BY <1>1, <1>2

LEMMA NewlinesFinite ==
  ASSUME NEW k \in Nat
  PROVE  IsFiniteSet(NewlinesTo(k)) /\ Cardinality(NewlinesTo(k)) \in Nat
<1>1. IsFiniteSet(1 .. k)
  BY FS_Interval
<1> QED BY <1>1, FS_Subset, FS_CardinalityType DEF NewlinesTo

\* One more character is one more newline or none.
LEMMA NewlinesNext ==
  ASSUME NEW k \in Nat
  PROVE  Cardinality(NewlinesTo(k + 1)) =
           IF text[k + 1] = Newline THEN Cardinality(NewlinesTo(k)) + 1 ELSE Cardinality(NewlinesTo(k))
<1>1. CASE text[k + 1] = Newline
  <2>1. NewlinesTo(k + 1) = NewlinesTo(k) \cup {k + 1} /\ k + 1 \notin NewlinesTo(k)
    BY <1>1 DEF NewlinesTo
  <2> QED BY <1>1, <2>1, NewlinesFinite, FS_AddElement
<1>2. CASE text[k + 1] # Newline
  <2>1. NewlinesTo(k + 1) = NewlinesTo(k)
    BY <1>2 DEF NewlinesTo
  <2> QED BY <1>2, <2>1
<1> QED BY <1>1, <1>2

\* The newlines so far are at most those of the text.
LEMMA NewlinesGrow ==
  ASSUME NEW k \in Nat, NEW e \in Nat, k <= e
  PROVE  Cardinality(NewlinesTo(k)) <= Cardinality(NewlinesTo(e))
<1>1. NewlinesTo(k) \subseteq NewlinesTo(e)
  BY DEF NewlinesTo
<1> QED BY <1>1, NewlinesFinite, FS_Subset

LEMMA LayoutInitInv == LayoutInit => LayoutInv
<1> SUFFICES ASSUME LayoutInit PROVE LayoutInv
  OBVIOUS
<1>1. LayoutTypes
  BY TextLayoutAssumption DEF LayoutInit, LayoutTypes
<1>2. NewlinesTo(0) = {}
  BY DEF NewlinesTo
<1>3. MeasureInv
  BY <1>2, FS_EmptySet DEF LayoutInit, MeasureInv, NoLonger
<1>4. CopyInv
  BY DEF LayoutInit, CopyInv
<1> QED BY <1>1, <1>3, <1>4 DEF LayoutInv

LEMMA MeasureStep == LayoutInv /\ Measure => LayoutInv'
<1> SUFFICES ASSUME LayoutInv, Measure PROVE LayoutInv'
  OBVIOUS
<1>1. /\ LayoutTypes /\ MeasureInv /\ pc = "measure" /\ pc' = "measure" /\ text' = text /\ i' = i + 1
      /\ i \in Nat /\ i + 1 <= Len(text) /\ x' = 0 /\ y' = 0 /\ j' = 0
  BY DEF LayoutInv, Measure, LayoutTypes, MeasureInv
<1>2. /\ width \in Nat /\ currWidth \in Nat /\ height \in Nat
      /\ \/ /\ text[i + 1] = Newline /\ currWidth' = 0
            /\ height' = height + 1 /\ width' = Greater(width, currWidth + 1)
         \/ /\ text[i + 1] # Newline /\ currWidth' = currWidth + 1
            /\ width' = width /\ height' = height
  BY <1>1 DEF Measure, LineWidth, LayoutTypes
<1>3. /\ width' \in Nat /\ currWidth' \in Nat /\ height' \in Nat
      /\ Greater(width, currWidth) <= Greater(width', currWidth')
      /\ currWidth + 1 <= Greater(width', currWidth')
  BY <1>2 DEF Greater
<1>4. LayoutTypes'
  BY <1>1, <1>3, TextLayoutAssumption DEF LayoutTypes
<1>5. \A s \in 0 .. i + 1 : OneLine(s, i + 1) => i + 1 - s <= currWidth'
  <2> SUFFICES ASSUME NEW s \in 0 .. i + 1, OneLine(s, i + 1) PROVE i + 1 - s <= currWidth'
    OBVIOUS
  <2>1. CASE s = i + 1
    BY <1>1, <1>3, <2>1
  <2>2. CASE s \in 0 .. i
    <3>1. text[i + 1] # Newline /\ OneLine(s, i)
      BY <1>1, <2>2 DEF OneLine
    <3> QED BY <1>1, <1>2, <2>2, <3>1 DEF MeasureInv
  <2> QED BY <1>1, <2>1, <2>2
<1>6. NoLonger(i + 1, Greater(width', currWidth'))
  <2> SUFFICES ASSUME NEW k \in 1 .. i + 1, NEW s \in 0 .. k - 1, OneLine(s, k - 1)
               PROVE  k - s <= Greater(width', currWidth')
    BY DEF NoLonger
  <2>0. Greater(width, currWidth) \in Nat /\ Greater(width', currWidth') \in Nat
    BY <1>2, <1>3 DEF Greater
  <2>1. CASE k = i + 1
    <3>1. s \in 0 .. i /\ OneLine(s, i) /\ k - s = i - s + 1
      BY <1>1, <2>1
    <3>2. i - s <= currWidth
      BY <1>1, <3>1 DEF MeasureInv
    <3> QED BY <1>1, <1>2, <1>3, <2>0, <3>1, <3>2
  <2>2. CASE k \in 1 .. i
    <3>1. k - s <= Greater(width, currWidth)
      BY <1>1, <2>2 DEF MeasureInv, NoLonger
    <3> QED BY <1>3, <2>0, <2>2, <3>1
  <2> QED BY <1>1, <2>1, <2>2
<1>7. height' = Cardinality(NewlinesTo(i + 1))
  BY <1>1, <1>2, NewlinesNext DEF MeasureInv
<1>8. MeasureInv'
  BY <1>1, <1>5, <1>6, <1>7 DEF MeasureInv, NoLonger, OneLine, NewlinesTo, Greater
<1>9. CopyInv'
  BY <1>1 DEF CopyInv
<1> QED BY <1>4, <1>8, <1>9 DEF LayoutInv

LEMMA MeasuredStep == LayoutInv /\ Measured => LayoutInv'
<1> SUFFICES ASSUME LayoutInv, Measured PROVE LayoutInv'
  OBVIOUS
<1>1. /\ LayoutTypes /\ MeasureInv /\ pc = "measure" /\ pc' = "copy" /\ text' = text /\ i' = 0 /\ i = Len(text)
      /\ x' = 0 /\ y' = 0 /\ j' = 0 /\ currWidth' = currWidth /\ Len(text) \in Nat
      /\ width' = Greater(width, currWidth) /\ height' = height + 1
  BY DEF LayoutInv, Measured, LayoutTypes, MeasureInv, Lines
<1>2. width' \in Nat
  BY <1>1 DEF Greater, LayoutTypes
<1>3. LayoutTypes'
  BY <1>1, <1>2, TextLayoutAssumption DEF LayoutTypes
<1>4. NewlinesTo(0) = {}
  BY DEF NewlinesTo
<1>5. NoLonger(Len(text), width') /\ height' = Cardinality(NewlinesTo(Len(text))) + 1
  BY <1>1 DEF MeasureInv
<1>6. CopyInv'
  BY <1>1, <1>4, <1>5, FS_EmptySet DEF CopyInv, NoLonger, OneLine, NewlinesTo
<1>7. MeasureInv'
  BY <1>1 DEF MeasureInv
<1> QED BY <1>3, <1>6, <1>7 DEF LayoutInv

LEMMA CopyRowStep == LayoutInv /\ CopyRow => LayoutInv'
<1> SUFFICES ASSUME LayoutInv, CopyRow PROVE LayoutInv'
  OBVIOUS
<1>1. /\ LayoutTypes /\ CopyInv /\ pc = "copy" /\ j < CharHeight /\ j' = j + 1
      /\ UNCHANGED <<text, pc, i, currWidth, width, height, x, y>>
  BY DEF LayoutInv, CopyRow, RowsLeft, measured
<1>2. LayoutTypes'
  BY <1>1, TextLayoutAssumption DEF LayoutTypes
<1>3. CopyInv' /\ MeasureInv'
  BY <1>1 DEF CopyInv, MeasureInv, NoLonger, OneLine, NewlinesTo
<1> QED BY <1>2, <1>3 DEF LayoutInv

LEMMA NextCharacterStep == LayoutInv /\ NextCharacter => LayoutInv'
<1> SUFFICES ASSUME LayoutInv, NextCharacter PROVE LayoutInv'
  OBVIOUS
<1>1. /\ LayoutTypes /\ CopyInv /\ pc = "copy" /\ pc' = "copy" /\ i' = i + 1 /\ j' = 0
      /\ i \in Nat /\ i < Len(text) /\ Len(text) \in Nat /\ x \in Nat /\ y \in Nat
      /\ UNCHANGED <<text, currWidth, width, height>>
  BY DEF LayoutInv, NextCharacter, measured, LayoutTypes
<1>2. \/ text[i + 1] = Newline /\ x' = 0 /\ y' = y + 1
      \/ text[i + 1] # Newline /\ x' = x + 1 /\ y' = y
  BY DEF NextCharacter, Advance
<1>3. LayoutTypes'
  BY <1>1, <1>2, TextLayoutAssumption DEF LayoutTypes
<1>4. y' = Cardinality(NewlinesTo(i + 1))
  BY <1>1, <1>2, NewlinesNext DEF CopyInv
<1>5. x' <= i + 1 /\ OneLine(i + 1 - x', i + 1)
  <2>1. CASE text[i + 1] = Newline
    BY <1>1, <1>2, <2>1 DEF OneLine
  <2>2. CASE text[i + 1] # Newline
    <3>1. x' = x + 1 /\ x <= i /\ i + 1 - x' = i - x /\ OneLine(i - x, i)
      BY <1>1, <1>2, <2>2 DEF CopyInv
    <3>2. OneLine(i - x, i + 1)
      BY <1>1, <2>2, <3>1 DEF OneLine
    <3> QED BY <1>1, <3>1, <3>2
  <2> QED BY <2>1, <2>2
<1>6. CopyInv'
  <2>1. NoLonger(Len(text), width)' /\ (height = Cardinality(NewlinesTo(Len(text))) + 1)'
    BY <1>1 DEF CopyInv, NoLonger, OneLine, NewlinesTo
  <2>2. (x <= i /\ OneLine(i - x, i))'
    <3>1. i' - x' = i + 1 - x'
      BY <1>1, <1>2
    <3>2. \A m \in i' - x' + 1 .. i' : text[m] # Newline
      BY <1>1, <1>5, <3>1 DEF OneLine
    <3> QED BY <1>1, <1>5, <3>2 DEF OneLine
  <2>3. (y = Cardinality(NewlinesTo(i)))'
    BY <1>1, <1>4 DEF NewlinesTo
  <2> QED BY <2>1, <2>2, <2>3 DEF CopyInv
<1>7. MeasureInv'
  BY <1>1 DEF MeasureInv
<1> QED BY <1>3, <1>6, <1>7 DEF LayoutInv

LEMMA CopiedStep == LayoutInv /\ Copied => LayoutInv'
<1> SUFFICES ASSUME LayoutInv, Copied PROVE LayoutInv'
  OBVIOUS
<1>1. LayoutTypes /\ pc' = "done" /\ UNCHANGED <<text, i, j, currWidth, width, height, x, y>>
  BY DEF LayoutInv, Copied, measured
<1> QED BY <1>1 DEF LayoutInv, LayoutTypes, MeasureInv, CopyInv

LEMMA LayoutStutterStep == LayoutInv /\ UNCHANGED layoutVars => LayoutInv'
<1> SUFFICES ASSUME LayoutInv, UNCHANGED layoutVars PROVE LayoutInv'
  OBVIOUS
<1>1. UNCHANGED <<text, pc, i, j, currWidth, width, height, x, y>>
  BY DEF layoutVars, measured
<1>2. LayoutTypes'
  BY <1>1 DEF LayoutInv, LayoutTypes
<1>3. MeasureInv' /\ CopyInv'
  BY <1>1 DEF LayoutInv, MeasureInv, CopyInv, NoLonger, OneLine, NewlinesTo
<1> QED BY <1>2, <1>3 DEF LayoutInv

LEMMA LayoutInvStep == LayoutInv /\ [LayoutNext]_layoutVars => LayoutInv'
BY MeasureStep, MeasuredStep, CopyRowStep, NextCharacterStep, CopiedStep, LayoutStutterStep DEF LayoutNext

\* What has been measured and where the next glyph goes, after any part of the text.
THEOREM LayoutInvariant == LayoutSpec => []LayoutInv
BY LayoutInitInv, LayoutInvStep, PTL DEF LayoutSpec

LEMMA LayoutTypeOKHolds == LayoutInv => LayoutTypeOK
BY DEF LayoutInv, LayoutTypes, LayoutTypeOK

\* Every variable keeps its type.
THEOREM LayoutTypesCorrect == LayoutSpec => []LayoutTypeOK
BY LayoutTypeOKHolds, LayoutInvariant, PTL

LEMMA GlyphsFitHolds == LayoutInv => GlyphsFit
<1>1. ASSUME LayoutInv, pc = "copy", i < Len(text)
      PROVE  x < width /\ (j < CharHeight => y + j < height * CharHeight)
  <2>1. /\ LayoutTypes /\ CopyInv /\ i \in Nat /\ Len(text) \in Nat /\ x \in Nat /\ y \in Nat /\ j \in Nat
        /\ width \in Nat /\ height \in Nat /\ CharHeight \in Nat \ {0}
    BY <1>1, TextLayoutAssumption DEF LayoutInv, LayoutTypes
  <2>2. x < width
    <3>1. NoLonger(Len(text), width) /\ x <= i /\ OneLine(i - x, i)
      BY <1>1, <2>1 DEF CopyInv
    <3>2. i + 1 \in 1 .. Len(text) /\ i - x \in 0 .. (i + 1) - 1 /\ (i + 1) - 1 = i
      BY <1>1, <2>1, <3>1
    <3>3. (i + 1) - (i - x) <= width
      BY <3>1, <3>2 DEF NoLonger
    <3> QED BY <2>1, <3>3
  <2>3. ASSUME j < CharHeight PROVE y + j < height * CharHeight
    <3>1. y <= height - 1 /\ height > 0
      <4>1. y = Cardinality(NewlinesTo(i)) /\ height = Cardinality(NewlinesTo(Len(text))) + 1
        BY <1>1, <2>1 DEF CopyInv
      <4>2. Cardinality(NewlinesTo(i)) <= Cardinality(NewlinesTo(Len(text)))
        BY <1>1, <2>1, NewlinesGrow
      <4>3. PICK m \in Nat : m = Cardinality(NewlinesTo(Len(text)))
        BY <2>1, NewlinesFinite
      <4>4. height = m + 1 /\ y <= m
        BY <4>1, <4>2, <4>3
      <4> QED BY <2>1, <4>4
    <3>2. height - 1 + CharHeight <= height * CharHeight
      BY <2>1, <3>1, LastRowFits
    <3>3. height * CharHeight \in Nat
      BY <2>1
    <3> QED BY <2>1, <2>3, <3>1, <3>2, <3>3
  <2> QED BY <2>2, <2>3
<1> QED BY <1>1 DEF GlyphsFit

\* No text makes setText copy a glyph outside of the texture that it measured.
THEOREM GlyphsAlwaysFit == LayoutSpec => []GlyphsFit
BY GlyphsFitHolds, LayoutInvariant, PTL

-----------------------------------------------------------------------------
(* What is read from the font and what the texture shows.                  *)

\* Place m of n with r of c behind it.
LEMMA PlaceBelow ==
  ASSUME NEW n \in Nat, NEW m \in 0 .. n - 1, NEW c \in Nat, NEW r \in 0 .. c - 1
  PROVE  m * c + r \in Nat /\ m * c + r < n * c
<1>1. n - 1 - m \in Nat /\ m \in Nat
  OBVIOUS
<1>2. (n - 1 - m) * c \in Nat /\ m * c \in Nat /\ n * c = (n - 1 - m) * c + m * c + c
  BY <1>1
<1> QED BY <1>1, <1>2

LEMMA PlaceUnique ==
  ASSUME NEW c \in Nat, NEW m \in Nat, NEW r \in 0 .. c - 1, NEW n \in Nat, NEW s \in 0 .. c - 1,
         m * c + r = n * c + s
  PROVE  m = n /\ r = s
<1>1. ASSUME NEW p \in Nat, NEW q \in Nat, p < q PROVE p * c + c <= q * c
  <2>1. q - 1 - p \in Nat /\ c \in Nat
    BY <1>1
  <2>2. (q - 1 - p) * c \in Nat /\ p * c \in Nat /\ q * c = (q - 1 - p) * c + p * c + c
    BY <2>1
  <2> QED BY <2>2
<1>2. m * c \in Nat /\ n * c \in Nat
  OBVIOUS
<1>3. ~(m < n) /\ ~(n < m)
  BY <1>1, <1>2
<1>4. m = n
  BY <1>3
<1> QED BY <1>2, <1>4

\* The glyphs of printable characters lie inside a font with room for 128 glyphs.
LEMMA GlyphInFont ==
  ASSUME Columns * FontRows >= 128, NEW ch \in 32 .. 159,
         NEW h \in 0 .. CharHeight - 1, NEW k \in 0 .. CharWidth - 1
  PROVE  FontCell(ch, h, k) < FontSize
<1> DEFINE g == GlyphIndex(ch)
           column == g % Columns
           row == g \div Columns
<1>1. /\ CharWidth \in Nat \ {0} /\ CharHeight \in Nat \ {0} /\ Columns \in Nat \ {0}
      /\ FontRows \in Nat \ {0} /\ LayoutWord \in Nat \ {0}
  BY TextLayoutAssumption
<1>2. g \in 0 .. 127
  <2>1. SignedChar(ch - 32) = ch - 32 /\ ch - 32 \in 0 .. 127
    BY DEF SignedChar
  <2>2. \A m \in 0 .. 127 : m % LayoutWord \in 0 .. 127
    BY <1>1
  <2> QED BY <2>1, <2>2 DEF GlyphIndex
<1> HIDE DEF g
<1>3. column \in 0 .. Columns - 1 /\ row \in Nat /\ g = row * Columns + column
  BY <1>1, <1>2
<1> HIDE DEF column, row
<1>4. row <= FontRows - 1
  <2> SUFFICES ASSUME row >= FontRows PROVE FALSE
    BY <1>1, <1>3
  <2>1. row - FontRows \in Nat
    BY <1>1, <1>3
  <2>2. (row - FontRows) * Columns \in Nat /\ row * Columns = (row - FontRows) * Columns + Columns * FontRows
    BY <1>1, <1>3, <2>1
  <2> QED BY <1>1, <1>2, <1>3, <2>2
<1>5. GlyphX(ch) = column * CharWidth /\ GlyphY(ch) = row * CharHeight
  BY DEF GlyphX, GlyphY, g, column, row
<1>6. column * CharWidth + k \in Nat /\ column * CharWidth + k < FontWidth
  BY <1>1, <1>3, PlaceBelow DEF FontWidth
<1>7. row * CharHeight + h \in Nat /\ row * CharHeight + h < FontRows * CharHeight
  BY <1>1, <1>3, <1>4, PlaceBelow
<1> DEFINE line == row * CharHeight + h
           rest == column * CharWidth + k
<1>8. line * FontWidth + rest \in Nat /\ line * FontWidth + rest < (FontRows * CharHeight) * FontWidth
  <2>1. FontRows * CharHeight \in Nat /\ FontWidth \in Nat
    BY <1>1 DEF FontWidth
  <2>2. line \in 0 .. FontRows * CharHeight - 1 /\ rest \in 0 .. FontWidth - 1
    BY <1>6, <1>7, <2>1
  <2> HIDE DEF line, rest
  <2> QED BY <2>1, <2>2, PlaceBelow
<1>9. (FontRows * CharHeight) * FontWidth = FontSize
  BY <1>1 DEF FontSize, FontWidth
<1>10. (h + GlyphY(ch)) * FontWidth + GlyphX(ch) + k = line * FontWidth + rest
  <2>1. h + GlyphY(ch) = line /\ GlyphX(ch) + k = rest /\ GlyphX(ch) \in Nat
    BY <1>1, <1>3, <1>5, <1>7
  <2>2. line * FontWidth \in Nat
    BY <1>1, <1>7 DEF FontWidth
  <2> HIDE DEF line, rest
  <2> QED BY <2>1, <2>2
<1>11. \A m \in Nat : m % LayoutWord <= m
  BY <1>1
<1> HIDE DEF line, rest
<1>12. (line * FontWidth + rest) % LayoutWord <= line * FontWidth + rest
  BY <1>8, <1>11
<1>13. (line * FontWidth + rest) % LayoutWord \in Nat /\ FontSize \in Nat
  BY <1>1, <1>8 DEF FontSize, FontWidth
<1> QED BY <1>8, <1>9, <1>10, <1>12, <1>13 DEF FontCell

\* Cells of the texture are apart when their rows, columns or places in the glyph are.
LEMMA CellsApart ==
  ASSUME width \in Nat, NEW r \in Nat, NEW c \in 0 .. width - 1, NEW k \in 0 .. CharWidth - 1,
         NEW q \in Nat, NEW d \in 0 .. width - 1, NEW l \in 0 .. CharWidth - 1,
         CellAt(r, c, k) = CellAt(q, d, l)
  PROVE  r = q /\ c = d /\ k = l
<1>1. CharWidth \in Nat \ {0} /\ width \in Nat \ {0}
  BY TextLayoutAssumption
<1> DEFINE pitch == width * CharWidth
<1>2. pitch \in Nat /\ c * CharWidth + k \in 0 .. pitch - 1 /\ d * CharWidth + l \in 0 .. pitch - 1
  BY <1>1, PlaceBelow
<1>3. CellAt(r, c, k) = r * pitch + (c * CharWidth + k) /\ CellAt(q, d, l) = q * pitch + (d * CharWidth + l)
  BY <1>1 DEF CellAt
<1> HIDE DEF pitch
<1>4. r = q /\ c * CharWidth + k = d * CharWidth + l
  <2>1. PICK u \in 0 .. pitch - 1, v \in 0 .. pitch - 1 : u = c * CharWidth + k /\ v = d * CharWidth + l
    BY <1>2
  <2>2. r * pitch + u = q * pitch + v
    BY <1>3, <2>1
  <2>3. r = q /\ u = v
    BY <1>2, <2>2, PlaceUnique
  <2> QED BY <2>1, <2>3
<1>5. c = d /\ k = l
  BY <1>1, <1>4, PlaceUnique
<1> QED BY <1>4, <1>5

\* The pixels of the measured texture.
Area == 0 .. width * height * CharWidth * CharHeight - 1

LEMMA CellInArea ==
  ASSUME width \in Nat, height \in Nat, NEW r \in Nat, r < height * CharHeight,
         NEW c \in 0 .. width - 1, NEW k \in 0 .. CharWidth - 1
  PROVE  CellAt(r, c, k) \in Area
<1>1. CharWidth \in Nat \ {0} /\ CharHeight \in Nat \ {0} /\ width \in Nat \ {0}
  BY TextLayoutAssumption
<1> DEFINE pitch == width * CharWidth
           rows == height * CharHeight
<1>2. pitch \in Nat /\ rows \in Nat /\ c * CharWidth + k \in 0 .. pitch - 1 /\ r \in 0 .. rows - 1
  BY <1>1, PlaceBelow
<1>3. CellAt(r, c, k) = r * pitch + (c * CharWidth + k)
  BY <1>1 DEF CellAt
<1>4. rows * pitch = width * height * CharWidth * CharHeight
  BY <1>1
<1> HIDE DEF pitch, rows
<1>5. r * pitch + (c * CharWidth + k) \in Nat /\ r * pitch + (c * CharWidth + k) < rows * pitch
  BY <1>2, PlaceBelow
<1>6. PICK size \in Nat : size = rows * pitch
  BY <1>2
<1> QED BY <1>3, <1>4, <1>5, <1>6 DEF Area

\* Characters before the line that is being copied.
LineBegin == i - x

\* Every cell that was read belongs to the glyph of its character.
GlyphCell(ch, cell) ==
  \E h \in 0 .. CharHeight - 1, k \in 0 .. CharWidth - 1 : cell = FontCell(ch, h, k)
GlyphsRead == \A r \in reads : GlyphCell(r[1], r[2])

\* The glyphs of the line so far are shown, and of the next glyph its first rows.
LineShown == \A n \in LineBegin + 1 .. i : ShowsAt(text[n], y, n - 1 - LineBegin)
TopShown ==
  \A h \in 0 .. j - 1, k \in 0 .. CharWidth - 1 :
    data[CellAt(y + h, x, k)] = FontCell(text[i + 1], h, k)

ShownInv ==
  /\ GlyphsRead
  /\ pc # "measure" =>
       /\ DOMAIN data = Area /\ x <= i /\ OneLine(LineBegin, i)
       /\ x = i \/ text[LineBegin] = Newline
       /\ LineShown
  /\ pc = "copy" => TopShown
  /\ pc = "done" => i = Len(text)

LEMMA ShownInit == LayoutInit => ShownInv
BY DEF LayoutInit, ShownInv, GlyphsRead

LEMMA ShownMeasured == LayoutInv /\ ShownInv /\ Measured => ShownInv'
<1> SUFFICES ASSUME LayoutInv, ShownInv, Measured PROVE ShownInv'
  OBVIOUS
<1>1. /\ x' = 0 /\ j' = 0 /\ i' = 0 /\ pc' = "copy" /\ DOMAIN data' = Area' /\ reads' = reads
      /\ UNCHANGED text /\ LineBegin' = 0
  BY DEF LayoutInv, Measured, MeasureInv, Area, LineBegin
<1>2. OneLine(LineBegin, i)' /\ LineShown' /\ TopShown' /\ GlyphsRead'
  BY <1>1 DEF OneLine, LineShown, TopShown, ShownInv, GlyphsRead
<1> QED BY <1>1, <1>2 DEF ShownInv

\* A glyph is shown as long as none of its cells is written.
LEMMA GlyphKept ==
  ASSUME NEW ch, NEW row, NEW column, ShowsAt(ch, row, column), UNCHANGED width,
         \A h \in 0 .. CharHeight - 1, k \in 0 .. CharWidth - 1 :
           data'[CellAt(row + h, column, k)] = data[CellAt(row + h, column, k)]
  PROVE  \A h \in 0 .. CharHeight - 1, k \in 0 .. CharWidth - 1 :
           data'[CellAt(row + h, column, k)] = FontCell(ch, h, k)
BY DEF ShowsAt

\* What CopyRow writes.
LEMMA RowCopied ==
  ASSUME LayoutInv, ShownInv, CopyRow
  PROVE  /\ x \in 0 .. width - 1 /\ y + j \in Nat /\ DOMAIN data' = DOMAIN data
         /\ \A k \in 0 .. CharWidth - 1 : data'[CellAt(y + j, x, k)] = FontCell(text[i + 1], j, k)
         /\ \A r \in Nat, c \in 0 .. width - 1, k \in 0 .. CharWidth - 1 :
              r < height * CharHeight /\ (r # y + j \/ c # x) => data'[CellAt(r, c, k)] = data[CellAt(r, c, k)]
<1>1. /\ LayoutTypes /\ pc = "copy" /\ i < Len(text) /\ j < CharHeight /\ CharWidth \in Nat \ {0}
      /\ width \in Nat /\ height \in Nat /\ x \in Nat /\ y \in Nat /\ j \in Nat
  BY TextLayoutAssumption DEF LayoutInv, LayoutTypes, CopyRow, RowsLeft
<1>2. x < width /\ y + j < height * CharHeight
  BY <1>1, GlyphsFitHolds DEF GlyphsFit
<1>3. x \in 0 .. width - 1 /\ y + j \in Nat
  BY <1>1, <1>2
<1>4. data' = [c \in DOMAIN data |->
                IF \E k \in 0 .. CharWidth - 1 : c = CellAt(y + j, x, k)
                  THEN FontCell(text[i + 1], j, c - CellAt(y + j, x, 0)) ELSE data[c]]
  BY DEF CopyRow
<1>5. DOMAIN data = Area
  BY <1>1 DEF ShownInv
<1>6. ASSUME NEW k \in 0 .. CharWidth - 1
      PROVE  data'[CellAt(y + j, x, k)] = FontCell(text[i + 1], j, k)
  <2>1. CellAt(y + j, x, k) \in Area
    BY <1>1, <1>2, <1>3, CellInArea
  <2>2. CellAt(y + j, x, k) - CellAt(y + j, x, 0) = k
    <3>1. (y + j) * width * CharWidth + x * CharWidth \in Nat
      BY <1>1
    <3> QED BY <3>1 DEF CellAt
  <2> QED BY <1>4, <1>5, <2>1, <2>2
<1>7. ASSUME NEW r \in Nat, NEW c \in 0 .. width - 1, NEW k \in 0 .. CharWidth - 1,
             r < height * CharHeight, r # y + j \/ c # x
      PROVE  data'[CellAt(r, c, k)] = data[CellAt(r, c, k)]
  <2>1. CellAt(r, c, k) \in Area
    BY <1>1, <1>7, CellInArea
  <2>2. ~\E l \in 0 .. CharWidth - 1 : CellAt(r, c, k) = CellAt(y + j, x, l)
    BY <1>1, <1>3, <1>7, CellsApart
  <2> QED BY <1>4, <1>5, <2>1, <2>2
<1>8. DOMAIN data' = DOMAIN data
  BY <1>4
<1> QED BY <1>3, <1>6, <1>7, <1>8

LEMMA ShownCopyRow == LayoutInv /\ ShownInv /\ CopyRow => ShownInv'
<1> SUFFICES ASSUME LayoutInv, ShownInv, CopyRow PROVE ShownInv'
  OBVIOUS
<1>1. /\ LayoutTypes /\ CopyInv /\ pc = "copy" /\ i < Len(text) /\ j < CharHeight /\ j' = j + 1
      /\ UNCHANGED <<text, pc, i, currWidth, width, height, x, y>>
      /\ width \in Nat /\ height \in Nat /\ x \in Nat /\ y \in Nat /\ j \in Nat /\ i \in Nat
      /\ CharHeight \in Nat \ {0} /\ CharWidth \in Nat \ {0} /\ Len(text) \in Nat
  BY TextLayoutAssumption DEF LayoutInv, LayoutTypes, CopyRow, RowsLeft, measured
<1>2. UNCHANGED <<LineBegin, Area>> /\ LineBegin \in Nat /\ x <= i
  BY <1>1 DEF LineBegin, Area, CopyInv
<1>3. x \in 0 .. width - 1 /\ y + j \in Nat
  BY RowCopied
<1>4. \A h \in 0 .. CharHeight - 1 : y + h \in Nat /\ y + h < height * CharHeight
  <2>1. y <= height - 1 /\ height > 0
    <3>1. y = Cardinality(NewlinesTo(i)) /\ height = Cardinality(NewlinesTo(Len(text))) + 1
      BY <1>1 DEF CopyInv
    <3>2. Cardinality(NewlinesTo(i)) <= Cardinality(NewlinesTo(Len(text)))
      BY <1>1, NewlinesGrow
    <3>3. PICK m \in Nat : m = Cardinality(NewlinesTo(Len(text)))
      BY <1>1, NewlinesFinite
    <3> QED BY <1>1, <3>1, <3>2, <3>3
  <2>2. height - 1 + CharHeight <= height * CharHeight /\ height * CharHeight \in Nat
    BY <1>1, <2>1, LastRowFits
  <2> QED BY <1>1, <2>1, <2>2
<1>5. GlyphsRead'
  <2>1. \A k \in 0 .. CharWidth - 1 : GlyphCell(text[i + 1], FontCell(text[i + 1], j, k))
    <3>1. j \in 0 .. CharHeight - 1
      BY <1>1
    <3> QED BY <3>1 DEF GlyphCell
  <2>2. reads' = reads \cup {<<text[i + 1], FontCell(text[i + 1], j, k)>> : k \in 0 .. CharWidth - 1}
    BY DEF CopyRow
  <2> QED BY <2>1, <2>2 DEF ShownInv, GlyphsRead
<1>6. LineShown'
  <2> SUFFICES ASSUME NEW n \in LineBegin + 1 .. i
               PROVE  ShowsAt(text[n], y, n - 1 - LineBegin)'
    BY <1>1, <1>2 DEF LineShown
  <2> DEFINE column == n - 1 - LineBegin
  <2>1. column \in 0 .. width - 1 /\ column # x
    BY <1>1, <1>2, <1>3 DEF LineBegin
  <2>2. ShowsAt(text[n], y, column)
    BY <1>1 DEF ShownInv, LineShown
  <2>3. \A h \in 0 .. CharHeight - 1, k \in 0 .. CharWidth - 1 :
          data'[CellAt(y + h, column, k)] = data[CellAt(y + h, column, k)]
    BY <1>4, <2>1, RowCopied
  <2>4. \A h \in 0 .. CharHeight - 1, k \in 0 .. CharWidth - 1 :
          data'[CellAt(y + h, column, k)] = FontCell(text[n], h, k)
    <3> HIDE DEF column
    <3>1. UNCHANGED width
      BY <1>1
    <3> QED BY <2>2, <2>3, <3>1, GlyphKept
  <2> QED BY <1>1, <1>2, <2>4 DEF ShowsAt, CellAt
<1>7. TopShown'
  <2> SUFFICES ASSUME NEW h \in 0 .. j, NEW k \in 0 .. CharWidth - 1
               PROVE  data'[CellAt(y + h, x, k)] = FontCell(text[i + 1], h, k)
    BY <1>1 DEF TopShown, CellAt
  <2>1. CASE h = j
    BY <2>1, RowCopied
  <2>2. CASE h # j
    <3>1. h \in 0 .. j - 1 /\ h \in 0 .. CharHeight - 1 /\ y + h # y + j
      BY <1>1, <2>2
    <3>2. data[CellAt(y + h, x, k)] = FontCell(text[i + 1], h, k)
      BY <1>1, <3>1 DEF ShownInv, TopShown
    <3> QED BY <1>3, <1>4, <3>1, <3>2, RowCopied
  <2> QED BY <2>1, <2>2
<1>8. OneLine(LineBegin, i)' /\ (x = i \/ text[LineBegin] = Newline)' /\ DOMAIN data' = Area'
  BY <1>1, <1>2, RowCopied DEF ShownInv, OneLine
<1> QED BY <1>1, <1>2, <1>5, <1>6, <1>7, <1>8 DEF ShownInv

LEMMA ShownNextCharacter == LayoutInv /\ ShownInv /\ NextCharacter => ShownInv'
<1> SUFFICES ASSUME LayoutInv, ShownInv, NextCharacter PROVE ShownInv'
  OBVIOUS
<1>1. /\ LayoutTypes /\ pc = "copy" /\ pc' = "copy" /\ i' = i + 1 /\ j' = 0 /\ j = CharHeight
      /\ i \in Nat /\ i < Len(text) /\ Len(text) \in Nat /\ x \in Nat /\ x <= i /\ CharHeight \in Nat
      /\ UNCHANGED <<text, width, height, data, reads>>
  BY TextLayoutAssumption DEF LayoutInv, NextCharacter, RowsLeft, measured, LayoutTypes, CopyInv
<1>2. GlyphsRead' /\ TopShown' /\ DOMAIN data' = Area'
  BY <1>1 DEF ShownInv, GlyphsRead, TopShown, Area
<1>3. CASE text[i + 1] = Newline
  <2>1. x' = 0 /\ LineBegin' = i'
    BY <1>1, <1>3 DEF NextCharacter, Advance, LineBegin
  <2>2. OneLine(LineBegin, i)' /\ LineShown'
    BY <1>1, <2>1 DEF OneLine, LineShown
  <2> QED BY <1>1, <1>2, <1>3, <2>1, <2>2 DEF ShownInv
<1>4. CASE text[i + 1] # Newline
  <2>1. x' = x + 1 /\ y' = y /\ LineBegin' = LineBegin /\ LineBegin \in Nat
    BY <1>1, <1>4 DEF NextCharacter, Advance, LineBegin
  <2>2. OneLine(LineBegin, i)'
    BY <1>1, <1>4, <2>1 DEF ShownInv, OneLine
  <2>3. \A n \in LineBegin + 1 .. i + 1 : ShowsAt(text[n], y, n - 1 - LineBegin)
    <3>1. ShowsAt(text[i + 1], y, x)
      BY <1>1 DEF ShownInv, TopShown, ShowsAt
    <3>2. x = (i + 1) - 1 - LineBegin
      BY <1>1 DEF LineBegin
    <3>3. \A n \in LineBegin + 1 .. i : ShowsAt(text[n], y, n - 1 - LineBegin)
      BY <1>1 DEF ShownInv, LineShown
    <3>4. \A n \in LineBegin + 1 .. i + 1 : n \in LineBegin + 1 .. i \/ n = i + 1
      BY <1>1, <2>1
    <3> QED BY <3>1, <3>2, <3>3, <3>4
  <2>4. LineShown'
    BY <1>1, <2>1, <2>3 DEF LineShown, ShowsAt, CellAt
  <2>5. (x = i \/ text[LineBegin] = Newline)'
    BY <1>1, <2>1 DEF ShownInv
  <2> QED BY <1>1, <1>2, <2>1, <2>2, <2>4, <2>5 DEF ShownInv
<1> QED BY <1>3, <1>4

LEMMA ShownInvStep == LayoutInv /\ ShownInv /\ [LayoutNext]_layoutVars => ShownInv'
<1>1. ASSUME ShownInv, LayoutInv, Copied PROVE ShownInv'
  <2>1. pc = "copy" /\ i = Len(text) /\ pc' = "done" /\ UNCHANGED <<text, i, j, width, height, x, y, data, reads>>
    BY <1>1 DEF Copied, measured
  <2>2. UNCHANGED <<LineBegin, Area>>
    BY <2>1 DEF LineBegin, Area
  <2> QED BY <1>1, <2>1, <2>2 DEF ShownInv, GlyphsRead, OneLine, LineShown, ShowsAt, CellAt
<1>2. ASSUME ShownInv, LayoutInv, Measure PROVE ShownInv'
  BY <1>2 DEF Measure, ShownInv, GlyphsRead
<1>3. ASSUME ShownInv, UNCHANGED layoutVars PROVE ShownInv'
  <2>1. UNCHANGED <<pc, text, i, j, width, height, x, y, data, reads>>
    BY <1>3 DEF layoutVars, measured
  <2>2. UNCHANGED <<LineBegin, Area>>
    BY <2>1 DEF LineBegin, Area
  <2> QED BY <1>3, <2>1, <2>2 DEF ShownInv, GlyphsRead, OneLine, LineShown, TopShown, ShowsAt, CellAt
<1> QED BY <1>1, <1>2, <1>3, ShownMeasured, ShownCopyRow, ShownNextCharacter DEF LayoutNext

LEMMA LastLineShownHolds == LayoutInv /\ ShownInv => LastLineShown
<1> SUFFICES ASSUME LayoutInv, ShownInv, pc = "done", NEW n \in DOMAIN text,
                    \A m \in n .. Len(text) : text[m] # Newline
             PROVE  ShowsAt(text[n], y, n - 1 - LineStart(n))
  BY DEF LastLineShown
<1>1. /\ i = Len(text) /\ i \in Nat /\ x \in Nat /\ x <= i /\ n \in 1 .. i /\ LineBegin = i - x
  BY DEF ShownInv, LayoutInv, LayoutTypes, LineBegin
<1>2. LineBegin \in Nat /\ OneLine(LineBegin, i) /\ (LineBegin = 0 \/ text[LineBegin] = Newline)
  BY <1>1 DEF ShownInv
<1>3. n \in LineBegin + 1 .. i
  BY <1>1, <1>2
<1>4. LineBegin \in {0} \cup NewlinesBefore(n) /\ \A m \in NewlinesBefore(n) : m <= LineBegin
  BY <1>1, <1>2, <1>3 DEF NewlinesBefore, OneLine
<1>5. \A s \in {0} \cup NewlinesBefore(n) : (\A m \in NewlinesBefore(n) : m <= s) => s = LineBegin
  <2>1. \A m \in NewlinesBefore(n) : m \in Nat
    BY DEF NewlinesBefore
  <2> QED BY <1>2, <1>4, <2>1
<1>6. LineStart(n) = LineBegin
  BY <1>4, <1>5 DEF LineStart
<1> QED BY <1>3, <1>6 DEF ShownInv, LineShown

\* In a font of 128 glyphs or more those of characters 32 to 159, and of no others as
\* far as this says, come from inside the font, and the last line of a text can be
\* read, for every text and every size of glyph.
THEOREM TextAlwaysShown == Columns * FontRows >= 128 /\ LayoutSpec => []TextShown
<1> SUFFICES ASSUME Columns * FontRows >= 128 PROVE LayoutSpec => []TextShown
  OBVIOUS
<1>1. LayoutSpec => []ShownInv
  BY LayoutInvariant, ShownInit, ShownInvStep, PTL DEF LayoutSpec
<1>2. ShownInv => ReadsFont
  BY GlyphInFont DEF ShownInv, GlyphsRead, GlyphCell, ReadsFont, InFont
<1>3. LayoutInv /\ ShownInv => TextShown
  BY <1>2, LastLineShownHolds DEF TextShown
<1> QED BY <1>1, <1>3, LayoutInvariant, PTL
=============================================================================
