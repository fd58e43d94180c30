------------------------------ MODULE Graphics ------------------------------
(***************************************************************************)
(* Writing to the framebuffer: Graphics::clearScreen and fillRect of       *)
(* kernel/graphics/graphics.cpp, as operators on its memory.               *)
(*                                                                         *)
(* A pixel is one cell; the memory behind the framebuffer is Pitch * Height *)
(* cells, of which each row shows the first Width.                         *)
(***************************************************************************)
EXTENDS Naturals

CONSTANTS
  Width, Height,  \* of the screen
  Pitch,          \* cells from one row to the next
  Word            \* 2^64, scaled to the size of the instance

ASSUME GraphicsAssumption ==
  /\ Width \in Nat \ {0} /\ Height \in Nat \ {0}
  /\ Pitch \in Nat /\ Pitch >= Width
  /\ Word \in Nat /\ Word > Width + Height

Cells == 0 .. Pitch * Height - 1
Pixel(x, y) == y * Pitch + x

Lesser(a, b) == IF a < b THEN a ELSE b

\* mempattern(): n cells from `at` on get the colour.
Mempattern(at, n) == at .. at + n - 1
Paint(memory, cells, color) == [c \in Cells |-> IF c \in cells THEN color ELSE memory[c]]

ClearedRowShort == Mempattern(0, Width * (Height - 1))
\* The cells that clearScreen writes: it counts pixels and knows no pitch.
Cleared == Mempattern(0, Width * Height)

FillEnd(rect) == Lesser(Width, (rect.x + rect.w) % Word)

\* The cells that fillRect writes.  It passes over a row below the screen, but
\* not over the row just below it.
Filled(rect) ==
  UNION {Mempattern(Pixel(rect.x, rect.y + h), FillEnd(rect) - rect.x) :
           h \in {g \in 0 .. rect.h - 1 : rect.x < FillEnd(rect) /\ (g + rect.y) % Word <= Height}}
=============================================================================
