----------------------------- MODULE MCTexture -----------------------------
(***************************************************************************)
(* Two textures over three blocks, a bitmap with a gap before its pixels,  *)
(* one with another header, and the file of the font: a header of 24 bytes *)
(* and then the pixels.                                                    *)
(***************************************************************************)
EXTENDS Texture

CONSTANTS s1, s2, b1, b2, b3
MCBlocks == {b1, b2, b3}

Bmp(header, offset, width, height) ==
  [format |-> "bmp", header |-> header, offset |-> offset, width |-> width, height |-> height,
   bytes |-> offset + 4 * width * height]
MCFiles == {Bmp(56, 72, 2, 1), Bmp(40, 54, 1, 1)}
MCFont == [format |-> "gob", header |-> 24, offset |-> 24, width |-> 2, height |-> 2, bytes |-> 24 + 16]
MCFilesFont == MCFiles \cup {MCFont}
=============================================================================
