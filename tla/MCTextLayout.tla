---------------------------- MODULE MCTextLayout ----------------------------
(***************************************************************************)
(* All texts of up to four characters: a newline, two printable ones, and  *)
(* one behind 127; the font of the kernel with smaller glyphs.             *)
(***************************************************************************)
EXTENDS TextLayout, SequencesExt

MCTexts == SeqOf({10, 33, 65, 130}, 4)
=============================================================================
