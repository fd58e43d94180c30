---------------------------- MODULE MCMemoryMap ----------------------------
(***************************************************************************)
(* Small memory maps: up to three regions, usable ones of three lengths    *)
(* (0 among them), one reserved and one framebuffer larger than all.       *)
(***************************************************************************)
EXTENDS MemoryMap, SequencesExt

MCLengths == {0, 4, 8}
MCRegions ==
  [base : {16, 32}, length : MCLengths, type : {Usable}]
    \cup [base : {16}, length : {4, 12}, type : {1, 7}]
MCMaps == SeqOf(MCRegions, 3)
=============================================================================
