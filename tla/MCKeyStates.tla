---------------------------- MODULE MCKeyStates ----------------------------
(***************************************************************************)
(* Some keys of a 105-key keyboard: those of the game, two that share a    *)
(* code and the last function key.                                         *)
(***************************************************************************)
EXTENDS KeyStates

Plain(name, code) == [name |-> name, code |-> code, ext |-> FALSE]
Extended(name, code) == [name |-> name, code |-> code, ext |-> TRUE]

MCKeys == {Plain("A", 30), Plain("D", 32), Plain("SPACE", 57),
           Plain("LEFT_CTRL", 29), Extended("RIGHT_CTRL", 29), Plain("F12", 88)}
=============================================================================
