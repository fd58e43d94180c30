------------------------------ MODULE MCSerial ------------------------------
(***************************************************************************)
(* A log of three characters, a message of two, and a boot loader that     *)
(* leaves the port at 9600, at 115200 or at a very low rate.               *)
(***************************************************************************)
EXTENDS Serial

MCBootLog == <<27, 72, 71>>
MCMessage == <<78, 33>>
MCDivisors == {<<12, 0>>, <<1, 0>>, <<0, 3>>}
=============================================================================
