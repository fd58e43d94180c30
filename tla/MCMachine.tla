----------------------------- MODULE MCMachine -----------------------------
(***************************************************************************)
(* One behaviour for each of these parts: a call of the byte and string    *)
(* functions, the choice of the heap's memory, a string, the serial port   *)
(* and the game.  They share no state, so the sum of their instances shows *)
(* what their product would, and nothing is gained by letting them         *)
(* interleave.  All the initial states of the chosen part are explored,    *)
(* and one of each of the others, which stay where they are.               *)
(***************************************************************************)
EXTENDS CString, MCMemoryMap, StdString, MCSerial, Invaders

VARIABLE part

otherThanCalls == <<mapVars, stringVars, serialVars, invadersVars>>
otherThanMap == <<vars, stringVars, serialVars, invadersVars>>
otherThanString == <<vars, mapVars, serialVars, invadersVars>>
otherThanSerial == <<vars, mapVars, stringVars, invadersVars>>
otherThanGame == <<vars, mapVars, stringVars, serialVars>>
machineVars == <<part, vars, otherThanCalls>>

NoCall == mem = [x \in Addr |-> 0] /\ fn = "memset" /\ a = 0 /\ b = 0 /\ n = 0 /\ v = 0
NoMap == entries = <<>>
NoPort == port = "none" /\ uart.divisor = Divisor

\* Strings and the game start in one state.
MachineInit ==
  /\ part \in {"calls", "map", "string", "serial", "game"}
  /\ StringInit
  /\ InvadersInit
  /\ SerialInit /\ (part # "serial" => NoPort)
  /\ (part = "map" \/ NoMap) /\ MapInit
  /\ (part = "calls" \/ NoCall) /\ CStringInit

CallsStep == part = "calls" /\ CStringNext /\ UNCHANGED <<part, otherThanCalls>>
MapStep == part = "map" /\ MapNext /\ UNCHANGED <<part, otherThanMap>>
StringStep == part = "string" /\ StringNext /\ UNCHANGED <<part, otherThanString>>
SerialCode == part = "serial" /\ Code /\ UNCHANGED <<part, otherThanSerial>>
SerialPort == part = "serial" /\ Shift /\ UNCHANGED <<part, otherThanSerial>>
SerialPanic == part = "serial" /\ PanicWithMessage /\ UNCHANGED <<part, otherThanSerial>>
GameTick == part = "game" /\ Update /\ UNCHANGED <<part, otherThanGame>>
GameInput ==
  /\ part = "game" /\ UNCHANGED <<part, otherThanGame>>
  /\ \E left, right \in BOOLEAN : HandleInput(left, right)

MachineNext ==
  \/ CallsStep \/ MapStep \/ StringStep \/ SerialCode \/ SerialPort \/ SerialPanic
  \/ GameTick \/ GameInput

\* The fairness of each part's own specification.
MachineSpec ==
  /\ MachineInit /\ [][MachineNext]_machineVars
  /\ WF_machineVars(CallsStep) /\ WF_machineVars(SerialCode) /\ WF_machineVars(SerialPort)
  /\ WF_machineVars(GameTick)

-----------------------------------------------------------------------------
\* The variables of all parts have their types.
MachineTypeOK == CStringTypeOK /\ MapTypeOK /\ StringTypeOK /\ SerialTypeOK /\ InvadersTypeOK

\* What must happen does: every legal call of a byte or string function returns,
\* the log neither keeps the machine from booting nor from halting after a panic,
\* a panic behind a successful init() is heard, and the formation comes down.
Progress ==
  /\ part = "calls" => Returns
  /\ part = "serial" => LogEnds /\ PanicHeard
  /\ part = "game" => Invasion
=============================================================================
