------------------------------- MODULE Serial -------------------------------
(***************************************************************************)
(* The serial port of kernel/os/serial.cpp: kmain() initialises it, clears *)
(* the terminal and logs its greeting, and panic_with_message() of os.cpp  *)
(* logs through the same port, from an exception between any two steps.    *)
(*                                                                         *)
(* The 16550 is external: the holding register that code writes, the line  *)
(* or, in loop-back, the receive register that it is shifted to, and the   *)
(* registers that LCR bit 7 (DLAB) swaps for the divisor.  Its FIFO stays  *)
(* off, as init() writes no FCR bit 0.  Nobody types at the terminal.      *)
(***************************************************************************)
EXTENDS Integers, Sequences

CONSTANTS
  BootLog,    \* what clear() and the greeting write
  Message,    \* the message of a panic
  Divisors,   \* divisors, low and high byte, that the boot loader may leave
  MaxPanics   \* bound on panics, of which each may interrupt another

TestByte == 174                  \* 0xAE
Divisor == <<115200 \div 9600, 0>>
Garbled == -1                    \* what another divisor makes of a byte

\* "none" is a machine without the port, "broken" one that loops back badly.
Ports == {"ok", "none", "broken"}

ASSUME SerialAssumption ==
  /\ BootLog \in Seq(1 .. 127) /\ Message \in Seq(1 .. 127)
  /\ Divisors \subseteq (0 .. 255) \X (0 .. 255)
  /\ MaxPanics \in Nat

VARIABLES
  port,
  uart,    \* registers of the port
  wire,    \* bytes that have reached the terminal
  phase,      \* step of init(), 11 behind it
  ready,   \* init() has returned true
  todo,    \* characters that writeCString has still to write
  polled,  \* writeByte has left its loop and is about to write
  given,   \* characters that writeByte has written
  panics

serialVars == <<port, uart, wire, phase, ready, todo, polled, given, panics>>

SerialInit ==
  /\ port \in Ports
  /\ uart \in [dlab : {0}, divisor : Divisors, ier : {0}, loop : {0}, thr : {<<>>}, rbr : {0}]
  /\ wire = <<>> /\ phase = 1 /\ ready = FALSE
  /\ todo = <<>> /\ polled = FALSE /\ given = <<>> /\ panics = 0

\* The port after outb(SERIAL_PORT + reg, val).
Written(reg, val) ==
  IF port = "none" THEN uart ELSE
    CASE reg = 0 /\ uart.dlab = 1 -> [uart EXCEPT !.divisor[1] = val]
      [] reg = 0 /\ uart.dlab = 0 -> [uart EXCEPT !.thr = <<val>>]
      [] reg = 1 /\ uart.dlab = 1 -> [uart EXCEPT !.divisor[2] = val]
      [] reg = 1 /\ uart.dlab = 0 -> [uart EXCEPT !.ier = val]
      [] reg = 3 -> [uart EXCEPT !.dlab = val \div 128]
      [] reg = 4 -> [uart EXCEPT !.loop = val \div 16]
      [] OTHER -> uart

\* inb(SERIAL_PORT) and bit 5 of inb(SERIAL_PORT + 5); without a port all bits are set.
Received == IF port = "none" THEN 255 ELSE uart.rbr
IsBufferEmptyAlways == TRUE
HasReceived == port = "none" \/ uart.rbr # 0
IsBufferEmpty == port = "none" \/ uart.thr = <<>>

\* The port shifts out a byte, to the line or back to itself.
Shift ==
  LET byte == Head(uart.thr) IN
  /\ uart.thr # <<>>
  /\ IF uart.loop = 1
       THEN /\ uart' = [uart EXCEPT !.thr = <<>>, !.rbr = IF port = "ok" THEN byte ELSE 0]
            /\ UNCHANGED wire
       ELSE /\ uart' = [uart EXCEPT !.thr = <<>>]
            /\ wire' = Append(wire, IF uart.divisor = Divisor THEN byte ELSE Garbled)
  /\ UNCHANGED <<port, phase, ready, todo, polled, given, panics>>

\* The registers that init() writes, in order; a read follows the eighth.
InitWritesHighLate == << <<1, 0>>, <<3, 128>>, <<0, Divisor[1]>>, <<3, 3>>, <<1, Divisor[2]>>,
                         <<2, 6>>, <<4, 16>>, <<0, TestByte>> >>
InitWritesTestFirst == << <<1, 0>>, <<3, 128>>, <<0, Divisor[1]>>, <<1, Divisor[2]>>, <<3, 3>>,
                          <<2, 6>>, <<0, TestByte>>, <<4, 16>> >>
InitWrites == << <<1, 0>>, <<3, 128>>, <<0, Divisor[1]>>, <<1, Divisor[2]>>, <<3, 3>>,
                 <<2, 6>>, <<4, 16>>, <<0, TestByte>> >>

Booting == panics = 0

\* writeCString stops at the terminator, which it does not write.
Chars(msg) == msg

StartLog == phase' = 11 /\ todo' = Chars(BootLog)

InitWrite ==
  /\ Booting /\ phase \in 1 .. 8
  /\ uart' = Written(InitWrites[phase][1], InitWrites[phase][2])
  /\ phase' = phase + 1
  /\ UNCHANGED <<port, wire, ready, todo, polled, given, panics>>

\* The test byte is read at once, whether or not the port has shifted it yet;
\* kmain() goes on to clear() whatever init() returns.
InitTest ==
  /\ Booting /\ phase = 9
  /\ IF Received = TestByte THEN phase' = 10 /\ UNCHANGED todo ELSE StartLog
  /\ UNCHANGED <<port, uart, wire, ready, polled, given, panics>>

InitDone ==
  /\ Booting /\ phase = 10
  /\ uart' = Written(4, 15)
  /\ ready' = TRUE /\ StartLog
  /\ UNCHANGED <<port, wire, polled, given, panics>>

\* writeByte: the loop is left when the port is ready, then the byte is written.
Poll ==
  /\ todo # <<>> /\ ~polled /\ IsBufferEmpty
  /\ polled' = TRUE
  /\ UNCHANGED <<port, uart, wire, phase, ready, todo, given, panics>>

WriteByte ==
  /\ todo # <<>> /\ polled
  /\ uart' = Written(0, Head(todo))
  /\ given' = Append(given, Head(todo)) /\ todo' = Tail(todo) /\ polled' = FALSE
  /\ UNCHANGED <<port, wire, phase, ready, panics>>

\* An exception or, in main context, HeapInfo::initLargestHeap without memory.
\* What was interrupted never goes on.
PanicWithMessage ==
  /\ panics < MaxPanics
  /\ panics' = panics + 1 /\ todo' = Chars(Message) /\ polled' = FALSE
  /\ UNCHANGED <<port, uart, wire, phase, ready, given>>

Code == InitWrite \/ InitTest \/ InitDone \/ Poll \/ WriteByte
SerialNext == Code \/ Shift \/ PanicWithMessage
SerialSpec == SerialInit /\ [][SerialNext]_serialVars /\ WF_serialVars(Code) /\ WF_serialVars(Shift)

-----------------------------------------------------------------------------
\* The variables have their types.
SerialTypeOK ==
  /\ port \in Ports /\ phase \in 1 .. 11 /\ ready \in BOOLEAN /\ polled \in BOOLEAN
  /\ uart.dlab \in 0 .. 1 /\ uart.loop \in 0 .. 1 /\ uart.divisor \in (0 .. 255) \X (0 .. 255)
  /\ uart.thr \in {<<>>} \cup {<<c>> : c \in 0 .. 255} /\ uart.rbr \in 0 .. 255
  /\ wire \in Seq({Garbled} \cup (0 .. 255)) /\ todo \in Seq(1 .. 127) /\ given \in Seq(1 .. 127)
  /\ panics \in 0 .. MaxPanics

\* Once init() has succeeded, every character that was written reaches the
\* terminal once, unchanged and in order, also when a panic breaks into
\* writeByte between its loop and its write.
LogInOrder == ready => wire \o uart.thr = given

\* A successful init() leaves the port at 9600 baud, without loop-back, without
\* interrupts and with its data register in place.
Configured ==
  ready => /\ uart.divisor = Divisor /\ uart.dlab = 0
           /\ uart.loop = 0 /\ uart.ier = 0

\* The test byte never reaches the terminal.
NoTestByte == \A j \in DOMAIN wire : wire[j] # TestByte

\* A successful init() makes a port on which the log arrives as it was written.
LogSound == LogInOrder /\ Configured /\ NoTestByte

\* The log never keeps the machine from booting, or from halting after a panic,
\* with any kind of port.
LogEnds == <>[](todo = <<>> /\ (phase = 11 \/ panics > 0))

EndsWith(s, t) == Len(s) >= Len(t) /\ SubSeq(s, Len(s) - Len(t) + 1, Len(s)) = t

\* A panic behind a successful init() is reported in the end.
PanicHeard == [](ready /\ panics > 0 => <>EndsWith(wire, Message))
=============================================================================
