--------------------------- MODULE MachineProofs ---------------------------
(***************************************************************************)
(* Theorems about the parts of MCMachine: the serial port for every log    *)
(* and every message, the choice of the heap's memory for every memory     *)
(* map, the game for every formation, and the behaviours of the whole      *)
(* module, of which each part has its own invariant.                       *)
(***************************************************************************)
EXTENDS MCMachine, StringProofs, SequenceTheorems, FiniteSetTheorems

-----------------------------------------------------------------------------
(* Serial, for any divisor that the boot loader may leave and any number   *)
(* of panics: what init() keeps true step by step, so that what is written *)
(* later arrives.                                                          *)

Byte == 0 .. 255
Character == 1 .. 127
Line == {Garbled} \cup Byte
Held == {<<>>} \cup {<<c>> : c \in Byte}

Uarts == [dlab : 0 .. 1, divisor : Byte \X Byte, ier : Byte, loop : 0 .. 1, thr : Held, rbr : Byte]

PortTypes ==
  /\ port \in Ports /\ uart \in Uarts /\ wire \in Seq(Line) /\ phase \in 1 .. 11
  /\ ready \in BOOLEAN /\ todo \in Seq(Character) /\ polled \in BOOLEAN
  /\ given \in Seq(Character) /\ panics \in 0 .. MaxPanics

\* The registers before step k of init().
Registers(u, k) ==
  /\ u.dlab = IF k \in 3 .. 5 THEN 1 ELSE 0
  /\ u.loop = IF k >= 8 THEN 1 ELSE 0
  /\ u.ier = 0
  /\ k = 4 => u.divisor[1] = 12
  /\ k >= 5 => u.divisor = <<12, 0>>

\* What holds between two steps of an init() that nothing has interrupted.
BootInv ==
  panics = 0 /\ phase <= 10 =>
    /\ ~ready /\ todo = <<>> /\ ~polled /\ given = <<>> /\ wire = <<>>
    /\ port # "none" => Registers(uart, phase)
    /\ phase <= 8 => uart.thr = <<>> /\ uart.rbr = 0
    /\ uart.thr # <<>> => uart.thr = <<TestByte>>
    /\ uart.rbr # 0 => uart.rbr = TestByte /\ uart.thr = <<>> /\ port = "ok"
    /\ phase = 10 => uart.rbr = TestByte

\* A successful init() is what later bytes rely on.
ReadyInv ==
  ready =>
    /\ phase = 11 /\ port = "ok"
    /\ uart.divisor = Divisor /\ uart.dlab = 0 /\ uart.loop = 0 /\ uart.ier = 0
    /\ wire \o uart.thr = given

\* A byte is written to an empty register, and only loop-back sees the test byte.
PolledInv == polled => port = "none" \/ uart.thr = <<>>
TestInv ==
  /\ uart.thr = <<TestByte>> => uart.loop = 1
  /\ NoTestByte

\* A port that is not there keeps nothing.
NoPortInv == port = "none" => uart.thr = <<>> /\ uart.rbr = 0

PortInv == PortTypes /\ BootInv /\ ReadyInv /\ PolledInv /\ TestInv /\ NoPortInv

-----------------------------------------------------------------------------
\* A sequence of one element is not empty and has that element.
LEMMA OneElement ==
  ASSUME NEW c
  PROVE  <<c>> # <<>> /\ Head(<<c>>) = c /\ \A d : <<c>> = <<d>> <=> c = d
OBVIOUS

\* Append and concatenation with one element are the same.
LEMMA LastAdded ==
  ASSUME NEW S, NEW s \in Seq(S), NEW c \in S
  PROVE  /\ s \o <<c>> = Append(s, c) /\ s \o <<>> = s
         /\ Append(s, c) \in Seq(S) /\ Append(s, c) \o <<>> = Append(s, c)
<1>1. Append(s, c) \in Seq(S) /\ <<c>> \in Seq(S) /\ s \o <<c>> \in Seq(S)
  OBVIOUS
<1>2. s \o <<c>> = Append(s, c)
  <2>1. /\ Len(s \o <<c>>) = Len(s) + 1 /\ Len(Append(s, c)) = Len(s) + 1
        /\ \A k \in 1 .. Len(s) + 1 : (s \o <<c>>)[k] = Append(s, c)[k]
    OBVIOUS
  <2> QED BY <1>1, <2>1, SeqEqual
<1> QED BY <1>1, <1>2, ConcatEmptySeq

LEMMA EmptyOrOne == <<>> \in Held /\ \A c \in Byte : <<c>> \in Held
BY DEF Held

LEMMA PortInitInv == SerialInit => PortInv
<1> SUFFICES ASSUME SerialInit PROVE PortInv
  OBVIOUS
<1> USE SerialAssumption DEF SerialInit
<1>1. wire \in Seq(Line) /\ todo \in Seq(Character) /\ given \in Seq(Character)
  BY EmptySeq
<1>2. /\ uart.dlab = 0 /\ uart.divisor \in Byte \X Byte /\ uart.ier = 0
      /\ uart.loop = 0 /\ uart.thr = <<>> /\ uart.rbr = 0
  BY DEF Byte
<1>3. uart \in Uarts
  <2>1. PICK d \in Byte \X Byte : uart = [dlab |-> 0, divisor |-> d, ier |-> 0,
                                         loop |-> 0, thr |-> <<>>, rbr |-> 0]
    BY <1>2
  <2>2. 0 \in Byte /\ <<>> \in Held
    BY EmptyOrOne DEF Byte
  <2>3. [dlab |-> 0, divisor |-> d, ier |-> 0, loop |-> 0, thr |-> <<>>, rbr |-> 0] \in Uarts
    BY <2>2 DEF Uarts
  <2> QED BY <2>1, <2>3
<1>4. PortTypes
  <2>1. phase \in 1 .. 11 /\ panics \in 0 .. MaxPanics
    OBVIOUS
  <2> QED BY <1>1, <1>3, <2>1 DEF PortTypes
<1>5. BootInv
  BY <1>2 DEF BootInv, Registers
<1>6. ReadyInv /\ PolledInv /\ NoPortInv
  BY <1>2 DEF ReadyInv, PolledInv, NoPortInv
<1>7. TestInv
  BY <1>2, OneElement DEF TestInv, NoTestByte
<1> QED BY <1>4, <1>5, <1>6, <1>7 DEF PortInv

\* What each write of init() does to the registers.
LEMMA WrittenStep ==
  ASSUME uart \in Uarts, port # "none", phase \in 1 .. 8, Registers(uart, phase),
         NEW u, u = Written(InitWrites[phase][1], InitWrites[phase][2])
  PROVE  /\ u \in Uarts /\ Registers(u, phase + 1) /\ u.rbr = uart.rbr
         /\ phase < 8 => u.thr = uart.thr
         /\ phase = 8 => u.thr = <<TestByte>>
<1>1. CASE phase = 1
  <2>1. u = [uart EXCEPT !.ier = 0]
    BY <1>1 DEF InitWrites, Registers, Written
  <2>2. u \in Uarts
    BY <2>1 DEF Uarts, Byte
  <2> QED BY <1>1, <2>1, <2>2 DEF Uarts, Registers
<1>2. CASE phase = 2
  <2>1. u = [uart EXCEPT !.dlab = 1]
    BY <1>2 DEF InitWrites, Registers, Written
  <2> QED BY <1>2, <2>1 DEF Uarts, Registers
<1>3. CASE phase = 3
  <2>1. u = [uart EXCEPT !.divisor[1] = 12]
    BY <1>3 DEF InitWrites, Registers, Written, Divisor
  <2>2. u.divisor \in Byte \X Byte
    BY <2>1 DEF Uarts, Byte
  <2> QED BY <1>3, <2>1, <2>2 DEF Uarts, Registers
<1>4. CASE phase = 4
  <2>1. u = [uart EXCEPT !.divisor[2] = 0]
    BY <1>4 DEF InitWrites, Registers, Written, Divisor
  <2>2. u \in Uarts
    BY <2>1 DEF Uarts, Byte
  <2>3. u.divisor = <<12, 0>>
    BY <1>4, <2>1 DEF Uarts, Registers
  <2> QED BY <1>4, <2>1, <2>2, <2>3 DEF Uarts, Registers
<1>5. CASE phase = 5
  <2>1. u = [uart EXCEPT !.dlab = 0]
    BY <1>5 DEF InitWrites, Registers, Written
  <2> QED BY <1>5, <2>1 DEF Uarts, Registers
<1>6. CASE phase = 6
  <2>1. u = uart
    BY <1>6 DEF InitWrites, Registers, Written
  <2> QED BY <1>6, <2>1 DEF Registers
<1>7. CASE phase = 7
  <2>1. u = [uart EXCEPT !.loop = 1]
    BY <1>7 DEF InitWrites, Registers, Written
  <2> QED BY <1>7, <2>1 DEF Uarts, Registers
<1>8. CASE phase = 8
  <2>1. u = [uart EXCEPT !.thr = <<TestByte>>]
    BY <1>8 DEF InitWrites, Registers, Written
  <2>2. <<TestByte>> \in Held
    BY EmptyOrOne DEF TestByte, Byte
  <2> QED BY <1>8, <2>1, <2>2 DEF Uarts, Registers
<1> QED BY <1>1, <1>2, <1>3, <1>4, <1>5, <1>6, <1>7, <1>8

-----------------------------------------------------------------------------
LEMMA InitWriteStep == PortInv /\ InitWrite => PortInv'
<1> SUFFICES ASSUME PortInv, InitWrite PROVE PortInv'
  OBVIOUS
<1> USE DEF InitWrite, Booting
<1>1. PortTypes /\ BootInv /\ ReadyInv /\ PolledInv /\ TestInv /\ NoPortInv
  BY DEF PortInv
<1>2. /\ uart \in Uarts /\ panics = 0 /\ phase \in 1 .. 8 /\ phase' = phase + 1
      /\ ~ready /\ todo = <<>> /\ ~polled /\ given = <<>> /\ wire = <<>>
      /\ uart.thr = <<>> /\ uart.rbr = 0
  BY <1>1 DEF PortTypes, BootInv
<1>3. CASE port = "none"
  <2>1. uart' = uart
    BY <1>3 DEF Written
  <2>2. PortTypes'
    BY <1>1, <1>2, <2>1 DEF PortTypes
  <2>3. BootInv'
    BY <1>2, <1>3, <2>1 DEF BootInv
  <2>4. ReadyInv' /\ PolledInv' /\ NoPortInv'
    BY <1>1, <1>2, <2>1 DEF ReadyInv, PolledInv, NoPortInv
  <2>5. TestInv'
    BY <1>1, <2>1 DEF TestInv, NoTestByte
  <2> QED BY <2>2, <2>3, <2>4, <2>5 DEF PortInv
<1>4. CASE port # "none"
  <2>1. Registers(uart, phase)
    BY <1>1, <1>2, <1>4 DEF BootInv
  <2>2. /\ uart' \in Uarts /\ Registers(uart', phase + 1) /\ uart'.rbr = 0
        /\ phase < 8 => uart'.thr = <<>>
        /\ phase = 8 => uart'.thr = <<TestByte>>
    BY <1>2, <1>4, <2>1, WrittenStep
  <2>3. PortTypes'
    BY <1>1, <1>2, <2>2 DEF PortTypes
  <2>4. BootInv'
    BY <1>2, <1>4, <2>2 DEF BootInv, Registers
  <2>5. ReadyInv' /\ PolledInv' /\ NoPortInv'
    BY <1>2, <1>4 DEF ReadyInv, PolledInv, NoPortInv
  <2>6. uart'.thr = <<TestByte>> => uart'.loop = 1
    BY <1>2, <2>2, OneElement DEF Registers
  <2>7. TestInv'
    BY <1>1, <2>6 DEF TestInv, NoTestByte
  <2> QED BY <2>3, <2>4, <2>5, <2>7 DEF PortInv
<1> QED BY <1>3, <1>4

LEMMA InitTestStep == PortInv /\ InitTest => PortInv'
<1> SUFFICES ASSUME PortInv, InitTest PROVE PortInv'
  OBVIOUS
<1> USE DEF InitTest, Booting
<1>1. PortTypes /\ BootInv /\ ReadyInv /\ PolledInv /\ TestInv /\ NoPortInv
  BY DEF PortInv
<1>2. panics = 0 /\ phase = 9 /\ ~ready /\ ~polled
  BY <1>1 DEF BootInv
<1>3. PortTypes'
  BY <1>1, SerialAssumption DEF PortTypes, StartLog, Chars, Character
<1>4. BootInv'
  <2>1. phase' \in {10, 11} /\ (phase' = 10 => Received = TestByte /\ todo' = todo)
    BY DEF StartLog
  <2>2. Received = TestByte => uart.rbr = TestByte
    BY DEF Received, TestByte
  <2> QED BY <1>1, <1>2, <2>1, <2>2 DEF BootInv, Registers
<1>5. ReadyInv' /\ PolledInv' /\ NoPortInv'
  BY <1>1, <1>2 DEF ReadyInv, PolledInv, NoPortInv
<1>6. TestInv'
  BY <1>1 DEF TestInv, NoTestByte
<1> QED BY <1>3, <1>4, <1>5, <1>6 DEF PortInv

LEMMA InitDoneStep == PortInv /\ InitDone => PortInv'
<1> SUFFICES ASSUME PortInv, InitDone PROVE PortInv'
  OBVIOUS
<1> USE DEF InitDone, Booting
<1>1. PortTypes /\ BootInv /\ ReadyInv /\ PolledInv /\ TestInv /\ NoPortInv
  BY DEF PortInv
<1>2. /\ uart \in Uarts /\ panics = 0 /\ phase = 10 /\ port = "ok" /\ Registers(uart, 10)
      /\ uart.rbr = TestByte /\ uart.thr = <<>> /\ ~polled /\ given = <<>> /\ wire = <<>>
  BY <1>1 DEF PortTypes, BootInv, TestByte
<1>3. uart' = [uart EXCEPT !.loop = 0]
  BY <1>2 DEF Written
<1>4. /\ uart' \in Uarts /\ uart'.dlab = 0 /\ uart'.loop = 0 /\ uart'.ier = 0
      /\ uart'.divisor = Divisor /\ uart'.thr = <<>>
  BY <1>2, <1>3 DEF Uarts, Registers, Divisor
<1>5. phase' = 11 /\ ready' = TRUE /\ todo' = BootLog
  BY DEF StartLog, Chars
<1>6. PortTypes'
  BY <1>1, <1>4, <1>5, SerialAssumption DEF PortTypes, Character
<1>7. BootInv' /\ PolledInv' /\ NoPortInv'
  BY <1>2, <1>5 DEF BootInv, PolledInv, NoPortInv
<1>8. ReadyInv'
  BY <1>2, <1>4, <1>5, ConcatEmptySeq, EmptySeq DEF ReadyInv
<1>9. TestInv'
  BY <1>1, <1>4, OneElement DEF TestInv, NoTestByte
<1> QED BY <1>6, <1>7, <1>8, <1>9 DEF PortInv

LEMMA PollStep == PortInv /\ Poll => PortInv'
<1> SUFFICES ASSUME PortInv, Poll PROVE PortInv'
  OBVIOUS
<1> USE DEF Poll
<1>1. PortTypes /\ BootInv /\ ReadyInv /\ PolledInv /\ TestInv /\ NoPortInv
  BY DEF PortInv
<1>2. PortTypes'
  BY <1>1 DEF PortTypes
<1>3. BootInv'
  BY <1>1 DEF BootInv
<1>4. ReadyInv' /\ PolledInv' /\ NoPortInv'
  BY <1>1 DEF ReadyInv, PolledInv, NoPortInv, IsBufferEmpty
<1>5. TestInv'
  BY <1>1 DEF TestInv, NoTestByte
<1> QED BY <1>2, <1>3, <1>4, <1>5 DEF PortInv

LEMMA PanicStep == PortInv /\ PanicWithMessage => PortInv'
<1> SUFFICES ASSUME PortInv, PanicWithMessage PROVE PortInv'
  OBVIOUS
<1> USE DEF PanicWithMessage
<1>1. PortTypes /\ BootInv /\ ReadyInv /\ PolledInv /\ TestInv /\ NoPortInv
  BY DEF PortInv
<1>2. panics' \in 0 .. MaxPanics /\ panics' # 0
  BY <1>1, SerialAssumption DEF PortTypes
<1>6. PortTypes'
  BY <1>1, <1>2, SerialAssumption DEF PortTypes, Chars, Character
<1>3. BootInv'
  BY <1>2 DEF BootInv
<1>4. ReadyInv' /\ PolledInv' /\ NoPortInv'
  BY <1>1 DEF ReadyInv, PolledInv, NoPortInv
<1>5. TestInv'
  BY <1>1 DEF TestInv, NoTestByte
<1> QED BY <1>6, <1>3, <1>4, <1>5 DEF PortInv

LEMMA ShiftStep == PortInv /\ Shift => PortInv'
<1> SUFFICES ASSUME PortInv, Shift PROVE PortInv'
  OBVIOUS
<1> USE DEF Shift
<1>1. PortTypes /\ BootInv /\ ReadyInv /\ PolledInv /\ TestInv /\ NoPortInv
  BY DEF PortInv
<1>2. PICK c \in Byte : uart.thr = <<c>>
  BY <1>1 DEF PortTypes, Uarts, Held
<1>3. Head(uart.thr) = c /\ port # "none" /\ uart \in Uarts
  BY <1>1, <1>2, OneElement DEF NoPortInv, PortTypes
<1>4. c \in Line /\ Garbled \in Line /\ wire \in Seq(Line) /\ 0 \in Byte
  BY <1>1, <1>2 DEF PortTypes, Line, Byte
<1>5. CASE uart.loop = 1
  <2>1. wire' = wire /\ uart' = [uart EXCEPT !.thr = <<>>, !.rbr = IF port = "ok" THEN c ELSE 0]
    BY <1>3, <1>5
  <2>2. uart' \in Uarts /\ uart'.thr = <<>> /\ uart'.rbr = (IF port = "ok" THEN c ELSE 0)
    BY <1>2, <1>3, <1>4, <2>1, EmptyOrOne DEF Uarts
  <2>3. /\ uart'.dlab = uart.dlab /\ uart'.loop = uart.loop
        /\ uart'.ier = uart.ier /\ uart'.divisor = uart.divisor
    BY <1>3, <2>1 DEF Uarts
  <2>4. PortTypes'
    BY <1>1, <2>1, <2>2 DEF PortTypes
  <2>5. BootInv'
    <3>1. CASE panics = 0 /\ phase <= 10
      <4>1. /\ c = TestByte /\ uart.rbr = 0
            /\ phase = 9
        <5>1. uart.thr # <<>> /\ (<<c>> = <<TestByte>> => c = TestByte)
          BY <1>2, OneElement
        <5>2. c = TestByte /\ uart.rbr = 0
          BY <1>1, <1>2, <3>1, <5>1 DEF BootInv
        <5>3. phase = 9
          BY <1>1, <3>1, <5>1, <5>2 DEF BootInv, PortTypes, TestByte
        <5> QED BY <5>2, <5>3
      <4>2. Registers(uart', phase)
        BY <1>1, <1>3, <3>1, <2>3 DEF BootInv, Registers
      <4> QED BY <1>1, <1>3, <3>1, <4>1, <4>2, <2>1, <2>2 DEF BootInv
    <3>2. CASE ~(panics = 0 /\ phase <= 10)
      BY <3>2 DEF BootInv
    <3> QED BY <3>1, <3>2
  <2>6. ReadyInv' /\ PolledInv' /\ NoPortInv'
    BY <1>1, <1>3, <1>5, <2>2 DEF ReadyInv, PolledInv, NoPortInv
  <2>7. TestInv'
    BY <1>1, <2>1, <2>2, OneElement DEF TestInv, NoTestByte
  <2> QED BY <2>4, <2>5, <2>6, <2>7 DEF PortInv
<1>6. CASE uart.loop # 1
  <2> DEFINE d == IF uart.divisor = Divisor THEN c ELSE Garbled
  <2>1. wire' = Append(wire, d) /\ uart' = [uart EXCEPT !.thr = <<>>]
    BY <1>3, <1>6
  <2>2. /\ uart' \in Uarts /\ uart'.thr = <<>>
        /\ uart'.dlab = uart.dlab /\ uart'.loop = uart.loop /\ uart'.rbr = uart.rbr
        /\ uart'.ier = uart.ier /\ uart'.divisor = uart.divisor
    BY <1>3, <2>1, EmptyOrOne DEF Uarts
  <2>3. d \in Line /\ wire' \in Seq(Line)
    BY <1>4, <2>1
  <2>4. PortTypes'
    BY <1>1, <2>2, <2>3 DEF PortTypes
  <2>5. ~(panics = 0 /\ phase <= 10)
    <3> SUFFICES ASSUME panics = 0, phase <= 10 PROVE FALSE
      OBVIOUS
    <3>1. phase \in 9 .. 10
      BY <1>1, <1>2, OneElement DEF BootInv, PortTypes
    <3> QED BY <1>1, <1>3, <1>6, <3>1 DEF BootInv, Registers
  <2>6. BootInv' /\ PolledInv' /\ NoPortInv'
    BY <1>3, <2>2, <2>5 DEF BootInv, PolledInv, NoPortInv
  <2>7. ReadyInv'
    <3>1. CASE ready
      <4>1. d = c /\ wire \o <<c>> = given /\ ReadyInv
        BY <1>1, <1>2, <3>1 DEF ReadyInv
      <4>2. wire' \o uart'.thr = given
        BY <1>4, <2>1, <2>2, <4>1, LastAdded
      <4> QED BY <3>1, <2>2, <4>1, <4>2 DEF ReadyInv
    <3>2. CASE ~ready
      BY <3>2 DEF ReadyInv
    <3> QED BY <3>1, <3>2
  <2>8. d # TestByte
    BY <1>1, <1>2, <1>6 DEF TestInv, Garbled, TestByte
  <2>9. TestInv'
    <3>1. NoTestByte'
      BY <1>1, <1>4, <2>1, <2>3, <2>8, LenProperties DEF TestInv, NoTestByte
    <3> QED BY <2>2, <3>1, OneElement DEF TestInv
  <2> QED BY <2>4, <2>6, <2>7, <2>9 DEF PortInv
<1> QED BY <1>5, <1>6

LEMMA WriteByteStep == PortInv /\ WriteByte => PortInv'
<1> SUFFICES ASSUME PortInv, WriteByte PROVE PortInv'
  OBVIOUS
<1> DEFINE c == Head(todo)
<1> USE DEF WriteByte
<1>1. PortTypes /\ BootInv /\ ReadyInv /\ PolledInv /\ TestInv /\ NoPortInv
  BY DEF PortInv
<1>2. /\ c \in Character /\ todo' \in Seq(Character) /\ given' = Append(given, c)
      /\ c \in Byte /\ c # TestByte /\ given \in Seq(Character) /\ uart \in Uarts
  <2>1. todo \in Seq(Character) /\ given \in Seq(Character) /\ uart \in Uarts
    BY <1>1 DEF PortTypes
  <2>2. c \in Character /\ todo' \in Seq(Character) /\ given' = Append(given, c)
    BY <2>1, HeadTailProperties
  <2>3. \A d \in Character : d \in Byte /\ d # TestByte
    BY DEF Character, Byte, TestByte
  <2> QED BY <2>1, <2>2, <2>3
<1>3. given' \in Seq(Character)
  BY <1>2
<1>4. ~(panics = 0 /\ phase <= 10)
  BY <1>1 DEF BootInv
<1>5. \/ port = "none" /\ uart' = uart
      \/ port # "none" /\ uart.dlab = 1 /\ uart' = [uart EXCEPT !.divisor[1] = c]
      \/ port # "none" /\ uart.dlab = 0 /\ uart' = [uart EXCEPT !.thr = <<c>>]
  BY <1>2 DEF Written, Uarts
<1>6. uart' \in Uarts
  <2> HIDE DEF c
  <2>0. <<c>> \in Held /\ \A d \in Byte \X Byte : [d EXCEPT ![1] = c] \in Byte \X Byte
    <3>1. <<c>> \in Held
      BY <1>2, EmptyOrOne
    <3>2. \A d \in Byte \X Byte : [d EXCEPT ![1] = c] \in Byte \X Byte
      BY <1>2
    <3> QED BY <3>1, <3>2
  <2>1. [uart EXCEPT !.divisor[1] = c] \in Uarts
    BY <1>2, <2>0 DEF Uarts
  <2>2. [uart EXCEPT !.thr = <<c>>] \in Uarts
    BY <1>2, <2>0 DEF Uarts
  <2> QED BY <1>2, <1>5, <2>1, <2>2
<1>7. PortTypes'
  BY <1>1, <1>2, <1>3, <1>6 DEF PortTypes
<1>8. BootInv' /\ PolledInv'
  BY <1>4 DEF BootInv, PolledInv
<1>9. NoPortInv'
  BY <1>1, <1>5 DEF NoPortInv
<1>10. ReadyInv'
  <2>1. CASE ready
    <3>1. uart.dlab = 0 /\ uart.thr = <<>> /\ port = "ok" /\ ReadyInv
      BY <1>1, <2>1 DEF ReadyInv, PolledInv
    <3>2. uart' = [uart EXCEPT !.thr = <<c>>]
      BY <1>5, <3>1
    <3>3. /\ uart'.thr = <<c>> /\ uart'.dlab = uart.dlab /\ uart'.loop = uart.loop
          /\ uart'.ier = uart.ier /\ uart'.divisor = uart.divisor
      BY <1>2, <3>2 DEF Uarts
    <3>4. wire \in Seq(Line) /\ c \in Line /\ Character \subseteq Line
      BY <1>1, <1>2 DEF PortTypes, Line, Character, Byte
    <3>5. wire = given
      BY <2>1, <3>1, <3>4, ConcatEmptySeq DEF ReadyInv
    <3>6. wire' \o uart'.thr = given'
      BY <1>2, <3>3, <3>4, <3>5, LastAdded
    <3> QED BY <2>1, <3>1, <3>3, <3>6 DEF ReadyInv
  <2>2. CASE ~ready
    BY <2>2 DEF ReadyInv
  <2> QED BY <2>1, <2>2
<1>11. TestInv'
  <2>1. [uart EXCEPT !.divisor[1] = c].thr = uart.thr /\ [uart EXCEPT !.divisor[1] = c].loop = uart.loop
    BY <1>2 DEF Uarts
  <2>2. [uart EXCEPT !.thr = <<c>>].thr = <<c>>
    BY <1>2 DEF Uarts
  <2> HIDE DEF c
  <2>4. <<c>> # <<TestByte>> /\ (uart.thr = <<TestByte>> => uart.loop = 1)
    BY <1>1, <1>2, OneElement DEF TestInv
  <2>3. uart'.thr = <<TestByte>> => uart'.loop = 1
    BY <1>5, <2>1, <2>2, <2>4
  <2> QED BY <1>1, <2>3 DEF TestInv, NoTestByte
<1> QED BY <1>7, <1>8, <1>9, <1>10, <1>11 DEF PortInv

LEMMA PortStutterStep == PortInv /\ UNCHANGED serialVars => PortInv'
BY DEF PortInv, serialVars, PortTypes, BootInv, Registers, ReadyInv, PolledInv, TestInv, NoTestByte, NoPortInv

LEMMA PortInvStep == PortInv /\ [SerialNext]_serialVars => PortInv'
BY InitWriteStep, InitTestStep, InitDoneStep, PollStep, WriteByteStep, ShiftStep, PanicStep,
   PortStutterStep DEF SerialNext, Code

\* What init() has done so far, and what later writes rely on.
THEOREM PortInvariant == SerialSpec => []PortInv
BY PortInitInv, PortInvStep, PTL DEF SerialSpec

LEMMA SerialTypeOKHolds == PortInv => SerialTypeOK
<1>1. ASSUME PortTypes PROVE SerialTypeOK
  <2>1. uart \in Uarts
    BY <1>1 DEF PortTypes
  <2>2. /\ uart.dlab \in 0 .. 1 /\ uart.loop \in 0 .. 1 /\ uart.divisor \in (0 .. 255) \X (0 .. 255)
        /\ uart.thr \in {<<>>} \cup {<<c>> : c \in 0 .. 255} /\ uart.rbr \in 0 .. 255
    BY <2>1 DEF Uarts, Held, Byte
  <2> QED BY <1>1, <2>2 DEF PortTypes, SerialTypeOK, Line, Character, Byte
<1> QED BY <1>1 DEF PortInv

\* Every variable keeps its type.
THEOREM PortTypesCorrect == SerialSpec => []SerialTypeOK
BY SerialTypeOKHolds, PortInvariant, PTL

LEMMA LogInOrderHolds == PortInv => LogInOrder
BY DEF PortInv, ReadyInv, LogInOrder

\* Behind a successful init(), what was written is on the line, in order and whole.
THEOREM LogArrives == SerialSpec => []LogInOrder
BY LogInOrderHolds, PortInvariant, PTL

LEMMA ConfiguredHolds == PortInv => Configured
BY DEF PortInv, ReadyInv, Configured

\* A successful init() leaves the port configured, whatever interrupts come later.
THEOREM StaysConfigured == SerialSpec => []Configured
BY ConfiguredHolds, PortInvariant, PTL

LEMMA NoTestByteHolds == PortInv => NoTestByte
BY DEF PortInv, TestInv

\* The test byte of init() never reaches the terminal.
THEOREM TestByteStaysInside == SerialSpec => []NoTestByte
BY NoTestByteHolds, PortInvariant, PTL

LEMMA LogSoundHolds == PortInv => LogSound
BY LogInOrderHolds, ConfiguredHolds, NoTestByteHolds DEF LogSound

\* What init() has tested and configured is what the log travels on, to its end.
THEOREM LogAlwaysSound == SerialSpec => []LogSound
BY LogSoundHolds, PortInvariant, PTL

-----------------------------------------------------------------------------
(* MemoryMap.  After each turn of the loop the best region so far is known.*)

\* Maps, with its regions and what Limine guarantees of them.
LEMMA EntryTypes ==
  ASSUME NEW m \in Maps, NEW j \in DOMAIN m
  PROVE  /\ m[j] \in Region /\ j \in 1 .. Len(m) /\ Len(m) \in Nat
         /\ m[j].base \in 0 .. MapWord - 1 /\ m[j].length \in 0 .. MapWord - 1
         /\ m[j].type = Usable => m[j].length = 0 \/ m[j].length > HeaderSize
<1>1. m \in Seq(Region)
  BY MemoryMapAssumption
<1>2. m[j] \in Region /\ j \in 1 .. Len(m) /\ Len(m) \in Nat
  BY <1>1
<1> QED BY <1>2, MemoryMapAssumption DEF Region

\* Of the candidates looked at, one is the best, and none is larger.
BestSoFar ==
  /\ \A j \in Candidates : j <= looked => entries[j].length <= maxMem
  /\ maxMem > 0 => \E j \in Candidates : entries[j].base = bestBase /\ entries[j].length = maxMem

MapInv ==
  /\ MapTypeOK /\ BestSoFar
  /\ stage # "scan" => looked = Len(entries)
  /\ stage = "ready" => maxMem > 0 /\ root = RootSize(maxMem)
  /\ stage = "panic" => maxMem = 0

LEMMA MapInitInv == MapInit => MapInv
<1> SUFFICES ASSUME MapInit PROVE MapInv
  OBVIOUS
<1>1. entries \in Seq(Region) /\ MapWord \in Nat \ {0}
  BY MemoryMapAssumption DEF MapInit
<1>2. MapTypeOK
  BY <1>1 DEF MapInit, MapTypeOK
<1>3. BestSoFar
  BY <1>1 DEF MapInit, BestSoFar, Candidates
<1> QED BY <1>2, <1>3 DEF MapInit, MapInv

LEMMA ScanStep == MapInv /\ Scan => MapInv'
<1> SUFFICES ASSUME MapInv, Scan PROVE MapInv'
  OBVIOUS
<1> DEFINE next == looked + 1
<1>1. /\ entries \in Maps /\ Len(entries) \in Nat /\ next \in DOMAIN entries
      /\ looked' = next /\ UNCHANGED <<entries, stage, root>> /\ stage = "scan"
  <2>1. entries \in Seq(Region)
    BY MemoryMapAssumption DEF MapInv, MapTypeOK
  <2> QED BY <2>1 DEF MapInv, MapTypeOK, Scan
<1>2. entries[next].base \in 0 .. MapWord - 1 /\ entries[next].length \in 0 .. MapWord - 1
  BY <1>1, EntryTypes
<1>3. MapTypeOK'
  BY <1>1, <1>2 DEF MapInv, MapTypeOK, Scan
<1>4. Candidates' = Candidates /\ \A j \in Candidates : j \in Int /\ entries[j].length \in Nat /\ entries[j].length > 0
  BY <1>1, EntryTypes DEF Candidates
<1>5. CASE Better(entries[next])
  <2>1. maxMem' = entries[next].length /\ bestBase' = entries[next].base
        /\ maxMem \in Nat /\ maxMem' > maxMem /\ next \in Candidates /\ looked \in Nat
    BY <1>1, <1>2, <1>5 DEF Scan, Better, Candidates, MapInv, MapTypeOK
  <2>2. BestSoFar'
    BY <1>1, <1>4, <2>1 DEF MapInv, BestSoFar
  <2> QED BY <1>1, <1>3, <2>2 DEF MapInv
<1>6. CASE ~Better(entries[next])
  <2>1. UNCHANGED <<maxMem, bestBase>> /\ maxMem \in Nat /\ looked \in Nat
    BY <1>1, <1>6 DEF Scan, MapInv, MapTypeOK
  <2>2. next \in Candidates => entries[next].length <= maxMem
    BY <1>1, <1>2, <1>6, <2>1 DEF Better, Candidates
  <2>3. BestSoFar'
    BY <1>1, <1>4, <2>1, <2>2 DEF MapInv, BestSoFar
  <2> QED BY <1>1, <1>3, <2>3 DEF MapInv
<1> QED BY <1>5, <1>6

LEMMA FinishStep == MapInv /\ Finish => MapInv'
<1> SUFFICES ASSUME MapInv, Finish PROVE MapInv'
  OBVIOUS
<1>1. MapWord \in Nat \ {0} /\ HeaderSize \in Nat
  BY MemoryMapAssumption
<1>2. RootSize(maxMem) \in 0 .. MapWord - 1
  BY <1>1 DEF RootSize, MapInv, MapTypeOK
<1>3. MapTypeOK'
  BY <1>1, <1>2 DEF MapInv, MapTypeOK, Finish
<1>4. BestSoFar'
  BY DEF MapInv, BestSoFar, Candidates, Finish
<1> QED BY <1>3, <1>4 DEF MapInv, MapTypeOK, Finish, RootSize

LEMMA MapInvStep == MapInv /\ [MapNext]_mapVars => MapInv'
<1>1. MapInv /\ UNCHANGED mapVars => MapInv'
  BY DEF MapInv, MapTypeOK, BestSoFar, Candidates, mapVars
<1> QED BY <1>1, ScanStep, FinishStep DEF MapNext

LEMMA MapInvPlaces == MapInv => HeapPlaced
<1> SUFFICES ASSUME MapInv PROVE HeapPlaced
  OBVIOUS
<1>1. \A j \in Candidates : /\ j \in 1 .. Len(entries) /\ entries[j].length \in Nat
                            /\ entries[j].length > 0 /\ entries[j].length > HeaderSize
  BY EntryTypes DEF MapInv, MapTypeOK, Candidates
<1>2. stage # "scan" => \A j \in Candidates : entries[j].length <= maxMem
  BY <1>1 DEF MapInv, BestSoFar
<1>3. LargestRegion
  BY <1>2 DEF MapInv, BestSoFar, LargestRegion
<1>4. PanicWithoutMemory
  BY <1>1, <1>2 DEF MapInv, BestSoFar, PanicWithoutMemory
<1>5. ASSUME stage = "ready" PROVE root >= 0 /\ HeaderSize + root = maxMem
  <2>1. maxMem \in 0 .. MapWord - 1 /\ maxMem > HeaderSize /\ HeaderSize \in Nat \ {0} /\ MapWord \in Nat
    BY <1>1, <1>5, MemoryMapAssumption DEF MapInv, MapTypeOK, BestSoFar
  <2>2. (maxMem - HeaderSize) % MapWord = maxMem - HeaderSize
    BY <2>1
  <2> QED BY <1>5, <2>1, <2>2 DEF MapInv, RootSize
<1> QED BY <1>3, <1>4, <1>5 DEF HeapPlaced, RootFits

\* For every memory map the heap gets the largest usable region, whole, or the
\* kernel panics because there is none.
THEOREM HeapAlwaysPlaced == MapSpec => []HeapPlaced
<1>1. MapSpec => []MapInv
  BY MapInitInv, MapInvStep, PTL DEF MapSpec
<1> QED BY <1>1, MapInvPlaces, PTL

-----------------------------------------------------------------------------
(* Invaders: the types, for every formation.                               *)

LEMMA GameNumbers ==
  /\ {Rows, Columns, StepX, StepY, AlienSize, PlayerWidth, PlayerHeight, Width, Height, Word}
       \subseteq Nat \ {0}
  /\ {Descent, PlayerY, Speed, MaxY, Pitch} \subseteq Nat
  /\ PlayerWidth <= Width /\ Width + PlayerWidth < Word /\ Speed < Word
  /\ StepX * (Columns + 2) + AlienSize <= Width
  /\ Word > Width + Height /\ Pitch >= Width
BY InvadersAssumption, GraphicsAssumption

LEMMA CrewTypes == \A q \in Crew : q[1] \in 1 .. Columns /\ q[2] \in 1 .. Rows /\ q = <<q[1], q[2]>>
BY DEF Crew

\* The products of two numbers of the formation that the proofs use.
LEMMA Distances ==
  ASSUME NEW m \in Nat \ {0}, NEW j \in 1 .. m, NEW step \in Nat \ {0}
  PROVE  /\ (j - 1) * step \in Nat /\ (m - 1) * step \in Nat
         /\ (j - 1) * step <= (m - 1) * step
         /\ j # m => (j - 1) * step + step <= (m - 1) * step
         /\ j # 1 => (j - 1) * step >= step
         /\ (j + 2) * step = 3 * step + (j - 1) * step
         /\ step * (m + 2) = 3 * step + (m - 1) * step
<1>1. (j - 1) * step \in Nat /\ (m - j) * step \in Nat
  OBVIOUS
<1>2. (m - 1) * step = (j - 1) * step + (m - j) * step
  OBVIOUS
<1>3. j # m => (m - j) * step >= step
  <2> SUFFICES ASSUME j # m PROVE (m - j) * step >= step
    OBVIOUS
  <2>1. (m - j - 1) * step \in Nat /\ (m - j) * step = (m - j - 1) * step + step
    OBVIOUS
  <2> QED BY <2>1
<1>4. j # 1 => (j - 1) * step >= step
  <2> SUFFICES ASSUME j # 1 PROVE (j - 1) * step >= step
    OBVIOUS
  <2>1. (j - 2) * step \in Nat /\ (j - 1) * step = (j - 2) * step + step
    OBVIOUS
  <2> QED BY <2>1
<1>5. (j + 2) * step = 3 * step + (j - 1) * step /\ step * (m + 2) = 3 * step + (m - 1) * step
  OBVIOUS
<1> QED BY <1>1, <1>2, <1>3, <1>4, <1>5

LEMMA Painted ==
  ASSUME NEW shades, NEW picture \in [Cells -> shades], NEW cells, NEW color \in shades
  PROVE  Paint(picture, cells, color) \in [Cells -> shades]
BY DEF Paint

LEMMA GameInitTypes == InvadersInit => InvadersTypeOK
<1> SUFFICES ASSUME InvadersInit PROVE InvadersTypeOK
  OBVIOUS
<1>1. \A q \in Crew : (q[1] + 2) * StepX \in 0 .. Word - 1 /\ q[2] * StepY \in Nat
  <2> SUFFICES ASSUME NEW q \in Crew PROVE (q[1] + 2) * StepX \in 0 .. Word - 1 /\ q[2] * StepY \in Nat
    OBVIOUS
  <2>1. q[1] \in 1 .. Columns /\ q[2] \in Nat
    BY CrewTypes, GameNumbers
  <2>2. (q[1] + 2) * StepX \in Nat /\ (q[1] + 2) * StepX <= StepX * (Columns + 2)
    BY <2>1, Distances, GameNumbers
  <2>3. q[2] * StepY \in Nat
    BY <2>1, GameNumbers
  <2> QED BY <2>2, <2>3, GameNumbers
<1>2. Width \div 2 \in 0 .. Word - 1
  BY GameNumbers
<1> QED BY <1>1, <1>2 DEF InvadersInit, InvadersTypeOK

LEMMA MovedTypes ==
  ASSUME NEW p \in [x : 0 .. Word - 1, y : Nat]
  PROVE  Moved(p) \in [x : 0 .. Word - 1, y : Nat]
<1>1. (p.x + Word - 1) % Word \in 0 .. Word - 1 /\ (p.x + 1) % Word \in 0 .. Word - 1
  BY GameNumbers
<1>2. p.y + Descent \in Nat /\ p.y + 0 \in Nat
  BY GameNumbers
<1> QED BY <1>1, <1>2 DEF Moved

\* What a frame leaves in the framebuffer.
Ships(positions) == UNION {Filled(AlienRect(positions[q])) : q \in Crew}
Frame(positions) ==
  Paint(Paint(Paint(memory, Cleared, "black"), Filled(PlayerRect(player)), "player"), Ships(positions), "alien")

LEMMA Framed == ASSUME NEW positions, Draw(positions) PROVE memory' = Frame(positions)
BY DEF Draw, Frame, Ships

LEMMA UpdateTypes == InvadersTypeOK /\ Update => InvadersTypeOK'
<1> SUFFICES ASSUME InvadersTypeOK, Update PROVE InvadersTypeOK'
  OBVIOUS
<1>1. aliens' = [q \in Crew |-> Moved(aliens[q])]
  BY DEF Update
<1>2. aliens' \in [Crew -> [x : 0 .. Word - 1, y : Nat]]
  BY <1>1, MovedTypes DEF InvadersTypeOK
<1>3. memory' \in [Cells -> {"left over", "black", "player", "alien"}]
  <2> DEFINE shades == {"left over", "black", "player", "alien"}
  <2>1. memory \in [Cells -> shades] /\ memory' = Frame(aliens')
    BY <1>1, Framed DEF InvadersTypeOK, Update
  <2>2. Paint(memory, Cleared, "black") \in [Cells -> shades]
    BY <2>1, Painted
  <2>3. Paint(Paint(memory, Cleared, "black"), Filled(PlayerRect(player)), "player") \in [Cells -> shades]
    BY <2>2, Painted
  <2> QED BY <2>1, <2>3, Painted DEF Frame
<1>4. movingLeft' \in BOOLEAN /\ moveDown' \in BOOLEAN /\ player' = player
  BY DEF Update, InvadersTypeOK
<1> QED BY <1>2, <1>3, <1>4 DEF InvadersTypeOK

LEMMA InputTypes ==
  ASSUME InvadersTypeOK, NEW left \in BOOLEAN, NEW right \in BOOLEAN, HandleInput(left, right)
  PROVE  InvadersTypeOK'
<1>1. \A k \in 0 .. Word - 1 : Leftwards(k) \in 0 .. Word - 1
  BY GameNumbers DEF Leftwards
<1>2. \A k \in 0 .. Word - 1 : Rightwards(k) \in 0 .. Word - 1
  BY GameNumbers DEF Rightwards, Lesser
<1>3. player' \in 0 .. Word - 1
  BY <1>1, <1>2 DEF HandleInput, InvadersTypeOK
<1> QED BY <1>3 DEF HandleInput, InvadersTypeOK

LEMMA GameTypesStep == InvadersTypeOK /\ [InvadersNext]_invadersVars => InvadersTypeOK'
<1>1. InvadersTypeOK /\ UNCHANGED invadersVars => InvadersTypeOK'
  BY DEF InvadersTypeOK, invadersVars
<1> QED BY <1>1, UpdateTypes, InputTypes DEF InvadersNext

-----------------------------------------------------------------------------
(* Invaders: the formation is rigid, `left` being the x of its first column,*)
(* and the alien column at a border turns it when Rows is odd.             *)

Offset(column) == (column - 1) * StepX
Rigid(left) == \A q \in Crew : aliens[q].x = left + Offset(q[1])
Right(left) == left + Offset(Columns) + AlienSize

OnCourse(left) ==
  /\ Rigid(left)
  /\ movingLeft => left >= 1 /\ Right(left) <= Width + 1
  /\ ~movingLeft => Right(left) <= Width

FormationInv == InvadersTypeOK /\ \E left \in Nat : OnCourse(left)

\* The distance of an alien from the first column.
LEMMA Offsets ==
  ASSUME NEW q \in Crew
  PROVE  /\ Offset(q[1]) \in Nat /\ Offset(Columns) \in Nat
         /\ Offset(q[1]) <= Offset(Columns)
         /\ q[1] # Columns => Offset(q[1]) + 1 <= Offset(Columns)
         /\ q[1] = Columns => Offset(q[1]) = Offset(Columns)
         /\ q[1] # 1 => Offset(q[1]) >= 1
         /\ q[1] = 1 => Offset(q[1]) = 0
         /\ (q[1] + 2) * StepX = 3 * StepX + Offset(q[1])
<1>1. q[1] \in 1 .. Columns /\ Columns \in Nat \ {0} /\ StepX \in Nat \ {0}
  BY CrewTypes, GameNumbers
<1>2. Offset(q[1]) \in Nat /\ Offset(Columns) \in Nat
  BY <1>1, Distances DEF Offset
<1>3. q[1] = 1 => Offset(q[1]) = 0
  <2>1. 0 * StepX = 0
    BY <1>1
  <2>2. q[1] = 1 => q[1] - 1 = 0
    BY <1>1
  <2> QED BY <2>1, <2>2 DEF Offset
<1>4. /\ Offset(q[1]) <= Offset(Columns)
      /\ q[1] # Columns => Offset(q[1]) + StepX <= Offset(Columns)
      /\ q[1] # 1 => Offset(q[1]) >= StepX
      /\ (q[1] + 2) * StepX = 3 * StepX + Offset(q[1])
  BY <1>1, Distances DEF Offset
<1> QED BY <1>1, <1>2, <1>3, <1>4

LEMMA LastOffset ==
  /\ Offset(Columns) \in Nat /\ 3 * StepX \in Nat
  /\ StepX * (Columns + 2) = 3 * StepX + Offset(Columns)
<1>1. Columns \in Nat \ {0} /\ StepX \in Nat \ {0} /\ Columns \in 1 .. Columns
  BY GameNumbers
<1> QED BY <1>1, Distances DEF Offset

\* One column of the formation turns it, if it has an odd number of rows.
LEMMA ColumnTurns ==
  ASSUME Rows % 2 = 1, NEW column \in 1 .. Columns
  PROVE  Turns({q \in Crew : q[1] = column}) /\ {q \in Crew : q[1] = column} # {}
<1>1. {q \in Crew : q[1] = column} = {column} \X (1 .. Rows)
  BY DEF Crew
<1>2. IsFiniteSet(1 .. Rows) /\ Cardinality(1 .. Rows) = Rows
  <2>1. Rows \in Nat /\ 1 \in Int /\ Rows \in Int
    BY GameNumbers
  <2>2. /\ IsFiniteSet(1 .. Rows)
        /\ Cardinality(1 .. Rows) = IF 1 > Rows THEN 0 ELSE Rows - 1 + 1
    BY ONLY <2>1, FS_Interval, Zenon
  <2>3. Rows >= 1
    BY GameNumbers
  <2>4. Cardinality(1 .. Rows) = Rows - 1 + 1
    BY <2>1, <2>2, <2>3
  <2> QED BY <2>1, <2>2, <2>4
<1>3. Cardinality({column} \X (1 .. Rows)) = 1 * Rows
  <2>1. IsFiniteSet({column}) /\ Cardinality({column}) = 1
    BY FS_Singleton
  <2>2. Cardinality({column} \X (1 .. Rows)) = Cardinality({column}) * Cardinality(1 .. Rows)
    BY <1>2, <2>1, FS_Product
  <2> QED BY <1>2, <2>1, <2>2
<1>4. Cardinality({q \in Crew : q[1] = column}) = Rows
  <2>1. 1 * Rows = Rows
    BY GameNumbers
  <2> QED BY <1>1, <1>3, <2>1, Zenon
<1>5. <<column, 1>> \in {q \in Crew : q[1] = column}
  BY GameNumbers DEF Crew
<1> QED BY <1>4, <1>5 DEF Turns

LEMMA NobodyTurns == ~Turns({})
BY FS_EmptySet DEF Turns

LEMMA FormationStarts == InvadersInit => FormationInv
<1> SUFFICES ASSUME InvadersInit PROVE FormationInv
  OBVIOUS
<1>1. 3 * StepX \in Nat /\ Right(3 * StepX) <= Width
  BY LastOffset, GameNumbers DEF Right
<1>2. Rigid(3 * StepX)
  <2> SUFFICES ASSUME NEW q \in Crew PROVE aliens[q].x = 3 * StepX + Offset(q[1])
    BY DEF Rigid
  <2>1. aliens[q].x = (q[1] + 2) * StepX
    BY DEF InvadersInit
  <2> QED BY <2>1, Offsets
<1>3. OnCourse(3 * StepX)
  BY <1>1, <1>2 DEF OnCourse, InvadersInit
<1> QED BY <1>1, <1>3, GameInitTypes DEF FormationInv

\* Where the next update puts an alien of a formation on course.
LEMMA MovedRigidly ==
  ASSUME FormationInv, NEW left \in Nat, OnCourse(left), NEW q \in Crew
  PROVE  Moved(aliens[q]).x = (IF movingLeft THEN left - 1 ELSE left + 1) + Offset(q[1])
<1> DEFINE x == aliens[q].x
<1>1. x = left + Offset(q[1]) /\ x \in Nat
  BY Offsets DEF OnCourse, Rigid
<1>2. CASE movingLeft
  <2>1. x >= 1 /\ x < Word
    <3>1. left >= 1
      BY <1>2 DEF OnCourse
    <3>2. aliens[q] \in [x : 0 .. Word - 1, y : Nat]
      BY DEF FormationInv, InvadersTypeOK
    <3> QED BY <1>1, <3>1, <3>2, Offsets, GameNumbers
  <2>2. (x + Word - 1) % Word = x - 1
    BY <1>1, <2>1, GameNumbers
  <2> QED BY <1>1, <1>2, <2>2, Offsets DEF Moved
<1>3. CASE ~movingLeft
  <2>1. x + 1 < Word
    BY <1>1, <1>3, Offsets, GameNumbers DEF OnCourse, Right
  <2>2. (x + 1) % Word = x + 1
    BY <1>1, <2>1, GameNumbers
  <2> QED BY <1>1, <1>3, <2>2, Offsets DEF Moved
<1> QED BY <1>2, <1>3

LEMMA UpdateKeepsCourse ==
  ASSUME Rows % 2 = 1, FormationInv, Update
  PROVE  FormationInv'
<1>1. PICK left \in Nat : OnCourse(left)
  BY DEF FormationInv
<1> DEFINE next == [q \in Crew |-> Moved(aliens[q])]
           hits == {q \in Crew : AtBorder(next[q])}
<1>0. PICK there : there = IF movingLeft THEN left - 1 ELSE left + 1
  OBVIOUS
<1>2. /\ there \in Nat
      /\ movingLeft => Right(there) <= Width
      /\ ~movingLeft => there >= 1 /\ Right(there) <= Width + 1
  BY <1>1, <1>0, LastOffset, GameNumbers DEF OnCourse, Right
<1>3. \A q \in Crew : next[q].x = there + Offset(q[1])
  BY <1>1, <1>0, MovedRigidly
<1>4. /\ aliens' = next /\ movingLeft' = IF Turns(hits) THEN ~movingLeft ELSE movingLeft
  BY DEF Update
<1>5. Rigid(there)'
  BY <1>3, <1>4 DEF Rigid
<1>6. InvadersTypeOK' /\ movingLeft \in BOOLEAN
  BY UpdateTypes DEF FormationInv, InvadersTypeOK
<1>7. \A q \in Crew : AtBorder(next[q]) <=>
                        there + Offset(q[1]) = 0 \/ there + Offset(q[1]) + AlienSize > Width
  <2> SUFFICES ASSUME NEW q \in Crew
               PROVE  AtBorder(next[q]) <=>
                        there + Offset(q[1]) = 0 \/ there + Offset(q[1]) + AlienSize > Width
    OBVIOUS
  <2> DEFINE x == there + Offset(q[1])
  <2>1. next[q].x = x /\ x \in Nat
    BY <1>2, <1>3, Offsets
  <2>2. x + AlienSize <= Width + 1 /\ x + AlienSize \in Nat
    BY <1>2, <1>6, <2>1, Offsets, GameNumbers DEF Right
  <2>3. (x + AlienSize) % Word = x + AlienSize
    BY <2>2, GameNumbers
  <2> QED BY <2>1, <2>3 DEF AtBorder
<1>8. CASE movingLeft
  <2>1. \A q \in Crew : AtBorder(next[q]) <=> there = 0 /\ q[1] = 1
    <3> SUFFICES ASSUME NEW q \in Crew PROVE AtBorder(next[q]) <=> there = 0 /\ q[1] = 1
      OBVIOUS
    <3>1. ~(there + Offset(q[1]) + AlienSize > Width)
      BY <1>2, <1>8, Offsets, GameNumbers DEF Right
    <3>2. there + Offset(q[1]) = 0 <=> there = 0 /\ q[1] = 1
      <4>1. there \in Nat /\ Offset(q[1]) \in Nat
        BY <1>2, Offsets
      <4>2. Offset(q[1]) = 0 <=> q[1] = 1
        BY <4>1, Offsets
      <4> QED BY <4>1, <4>2
    <3> QED BY <1>7, <3>1, <3>2
  <2>2. CASE there = 0
    <3>1. hits = {q \in Crew : q[1] = 1} /\ 1 \in 1 .. Columns
      BY <2>1, <2>2, GameNumbers
    <3>2. ~movingLeft'
      BY <1>4, <1>8, <3>1, ColumnTurns
    <3> QED BY <1>2, <1>5, <1>6, <1>8, <3>2 DEF FormationInv, OnCourse, Right
  <2>3. CASE there # 0
    <3>1. hits = {}
      BY <2>1, <2>3
    <3>2. movingLeft'
      BY <1>4, <1>8, <3>1, NobodyTurns
    <3>3. there >= 1 /\ Right(there) <= Width + 1
      BY <1>2, <1>8, <2>3, GameNumbers, LastOffset DEF Right
    <3> QED BY <1>2, <1>5, <1>6, <3>2, <3>3 DEF FormationInv, OnCourse, Right
  <2> QED BY <2>2, <2>3
<1>9. CASE ~movingLeft
  <2>1. \A q \in Crew : AtBorder(next[q]) <=> Right(there) = Width + 1 /\ q[1] = Columns
    <3> SUFFICES ASSUME NEW q \in Crew PROVE AtBorder(next[q]) <=> Right(there) = Width + 1 /\ q[1] = Columns
      OBVIOUS
    <3>1. there + Offset(q[1]) # 0
      BY <1>2, <1>9, Offsets
    <3>2. there + Offset(q[1]) + AlienSize > Width <=> Right(there) = Width + 1 /\ q[1] = Columns
      BY <1>2, <1>9, Offsets, GameNumbers DEF Right
    <3> QED BY <1>7, <3>1, <3>2
  <2>2. CASE Right(there) = Width + 1
    <3>1. hits = {q \in Crew : q[1] = Columns} /\ Columns \in 1 .. Columns
      BY <2>1, <2>2, GameNumbers
    <3>2. movingLeft'
      BY <1>4, <1>9, <3>1, ColumnTurns
    <3> QED BY <1>2, <1>5, <1>6, <1>9, <3>2 DEF FormationInv, OnCourse, Right
  <2>3. CASE Right(there) # Width + 1
    <3>1. hits = {}
      BY <2>1, <2>3
    <3>2. ~movingLeft'
      BY <1>4, <1>6, <1>9, <3>1, NobodyTurns
    <3>3. Right(there) <= Width
      BY <1>2, <1>9, <2>3, GameNumbers, LastOffset DEF Right
    <3> QED BY <1>2, <1>5, <1>6, <3>2, <3>3 DEF FormationInv, OnCourse, Right
  <2> QED BY <2>2, <2>3
<1> QED BY <1>6, <1>8, <1>9

LEMMA FormationStep ==
  ASSUME Rows % 2 = 1, FormationInv, [InvadersNext]_invadersVars
  PROVE  FormationInv'
<1>1. InvadersTypeOK'
  BY GameTypesStep DEF FormationInv
<1>2. CASE Update
  BY <1>2, UpdateKeepsCourse
<1>3. CASE UNCHANGED <<aliens, movingLeft>>
  BY <1>1, <1>3 DEF FormationInv, OnCourse, Rigid, Right
<1> QED BY <1>2, <1>3 DEF InvadersNext, HandleInput, invadersVars

LEMMA CourseTurns == FormationInv => FormationTurns
<1> SUFFICES ASSUME FormationInv, NEW q \in Crew PROVE aliens[q].x + AlienSize <= Width + 1
  BY DEF FormationTurns
<1>1. PICK left \in Nat : OnCourse(left)
  BY DEF FormationInv
<1>2. left + Offset(Columns) + AlienSize <= Width + 1
  <2>1. Right(left) <= Width + 1
    <3>1. CASE movingLeft
      BY <1>1, <3>1 DEF OnCourse
    <3>2. CASE ~movingLeft
      <4>1. Right(left) <= Width
        BY <1>1, <3>2 DEF OnCourse
      <4> QED BY <4>1, LastOffset, GameNumbers DEF Right
    <3> QED BY <3>1, <3>2
  <2> QED BY <2>1 DEF Right
<1>3. aliens[q].x = left + Offset(q[1])
  BY <1>1 DEF OnCourse, Rigid
<1> QED BY <1>2, <1>3, Offsets, GameNumbers

\* A formation with an odd number of rows, as the game's, turns at the borders for
\* ever: none of its aliens wraps round the unsigned coordinates.
THEOREM FormationAlwaysTurns == Rows % 2 = 1 /\ InvadersSpec => []FormationTurns
<1> SUFFICES ASSUME Rows % 2 = 1 PROVE InvadersSpec => []FormationTurns
  OBVIOUS
<1>1. FormationInv /\ [InvadersNext]_invadersVars => FormationInv'
  BY FormationStep
<1>2. InvadersSpec => []FormationInv
  BY <1>1, FormationStarts, PTL DEF InvadersSpec
<1> QED BY <1>2, CourseTurns, PTL

-----------------------------------------------------------------------------
(* Invaders: what a frame shows.                                           *)

\* A cell is in one place only.
LEMMA PixelsApart ==
  ASSUME NEW px \in 0 .. Pitch - 1, NEW py \in Nat, NEW qx \in 0 .. Pitch - 1, NEW qy \in Nat,
         Pixel(px, py) = Pixel(qx, qy)
  PROVE  px = qx /\ py = qy
<1>1. Pitch \in Nat /\ px \in Nat /\ qx \in Nat /\ py * Pitch + px = qy * Pitch + qx
  BY GameNumbers DEF Pixel
<1>2. ASSUME NEW k \in Nat, NEW m \in Nat, k < m PROVE k * Pitch + Pitch <= m * Pitch
  <2>1. (m - k - 1) * Pitch \in Nat /\ m * Pitch = (m - k - 1) * Pitch + k * Pitch + Pitch
    <3>1. m - k - 1 \in Nat /\ Pitch \in Nat
      BY <1>1, <1>2
    <3> QED BY <3>1
  <2>2. k * Pitch \in Nat
    BY <1>1
  <2> QED BY <1>1, <2>1, <2>2
<1>3. py * Pitch \in Nat /\ qy * Pitch \in Nat
  BY <1>1
<1>4. ~(py < qy) /\ ~(qy < py)
  BY <1>1, <1>2, <1>3
<1>5. py = qy
  BY <1>4
<1> QED BY <1>1, <1>3, <1>5

LEMMA PixelRow ==
  ASSUME NEW x \in Nat, NEW y \in Nat, NEW k \in Int
  PROVE  Pixel(x, y) \in Nat /\ Pixel(x, y) + k = Pixel(x + k, y)
<1>1. y * Pitch \in Nat
  BY GameNumbers
<1> QED BY <1>1 DEF Pixel

LEMMA VisibleCells == Visible \subseteq Cells
<1> SUFFICES ASSUME NEW px \in 0 .. Width - 1, NEW py \in 0 .. Height - 1
             PROVE  Pixel(px, py) \in Cells
  BY DEF Visible
<1>1. /\ Width \in Nat /\ Height \in Nat /\ Pitch \in Nat /\ Pitch >= Width
      /\ px \in Nat /\ px < Pitch /\ py \in Nat /\ Height - 1 - py \in Nat
  BY GameNumbers
<1>2. (Height - 1 - py) * Pitch \in Nat /\ py * Pitch \in Nat
  BY <1>1
<1>3. Pitch * Height = (Height - 1 - py) * Pitch + py * Pitch + Pitch
  BY <1>1
<1> QED BY <1>1, <1>2, <1>3 DEF Pixel, Cells

\* fillRect of a rectangle whose right end does not wrap round fills what is
\* visible of it.
LEMMA FillsVisible ==
  ASSUME NEW rect \in [x : Nat, y : Nat, w : Nat, h : Nat],
         rect.x < Width => rect.x + rect.w < Word,
         NEW px \in 0 .. Width - 1, NEW py \in 0 .. Height - 1
  PROVE  Pixel(px, py) \in Filled(rect) <=> Pixel(px, py) \in Shown(rect)
<1>1. /\ rect.x \in Nat /\ rect.y \in Nat /\ rect.w \in Nat /\ rect.h \in Nat
      /\ px \in Nat /\ py \in Nat /\ px < Width /\ py < Height
      /\ Width \in Nat /\ Height \in Nat /\ Word \in Nat /\ Pitch \in Nat
      /\ Pitch >= Width /\ Word > Width + Height
  BY GameNumbers
<1>2. FillEnd(rect) \in Nat /\ FillEnd(rect) <= Width
  BY <1>1 DEF FillEnd, Lesser
<1>3. rect.x < Width => FillEnd(rect) = IF Width < rect.x + rect.w THEN Width ELSE rect.x + rect.w
  BY <1>1 DEF FillEnd, Lesser
<1>4. ASSUME Pixel(px, py) \in Filled(rect) PROVE Pixel(px, py) \in Shown(rect)
  <2>1. PICK g \in 0 .. rect.h - 1 :
          rect.x < FillEnd(rect) /\ Pixel(px, py) \in Mempattern(Pixel(rect.x, rect.y + g), FillEnd(rect) - rect.x)
    BY <1>4 DEF Filled
  <2>2. Pixel(rect.x, rect.y + g) \in Nat /\ Pixel(px, py) \in Nat
    <3>1. rect.y + g \in Nat /\ 0 \in Int
      BY <1>1, <2>1
    <3> QED BY <1>1, <3>1, PixelRow
  <2> DEFINE k == Pixel(px, py) - Pixel(rect.x, rect.y + g)
  <2>3. k \in 0 .. FillEnd(rect) - rect.x - 1
    BY <1>1, <1>2, <2>1, <2>2 DEF Mempattern
  <2> HIDE DEF k
  <2>4. Pixel(rect.x, rect.y + g) + k = Pixel(rect.x + k, rect.y + g)
    BY <1>1, <2>3, PixelRow
  <2>5. Pixel(px, py) = Pixel(rect.x + k, rect.y + g)
    BY <2>2, <2>4 DEF k
  <2>6. px = rect.x + k /\ py = rect.y + g
    <3>1. px \in 0 .. Pitch - 1 /\ rect.x + k \in 0 .. Pitch - 1 /\ rect.y + g \in Nat
      BY <1>1, <1>2, <2>1, <2>3
    <3> QED BY <1>1, <2>5, <3>1, PixelsApart
  <2>7. px \in rect.x .. rect.x + rect.w - 1 /\ py \in rect.y .. rect.y + rect.h - 1
    BY <1>1, <1>2, <1>3, <2>1, <2>3, <2>6
  <2> QED BY <1>1, <2>7 DEF Shown
<1>5. ASSUME Pixel(px, py) \in Shown(rect) PROVE Pixel(px, py) \in Filled(rect)
  <2>1. PICK sx \in (rect.x .. rect.x + rect.w - 1) \cap 0 .. Width - 1,
             sy \in (rect.y .. rect.y + rect.h - 1) \cap 0 .. Height - 1 : Pixel(px, py) = Pixel(sx, sy)
    BY <1>5 DEF Shown
  <2>2. px = sx /\ py = sy
    <3>1. px \in 0 .. Pitch - 1 /\ sx \in 0 .. Pitch - 1 /\ sy \in Nat
      BY <1>1, <2>1
    <3> QED BY <1>1, <2>1, <3>1, PixelsApart
  <2>3. rect.x <= px /\ px < rect.x + rect.w /\ rect.y <= py /\ py < rect.y + rect.h
    BY <1>1, <2>1, <2>2
  <2> DEFINE g == py - rect.y
  <2>4. g \in 0 .. rect.h - 1 /\ rect.y + g = py /\ g + rect.y = py
    BY <1>1, <2>3
  <2>5. py % Word = py /\ py <= Height
    BY <1>1
  <2>6. rect.x < FillEnd(rect) /\ px < FillEnd(rect)
    BY <1>1, <1>3, <2>3
  <2>7. Pixel(px, py) \in Mempattern(Pixel(rect.x, py), FillEnd(rect) - rect.x)
    <3>1. Pixel(rect.x, py) + (px - rect.x) = Pixel(rect.x + (px - rect.x), py) /\ Pixel(rect.x, py) \in Nat
      <4>1. px - rect.x \in Int
        BY <1>1
      <4> QED BY <1>1, <4>1, PixelRow
    <3>2. rect.x + (px - rect.x) = px
      BY <1>1
    <3>3. Pixel(px, py) = Pixel(rect.x, py) + (px - rect.x)
      BY <3>1, <3>2
    <3> QED BY <1>1, <1>2, <2>3, <2>6, <3>1, <3>3 DEF Mempattern
  <2>8. g \in {k \in 0 .. rect.h - 1 : rect.x < FillEnd(rect) /\ (k + rect.y) % Word <= Height}
    BY <2>4, <2>5, <2>6
  <2> HIDE DEF g
  <2> QED BY <2>4, <2>7, <2>8 DEF Filled
<1> QED BY <1>4, <1>5

LEMMA ShownIsVisible ==
  ASSUME NEW rect \in [x : Nat, y : Nat, w : Nat, h : Nat]
  PROVE  Shown(rect) \subseteq Visible
BY DEF Shown, Visible

LEMMA UpdateFrames ==
  ASSUME Pitch = Width, FormationInv, FormationInv', Update
  PROVE  FrameShown
<1> DEFINE ships == UNION {Shown(AlienRect(aliens'[q])) : q \in Crew}
           own == Shown(PlayerRect(player))
<1>1. memory' = Frame(aliens')
  BY Framed DEF Update
<1>2. ASSUME NEW q \in Crew
      PROVE  /\ AlienRect(aliens'[q]) \in [x : Nat, y : Nat, w : Nat, h : Nat]
             /\ AlienRect(aliens'[q]).x + AlienRect(aliens'[q]).w < Word
  <2>1. aliens'[q] \in [x : 0 .. Word - 1, y : Nat] /\ aliens'[q].x + AlienSize <= Width + 1
    <3>1. FormationTurns'
      BY CourseTurns, PTL
    <3>2. aliens' \in [Crew -> [x : 0 .. Word - 1, y : Nat]]
      BY DEF FormationInv, InvadersTypeOK
    <3> QED BY <3>1, <3>2 DEF FormationTurns
  <2>2. AlienRect(aliens'[q]) = [x |-> aliens'[q].x, y |-> aliens'[q].y, w |-> AlienSize, h |-> AlienSize]
    BY DEF AlienRect
  <2>3. aliens'[q].x \in Nat /\ aliens'[q].y \in Nat
    BY <2>1, GameNumbers
  <2>4. AlienSize \in Nat /\ aliens'[q].x + AlienSize < Word
    BY <2>1, <2>3, GameNumbers
  <2> QED BY <2>2, <2>3, <2>4
<1>3. /\ PlayerRect(player) \in [x : Nat, y : Nat, w : Nat, h : Nat]
      /\ PlayerRect(player).x < Width => PlayerRect(player).x + PlayerRect(player).w < Word
  <2>1. player \in 0 .. Word - 1
    BY DEF FormationInv, InvadersTypeOK
  <2>2. PlayerRect(player) = [x |-> player, y |-> PlayerY, w |-> PlayerWidth, h |-> PlayerHeight]
    BY DEF PlayerRect
  <2> QED BY <2>1, <2>2, GameNumbers
<1>4. ships \subseteq Visible /\ own \subseteq Visible
  BY <1>2, <1>3, ShownIsVisible
<1>5. ASSUME NEW c \in Visible
      PROVE  /\ c \in Ships(aliens') <=> c \in ships
             /\ c \in Filled(PlayerRect(player)) <=> c \in own
             /\ c \in Cleared /\ c \in Cells
  <2>1. PICK px \in 0 .. Width - 1, py \in 0 .. Height - 1 : c = Pixel(px, py)
    BY DEF Visible
  <2>2. \A q \in Crew : c \in Filled(AlienRect(aliens'[q])) <=> c \in Shown(AlienRect(aliens'[q]))
    BY <1>2, <2>1, FillsVisible
  <2>3. c \in Filled(PlayerRect(player)) <=> c \in own
    BY <1>3, <2>1, FillsVisible
  <2>4. c \in Cells
    BY VisibleCells
  <2>5. Cells = Cleared
    <3>1. Width * Height \in Nat
      BY GameNumbers
    <3> QED BY <3>1 DEF Cells, Cleared, Mempattern
  <2> QED BY <2>2, <2>3, <2>4, <2>5 DEF Ships
<1>6. ASSUME NEW c \in Visible
      PROVE  memory'[c] = IF c \in ships THEN "alien" ELSE IF c \in own THEN "player" ELSE "black"
  BY <1>1, <1>5 DEF Frame, Paint
<1>7. /\ {c \in Visible : memory'[c] = "alien"} = ships
      /\ {c \in Visible : memory'[c] = "player"} = own \ ships
      /\ {c \in Visible : memory'[c] = "left over"} = {}
  BY <1>4, <1>6
<1> QED BY <1>7 DEF FrameShown

\* On a screen without padding behind its rows, what is seen after every update is
\* the player and the aliens where they are, and nothing of an earlier frame.
THEOREM FramesShown == Rows % 2 = 1 /\ Pitch = Width /\ InvadersSpec => FrameShows
<1> SUFFICES ASSUME Rows % 2 = 1, Pitch = Width PROVE InvadersSpec => FrameShows
  OBVIOUS
<1>1. FormationInv /\ [InvadersNext]_invadersVars => FormationInv'
  BY FormationStep
<1>2. FormationInv /\ FormationInv' /\ [InvadersNext]_invadersVars => FrameShown
  <2>1. (\E left, right \in BOOLEAN : HandleInput(left, right)) \/ UNCHANGED invadersVars
          => FrameShown
    BY DEF HandleInput, invadersVars, FrameShown
  <2> QED BY <2>1, UpdateFrames DEF InvadersNext
<1>3. InvadersSpec => [][FrameShown]_invadersVars
  BY <1>1, <1>2, FormationStarts, PTL DEF InvadersSpec
<1> QED BY <1>3 DEF FrameShows

-----------------------------------------------------------------------------
(* MCMachine: the parts share no state, so each keeps its own invariant in *)
(* the steps of the others.                                                *)

MachineInv == CallInv /\ MapInv /\ StringInv /\ PortInv /\ InvadersTypeOK

LEMMA MachineInitInv == MachineInit => MachineInv
BY CallInitInv, MapInitInv, StringInitInv, PortInitInv, GameInitTypes DEF MachineInit, MachineInv

LEMMA PartsStep ==
  ASSUME MachineInv, [CStringNext]_vars, [MapNext]_mapVars, [StringNext]_stringVars,
         [SerialNext]_serialVars, [InvadersNext]_invadersVars
  PROVE  MachineInv'
BY CallInvStep, MapInvStep, StringInvStep, PortInvStep, GameTypesStep DEF MachineInv

\* A step of the whole is a step of each part, or leaves it where it is.
LEMMA EveryPartSteps ==
  ASSUME [MachineNext]_machineVars
  PROVE  /\ [CStringNext]_vars /\ [MapNext]_mapVars /\ [StringNext]_stringVars
         /\ [SerialNext]_serialVars /\ [InvadersNext]_invadersVars
<1>1. CASE CallsStep
  BY <1>1 DEF CallsStep, otherThanCalls
<1>2. CASE MapStep
  BY <1>2 DEF MapStep, otherThanMap
<1>3. CASE StringStep
  BY <1>3 DEF StringStep, otherThanString
<1>4. CASE SerialCode \/ SerialPort \/ SerialPanic
  BY <1>4 DEF SerialCode, SerialPort, SerialPanic, otherThanSerial, SerialNext
<1>5. CASE GameTick \/ GameInput
  BY <1>5 DEF GameTick, GameInput, otherThanGame, InvadersNext
<1>6. CASE UNCHANGED machineVars
  BY <1>6 DEF machineVars, otherThanCalls
<1> QED BY <1>1, <1>2, <1>3, <1>4, <1>5, <1>6 DEF MachineNext

LEMMA MachineInvStep == MachineInv /\ [MachineNext]_machineVars => MachineInv'
BY PartsStep, EveryPartSteps

\* The invariant of every part, in all behaviours of the whole.
THEOREM MachineInvariant == MachineSpec => []MachineInv
BY MachineInitInv, MachineInvStep, PTL DEF MachineSpec

\* The variables of every part keep their types.
THEOREM MachineTypesCorrect == MachineSpec => []MachineTypeOK
<1>1. MachineInv => MachineTypeOK
  BY CStringTypeOKHolds, StringTypeOKHolds, SerialTypeOKHolds DEF MachineInv, MapInv, MachineTypeOK
<1> QED BY <1>1, MachineInvariant, PTL

\* The parts together keep what each of them promises.
THEOREM PartsAlwaysHold == MachineSpec => [](CallsRight /\ HeapPlaced /\ StringHolds /\ LogSound)
<1>1. MachineInv => CallsRight /\ HeapPlaced /\ StringHolds /\ LogSound
  BY CallsRightHolds, MapInvPlaces, StringHoldsAlways, LogSoundHolds DEF MachineInv
<1> QED BY <1>1, MachineInvariant, PTL
=============================================================================
