---------------------------- MODULE KernelProofs ----------------------------
(***************************************************************************)
(* Proofs about Kernel, for every set of keys, devices and faults.         *)
(*                                                                         *)
(* The inductive invariant KInv adds two facts to what is claimed: Stages  *)
(* says what the boot sequence has set up by each of its steps, and Shape  *)
(* that the stack is empty, one interrupt handler, one exception handler,  *)
(* or an exception handler above the interrupt handler that raised it.     *)
(* QInv is about the bytes between the keyboard and the two key states.    *)
(***************************************************************************)
EXTENDS Kernel, SequenceTheorems, TLAPS

\* What the boot sequence has set up before each of its steps.
Stages ==
  /\ loaded => idt = Gates /\ boot > 5
  /\ boot > 3 => base = 32
  /\ boot > 4 => idt = Gates
  /\ boot > 5 => loaded
  /\ boot > 6 => mask = FinalMask
  /\ boot > 8 => sse
  /\ boot > 10 => game
  /\ handlers # {} => boot > 11
  /\ intFlag => boot > 7

\* A handler behind an interrupt gate, and a handler of an exception.
IrqFrame(f) ==
  /\ \/ f.vector = 32 /\ f.step \in {"game", "eoi"} /\ isr = {Timer}
     \/ f.vector = 33 /\ f.step \in {"read", "keys", "game", "eoi"} /\ isr = {Keyboard}
     \/ f.vector = 39 /\ f.step = "eoi" /\ isr \in {{}, {7}}
  /\ boot > 7
HaltFrame(f) == f.vector \in Exceptions /\ f.step = "halt"

Shape ==
  \/ stack = <<>> /\ isr = {}
  \/ Len(stack) = 1 /\ ~intFlag /\ IrqFrame(stack[1])
  \/ Len(stack) = 1 /\ ~intFlag /\ HaltFrame(stack[1]) /\ isr = {}
  \/ Len(stack) = 2 /\ ~intFlag /\ HaltFrame(stack[1]) /\ IrqFrame(stack[2])

KInv == TypeOK /\ Stages /\ Shape

-----------------------------------------------------------------------------
(* Sequences                                                               *)

\* Pushing a frame.
LEMMA Push ==
  ASSUME NEW S, NEW s \in Seq(S), NEW x \in S
  PROVE  /\ <<x>> \o s \in Seq(S) /\ Len(<<x>> \o s) = Len(s) + 1
         /\ (<<x>> \o s)[1] = x
         /\ \A i \in 1 .. Len(s) : (<<x>> \o s)[i + 1] = s[i]
  OBVIOUS

\* Popping one.
LEMMA Pop ==
  ASSUME NEW S, NEW s \in Seq(S), s # <<>>
  PROVE  /\ Head(s) \in S /\ Head(s) = s[1] /\ Tail(s) \in Seq(S) /\ Len(Tail(s)) = Len(s) - 1
         /\ \A i \in 1 .. Len(s) - 1 : Tail(s)[i] = s[i + 1]
  OBVIOUS

\* The frame on top.
LEMMA Top ==
  ASSUME NEW S, NEW s \in Seq(S), Len(s) = 1
  PROVE  s # <<>> /\ Head(s) = s[1]
  OBVIOUS

\* The steps of main context by their index.
LEMMA Program ==
  /\ DOMAIN Steps = 1 .. 13
  /\ Steps[1] = "cli" /\ Steps[2] = "mask" /\ Steps[3] = "remap" /\ Steps[4] = "idt"
  /\ Steps[5] = "lidt" /\ Steps[6] = "unmask" /\ Steps[7] = "sti" /\ Steps[8] = "sse"
  /\ Steps[9] = "heap" /\ Steps[10] = "game" /\ Steps[11] = "input" /\ Steps[12] = "update"
  /\ Steps[13] = "hcf"
  BY DEF Steps

\* Where main context is when it runs a step.
LEMMA Where ==
  ASSUME boot \in DOMAIN Steps
  PROVE  /\ Steps[boot] = "cli" => boot = 1
         /\ Steps[boot] = "mask" => boot = 2
         /\ Steps[boot] = "remap" => boot = 3
         /\ Steps[boot] = "idt" => boot = 4
         /\ Steps[boot] = "lidt" => boot = 5
         /\ Steps[boot] = "unmask" => boot = 6
         /\ Steps[boot] = "sti" => boot = 7
         /\ Steps[boot] = "sse" => boot = 8
         /\ Steps[boot] = "heap" => boot = 9
         /\ Steps[boot] = "game" => boot = 10
         /\ Steps[boot] = "input" => boot = 11
         /\ Steps[boot] = "update" => boot = 12
<1>1. boot \in 1 .. 13 BY Program
<1>2. \A i \in 1 .. 13 :
        \/ i = 1 \/ i = 2 \/ i = 3 \/ i = 4 \/ i = 5 \/ i = 6 \/ i = 7 \/ i = 8 \/ i = 9
        \/ i = 10 \/ i = 11 \/ i = 12 \/ i = 13
  OBVIOUS
<1> QED BY <1>1, <1>2, Program

-----------------------------------------------------------------------------
(* The inductive invariant                                                 *)

\* The machine starts in KInv.
LEMMA KernelInit == Init => KInv
<1> SUFFICES ASSUME Init PROVE KInv OBVIOUS
<1>1. TypeOK
  <2>1. boot \in DOMAIN Steps BY Program DEF Init
  <2>2. stack \in Seq(Frame) /\ buffer \in Seq(Byte) /\ Len(buffer) <= MaxBytes
    BY KernelAssumption DEF Init
  <2> QED BY <2>1, <2>2 DEF Init, TypeOK
<1>2. Stages BY DEF Init, Stages
<1>3. Shape BY DEF Init, Shape
<1> QED BY <1>1, <1>2, <1>3 DEF KInv

\* Each step of main context keeps it.
LEMMA MainKeeps ==
  ASSUME KInv, MainContext
  PROVE  KInv'
<1>1. /\ TypeOK /\ Stages /\ Shape /\ stack = <<>> /\ stack' = stack /\ isr = {}
  BY DEF KInv, Shape, MainContext, DisableInterrupts, PicMaskAll, PicRemap, FillIdt, LoadIdt,
     PicUnmask, EnableInterrupts, EnableSse, InitLargestHeap, NoMemory, InvadersInit,
     SetHandler, Main
<1>2. isr' = {}
  BY <1>1 DEF MainContext, DisableInterrupts, PicMaskAll, PicRemap, FillIdt, LoadIdt,
     PicUnmask, EnableInterrupts, EnableSse, InitLargestHeap, NoMemory, InvadersInit,
     SetHandler, Main, machine
<1>3. Shape' BY <1>1, <1>2 DEF Shape
<1>4. boot \in 1 .. 13 /\ DOMAIN Steps = 1 .. 13 BY <1>1, Program DEF TypeOK
<1> USE <1>1, <1>4, Where DEF TypeOK, Stages, Main
<1>a. CASE DisableInterrupts
  <2>a. intFlag' = FALSE BY <1>a DEF DisableInterrupts
  <2>b. intFlag' \in BOOLEAN BY <2>a
  <2>c. boot = 1 BY <1>a DEF DisableInterrupts
  <2>d. boot' \in DOMAIN Steps BY <1>a, <2>c DEF DisableInterrupts
  <2>0. boot = 1 /\ boot' \in DOMAIN Steps /\ intFlag' \in BOOLEAN BY <2>b, <2>c, <2>d
  <2>1. TypeOK' BY <1>a, <2>0 DEF DisableInterrupts, software, keyboard
  <2>2. Stages' BY <1>a DEF DisableInterrupts, software, keyboard
  <2> QED BY <1>3, <2>1, <2>2 DEF KInv
<1>b. CASE PicMaskAll
  BY <1>3, <1>b DEF KInv, PicMaskAll, software, keyboard, AllLines
<1>c. CASE PicRemap
  BY <1>3, <1>c DEF KInv, PicRemap, software, keyboard, AllLines
<1>d. CASE FillIdt
  <2>1. Gates \subseteq 0 .. 47 BY DEF Gates, Exceptions
  <2> QED BY <1>3, <1>d, <2>1 DEF KInv, FillIdt, software, keyboard
<1>e. CASE LoadIdt
  BY <1>3, <1>e DEF KInv, LoadIdt, software, keyboard
<1>f. CASE PicUnmask
  <2>1. FinalMask \subseteq AllLines BY DEF FinalMask, AllLines
  <2> QED BY <1>3, <1>f, <2>1 DEF KInv, PicUnmask, software, keyboard
<1>g. CASE EnableInterrupts
  BY <1>3, <1>g DEF KInv, EnableInterrupts, software, keyboard
<1>h. CASE EnableSse
  BY <1>3, <1>h DEF KInv, EnableSse, machine, software, keyboard
<1>i. CASE InitLargestHeap
  BY <1>3, <1>i DEF KInv, InitLargestHeap, machine, software, keyboard
<1>j. CASE NoMemory
  BY <1>3, <1>j DEF KInv, NoMemory, machine, software, keyboard
<1>k. CASE InvadersInit
  BY <1>3, <1>k DEF KInv, InvadersInit, machine, software, keyboard
<1>l. CASE SetHandler("input")
  BY <1>3, <1>l DEF KInv, SetHandler, machine, software, keyboard
<1>m. CASE SetHandler("update")
  BY <1>3, <1>m DEF KInv, SetHandler, machine, software, keyboard
<1> QED
  BY <1>a, <1>b, <1>c, <1>d, <1>e, <1>f, <1>g, <1>h, <1>i, <1>j, <1>k, <1>l, <1>m DEF MainContext

\* A step that leaves the boot sequence and what it set up alone keeps Stages.
LEMMA StagesKept ==
  ASSUME Stages, intFlag' => boot > 7,
         UNCHANGED <<boot, mask, base, idt, loaded, software>>
  PROVE  Stages'
  BY DEF Stages, software

\* The frame that interrupt entry pushes.
LEMMA EnterKeeps ==
  ASSUME TypeOK, Stages, loaded, NEW v \in Gates, Enter(v)
  PROVE  /\ stack' \in Seq(Frame) /\ Len(stack') = Len(stack) + 1
         /\ stack'[1].vector = v /\ stack'[1].step = Entry(v)
         /\ \A i \in 1 .. Len(stack) : stack'[i + 1] = stack[i]
         /\ ~intFlag' /\ intFlag' \in BOOLEAN
<1> DEFINE f == [vector |-> v, intFlag |-> intFlag, byte |-> NoByte, step |-> Entry(v)]
<1>1. v \in idt BY DEF Stages
<1>2. stack' = <<f>> \o stack /\ intFlag' = FALSE BY <1>1 DEF Enter, GateIntFlag
<1>3. Entry(v) \in {"read", "keys", "game", "eoi", "halt", "fault"} BY DEF Entry
<1>4. v \in 0 .. 47 BY DEF Gates, Exceptions
<1>5. f \in Frame BY <1>3, <1>4 DEF Frame, TypeOK
<1>6. stack \in Seq(Frame) BY DEF TypeOK
<1>7. /\ stack' \in Seq(Frame) /\ Len(stack') = Len(stack) + 1 /\ stack'[1] = f
      /\ \A i \in 1 .. Len(stack) : stack'[i + 1] = stack[i]
  BY <1>2, <1>5, <1>6, Push
<1>8. intFlag' \in BOOLEAN /\ ~intFlag' BY <1>2
<1> QED BY <1>7, <1>8

\* An interrupt is taken in main context only, and only from an open line.
LEMMA InterruptKeeps ==
  ASSUME KInv, NEW n \in AllLines, Interrupt(n)
  PROVE  /\ KInv' /\ Len(stack') = 1
         /\ n = Keyboard => stack'[1].vector = 33 /\ stack'[1].step = "read"
         /\ stack'[1].step # "keys" /\ (stack'[1].vector = 33 => stack'[1].step = "read")
<1>1. TypeOK /\ Stages /\ Shape /\ intFlag /\ Passes(n) BY DEF KInv, Interrupt
<1>2. stack = <<>> /\ isr = {} /\ boot > 7 BY <1>1 DEF Shape, Stages
<1>3. boot \in Nat BY <1>1, Program DEF TypeOK
<1>4. mask = FinalMask /\ base = 32 /\ loaded BY <1>1, <1>2, <1>3 DEF Stages
<1>5. n \in {0, 1, 7}
  BY <1>1, <1>4 DEF Passes, FinalMask, AllLines, Timer, Keyboard, Cascade
<1>6. isr' = {n} BY <1>2, <1>5 DEF Interrupt
<1>7. 32 + n \in Gates BY <1>5 DEF Gates
<1>8. Enter(32 + n) BY <1>4 DEF Interrupt
<1>9. /\ stack' \in Seq(Frame) /\ Len(stack') = 1
      /\ stack'[1].vector = 32 + n /\ stack'[1].step = Entry(32 + n)
      /\ ~intFlag' /\ intFlag' \in BOOLEAN
  BY <1>1, <1>2, <1>4, <1>7, <1>8, EnterKeeps
<1>10. Entry(32 + n) = IF n = 0 THEN "game" ELSE IF n = 1 THEN "read" ELSE "eoi"
  <2>1. Entry(32) = "game" /\ Entry(33) = "read" /\ Entry(39) = "eoi" BY DEF Entry, Exceptions
  <2>2. 32 + 0 = 32 /\ 32 + 1 = 33 /\ 32 + 7 = 39 OBVIOUS
  <2> QED BY <1>5, <2>1, <2>2
<1>11. Shape'
  <2>1. boot' > 7 BY <1>2 DEF Interrupt
  <2> QED BY <1>5, <1>6, <1>9, <1>10, <2>1 DEF Shape, IrqFrame, Timer, Keyboard
<1>12. Stages' BY <1>1, <1>9, StagesKept DEF Interrupt
<1>13. isr' \subseteq AllLines BY <1>6
<1>14. TypeOK' BY <1>1, <1>9, <1>13 DEF Interrupt, TypeOK, software, keyboard
<1>15. n = 1 => stack'[1].vector = 33 /\ stack'[1].step = "read" BY <1>9, <1>10
<1>16. stack'[1].step # "keys" /\ (stack'[1].vector = 33 => stack'[1].step = "read")
  BY <1>5, <1>9, <1>10
<1> QED BY <1>9, <1>11, <1>12, <1>14, <1>15, <1>16 DEF KInv, Keyboard

\* A spurious interrupt sets no line in service.
LEMMA SpuriousKeeps ==
  ASSUME KInv, Spurious
  PROVE  KInv' /\ Len(stack') = 1 /\ stack'[1].step = "eoi"
<1>1. TypeOK /\ Stages /\ Shape /\ intFlag BY DEF KInv, Spurious
<1>2. stack = <<>> /\ isr = {} /\ boot > 7 BY <1>1 DEF Shape, Stages
<1>3. boot \in Nat BY <1>1, Program DEF TypeOK
<1>4. base = 32 /\ loaded BY <1>1, <1>2, <1>3 DEF Stages
<1>5. 39 \in Gates /\ Entry(39) = "eoi" BY DEF Gates, Entry, Exceptions
<1>6. Enter(39) BY <1>4 DEF Spurious
<1>7. /\ stack' \in Seq(Frame) /\ Len(stack') = 1
      /\ stack'[1].vector = 39 /\ stack'[1].step = "eoi"
      /\ ~intFlag' /\ intFlag' \in BOOLEAN
  BY <1>1, <1>2, <1>4, <1>5, <1>6, EnterKeeps
<1>8. Shape' BY <1>2, <1>7 DEF Shape, IrqFrame, Spurious
<1>9. Stages' BY <1>1, <1>7, StagesKept DEF Spurious
<1>10. TypeOK' BY <1>1, <1>7 DEF Spurious, TypeOK, software, keyboard
<1> QED BY <1>7, <1>8, <1>9, <1>10 DEF KInv

\* A fault has a gate, because kmain() has loaded the table, and stops its handler.
LEMMA ExceptionKeeps ==
  ASSUME KInv, NEW v \in Faults, Exception(v)
  PROVE  KInv' /\ Len(stack') \in {1, 2} /\ stack'[1].step = "halt"
<1>1. TypeOK /\ Stages /\ Shape /\ loaded /\ Enter(v) BY DEF KInv, Exception
<1>2. v \in Exceptions BY KernelAssumption DEF Exceptions
<1>3. v \in Gates /\ Entry(v) = "halt"
  <2>1. v \in Gates BY <1>2 DEF Gates
  <2>2. v # 32 /\ v \notin {33, 44} /\ v \notin {39, 47} BY <1>2 DEF Exceptions
  <2>3. Entry(v) = "halt" BY <1>2, <2>2 DEF Entry
  <2> QED BY <2>1, <2>3
<1>4. /\ stack' \in Seq(Frame) /\ Len(stack') = Len(stack) + 1
      /\ stack'[1].vector = v /\ stack'[1].step = "halt"
      /\ \A i \in 1 .. Len(stack) : stack'[i + 1] = stack[i]
      /\ ~intFlag' /\ intFlag' \in BOOLEAN
  BY <1>1, <1>3, EnterKeeps
<1>5. HaltFrame(stack'[1]) BY <1>2, <1>4 DEF HaltFrame
<1>6. Shape'
  <2>1. isr' = isr /\ boot' = boot BY DEF Exception
  <2>2. CASE stack = <<>>
    <3>1. isr = {} /\ Len(stack') = 1 BY <1>1, <1>4, <2>2 DEF Shape
    <3> QED BY <1>4, <1>5, <2>1, <3>1 DEF Shape, HaltFrame
  <2>3. CASE stack # <<>>
    <3>1. Head(stack).step = "game" BY <2>3 DEF Exception, CallsGame
    <3>2. Head(stack) = stack[1] BY <1>1, <2>3, Pop DEF TypeOK
    <3>3. Len(stack) = 1 /\ IrqFrame(stack[1]) BY <1>1, <2>3, <3>1, <3>2 DEF Shape, HaltFrame
    <3>4. stack'[2] = stack[1] /\ Len(stack') = 2 BY <1>4, <3>3
    <3> QED BY <1>4, <1>5, <2>1, <3>3, <3>4 DEF Shape, HaltFrame, IrqFrame
  <2> QED BY <2>2, <2>3
<1>7. Stages' BY <1>1, <1>4, StagesKept DEF Exception
<1>8. TypeOK' BY <1>1, <1>4 DEF Exception, TypeOK, software, keyboard
<1>9. Len(stack') \in {1, 2}
  <2>1. stack' # <<>> BY <1>1, <1>4 DEF TypeOK
  <2> QED BY <1>6, <2>1 DEF Shape
<1> QED BY <1>4, <1>6, <1>7, <1>8, <1>9 DEF KInv

-----------------------------------------------------------------------------
(* Handlers                                                                *)

\* The handler that takes a step is alone on the stack.
LEMMA Alone ==
  ASSUME TypeOK, Shape, NEW step \in {"read", "keys", "game", "eoi"}, At(step)
  PROVE  /\ stack # <<>> /\ Len(stack) = 1 /\ Head(stack) = stack[1] /\ Tail(stack) = <<>>
         /\ Head(stack) \in Frame /\ IrqFrame(stack[1]) /\ stack[1].step = step /\ ~intFlag
<1>1. stack # <<>> /\ stack \in Seq(Frame) /\ Head(stack).step = step BY DEF At, TypeOK
<1>2. Head(stack) = stack[1] /\ Head(stack) \in Frame BY <1>1, Pop
<1>3. Len(stack) = 1 /\ IrqFrame(stack[1]) /\ ~intFlag BY <1>1, <1>2 DEF Shape, HaltFrame
<1>4. Tail(stack) = <<>>
  <2>1. Tail(stack) \in Seq(Frame) /\ Len(Tail(stack)) = 0 BY <1>1, <1>3, Pop
  <2> QED BY <2>1, EmptySeq
<1> QED BY <1>1, <1>2, <1>3, <1>4

\* What GoOn makes of its frame.
LEMMA GoOnKeeps ==
  ASSUME TypeOK, Stages, Shape, NEW from \in {"read", "keys", "game"}, At(from),
         NEW step \in {"keys", "game", "eoi"}, NEW byte \in Byte \cup {NoByte}, GoOn(step, byte),
         stack[1].vector = 33 \/ step = "eoi",
         UNCHANGED <<boot, intFlag, mask, isr, base, idt, loaded, software>>
  PROVE  /\ stack' \in Seq(Frame) /\ Shape' /\ Stages'
         /\ stack'[1].vector = stack[1].vector /\ stack'[1].step = step
         /\ stack'[1].byte = byte /\ Len(stack') = 1
<1> DEFINE g == [Head(stack) EXCEPT !.step = step, !.byte = byte]
<1>1. /\ Len(stack) = 1 /\ Head(stack) = stack[1] /\ Tail(stack) = <<>> /\ Head(stack) \in Frame
      /\ IrqFrame(stack[1]) /\ stack[1].step = from /\ ~intFlag
  BY Alone
<1>2. g \in Frame /\ g.vector = stack[1].vector /\ g.step = step /\ g.byte = byte
  BY <1>1 DEF Frame
<1>3. stack' = <<g>> \o <<>> BY <1>1 DEF GoOn
<1>4. stack' \in Seq(Frame) /\ Len(stack') = 1 /\ stack'[1] = g BY <1>2, <1>3
<1>5. Shape' BY <1>1, <1>2, <1>4 DEF Shape, IrqFrame
<1>6. Stages' BY <1>1, StagesKept
<1> QED BY <1>2, <1>4, <1>5, <1>6

\* keyboard_handler reads one byte.
LEMMA ReadKeeps ==
  ASSUME KInv, ReadPort
  PROVE  KInv'
<1> DEFINE v == Head(stack).vector
           rest == IF Reads(v) >= Len(buffer) THEN <<>>
                                              ELSE SubSeq(buffer, Reads(v) + 1, Len(buffer))
<1>1. TypeOK /\ Stages /\ Shape /\ At("read") BY DEF KInv, ReadPort
<1>2. v = 33 /\ Head(stack) = stack[1] BY <1>1, Alone DEF IrqFrame
<1>3. buffer \in Seq(Byte) /\ Len(buffer) <= MaxBytes BY <1>1 DEF TypeOK
<1>4. rest \in Seq(Byte) /\ Len(rest) <= MaxBytes
  <2>1. Reads(v) = 1 BY <1>2 DEF Reads
  <2> QED BY <1>3, <2>1, KernelAssumption
<1>5. irr' \subseteq AllLines BY <1>1 DEF ReadPort, TypeOK, AllLines, Keyboard
<1>6. UNCHANGED <<boot, intFlag, mask, isr, base, idt, loaded, software>> BY DEF ReadPort
<1>7. \E step \in {"keys", "eoi"}, byte \in Byte \cup {NoByte} : GoOn(step, byte)
  <2>1. CASE buffer # <<>>
    <3>1. Head(buffer) \in Byte BY <1>3, <2>1, Pop
    <3> QED BY <1>2, <2>1, <3>1 DEF ReadPort
  <2>2. CASE buffer = <<>> BY <1>2, <2>2 DEF ReadPort
  <2> QED BY <2>1, <2>2
<1>8. stack' \in Seq(Frame) /\ Shape' /\ Stages' BY <1>1, <1>2, <1>6, <1>7, GoOnKeeps
<1>9. buffer' = rest BY DEF ReadPort
<1>10. TypeOK' BY <1>1, <1>4, <1>5, <1>8, <1>9 DEF ReadPort, TypeOK, software
<1> QED BY <1>8, <1>10 DEF KInv

\* keyboard_handler writes the two key states.
LEMMA SetKeysKeeps ==
  ASSUME KInv, SetKeys
  PROVE  KInv'
<1> DEFINE b == Head(stack).byte
<1>1. TypeOK /\ Stages /\ Shape /\ At("keys") /\ GoOn("game", b) BY DEF KInv, SetKeys
<1>2. stack[1].vector = 33 /\ Head(stack) \in Frame BY <1>1, Alone DEF IrqFrame
<1>3. b \in Byte \cup {NoByte} BY <1>2 DEF Frame
<1>4. b.pressed \in BOOLEAN
  <2>1. CASE b \in Byte BY <2>1 DEF Byte
  <2>2. CASE b = NoByte
    <3>1. b.pressed = FALSE BY <2>2 DEF NoByte
    <3> QED BY <3>1
  <2> QED BY <1>3, <2>1, <2>2
<1>5. UNCHANGED <<boot, intFlag, mask, isr, base, idt, loaded, software>>
  BY DEF SetKeys, machine
<1>6. stack' \in Seq(Frame) /\ Shape' /\ Stages' BY <1>1, <1>2, <1>3, <1>5, GoOnKeeps
<1>7. current \in [Keys -> BOOLEAN] /\ previous \in [Keys -> BOOLEAN] BY <1>1 DEF TypeOK
<1>8. current' \in [Keys -> BOOLEAN] BY <1>4, <1>7 DEF SetKeys
<1>9. previous' \in [Keys -> BOOLEAN]
  <2>1. CASE b.key \in Keys
    <3>1. current[b.key] \in BOOLEAN BY <1>7, <2>1
    <3> QED BY <1>7, <3>1 DEF SetKeys
  <2>2. CASE b.key \notin Keys BY <1>7, <2>2 DEF SetKeys
  <2> QED BY <2>1, <2>2
<1>10. TypeOK' BY <1>1, <1>6, <1>8, <1>9 DEF SetKeys, TypeOK, machine, software
<1> QED BY <1>6, <1>10 DEF KInv

\* A handler calls the game, or finds the handler null.
LEMMA CallGameKeeps ==
  ASSUME KInv, CallGame
  PROVE  KInv'
<1> DEFINE b == Head(stack).byte
<1>1. TypeOK /\ Stages /\ Shape /\ At("game") /\ GoOn("eoi", b) BY DEF KInv, CallGame
<1>2. Head(stack) \in Frame BY <1>1, Alone
<1>3. b \in Byte \cup {NoByte} BY <1>2 DEF Frame
<1>4. UNCHANGED <<boot, intFlag, mask, isr, base, idt, loaded, software>>
  BY DEF CallGame, machine
<1>5. stack' \in Seq(Frame) /\ Shape' /\ Stages' BY <1>1, <1>3, <1>4, GoOnKeeps
<1>6. TypeOK' BY <1>1, <1>5 DEF CallGame, TypeOK, machine, software, keyboard
<1> QED BY <1>5, <1>6 DEF KInv

\* The EOI ends the one line in service, and the CPU is back in main context.
LEMMA LeaveKeeps ==
  ASSUME KInv, Leave
  PROVE  KInv'
<1>1. TypeOK /\ Stages /\ Shape /\ At("eoi") BY DEF KInv, Leave
<1>2. Tail(stack) = <<>> /\ Head(stack) \in Frame /\ IrqFrame(stack[1]) /\ Head(stack) = stack[1]
  BY <1>1, Alone
<1>3. ~(EoiLine(stack[1].vector) >= 8) BY DEF EoiLine, Timer, Keyboard
<1>4. isr' = EndHighest(isr \cap (0 .. 7)) \cup (isr \cap (8 .. 15))
  <2>1. isr' = PicSendEoi(EoiLine(stack[1].vector)) BY <1>2 DEF Leave
  <2> QED BY <1>3, <2>1 DEF PicSendEoi
<1>5. isr' = {}
  <2>1. isr \in {{}, {0}, {1}, {7}} BY <1>2 DEF IrqFrame, Timer, Keyboard
  <2> QED BY <1>4, <2>1 DEF EndHighest
<1>6. stack' = <<>> /\ boot' = boot BY <1>2 DEF Leave
<1>7. boot > 7 BY <1>2 DEF IrqFrame
<1>8. Shape' BY <1>5, <1>6 DEF Shape
<1>9. Stages' BY <1>1, <1>7, StagesKept DEF Leave
<1>10. intFlag' \in BOOLEAN BY <1>2 DEF Leave, Frame
<1>11. stack' \in Seq(Frame) /\ isr' \subseteq AllLines BY <1>5, <1>6
<1>12. TypeOK' BY <1>1, <1>10, <1>11 DEF Leave, TypeOK, software, keyboard
<1> QED BY <1>8, <1>9, <1>12 DEF KInv

-----------------------------------------------------------------------------
(* Devices, and the invariant                                              *)

\* Devices touch neither the CPU nor what has been set up.
LEMMA DevicesKeep ==
  ASSUME KInv, Devices
  PROVE  KInv'
<1>1. TypeOK /\ Stages /\ Shape BY DEF KInv
<1>2. UNCHANGED <<boot, panicked, intFlag, mask, isr, base, idt, loaded, software, stack>>
  BY DEF Devices, Tick, Raise, Key
<1>3. Shape' /\ Stages' BY <1>1, <1>2, StagesKept DEF Shape, IrqFrame, HaltFrame, Stages
<1>4. TypeOK'
  <2>1. CASE Tick BY <1>1, <1>2, <2>1 DEF Tick, TypeOK, software, keyboard, Timer, AllLines
  <2>2. CASE \E n \in Lines : Raise(n)
    BY <1>1, <1>2, <2>2, KernelAssumption DEF Raise, TypeOK, software, keyboard
  <2>3. ASSUME NEW k \in Keys, NEW pressed \in BOOLEAN, Key(k, pressed)
        PROVE  TypeOK'
    <3>1. buffer \in Seq(Byte) /\ down \in [Keys -> BOOLEAN] BY <1>1 DEF TypeOK
    <3>2. (pressed /\ down[k]) \in BOOLEAN OBVIOUS
    <3> DEFINE b == [key |-> k, pressed |-> pressed, repeat |-> pressed /\ down[k]]
    <3>3. b \in Byte BY <3>2 DEF Byte
    <3>4. buffer' \in Seq(Byte) /\ Len(buffer') = Len(buffer) + 1
      BY <2>3, <3>1, <3>3 DEF Key
    <3>5. Len(buffer') <= MaxBytes BY <2>3, <3>1, <3>4, KernelAssumption DEF Key
    <3>6. down' \in [Keys -> BOOLEAN] BY <2>3, <3>1 DEF Key
    <3>7. irr' \subseteq AllLines BY <1>1, <2>3 DEF Key, TypeOK, Keyboard, AllLines
    <3> QED BY <1>1, <1>2, <2>3, <3>4, <3>5, <3>6, <3>7 DEF Key, TypeOK, software
  <2> QED BY <2>1, <2>2, <2>3 DEF Devices
<1> QED BY <1>3, <1>4 DEF KInv

\* KInv is inductive.
LEMMA KernelKeeps == KInv /\ [Next]_vars => KInv'
<1> SUFFICES ASSUME KInv, [Next]_vars PROVE KInv' OBVIOUS
<1>1. CASE MainContext BY <1>1, MainKeeps
<1>2. CASE \E n \in AllLines : Interrupt(n) BY <1>2, InterruptKeeps
<1>3. CASE Spurious BY <1>3, SpuriousKeeps
<1>4. CASE \E v \in Faults : Exception(v) BY <1>4, ExceptionKeeps
<1>5. CASE Handler BY <1>5, ReadKeeps, SetKeysKeeps, CallGameKeeps, LeaveKeeps DEF Handler
<1>6. CASE Devices BY <1>6, DevicesKeep
<1>7. CASE UNCHANGED vars
  BY <1>7 DEF KInv, TypeOK, Stages, Shape, IrqFrame, HaltFrame, vars, machine, software, keyboard
<1> QED BY <1>1, <1>2, <1>3, <1>4, <1>5, <1>6, <1>7 DEF Next

\* Every behaviour stays in KInv.
LEMMA KernelInvariant == Spec => []KInv
  BY KernelInit, KernelKeeps, PTL DEF Spec

-----------------------------------------------------------------------------
(* What follows                                                            *)

\* Type correctness of the boot sequence, the handlers and the devices.
THEOREM KernelTypes == Spec => []TypeOK
<1>1. KInv => TypeOK BY DEF KInv
<1> QED BY <1>1, KernelInvariant, PTL

\* The frames of the stack are those of Shape, by index.
LEMMA Frames ==
  ASSUME KInv, NEW i \in DOMAIN stack
  PROVE  \/ i = 1 /\ Len(stack) \in {1, 2} /\ HaltFrame(stack[i])
         \/ i = Len(stack) /\ IrqFrame(stack[i])
<1>1. stack \in Seq(Frame) /\ Shape BY DEF KInv, TypeOK
<1>2. i \in 1 .. Len(stack) /\ Len(stack) \in Nat BY <1>1
<1>3. stack # <<>> BY <1>2
<1>4. CASE Len(stack) = 1
  <2>1. i = 1 BY <1>2, <1>4
  <2> QED BY <1>1, <1>3, <1>4, <2>1 DEF Shape
<1>5. CASE Len(stack) = 2
  <2>1. i = 1 \/ i = 2 BY <1>2, <1>5
  <2>2. HaltFrame(stack[1]) /\ IrqFrame(stack[2]) BY <1>1, <1>3, <1>5 DEF Shape
  <2> QED BY <1>5, <2>1, <2>2
<1> QED BY <1>1, <1>3, <1>4, <1>5 DEF Shape

\* Every interrupt the controllers deliver finds a gate that kmain() has filled and
\* loaded: the masks, the offsets and the order of kmain() fit the table.
THEOREM KernelDispatch == Spec => []Dispatch
<1>1. KInv => Dispatch
  <2> SUFFICES ASSUME KInv, NEW i \in DOMAIN stack PROVE stack[i].step # "fault"
    BY DEF Dispatch
  <2> QED BY Frames DEF IrqFrame, HaltFrame
<1> QED BY <1>1, KernelInvariant, PTL

\* The handlers do not nest, and the line in service is the running handler's own.
THEOREM KernelInService == Spec => []InService
<1>1. KInv => InService
  <2> SUFFICES ASSUME KInv PROVE InService OBVIOUS
  <2>1. stack \in Seq(Frame) /\ Shape BY DEF KInv, TypeOK
  <2>2. Len(stack) <= 1 \/ (Len(stack) = 2 /\ At("halt"))
    <3>1. CASE Len(stack) = 2
      <4>1. stack # <<>> /\ HaltFrame(stack[1]) BY <2>1, <3>1 DEF Shape
      <4>2. At("halt") BY <2>1, <4>1, Pop DEF At, HaltFrame
      <4> QED BY <3>1, <4>2
    <3>2. CASE Len(stack) # 2
      <4>1. stack = <<>> \/ Len(stack) = 1 BY <2>1, <3>2 DEF Shape
      <4> QED BY <4>1
    <3> QED BY <3>1, <3>2
  <2>3. ASSUME NEW n \in isr PROVE \E i \in DOMAIN stack : stack[i].vector = 32 + n
    <3>1. PICK i \in {1, 2} : i = Len(stack) /\ IrqFrame(stack[i]) BY <2>1, <2>3 DEF Shape
    <3>2. i \in DOMAIN stack BY <2>1, <3>1
    <3>3. stack[i].vector = 32 + n
      BY <2>3, <3>1 DEF IrqFrame, Timer, Keyboard
    <3> QED BY <3>2, <3>3
  <2>4. ASSUME NEW i \in DOMAIN stack, stack[i].vector \in {32, 33}
        PROVE  stack[i].vector - 32 \in isr
    <3>1. ~HaltFrame(stack[i]) BY <2>4 DEF HaltFrame, Exceptions
    <3>2. IrqFrame(stack[i]) BY <3>1, Frames
    <3> QED BY <2>4, <3>2 DEF IrqFrame, Timer, Keyboard
  <2> QED BY <2>2, <2>3, <2>4 DEF InService
<1> QED BY <1>1, KernelInvariant, PTL

\* No handler calls the game before Invaders::init has run and SSE is enabled.
THEOREM KernelGameReady == Spec => []GameReady
<1>1. KInv => GameReady
  <2> SUFFICES ASSUME KInv, NEW i \in DOMAIN stack, CallsGame(stack[i])
               PROVE  game /\ sse
    BY DEF GameReady
  <2>1. Stages /\ boot \in Nat BY Program DEF KInv, TypeOK
  <2>2. handlers # {} BY DEF CallsGame
  <2>3. boot > 11 BY <2>1, <2>2 DEF Stages
  <2> QED BY <2>1, <2>3 DEF Stages
<1> QED BY <1>1, KernelInvariant, PTL

\* A scancode that waits keeps its request, or a handler is about to read it.
LEMMA EdgeKeeps == KInv /\ KeyEdge /\ [Next]_vars => KeyEdge'
<1> SUFFICES ASSUME KInv, KeyEdge, [Next]_vars PROVE KeyEdge' OBVIOUS
<1> DEFINE Reading == \E i \in DOMAIN stack : stack[i].vector = 33 /\ stack[i].step = "read"
<1>1. TypeOK /\ Shape /\ Stages /\ stack \in Seq(Frame) BY DEF KInv, TypeOK
<1>2. \A step \in {"keys", "game", "eoi"} : At(step) => ~Reading
  <2> SUFFICES ASSUME NEW step \in {"keys", "game", "eoi"}, At(step) PROVE ~Reading OBVIOUS
  <2>1. Len(stack) = 1 /\ stack[1].step = step BY <1>1, Alone
  <2> QED BY <1>1, <2>1
<1>3. stack = <<>> => ~Reading OBVIOUS
<1>4. CASE UNCHANGED <<buffer, irr, stack, deaf>> BY <1>4 DEF KeyEdge
<1>5. CASE ~Reading /\ UNCHANGED <<buffer, irr, deaf>> BY <1>5 DEF KeyEdge
<1>6. CASE MainContext
  <2>1. CASE PicRemap BY <2>1 DEF PicRemap, KeyEdge
  <2>2. CASE ~PicRemap
    BY <1>4, <1>6, <2>2 DEF MainContext, DisableInterrupts, PicMaskAll, FillIdt, LoadIdt,
       PicUnmask, EnableInterrupts, EnableSse, InitLargestHeap, NoMemory, InvadersInit,
       SetHandler, Main, machine, keyboard
  <2> QED BY <2>1, <2>2
<1>7. ASSUME NEW n \in AllLines, Interrupt(n) PROVE KeyEdge'
  <2>1. stack = <<>> BY <1>1, <1>7 DEF Shape, Interrupt
  <2>2. irr' = irr \ {n} /\ buffer' = buffer /\ deaf' = deaf BY <1>7 DEF Interrupt, keyboard
  <2>3. CASE n = Keyboard
    <3>1. stack'[1].vector = 33 /\ stack'[1].step = "read" /\ Len(stack') = 1
      BY <1>7, <2>3, InterruptKeeps
    <3>2. stack' \in Seq(Frame) BY <1>7, InterruptKeeps DEF KInv, TypeOK
    <3>3. 1 \in DOMAIN stack' BY <3>1, <3>2
    <3> QED BY <3>1, <3>3 DEF KeyEdge
  <2>4. CASE n # Keyboard BY <1>3, <2>1, <2>2, <2>4 DEF KeyEdge
  <2> QED BY <2>3, <2>4
<1>8. CASE Spurious
  <2>1. stack = <<>> BY <1>1, <1>8 DEF Shape, Spurious
  <2> QED BY <1>3, <1>5, <1>8, <2>1 DEF Spurious, keyboard
<1>9. ASSUME NEW v \in Faults, Exception(v) PROVE KeyEdge'
  <2>1. stack = <<>> \/ At("game") BY <1>9 DEF Exception, CallsGame, At
  <2> QED BY <1>2, <1>3, <1>5, <1>9, <2>1 DEF Exception, keyboard
<1>10. CASE ReadPort
  <2>1. Head(stack).vector = 33 BY <1>1, <1>10, Alone DEF ReadPort, IrqFrame
  <2>2. buffer \in Seq(Byte) BY <1>1 DEF TypeOK
  <2>3. buffer' # <<>> => buffer' # buffer /\ buffer # <<>>
    <3> SUFFICES ASSUME buffer' # <<>> PROVE buffer' # buffer /\ buffer # <<>> OBVIOUS
    <3>1. buffer' = SubSeq(buffer, 2, Len(buffer)) /\ ~(1 >= Len(buffer))
      BY <1>10, <2>1 DEF ReadPort, Reads
    <3>2. Len(buffer') = Len(buffer) - 1 BY <2>2, <3>1
    <3> QED BY <2>2, <3>1, <3>2
  <2>4. buffer' # <<>> => Keyboard \in irr'
    BY <1>10, <2>3 DEF ReadPort
  <2> QED BY <2>4 DEF KeyEdge
<1>11. CASE SetKeys BY <1>2, <1>5, <1>11 DEF SetKeys, machine
<1>12. CASE CallGame BY <1>2, <1>5, <1>12 DEF CallGame, machine, keyboard
<1>13. CASE Leave BY <1>2, <1>5, <1>13 DEF Leave, keyboard
<1>14. CASE Devices
  <2>1. irr \subseteq irr' /\ stack' = stack /\ deaf' = deaf
    BY <1>14 DEF Devices, Tick, Raise, Key, keyboard
  <2>2. buffer' = buffer \/ (buffer = <<>> => Keyboard \in irr')
    BY <1>14 DEF Devices, Tick, Raise, Key, keyboard
  <2> QED BY <2>1, <2>2 DEF KeyEdge
<1>15. CASE UNCHANGED vars BY <1>4, <1>15 DEF vars, machine, keyboard
<1> QED
  BY <1>6, <1>7, <1>8, <1>9, <1>10, <1>11, <1>12, <1>13, <1>14, <1>15 DEF Next, Handler

\* The keyboard goes silent in one case only: a key that was pressed before
\* pic_remap() reset the controllers.
THEOREM KernelKeyEdge == Spec => []KeyEdge
<1>1. Init => KeyEdge BY DEF Init, KeyEdge
<1> QED BY <1>1, EdgeKeeps, KernelInvariant, PTL DEF Spec

\* After a panic in an exception handler nothing runs: interrupts are off, and no
\* handler step is one that a halted handler takes.
THEOREM KernelFaultStops == Spec => FaultStops
<1>1. KInv /\ [Next]_vars
        => [At("halt") => UNCHANGED <<boot, stack, isr, current, previous>>]_vars
  <2> SUFFICES ASSUME KInv, Next, At("halt")
               PROVE  UNCHANGED <<boot, stack, isr, current, previous>>
    OBVIOUS
  <2>1. TypeOK /\ Shape /\ stack # <<>> /\ Head(stack).step = "halt" BY DEF KInv, At
  <2>2. ~intFlag BY <2>1 DEF Shape
  <2>3. ~MainContext
    BY <2>1 DEF MainContext, DisableInterrupts, PicMaskAll, PicRemap, FillIdt, LoadIdt,
       PicUnmask, EnableInterrupts, EnableSse, InitLargestHeap, NoMemory, InvadersInit,
       SetHandler, Main
  <2>4. ~Spurious /\ \A n \in AllLines : ~Interrupt(n) BY <2>2 DEF Spurious, Interrupt
  <2>5. \A v \in Faults : ~Exception(v) BY <2>1 DEF Exception, CallsGame
  <2>6. ~Handler BY <2>1 DEF Handler, ReadPort, SetKeys, CallGame, Leave, At
  <2>7. Devices BY <2>3, <2>4, <2>5, <2>6 DEF Next
  <2> QED BY <2>7 DEF Devices, Tick, Raise, Key, keyboard
<1> QED BY <1>1, KernelInvariant, PTL DEF Spec, FaultStops

-----------------------------------------------------------------------------
(* Key states                                                              *)

\* The scancode of the running handler and those that wait.
OnTheirWay == InHand \o buffer

\* v is the state of key k when the first n bytes of q have been applied to c.
StateAfter(q, c, k, n, v) ==
  \/ (\A i \in 1 .. n : q[i].key # k) /\ v = c[k]
  \/ \E i \in 1 .. n : /\ q[i].key = k /\ v = q[i].pressed
                       /\ \A j \in 1 .. n : q[j].key = k => j <= i

\* The bytes on their way lead to the keyboard's state, and each of them knows
\* whether it repeats the one before it.
Follow(q, c) ==
  /\ \A k \in Keys : StateAfter(q, c, k, Len(q), down[k])
  /\ \A i \in 1 .. Len(q) :
       \E v \in BOOLEAN : /\ StateAfter(q, c, q[i].key, i - 1, v)
                          /\ q[i].repeat = (q[i].pressed /\ v)

\* Nothing is lost, and the handler of a byte has the states before and after it.
QInv ==
  /\ OnTheirWay \in Seq(Byte)
  /\ Follow(OnTheirWay, current)
  /\ JustPressedFirst

\* What a longer queue says of the bytes it had before.
LEMMA StateLonger ==
  ASSUME NEW q \in Seq(Byte), NEW b \in Byte, NEW c, NEW k, NEW n \in 0 .. Len(q), NEW v,
         StateAfter(q, c, k, n, v)
  PROVE  StateAfter(Append(q, b), c, k, n, v)
<1>1. \A i \in 1 .. n : Append(q, b)[i] = q[i] OBVIOUS
<1> QED BY <1>1 DEF StateAfter

\* The state after the last byte.
LEMMA StateLast ==
  ASSUME NEW q \in Seq(Byte), NEW b \in Byte, NEW c, NEW k, NEW v,
         IF k = b.key THEN v = b.pressed ELSE StateAfter(q, c, k, Len(q), v)
  PROVE  StateAfter(Append(q, b), c, k, Len(q) + 1, v)
<1> DEFINE r == Append(q, b)
<1>1. Len(q) \in Nat /\ r[Len(q) + 1] = b /\ \A i \in 1 .. Len(q) : r[i] = q[i] OBVIOUS
<1> HIDE DEF r
<1>2. CASE k = b.key
  <2>1. \A j \in 1 .. Len(q) + 1 : j <= Len(q) + 1 BY <1>1
  <2>2. Len(q) + 1 \in 1 .. Len(q) + 1 BY <1>1
  <2>3. StateAfter(r, c, k, Len(q) + 1, v) BY <1>1, <1>2, <2>1, <2>2 DEF StateAfter
  <2> QED BY <2>3 DEF r
<1>3. CASE k # b.key
  <2>1. \A i \in 1 .. Len(q) + 1 : i \in 1 .. Len(q) \/ i = Len(q) + 1 BY <1>1
  <2>2. StateAfter(q, c, k, Len(q), v) BY <1>3
  <2>3. CASE \A i \in 1 .. Len(q) : q[i].key # k
    <3>1. \A i \in 1 .. Len(q) + 1 : r[i].key # k BY <1>1, <1>3, <2>1, <2>3
    <3>2. v = c[k] BY <2>2, <2>3 DEF StateAfter
    <3>3. StateAfter(r, c, k, Len(q) + 1, v) BY <3>1, <3>2 DEF StateAfter
    <3> QED BY <3>3 DEF r
  <2>4. CASE \E i \in 1 .. Len(q) : q[i].key = k
    <3>1. PICK i \in 1 .. Len(q) : /\ q[i].key = k /\ v = q[i].pressed
                                   /\ \A j \in 1 .. Len(q) : q[j].key = k => j <= i
      BY <2>2, <2>4 DEF StateAfter
    <3>2. \A j \in 1 .. Len(q) + 1 : r[j].key = k => j <= i BY <1>1, <1>3, <2>1, <3>1
    <3>3. i \in 1 .. Len(q) + 1 /\ r[i] = q[i] BY <1>1, <3>1
    <3>4. StateAfter(r, c, k, Len(q) + 1, v) BY <3>1, <3>2, <3>3 DEF StateAfter
    <3> QED BY <3>4 DEF r
  <2> QED BY <2>3, <2>4
<1> QED BY <1>2, <1>3

\* Applying the first byte to the states leaves the state after the others.
LEMMA StateTaken ==
  ASSUME NEW r \in Seq(Byte), NEW b \in Byte, NEW c \in [Keys -> BOOLEAN], NEW k \in Keys,
         NEW n \in 0 .. Len(r), NEW v, StateAfter(<<b>> \o r, c, k, n + 1, v)
  PROVE  StateAfter(r, [c EXCEPT ![b.key] = b.pressed], k, n, v)
<1> DEFINE q == <<b>> \o r
           d == [c EXCEPT ![b.key] = b.pressed]
<1>1. n \in Nat /\ q[1] = b /\ \A i \in 1 .. n : q[i + 1] = r[i] BY Push
<1>2. d[k] = IF b.key = k THEN b.pressed ELSE c[k] OBVIOUS
<1>3. StateAfter(q, c, k, n + 1, v) OBVIOUS
<1> HIDE DEF q, d
<1>4. \A i \in 1 .. n : i + 1 \in 1 .. n + 1 BY <1>1
<1>5. 1 \in 1 .. n + 1 BY <1>1
<1>6. CASE \A i \in 1 .. n + 1 : q[i].key # k
  <2>1. \A i \in 1 .. n : r[i].key # k BY <1>1, <1>4, <1>6
  <2>2. b.key # k /\ v = c[k] BY <1>1, <1>3, <1>5, <1>6 DEF StateAfter
  <2>3. StateAfter(r, d, k, n, v) BY <1>2, <2>1, <2>2 DEF StateAfter
  <2> QED BY <2>3 DEF d
<1>7. CASE \E i \in 1 .. n + 1 : q[i].key = k
  <2>1. PICK i \in 1 .. n + 1 : /\ q[i].key = k /\ v = q[i].pressed
                                /\ \A j \in 1 .. n + 1 : q[j].key = k => j <= i
    BY <1>3, <1>7 DEF StateAfter
  <2>2. CASE i = 1
    <3>1. \A j \in 1 .. n : r[j].key # k BY <1>1, <1>4, <2>1, <2>2
    <3>2. v = d[k] BY <1>1, <1>2, <2>1, <2>2
    <3>3. StateAfter(r, d, k, n, v) BY <3>1, <3>2 DEF StateAfter
    <3> QED BY <3>3 DEF d
  <2>3. CASE i # 1
    <3>1. i - 1 \in 1 .. n /\ (i - 1) + 1 = i BY <1>1, <2>1, <2>3
    <3>2. r[i - 1] = q[i] BY <1>1, <3>1
    <3>3. \A j \in 1 .. n : r[j].key = k => j <= i - 1 BY <1>1, <1>4, <2>1
    <3>4. StateAfter(r, d, k, n, v) BY <2>1, <3>1, <3>2, <3>3 DEF StateAfter
    <3> QED BY <3>4 DEF d
  <2> QED BY <2>2, <2>3
<1> QED BY <1>6, <1>7

\* Where main context, an interrupt entry or the end of a handler leads, no scancode
\* is in a handler's hand.
LEMMA EmptyHand ==
  ASSUME stack \in Seq(Frame), stack = <<>> \/ stack[1].step # "keys"
  PROVE  InHand = <<>>
<1>1. ~At("keys") BY Pop DEF At
<1> QED BY <1>1 DEF InHand

\* A step that leaves the bytes and the states alone, and does not bring the
\* keyboard's handler to its call of the game.
LEMMA QueueLeft ==
  ASSUME KInv, KInv', QInv, UNCHANGED <<buffer, down, current, previous>>,
         stack = <<>> \/ stack[1].step # "keys", stack' = <<>> \/ stack'[1].step # "keys",
         \/ stack' = stack
         \/ stack' = <<>> \/ stack'[1].step # "game" \/ stack'[1].vector # 33
  PROVE  QInv'
<1>1. stack \in Seq(Frame) /\ (stack \in Seq(Frame))' BY DEF KInv, TypeOK
<1>2. InHand = <<>> /\ InHand' = <<>>
  <2>1. InHand = <<>> BY <1>1, EmptyHand
  <2>2. CASE stack' = <<>> BY <2>2 DEF InHand, At
  <2>3. CASE stack' # <<>>
    <3>1. Head(stack') = stack'[1] BY <1>1, <2>3, Pop
    <3> QED BY <2>3, <3>1 DEF InHand, At
  <2> QED BY <2>1, <2>2, <2>3
<1>3. OnTheirWay' = OnTheirWay BY <1>2 DEF OnTheirWay
<1>4. Follow(OnTheirWay, current)' BY <1>3 DEF QInv, Follow, StateAfter
<1>5. JustPressedFirst'
  <2>1. CASE stack' = stack BY <2>1 DEF QInv, JustPressedFirst, JustPressed, At
  <2>2. CASE stack' = <<>> BY <2>2 DEF JustPressedFirst, At
  <2>3. CASE stack' # <<>> /\ (stack'[1].step # "game" \/ stack'[1].vector # 33)
    <3>1. Head(stack') = stack'[1] BY <1>1, <2>3, Pop
    <3> QED BY <2>3, <3>1 DEF JustPressedFirst, At
  <2> QED BY <2>1, <2>2, <2>3
<1> QED BY <1>3, <1>4, <1>5 DEF QInv

\* The handler takes the first byte in its hand.
LEMMA QueueRead ==
  ASSUME KInv, KInv', QInv, ReadPort
  PROVE  QInv'
<1>1. TypeOK /\ Stages /\ Shape /\ At("read") BY DEF KInv, ReadPort
<1>2. /\ Head(stack) = stack[1] /\ Head(stack).vector = 33 /\ stack[1].step = "read"
      /\ stack # <<>>
  BY <1>1, Alone DEF IrqFrame
<1>3. InHand = <<>> BY <1>2 DEF InHand, At
<1>4. buffer \in Seq(Byte) /\ stack \in Seq(Frame) BY <1>1 DEF TypeOK
<1>5. UNCHANGED <<boot, intFlag, mask, isr, base, idt, loaded, software>> BY DEF ReadPort
<1>6. buffer' = IF 1 >= Len(buffer) THEN <<>> ELSE SubSeq(buffer, 2, Len(buffer))
  BY <1>2 DEF ReadPort, Reads
<1>7. OnTheirWay' = OnTheirWay /\ ~At("game")'
  <2>1. CASE buffer = <<>>
    <3>1. GoOn("eoi", NoByte) BY <1>2, <2>1 DEF ReadPort
    <3>2. stack'[1].step = "eoi" /\ Len(stack') = 1 /\ stack' \in Seq(Frame)
      BY <1>1, <1>5, <3>1, GoOnKeeps
    <3>3. stack' # <<>> /\ Head(stack') = stack'[1] BY <3>2, Top
    <3>4. InHand' = <<>> /\ ~At("game")' BY <3>2, <3>3 DEF InHand, At
    <3>5. buffer' = <<>> BY <1>6, <2>1
    <3> QED BY <1>3, <2>1, <3>4, <3>5 DEF OnTheirWay
  <2>2. CASE buffer # <<>>
    <3>1. GoOn("keys", Head(buffer)) /\ Head(buffer) \in Byte
      BY <1>2, <1>4, <2>2, Pop DEF ReadPort
    <3>2. /\ stack'[1].step = "keys" /\ stack'[1].byte = Head(buffer)
          /\ Len(stack') = 1 /\ stack' \in Seq(Frame)
      BY <1>1, <1>2, <1>5, <3>1, GoOnKeeps
    <3>3. stack' # <<>> /\ Head(stack') = stack'[1] BY <3>2, Top
    <3>4. InHand' = <<Head(buffer)>> /\ ~At("game")' BY <3>2, <3>3 DEF InHand, At
    <3>5. buffer = <<Head(buffer)>> \o buffer' BY <1>4, <1>6, <2>2
    <3> QED BY <1>3, <1>4, <3>4, <3>5 DEF OnTheirWay
  <2> QED BY <2>1, <2>2
<1>8. UNCHANGED <<down, current>> BY DEF ReadPort
<1>9. Follow(OnTheirWay, current)' BY <1>7, <1>8 DEF QInv, Follow, StateAfter
<1> QED BY <1>7, <1>9 DEF QInv, JustPressedFirst

\* The handler applies the byte in its hand.
LEMMA QueueSet ==
  ASSUME KInv, KInv', QInv, SetKeys
  PROVE  QInv'
<1> DEFINE b == Head(stack).byte
<1>1. TypeOK /\ Stages /\ Shape /\ At("keys") /\ GoOn("game", b) BY DEF KInv, SetKeys
<1>2. Head(stack) = stack[1] /\ stack[1].vector = 33 /\ Head(stack) \in Frame
  BY <1>1, Alone DEF IrqFrame
<1>3. buffer \in Seq(Byte) /\ current \in [Keys -> BOOLEAN] BY <1>1 DEF TypeOK
<1>4. OnTheirWay = <<b>> \o buffer BY <1>1 DEF OnTheirWay, InHand
<1>5. b \in Byte
  <2>1. OnTheirWay \in Seq(Byte) BY DEF QInv
  <2>2. OnTheirWay[1] = b /\ Len(OnTheirWay) = Len(buffer) + 1 BY <1>3, <1>4
  <2> QED BY <1>3, <2>1, <2>2
<1>6. UNCHANGED <<boot, intFlag, mask, isr, base, idt, loaded, software>>
  BY DEF SetKeys, machine
<1>7. stack'[1].vector = 33 /\ stack'[1].step = "game" /\ stack'[1].byte = b /\ Len(stack') = 1
  BY <1>1, <1>2, <1>5, <1>6, GoOnKeeps
<1>8. stack' # <<>> /\ Head(stack') = stack'[1]
  <2>1. (stack \in Seq(Frame))' BY DEF KInv, TypeOK
  <2> QED BY <1>7, <2>1, Pop
<1>9. OnTheirWay' = buffer
  <2>1. InHand' = <<>> /\ buffer' = buffer BY <1>7, <1>8 DEF InHand, At, SetKeys
  <2> QED BY <1>3, <2>1 DEF OnTheirWay
<1>10. current' = [current EXCEPT ![b.key] = b.pressed] /\ down' = down
       /\ previous' = [previous EXCEPT ![b.key] = current[b.key]]
  BY DEF SetKeys
<1>11. /\ Len(<<b>> \o buffer) = Len(buffer) + 1 /\ (<<b>> \o buffer)[1] = b
       /\ \A i \in 1 .. Len(buffer) : (<<b>> \o buffer)[i + 1] = buffer[i]
  BY <1>3, <1>5, Push
<1>12. Len(buffer) \in Nat BY <1>3
<1>13. Follow(<<b>> \o buffer, current) BY <1>4 DEF QInv
<1>14. Follow(OnTheirWay, current)'
  <2>1. ASSUME NEW k \in Keys PROVE StateAfter(buffer, current', k, Len(buffer), down[k])
    <3>1. StateAfter(<<b>> \o buffer, current, k, Len(buffer) + 1, down[k])
      BY <1>11, <1>13 DEF Follow
    <3>2. Len(buffer) \in 0 .. Len(buffer) BY <1>12
    <3> QED BY <1>3, <1>5, <1>10, <3>1, <3>2, StateTaken
  <2>2. ASSUME NEW i \in 1 .. Len(buffer)
        PROVE  \E v \in BOOLEAN : /\ StateAfter(buffer, current', buffer[i].key, i - 1, v)
                                  /\ buffer[i].repeat = (buffer[i].pressed /\ v)
    <3>1. i + 1 \in 1 .. Len(<<b>> \o buffer) /\ (<<b>> \o buffer)[i + 1] = buffer[i]
      BY <1>11, <1>12
    <3>2. PICK v \in BOOLEAN : /\ StateAfter(<<b>> \o buffer, current, buffer[i].key, i, v)
                               /\ buffer[i].repeat = (buffer[i].pressed /\ v)
      <4>1. (i + 1) - 1 = i OBVIOUS
      <4> QED BY <1>13, <3>1, <4>1 DEF Follow
    <3>3. i - 1 \in 0 .. Len(buffer) /\ (i - 1) + 1 = i BY <1>12
    <3>4. buffer[i].key \in Keys
      <4>1. buffer[i] \in Byte BY <1>3
      <4> QED BY <4>1 DEF Byte
    <3>5. StateAfter(buffer, current', buffer[i].key, i - 1, v)
      BY <1>3, <1>5, <1>10, <3>2, <3>3, <3>4, StateTaken
    <3> QED BY <3>2, <3>5
  <2> QED BY <1>9, <1>10, <2>1, <2>2 DEF Follow
<1>15. JustPressedFirst'
  <2>1. PICK v \in BOOLEAN : StateAfter(<<b>> \o buffer, current, b.key, 0, v)
                             /\ b.repeat = (b.pressed /\ v)
    <3>1. 1 \in 1 .. Len(<<b>> \o buffer) /\ 1 - 1 = 0 BY <1>11, <1>12
    <3> QED BY <1>11, <1>13, <3>1 DEF Follow
  <2>2. v = current[b.key] BY <2>1 DEF StateAfter
  <2>3. b.key \in Keys /\ b.pressed \in BOOLEAN BY <1>5 DEF Byte
  <2>4. current'[b.key] = b.pressed /\ previous'[b.key] = v
    <3>1. previous \in [Keys -> BOOLEAN] BY <1>1 DEF TypeOK
    <3> QED BY <1>3, <1>10, <2>2, <2>3, <3>1
  <2>5. Head(stack').byte = b BY <1>7, <1>8
  <2>6. (current'[b.key] /\ ~previous'[b.key]) <=> (b.pressed /\ ~b.repeat)
    BY <2>1, <2>3, <2>4
  <2> QED BY <2>5, <2>6 DEF JustPressedFirst, JustPressed
<1>16. OnTheirWay' \in Seq(Byte) BY <1>3, <1>9
<1> QED BY <1>14, <1>15, <1>16 DEF QInv

\* A key appends its byte and is what the byte says.
LEMMA QueueKey ==
  ASSUME KInv, QInv, NEW k \in Keys, NEW pressed \in BOOLEAN, Key(k, pressed)
  PROVE  QInv'
<1> DEFINE b == [key |-> k, pressed |-> pressed, repeat |-> pressed /\ down[k]]
           q == OnTheirWay
<1>1. /\ buffer' = Append(buffer, b) /\ down' = [down EXCEPT ![k] = pressed]
      /\ UNCHANGED <<stack, current, previous>>
  BY DEF Key
<1>2. buffer \in Seq(Byte) /\ down \in [Keys -> BOOLEAN] BY DEF KInv, TypeOK
<1>3. b \in Byte
  <2>1. (pressed /\ down[k]) \in BOOLEAN OBVIOUS
  <2> QED BY <2>1 DEF Byte
<1>4. q \in Seq(Byte) /\ Follow(q, current) BY DEF QInv
<1>5. InHand' = InHand BY <1>1 DEF InHand, At
<1>6. OnTheirWay' = Append(q, b)
  <2>1. CASE At("keys")
    <3>1. q = <<Head(stack).byte>> \o buffer BY <2>1 DEF OnTheirWay, InHand
    <3>2. OnTheirWay' = <<Head(stack).byte>> \o Append(buffer, b)
      BY <1>1, <1>5, <2>1 DEF OnTheirWay, InHand
    <3>3. Append(<<Head(stack).byte>> \o buffer, b) = <<Head(stack).byte>> \o Append(buffer, b)
      BY <1>2, <1>3
    <3> QED BY <3>1, <3>2, <3>3
  <2>2. CASE ~At("keys")
    <3>1. q = buffer BY <1>2, <2>2 DEF OnTheirWay, InHand
    <3>2. OnTheirWay' = Append(buffer, b) BY <1>1, <1>2, <1>3, <1>5, <2>2 DEF OnTheirWay, InHand
    <3> QED BY <3>1, <3>2
  <2> QED BY <2>1, <2>2
<1>7. /\ Append(q, b) \in Seq(Byte) /\ Len(Append(q, b)) = Len(q) + 1 /\ Len(q) \in Nat
      /\ Append(q, b)[Len(q) + 1] = b /\ \A i \in 1 .. Len(q) : Append(q, b)[i] = q[i]
  BY <1>3, <1>4
<1> HIDE DEF b, q
<1>8. ASSUME NEW h \in Keys PROVE StateAfter(Append(q, b), current, h, Len(q) + 1, down'[h])
  <2>1. h = b.key => down'[h] = b.pressed BY <1>1, <1>2 DEF b
  <2>2. h # b.key => down'[h] = down[h] BY <1>1, <1>2 DEF b
  <2>3. StateAfter(q, current, h, Len(q), down[h]) BY <1>4 DEF Follow
  <2> QED BY <1>3, <1>4, <2>1, <2>2, <2>3, StateLast
<1>9. ASSUME NEW i \in 1 .. Len(q) + 1
      PROVE  \E v \in BOOLEAN :
               /\ StateAfter(Append(q, b), current, Append(q, b)[i].key, i - 1, v)
               /\ Append(q, b)[i].repeat = (Append(q, b)[i].pressed /\ v)
  <2>1. CASE i \in 1 .. Len(q)
    <3>1. PICK v \in BOOLEAN : /\ StateAfter(q, current, q[i].key, i - 1, v)
                               /\ q[i].repeat = (q[i].pressed /\ v)
      BY <1>4, <2>1 DEF Follow
    <3>2. i - 1 \in 0 .. Len(q) BY <1>7, <2>1
    <3>3. StateAfter(Append(q, b), current, q[i].key, i - 1, v)
      BY <1>3, <1>4, <3>1, <3>2, StateLonger
    <3> QED BY <1>7, <2>1, <3>1, <3>3
  <2>2. CASE i = Len(q) + 1
    <3>1. StateAfter(q, current, k, Len(q), down[k]) BY <1>4 DEF Follow
    <3>2. Len(q) \in 0 .. Len(q) /\ i - 1 = Len(q) BY <1>7, <2>2
    <3>3. StateAfter(Append(q, b), current, k, i - 1, down[k])
      BY <1>3, <1>4, <3>1, <3>2, StateLonger
    <3>4. b.key = k /\ b.repeat = (b.pressed /\ down[k]) BY DEF b
    <3>5. down[k] \in BOOLEAN BY <1>2
    <3> QED BY <1>7, <2>2, <3>3, <3>4, <3>5
  <2> QED BY <1>7, <2>1, <2>2
<1>10. Follow(OnTheirWay, current)' BY <1>1, <1>6, <1>7, <1>8, <1>9 DEF Follow
<1>11. JustPressedFirst' BY <1>1 DEF QInv, JustPressedFirst, JustPressed, At
<1> QED BY <1>6, <1>7, <1>10, <1>11 DEF QInv

\* QInv is inductive, given KInv.
LEMMA QueueKeeps == KInv /\ QInv /\ [Next]_vars => QInv'
<1> SUFFICES ASSUME KInv, QInv, [Next]_vars PROVE QInv' OBVIOUS
<1>1. TypeOK /\ Shape /\ stack \in Seq(Frame) /\ KInv' BY KernelKeeps DEF KInv, TypeOK
<1>2. (stack \in Seq(Frame))' BY <1>1 DEF KInv, TypeOK
<1>3. CASE MainContext
  <2>1. stack = <<>> /\ UNCHANGED <<stack, buffer, down, current, previous>>
    BY <1>3 DEF MainContext, DisableInterrupts, PicMaskAll, PicRemap, FillIdt, LoadIdt,
       PicUnmask, EnableInterrupts, EnableSse, InitLargestHeap, NoMemory, InvadersInit,
       SetHandler, Main, keyboard
  <2> QED BY <1>1, <2>1, QueueLeft
<1>4. ASSUME NEW n \in AllLines, Interrupt(n) PROVE QInv'
  <2>1. stack = <<>> BY <1>1, <1>4 DEF Shape, Interrupt
  <2>2. UNCHANGED <<buffer, down, current, previous>> BY <1>4 DEF Interrupt, keyboard
  <2>3. stack'[1].step # "keys" /\ (stack'[1].vector = 33 => stack'[1].step = "read")
    BY <1>4, InterruptKeeps
  <2>4. stack'[1].step # "game" \/ stack'[1].vector # 33 BY <2>3
  <2> QED BY <1>1, <2>1, <2>2, <2>3, <2>4, QueueLeft
<1>5. CASE Spurious
  <2>1. stack = <<>> BY <1>1, <1>5 DEF Shape, Spurious
  <2>2. UNCHANGED <<buffer, down, current, previous>> BY <1>5 DEF Spurious, keyboard
  <2>3. stack'[1].step = "eoi" BY <1>5, SpuriousKeeps
  <2> QED BY <1>1, <2>1, <2>2, <2>3, QueueLeft
<1>6. ASSUME NEW v \in Faults, Exception(v) PROVE QInv'
  <2>1. stack = <<>> \/ (stack # <<>> /\ Head(stack).step = "game")
    BY <1>6 DEF Exception, CallsGame
  <2>2. stack = <<>> \/ stack[1].step # "keys" BY <1>1, <2>1, Pop
  <2>3. UNCHANGED <<buffer, down, current, previous>> BY <1>6 DEF Exception, keyboard
  <2>4. stack'[1].step = "halt" BY <1>6, ExceptionKeeps
  <2> QED BY <1>1, <2>2, <2>3, <2>4, QueueLeft
<1>7. CASE ReadPort BY <1>1, <1>7, QueueRead
<1>8. CASE SetKeys BY <1>1, <1>8, QueueSet
<1>9. CASE CallGame
  <2>1. At("game") /\ GoOn("eoi", Head(stack).byte) /\ Stages BY <1>9 DEF CallGame, KInv
  <2>2. stack[1].step = "game" /\ Head(stack) \in Frame BY <1>1, <2>1, Alone
  <2>3. Head(stack).byte \in Byte \cup {NoByte} BY <2>2 DEF Frame
  <2>4. UNCHANGED <<boot, intFlag, mask, isr, base, idt, loaded, software>>
    BY <1>9 DEF CallGame, machine
  <2>5. stack'[1].step = "eoi" BY <1>1, <2>1, <2>3, <2>4, GoOnKeeps
  <2>6. UNCHANGED <<buffer, down, current, previous>> BY <1>9 DEF CallGame, keyboard
  <2> QED BY <1>1, <2>2, <2>5, <2>6, QueueLeft
<1>10. CASE Leave
  <2>1. At("eoi") /\ stack' = Tail(stack) BY <1>10 DEF Leave
  <2>2. stack[1].step = "eoi" /\ stack' = <<>> BY <1>1, <2>1, Alone
  <2>3. UNCHANGED <<buffer, down, current, previous>> BY <1>10 DEF Leave, keyboard
  <2> QED BY <1>1, <2>2, <2>3, QueueLeft
<1>11. CASE UNCHANGED <<stack, buffer, down, current, previous>>
  <2>1. OnTheirWay' = OnTheirWay BY <1>11 DEF OnTheirWay, InHand, At
  <2>2. Follow(OnTheirWay, current)' BY <1>11, <2>1 DEF QInv, Follow, StateAfter
  <2>3. JustPressedFirst' BY <1>11 DEF QInv, JustPressedFirst, JustPressed, At
  <2> QED BY <2>1, <2>2, <2>3 DEF QInv
<1>12. CASE Devices
  <2>1. CASE Tick \/ \E n \in Lines : Raise(n) BY <1>11, <2>1 DEF Tick, Raise, keyboard
  <2>2. CASE \E k \in Keys, pressed \in BOOLEAN : Key(k, pressed) BY <2>2, QueueKey
  <2> QED BY <1>12, <2>1, <2>2 DEF Devices
<1>13. CASE UNCHANGED vars BY <1>11, <1>13 DEF vars, keyboard
<1> QED
  BY <1>3, <1>4, <1>5, <1>6, <1>7, <1>8, <1>9, <1>10, <1>12, <1>13 DEF Next, Handler

\* The keyboard starts with every key up and nothing on its way.
LEMMA QueueInit == Init => QInv
<1> SUFFICES ASSUME Init PROVE QInv OBVIOUS
<1>1. OnTheirWay = <<>> BY DEF Init, OnTheirWay, InHand, At
<1>2. Follow(<<>>, current) BY DEF Init, Follow, StateAfter
<1>3. JustPressedFirst BY DEF Init, JustPressedFirst, At
<1> QED BY <1>1, <1>2, <1>3 DEF QInv

\* Every behaviour stays in QInv.
LEMMA QueueInvariant == Spec => []QInv
  BY QueueInit, QueueKeeps, KernelInvariant, PTL DEF Spec

\* No key event is lost or applied out of order, whatever interrupts the boot: the
\* key states, brought up to date with the bytes on their way, are the keyboard's.
THEOREM KernelKeysFollow == Spec => []KeysFollow
<1>1. QInv => KeysFollow
  <2> SUFFICES ASSUME QInv, NEW k \in Keys
               PROVE  IF Waiting(k) = {}
                        THEN down[k] = current[k]
                        ELSE \E i \in Waiting(k) : /\ \A j \in Waiting(k) : j <= i
                                                   /\ down[k] = OnTheirWay[i].pressed
    BY DEF KeysFollow, OnTheirWay
  <2>1. OnTheirWay \in Seq(Byte) /\ StateAfter(OnTheirWay, current, k, Len(OnTheirWay), down[k])
    BY DEF QInv, Follow
  <2>2. Waiting(k) = {i \in 1 .. Len(OnTheirWay) : OnTheirWay[i].key = k}
    BY <2>1 DEF Waiting, OnTheirWay
  <2> QED BY <2>1, <2>2 DEF StateAfter
<1> QED BY <1>1, QueueInvariant, PTL

\* isKeyJustPressed() of the key that caused the call of the game holds exactly when
\* the key went down, however many bytes waited and whatever ran between.
THEOREM KernelJustPressed == Spec => []JustPressedFirst
<1>1. QInv => JustPressedFirst BY DEF QInv
<1> QED BY <1>1, QueueInvariant, PTL

=============================================================================
