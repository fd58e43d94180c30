------------------------------- MODULE Kernel -------------------------------
(***************************************************************************)
(* The boot sequence of kmain() and main(), the interrupt handlers that    *)
(* run between its steps, and the devices that raise the interrupts.       *)
(*                                                                         *)
(* One CPU: `stack` holds the handlers that run, the innermost one first;  *)
(* the boot sequence runs when it is empty.  The two 8259 controllers, the *)
(* keyboard controller and the CPU's own interrupt entry are external and  *)
(* modelled from the ports and flags the code programs.                    *)
(***************************************************************************)
EXTENDS Naturals, Sequences

CONSTANTS
  Keys,      \* keys of the keyboard, by key code
  MaxBytes,  \* bound: bytes waiting in the keyboard controller
  Lines,     \* interrupt lines with a device, beside the timer and the keyboard
  Faults     \* exceptions that code can raise, of those that the CPU defines

Timer == 0
Keyboard == 1
Cascade == 2
AllLines == 0 .. 15

ASSUME KernelAssumption ==
  /\ MaxBytes \in Nat
  /\ Lines \subseteq AllLines \ {Timer, Keyboard, Cascade}
  /\ Faults \subseteq (0 .. 21) \ {9, 15, 20}

VARIABLES
  boot,       \* index in Steps of the step that main context runs next
  panicked,   \* main context is in panic()
  intFlag,    \* IF of the CPU
  mask,       \* interrupt mask registers of both controllers, as a set of lines
  irr,        \* requests that the controllers have latched
  isr,        \* lines in service
  base,       \* vector of line 0; line 8 is 8 above
  idt,        \* vectors with a gate
  loaded,     \* lidt has been executed
  sse,        \* SSE instructions are enabled
  game,       \* Games::Invaders::init has run
  handlers,   \* the GameManager's handlers that are not null
  stack,      \* frames of the running handlers
  buffer,     \* scancodes in the keyboard controller, the next one first
  down,       \* the keys as they are on the keyboard
  current,    \* m_currentKeyStates
  previous,   \* m_previousKeyStates
  deaf        \* a scancode was waiting when pic_remap() reset the controllers

machine == <<intFlag, mask, irr, isr, base, idt, loaded>>
keyboard == <<buffer, down, current, previous, deaf>>
software == <<sse, game, handlers>>
vars == <<boot, panicked, machine, software, stack, keyboard>>

NoByte == [key |-> "none", pressed |-> FALSE, repeat |-> FALSE]

StepsInputFirst ==
  <<"cli", "mask", "remap", "idt", "lidt", "unmask", "sti", "sse", "heap", "input", "game",
    "update", "hcf">>
StepsEnableEarly ==
  <<"cli", "mask", "remap", "sti", "idt", "lidt", "unmask", "sse", "heap", "game", "input",
    "update", "hcf">>
\* kmain() and main() in program order.
Steps ==
  <<"cli", "mask", "remap", "idt", "lidt", "unmask", "sti", "sse", "heap", "game", "input",
    "update", "hcf">>

Init ==
  /\ boot = 1 /\ panicked = FALSE
  /\ intFlag = FALSE /\ mask = AllLines /\ irr = {} /\ isr = {} /\ base = 8
  /\ idt = {} /\ loaded = FALSE
  /\ sse = FALSE /\ game = FALSE /\ handlers = {}
  /\ stack = <<>>
  /\ buffer = <<>> /\ down = [k \in Keys |-> FALSE] /\ deaf = FALSE
  /\ current = [k \in Keys |-> FALSE] /\ previous = [k \in Keys |-> FALSE]

-----------------------------------------------------------------------------
(* Main context                                                            *)

Main(step) ==
  /\ stack = <<>> /\ ~panicked
  /\ Steps[boot] = step /\ boot' = boot + 1 /\ UNCHANGED <<panicked, stack>>

DisableInterrupts ==
  /\ Main("cli") /\ intFlag' = FALSE
  /\ UNCHANGED <<mask, irr, isr, base, idt, loaded, software, keyboard>>

PicMaskAll ==
  /\ Main("mask") /\ mask' = AllLines
  /\ UNCHANGED <<intFlag, irr, isr, base, idt, loaded, software, keyboard>>

PicRemapSwapped ==
  /\ Main("remap")
  /\ base' = 40 /\ mask' = {} /\ irr' = {} /\ isr' = {}
  /\ deaf' = (buffer # <<>>)
  /\ UNCHANGED <<intFlag, idt, loaded, software, buffer, down, current, previous>>
\* ICW1 clears the masks and forgets the edges seen so far.
PicRemap ==
  /\ Main("remap")
  /\ base' = 32 /\ mask' = {} /\ irr' = {} /\ isr' = {}
  /\ deaf' = (buffer # <<>>)
  /\ UNCHANGED <<intFlag, idt, loaded, software, buffer, down, current, previous>>

Exceptions == (0 .. 8) \cup (10 .. 14) \cup (16 .. 19) \cup {21, 28, 29, 30}
Gates == Exceptions \cup {32, 33, 39, 44, 47}

FillIdt ==
  /\ Main("idt") /\ idt' = Gates
  /\ UNCHANGED <<intFlag, mask, irr, isr, base, loaded, software, keyboard>>

LoadIdt ==
  /\ Main("lidt") /\ loaded' = TRUE
  /\ UNCHANGED <<intFlag, mask, irr, isr, base, idt, software, keyboard>>

FinalMaskCascade == AllLines \ {Timer, Keyboard, Cascade, 7, 12, 15}
\* The bits of lines 12 and 15 are cleared in pic_mask1 and then shifted out:
\* the second controller gets 0.
FinalMask == (0 .. 7) \ {Timer, Keyboard, 7}

PicUnmask ==
  /\ Main("unmask") /\ mask' = FinalMask
  /\ UNCHANGED <<intFlag, irr, isr, base, idt, loaded, software, keyboard>>

EnableInterrupts ==
  /\ Main("sti") /\ intFlag' = TRUE
  /\ UNCHANGED <<mask, irr, isr, base, idt, loaded, software, keyboard>>

EnableSse == Main("sse") /\ sse' = TRUE /\ UNCHANGED <<machine, game, handlers, keyboard>>

\* initLargestHeap() finds usable memory, or panics.
InitLargestHeap == Main("heap") /\ UNCHANGED <<machine, software, keyboard>>
NoMemory ==
  /\ stack = <<>> /\ ~panicked /\ Steps[boot] = "heap" /\ panicked' = TRUE
  /\ UNCHANGED <<boot, stack, machine, software, keyboard>>

InvadersInit == Main("game") /\ game' = TRUE /\ UNCHANGED <<machine, sse, handlers, keyboard>>

SetHandler(h) ==
  Main(h) /\ handlers' = handlers \cup {h} /\ UNCHANGED <<machine, sse, game, keyboard>>

MainContext ==
  \/ DisableInterrupts \/ PicMaskAll \/ PicRemap \/ FillIdt \/ LoadIdt \/ PicUnmask
  \/ EnableInterrupts \/ EnableSse \/ InitLargestHeap \/ NoMemory \/ InvadersInit
  \/ SetHandler("input") \/ SetHandler("update")

-----------------------------------------------------------------------------
(* Interrupt entry                                                         *)

\* Line n gets through: it is not masked and nothing of its priority or above is
\* in service.  Lines 8 to 15 come in through line 2.
Passes(n) ==
  /\ n \in irr \ mask
  /\ n < 8 => \A m \in isr : m < 8 => n < m
  /\ n >= 8 => Cascade \notin mask /\ \A m \in isr : IF m < 8 THEN m > Cascade ELSE m > n

Rank(n) == IF n < 8 THEN 10 * n ELSE 10 * Cascade + n - 7
Above(m, n) == Rank(m) < Rank(n)

\* First step of the handler behind a gate.
Entry(v) ==
  CASE v \in Exceptions -> "halt"
    [] v = 32 -> "game"
    [] v \in {33, 44} -> "read"
    [] v \in {39, 47} -> "eoi"
    [] OTHER -> "fault"

GateIntFlagTrap == intFlag
\* make_interrupt() makes interrupt gates: the CPU clears IF on entry.
GateIntFlag == FALSE

Enter(v) ==
  /\ stack' = <<[vector |-> v, intFlag |-> intFlag, byte |-> NoByte,
                 step |-> IF loaded /\ v \in idt THEN Entry(v) ELSE "fault"]>> \o stack
  /\ intFlag' = GateIntFlag

Interrupt(n) ==
  /\ intFlag /\ Passes(n)
  /\ \A m \in irr : Passes(m) => m = n \/ Above(n, m)
  /\ irr' = irr \ {n}
  /\ isr' = isr \cup (IF n < 8 THEN {n} ELSE {n, Cascade})
  /\ Enter(base + n)
  /\ UNCHANGED <<boot, panicked, mask, base, idt, loaded, software, keyboard>>

\* A request that went away before the CPU asked for its vector: the controller
\* answers 7 and sets no bit in service.
Spurious ==
  /\ intFlag /\ (0 .. 7) \ mask # {} /\ \A m \in isr : m > 7
  /\ Enter(base + 7)
  /\ UNCHANGED <<boot, panicked, mask, irr, isr, base, idt, loaded, software, keyboard>>

\* The handler of the GameManager that a frame calls; null ones are skipped.
GameHandler(v) == IF v = 32 THEN "update" ELSE "input"
CallsGame(f) == f.step = "game" /\ GameHandler(f.vector) \in handlers

\* Code of main context or of a game handler faults.
Exception(v) ==
  /\ loaded
  /\ IF stack = <<>> THEN Steps[boot] # "hcf" /\ ~panicked ELSE CallsGame(Head(stack))
  /\ Enter(v)
  /\ UNCHANGED <<boot, panicked, mask, irr, isr, base, idt, loaded, software, keyboard>>

-----------------------------------------------------------------------------
(* The handlers                                                            *)

At(step) == stack # <<>> /\ Head(stack).step = step
GoOn(step, byte) == stack' = <<[Head(stack) EXCEPT !.step = step, !.byte = byte]>> \o Tail(stack)

ReadsOnlyForGame(v) == IF v = 33 THEN (IF "input" \in handlers THEN 1 ELSE 0) ELSE 3
\* inb(0x60): once in keyboard_handler, three times in mouse_handler.
Reads(v) == IF v = 33 THEN 1 ELSE 3

\* When a byte has been read and another one waits, the line rises again.
ReadPort ==
  LET v == Head(stack).vector
      rest == IF Reads(v) >= Len(buffer) THEN <<>> ELSE SubSeq(buffer, Reads(v) + 1, Len(buffer)) IN
  /\ At("read")
  /\ buffer' = rest
  /\ irr' = IF rest # <<>> /\ rest # buffer THEN irr \cup {Keyboard} ELSE irr
  /\ IF v = 33 /\ buffer # <<>> THEN GoOn("keys", Head(buffer)) ELSE GoOn("eoi", NoByte)
  /\ UNCHANGED <<boot, panicked, intFlag, mask, isr, base, idt, loaded, software,
                 down, current, previous, deaf>>

SetKeysCurrentFirst ==
  LET b == Head(stack).byte IN
  /\ At("keys") /\ GoOn("game", b)
  /\ current' = [current EXCEPT ![b.key] = b.pressed]
  /\ previous' = [previous EXCEPT ![b.key] = current'[b.key]]
  /\ UNCHANGED <<boot, panicked, machine, software, buffer, down, deaf>>
SetKeysInverted ==
  LET b == Head(stack).byte IN
  /\ At("keys") /\ GoOn("game", b)
  /\ previous' = [previous EXCEPT ![b.key] = current[b.key]]
  /\ current' = [current EXCEPT ![b.key] = ~b.pressed]
  /\ UNCHANGED <<boot, panicked, machine, software, buffer, down, deaf>>
\* setPreviousKeyState() gets what isKeyPressed() says before setKeyState().
SetKeys ==
  LET b == Head(stack).byte IN
  /\ At("keys") /\ GoOn("game", b)
  /\ previous' = [previous EXCEPT ![b.key] = current[b.key]]
  /\ current' = [current EXCEPT ![b.key] = b.pressed]
  /\ UNCHANGED <<boot, panicked, machine, software, buffer, down, deaf>>

CallGame ==
  /\ At("game") /\ GoOn("eoi", Head(stack).byte)
  /\ UNCHANGED <<boot, panicked, machine, software, keyboard>>

\* The line a handler passes to pic_send_eoi().
EoiLine(v) == IF v \in {33, 44} THEN Keyboard ELSE Timer

\* An EOI ends the line of highest priority that the controller has in service.
EndHighest(lines) == {m \in lines : \E l \in lines : l < m}

PicSendEoiForgets(line) ==
  IF line = Timer THEN isr ELSE EndHighest(isr \cap (0 .. 7)) \cup (isr \cap (8 .. 15))
PicSendEoi(line) ==
  EndHighest(isr \cap (0 .. 7))
    \cup (IF line >= 8 THEN EndHighest(isr \cap (8 .. 15)) ELSE isr \cap (8 .. 15))

\* End of interrupt and iretq.
Leave ==
  /\ At("eoi")
  /\ isr' = PicSendEoi(EoiLine(Head(stack).vector))
  /\ intFlag' = Head(stack).intFlag /\ stack' = Tail(stack)
  /\ UNCHANGED <<boot, panicked, mask, irr, base, idt, loaded, software, keyboard>>

Handler == ReadPort \/ SetKeys \/ CallGame \/ Leave

-----------------------------------------------------------------------------
(* Devices                                                                 *)

Tick ==
  /\ Timer \notin irr /\ irr' = irr \cup {Timer}
  /\ UNCHANGED <<boot, panicked, intFlag, mask, isr, base, idt, loaded, software, stack, keyboard>>

Raise(n) ==
  /\ n \notin irr /\ irr' = irr \cup {n}
  /\ UNCHANGED <<boot, panicked, intFlag, mask, isr, base, idt, loaded, software, stack, keyboard>>

\* A key goes down, repeats or goes up; a byte that finds the controller empty
\* makes the line rise.
Key(k, pressed) ==
  /\ pressed \/ down[k]
  /\ Len(buffer) < MaxBytes
  /\ buffer' = Append(buffer, [key |-> k, pressed |-> pressed, repeat |-> pressed /\ down[k]])
  /\ down' = [down EXCEPT ![k] = pressed]
  /\ irr' = IF buffer = <<>> THEN irr \cup {Keyboard} ELSE irr
  /\ UNCHANGED <<boot, panicked, intFlag, mask, isr, base, idt, loaded, software, stack,
                 current, previous, deaf>>

Devices ==
  \/ Tick
  \/ \E n \in Lines : Raise(n)
  \/ \E k \in Keys, pressed \in BOOLEAN : Key(k, pressed)

Next ==
  \/ MainContext
  \/ \E n \in AllLines : Interrupt(n)
  \/ Spurious
  \/ \E v \in Faults : Exception(v)
  \/ Handler
  \/ Devices

\* The CPU does not stop.  Between two ticks there is time for a step of main
\* context, and spurious interrupts do not keep the CPU from taking the next tick.
Spec ==
  /\ Init /\ [][Next]_vars
  /\ WF_vars(Handler) /\ SF_vars(MainContext) /\ SF_vars(Interrupt(Timer))

-----------------------------------------------------------------------------
(* Safety                                                                  *)

Byte == [key : Keys, pressed : BOOLEAN, repeat : BOOLEAN]
Frame == [vector : 0 .. 47, intFlag : BOOLEAN, byte : Byte \cup {NoByte},
          step : {"read", "keys", "game", "eoi", "halt", "fault"}]

\* The variables have their types.
TypeOK ==
  /\ boot \in DOMAIN Steps /\ panicked \in BOOLEAN
  /\ intFlag \in BOOLEAN /\ mask \subseteq AllLines
  /\ irr \subseteq AllLines /\ isr \subseteq AllLines
  /\ base \in {8, 32} /\ idt \subseteq 0 .. 47 /\ loaded \in BOOLEAN
  /\ sse \in BOOLEAN /\ game \in BOOLEAN /\ handlers \subseteq {"input", "update"}
  /\ stack \in Seq(Frame)
  /\ buffer \in Seq(Byte) /\ Len(buffer) <= MaxBytes
  /\ {down, current, previous} \subseteq [Keys -> BOOLEAN] /\ deaf \in BOOLEAN

\* Every interrupt that the controllers deliver, whichever device raised it and
\* however early, finds a gate that kmain() has filled and loaded.
Dispatch == \A i \in DOMAIN stack : stack[i].step # "fault"

\* The handlers do not nest, a line is in service exactly while its handler runs,
\* and every pic_send_eoi() ends the handler's own line: no line stays blocked.
InService ==
  /\ Len(stack) <= 1 \/ (Len(stack) = 2 /\ At("halt"))
  /\ \A n \in isr : \E i \in DOMAIN stack : stack[i].vector = 32 + n
  /\ \A i \in DOMAIN stack : stack[i].vector \in {32, 33} => stack[i].vector - 32 \in isr

\* Interrupts are on long before the game exists: a handler calls the game only
\* after Games::Invaders::init and with SSE enabled.
GameReady == \A i \in DOMAIN stack : CallsGame(stack[i]) => game /\ sse

\* A waiting scancode has a pending request or a handler about to read it, so the
\* keyboard never goes silent: except when it was waiting already at pic_remap().
KeyEdge ==
  buffer # <<>> => \/ deaf
                   \/ Keyboard \in irr
                   \/ \E i \in DOMAIN stack : stack[i].vector = 33 /\ stack[i].step = "read"

InHand == IF At("keys") THEN <<Head(stack).byte>> ELSE <<>>
Waiting(k) == {i \in DOMAIN (InHand \o buffer) : (InHand \o buffer)[i].key = k}

\* No key event is lost or applied out of order: m_currentKeyStates, brought up to
\* date with the scancodes on their way, is the state of the keyboard.
KeysFollow ==
  \A k \in Keys :
    IF Waiting(k) = {}
      THEN down[k] = current[k]
      ELSE \E i \in Waiting(k) :
             /\ \A j \in Waiting(k) : j <= i
             /\ down[k] = (InHand \o buffer)[i].pressed

JustPressed(k) == current[k] /\ ~previous[k]

\* When the game's input handler runs, isKeyJustPressed() of the key that caused
\* it holds exactly when the key went down: not for its repeats.
JustPressedFirst ==
  At("game") /\ Head(stack).vector = 33 =>
    LET b == Head(stack).byte IN JustPressed(b.key) <=> b.pressed /\ ~b.repeat

-----------------------------------------------------------------------------
(* Steps and progress                                                      *)

\* A panic in an exception handler halts all execution: nothing runs after it.
FaultStops == [][At("halt") => UNCHANGED <<boot, stack, isr, current, previous>>]_vars

\* "Display error message and halt all execution" (os.hpp), of a panic in main
\* context.
PanicStops == [][panicked => UNCHANGED <<boot, stack, isr, current, previous>>]_vars

\* Every tick is served, however busy the other lines are, unless an exception has
\* stopped the machine: the game keeps running.
TickServed ==
  boot > 6 /\ Timer \in irr ~> (\E i \in DOMAIN stack : stack[i].vector = 32) \/ At("halt")
=============================================================================
