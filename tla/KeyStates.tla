----------------------------- MODULE KeyStates -----------------------------
(***************************************************************************)
(* The key states of kernel/keyboard as bytes of an object: the current    *)
(* states, the previous ones and what lies behind, indexed by scancode     *)
(* without a bound.  Kernel has the interrupts; this module has the codes. *)
(*                                                                         *)
(* The keyboard is external: scancode set 1, as the controller delivers it.*)
(***************************************************************************)
EXTENDS Integers, Sequences

CONSTANTS
  Keys,     \* keys of the keyboard: name, scancode, and whether after a prefix 0xE0
  MaxFifo   \* bytes that wait in the controller

\* enum Keycode: names, from KC_NONE = 0 on.
KeyNames ==
  <<"NONE", "ESC", "KEY_1", "KEY_2", "KEY_3", "KEY_4", "KEY_5", "KEY_6", "KEY_7", "KEY_8",
    "KEY_9", "KEY_0", "MINUS", "EQUAL", "BACKSPACE", "TAB", "Q", "W", "E", "R", "T", "Y",
    "U", "I", "O", "P", "LEFT_BRACKET", "RIGHT_BRACKET", "ENTER", "LEFT_CTRL", "A", "S",
    "D", "F", "G", "H", "J", "K", "L", "SEMICOLON", "APOSTROPHE", "GRAVE", "LEFT_SHIFT",
    "BACKSLASH", "Z", "X", "C", "V", "B", "N", "M", "COMMA", "DOT", "SLASH", "RIGHT_SHIFT",
    "KP_ASTERISK", "LEFT_ALT", "SPACE", "CAPSLOCK", "F1", "F2", "F3", "F4", "F5", "F6",
    "F7", "F8", "F9", "F10", "F11", "F12", "SCROLLLOCK", "NUMLOCK", "KP_7", "KP_8", "KP_9",
    "KP_MINUS", "KP_4", "KP_5", "KP_6", "KP_PLUS", "KP_1", "KP_2", "KP_3", "KP_0",
    "KP_DOT", "RIGHT_CTRL", "RIGHT_ALT", "ARROW_UP", "ARROW_DOWN", "ARROW_LEFT",
    "ARROW_RIGHT", "INSERT", "DELETE", "HOME", "END", "PAGE_UP", "PAGE_DOWN", "LEFT_GUI",
    "RIGHT_GUI">>

CountNoKeypad == 64
KeyCount == Len(KeyNames)   \* KEY_CODE_COUNT
KeyCode(name) == (CHOOSE c \in DOMAIN KeyNames : KeyNames[c] = name) - 1

ASSUME KeyStatesAssumption ==
  /\ \A k \in Keys : k.code \in 1 .. 127 /\ k.ext \in BOOLEAN
  /\ MaxFifo \in Nat

VARIABLES
  bytes,  \* the object and what lies behind it, by offset
  held,   \* keys that are down
  fifo    \* scancodes that wait in the controller

keyVars == <<bytes, held, fifo>>

CurrentAt(code) == code
PreviousAt(code) == KeyCount + code

\* The constructor clears both arrays; TRUE stands for the values behind them.
Offsets == 0 .. 2 * Len(KeyNames) + 127
KeyStatesInit ==
  /\ bytes = [o \in Offsets |-> o >= 2 * KeyCount]
  /\ held = {} /\ fifo = <<>>

ScancodeToKeycodeKeepsTop(sc) == sc
ScancodeToKeycodeSixBits(sc) == sc % 64
ScancodeToKeycode(sc) == sc % 128
PressedOfKeycode(sc) == ScancodeToKeycode(sc) < 128
Pressed(sc) == sc < 128

IsKeyPressed(code) == code <= KeyCount /\ bytes[CurrentAt(code)]
IsKeyReleased(code) == code <= KeyCount /\ ~bytes[CurrentAt(code)]
IsKeyJustPressed(code) == code <= KeyCount /\ bytes[CurrentAt(code)] /\ ~bytes[PreviousAt(code)]

\* keyboard_handler reads one byte: previous state first, then the current one.
HandledNoPrevious(sc) ==
  LET code == ScancodeToKeycode(sc) IN [bytes EXCEPT ![CurrentAt(code)] = Pressed(sc)]
Handled(sc) ==
  LET code == ScancodeToKeycode(sc)
  IN [bytes EXCEPT ![PreviousAt(code)] = IsKeyPressed(code), ![CurrentAt(code)] = Pressed(sc)]

Handle ==
  /\ fifo # <<>>
  /\ bytes' = Handled(Head(fifo)) /\ fifo' = Tail(fifo)
  /\ UNCHANGED held

Scancodes(k, up) ==
  (IF k.ext THEN <<224>> ELSE <<>>) \o <<k.code + (IF up THEN 128 ELSE 0)>>

\* A key goes down or, being down, repeats.
Press(k) ==
  /\ Len(fifo) + 2 <= MaxFifo
  /\ fifo' = fifo \o Scancodes(k, FALSE) /\ held' = held \cup {k}
  /\ UNCHANGED bytes

Release(k) ==
  /\ k \in held /\ Len(fifo) + 2 <= MaxFifo
  /\ fifo' = fifo \o Scancodes(k, TRUE) /\ held' = held \ {k}
  /\ UNCHANGED bytes

KeyStatesNext == Handle \/ \E k \in Keys : Press(k) \/ Release(k)
KeyStatesSpec == KeyStatesInit /\ [][KeyStatesNext]_keyVars

-----------------------------------------------------------------------------
\* The variables have their types.
KeyStatesTypeOK ==
  /\ bytes \in [Offsets -> BOOLEAN]
  /\ held \subseteq Keys
  /\ fifo \in Seq(0 .. 255) /\ Len(fifo) <= MaxFifo

\* The keys of the game, which have a scancode of their own on the keyboard.
GameKeys == {"A", "D", "SPACE"}

\* The game sees its keys as they are, whatever other keys, prefixes and
\* repetitions come in between.
GameKeysFollow ==
  fifo = <<>> =>
    \A name \in GameKeys :
      IsKeyPressed(KeyCode(name)) <=> \E k \in held : k.name = name

\* A byte of another key changes neither the current nor the previous state of
\* a key of the game, though its code may reach from one array into the other.
OthersMiss ==
  \A name \in GameKeys :
    LET c == KeyCode(name) IN
    bytes[CurrentAt(c)] # bytes'[CurrentAt(c)] \/ bytes[PreviousAt(c)] # bytes'[PreviousAt(c)]
      => Head(fifo) \in {c, c + 128}

\* A repetition of a key that is down is not taken for a new press.
RepeatsAreNotPresses ==
  \A name \in GameKeys :
    LET c == KeyCode(name) IN
    Len(fifo') < Len(fifo) /\ Head(fifo) = c /\ IsKeyPressed(c) => ~IsKeyJustPressed(c)'

\* No key stays down: when all keys are up, each is reported as released.
NoStuckKey ==
  held = {} /\ fifo = <<>> => \A c \in 0 .. KeyCount - 1 : IsKeyReleased(c) /\ ~IsKeyPressed(c)

\* The keys of the instance never write behind the object.
StaysInside == \A o \in Offsets : o >= 2 * KeyCount => bytes[o]

\* The reported keys are those that are down, and nothing behind them is written.
KeysSound == GameKeysFollow /\ NoStuckKey /\ StaysInside

\* Bytes of other keys and repetitions do not disturb the keys of the game.
GameUndisturbed == [][OthersMiss /\ RepeatsAreNotPresses]_keyVars
=============================================================================
