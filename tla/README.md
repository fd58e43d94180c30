# A TLA+ verification of gobbos

gobbos is a small x86-64 kernel in C++ that boots from Limine and plays space
invaders. This directory holds TLA+ models of the parts that have behaviour
worth checking: the heap, the boot sequence with its interrupt handlers, the
keyboard, the serial port, the framebuffer and the game, the texts, textures and
strings that use the heap, and the byte and string functions under all of them;
the TLC runs that check them on small instances; and TLAPS proofs for every
instance about the heap, its place and its use by texts, the interrupts, the key
codes, the serial port, the game's frames, drawing, textures, text layout, strings and the string
functions. `PROJECT.json` lists components, runs, mutants,
hazards and theorems, and maps every definition to the lines that it models.

## The system

| Part | Source | State | Operations |
|---|---|---|---|
| Kernel heap | `kernel/os/heap.*`, `std/memory.cpp`, `std/new.cpp` | doubly linked list of `BlockHeader`s in the largest usable memory region | `HeapInfo::init`, `malloc`, `mallocAligned`, `free`, `realloc`; inside: `split`, `merge`; around: `operator new`, `operator delete` |
| Boot | `kernel/os/os.cpp`, `kernel/main.cpp`, `pic.cpp`, `utils.asm` | IDT, IF and SSE bits of the CPU, both 8259s | `kmain()`, then `main()`, then `hcf()` |
| Interrupts | `kernel/os/os.cpp`, `os.hpp` | the interrupt stack | timer, keyboard, mouse and spurious handlers; 22 exception handlers that panic |
| Game manager | `kernel/os/os.hpp` | two handler pointers | set by `main()`, read and called by the timer and keyboard handlers |
| Keyboard | `kernel/keyboard` | current and previous state per key code | `setKeyState`, `setPreviousKeyState`, `isKeyPressed`, `isKeyJustPressed` |
| Framebuffer | `kernel/graphics/graphics.*` | memory of the screen | `clearScreen`, `fillRect`, `drawTexture` |
| Space invaders | `games/invaders` | alien and player rectangles, direction, pending descent | `init`, `update` (by the timer), `handleInput` (by the keyboard) |
| Text, Texture, String | `kernel/graphics/text.*`, `texture.*`, `std/string.*` | pointers into the heap | construct, `setText`, destruct, `push_back`, `update`, `resize` |
| Serial port | `kernel/os/serial.*`, `io.hpp` | `m_isReady`; registers of the 16550 | `init`, `clear`, `writeCString`, `writeByte`, from `kmain()` and from panics |
| Byte and string functions | `std/memory.cpp` | the memory they are given | `memset`, `memcpy`, `strcpy`, `strlen`, `strnlen`, `strcmp`, `strncmp` |
| Font | `kernel/graphics/font.*` | none | `getGlyphRect` |
| Timer, sprite, run-time stubs | `pit.cpp`, `sprite.*`, `std/*` | none of interest | see the end |

There is one CPU and no scheduler. All concurrency comes from interrupts: main
context is interrupted between any two instructions once `kmain()` has executed
`sti`, which is before SSE, the serial port, the heap and the game have been
initialised. The handlers share `GameState`, `GlobalKeyboard` and the framebuffer
with no lock; they are safe only because interrupt gates keep them from nesting.
The heap is not used by the handlers of this version. What is hard, per part:

* **Heap**: a long sequence of legal calls that leaves a list with stale links;
  boundaries of splits and paddings; order of writes in `realloc`.
* **Boot and interrupts**: any interrupt at any point of the boot; masks that are
  undone by a later initialisation; EOIs for the right line; lost or silent
  keyboard edges; a panic with interrupts enabled.
* **Keyboard**: order of the two state updates relative to the game's question;
  codes that are used as indices without a bound.
* **Framebuffer and game**: last row, pitch, unsigned coordinates, direction
  changes by several aliens in one frame.
* **Serial port**: registers that change their meaning during `init()`, a self
  test that races the port, a panic between any two port accesses.
* **Texture**: who deletes which pixels after any mixture of borrowing, `update()`,
  `resize()` and destruction.
* **Text and string**: two loops that must agree on a size; counts that do or do
  not include the terminator; a growing buffer.
* **Byte and string functions**: do-loops that look first and test later,
  overlapping copies, the sign of a difference.

`hazards` in `PROJECT.json` has each with its line.

## The modules

    AbstractHeap   what the callers are promised
    Heap           the block list and the loops that walk it
    HeapClients    EXTENDS Heap: disciplines of callers, heap properties, refinement
    TextClient     EXTENDS HeapClients: setText, ~Text and their string
    HeapProofs     EXTENDS HeapClients
    TextClientProofs EXTENDS TextClient, HeapProofs
    Kernel         boot, handlers, interrupt controllers, keyboard state
    KernelProofs   EXTENDS Kernel
    Graphics       clearScreen and fillRect as sets of cells they write
    Invaders       EXTENDS Graphics: the game and its frames
    Draw           EXTENDS Graphics: drawTexture, one row per step
    MemoryMap      initLargestHeap's choice of a region   (MCMemoryMap)
    CString        memset to strncmp, one turn of a loop per step
    Serial         the port, kmain()'s log, panics         (MCSerial)
    KeyStates      key codes, both state arrays as bytes   (MCKeyStates)
    Texture        who owns the pixels                     (MCTexture)
    TextureProofs  EXTENDS Texture
    TextLayout     the two loops of setText, getGlyphRect  (MCTextLayout)
    TextLayoutProofs EXTENDS TextLayout
    StdString      buffer, size and capacity of std::string
    StringProofs   EXTENDS CString, StdString
    MCMachine      EXTENDS CString, MemoryMap, StdString, Serial, Invaders: one run
    MCConsole      EXTENDS Draw, Texture, TextLayout, KeyStates: one run
    MachineProofs  EXTENDS MCMachine and the proofs about its parts
    ConsoleProofs  EXTENDS MCConsole and the proofs about its parts

The MC modules in brackets give constants that a cfg cannot: memory maps, texts,
keys and files as records and sequences. `MCMachine` and `MCConsole` put parts that
share no state into one run each: the variable `part` says which of them a behaviour
is about, all initial states of that part are explored, and the others stand still.
They add no step of their own, each part has the fairness of its own specification,
and `Progress` asks of the behaviours of each part the liveness that this part owes.
A component's safety properties are conjuncts of one property with a name of its own,
which is what a run checks and a theorem states; the mutants break its
conjuncts. The modules of the second half of the list stand
alone and each sees its neighbours through what they promise: `Texture` and
`StdString` use a heap that hands out blocks nobody holds, which `AbstractHeap`
states and the refinement theorems establish for `operator new`. Of `realloc`, about
which no theorem speaks, `StdString` assumes only a buffer of the right size: what it
has moved may have a header written over it (`Grown`), which is what the run Realloc
finds; `StdString` has `strcpy` as one step, which `CopyIs` justifies; `Serial` lets a panic come between any two
steps, as `Exception` does in `Kernel`; `TextLayout` has the cells, `TextClient`
the blocks of the same `setText`.

### Heap, HeapClients, AbstractHeap

`hdr` maps an address to the header last written there, `chain` is the set of
addresses whose headers are in the list, `held` is what the callers' pointers
hold, `pc`, `cur` and `req` are the running loop, its `current` or `entry`, and
its arguments. Each loop iteration is one action: `Walk` passes a block over,
`Pad` splits off room before an aligned start, `TakeAligned` and `TakePlain` hand
a block out, `Fail` returns null, `FreeCall`, `FreePrev` (one test of
the loop that looks back: `FreeMergePrev` or `FreeTurn`), `FreeMergeNext` and
`FreeReturn` are `free()`. The in-place cases of `realloc`
are one action each, in the order of its tests; the last one runs `malloc`'s loop
and then `free()`'s. `split` and `merge` are operators on `hdr` with the code's
arithmetic modulo `Word` and with its two oddities: `Split` leaves the old
successor's `prev` alone (heap.cpp:119) and `MergePrev` tests the predecessor's
`prev` where it is about to write through its `next` (heap.cpp:88). A write
through null is the state `pc = "fault"`. A header that has been merged away
stays in `hdr`, so a stale pointer reads what the machine would read.

`HeapClients` states four disciplines of callers. `ArenaSpec` calls
`mallocAligned` and never frees, what the running kernel does. `StackSpec` calls
`operator new` and `delete` last in, first out, as C++ objects of one scope do;
`operator new` asks for alignment 16, less than the 32 bytes of a header, which
is the guard of `AskNew`. All of `free()` is in it, and it is a theorem, not a
modelling decision, that its first loop never merges under this discipline.
`GrowSpec` mixes in `malloc`, `ReallocSpec` frees and reallocates in any order.

`AbstractHeap` knows only `held`: a call hands out an aligned region of the heap
that nobody else holds, or takes one back. `Abs == INSTANCE AbstractHeap` in
`HeapClients` maps `held` to itself, so every step of a loop that does not change
`held` must stutter and every other one must be an `Allocate` or a `Release`.

### TextClient

`Text::setText` and the destructors are the only place of this kernel that frees
while it goes on holding other blocks, and not in the reverse order of
allocation. Each step is one `new` or `delete`, which starts a heap call;
`HeapStep` runs that call to its end. `ScopeSpec` has a string variable declared
before the `Text`; `TemporarySpec` the temporary that `setText("...")` makes.

### Kernel

`Steps` is the boot in program order, `boot` the index of the next step. Handlers
are frames on `stack`, the innermost first, each with its vector, saved IF, byte
read and next step; main context runs when the stack is empty. A handler's
steps are the places where another context could observe it: reading port
0x60, setting the two key states, calling the game, sending the EOI and
returning. The 8259s (request, mask and service registers, priorities, cascade,
non-specific EOI, spurious vector), the keyboard controller (a queue with an edge
per byte) and the CPU's interrupt entry are external and modelled from the ports
the code programs. `deaf` records a fact about the past: a scancode was waiting
when `pic_remap()` reset the edge detection.

The final mask is computed as the code computes it: `(pic_mask1 & 0xff00) >> 16`
is 0, so the second controller is unmasked and only line 2 of the first holds
its lines back. A handler that runs with interrupts off cannot be interrupted,
but a fault in a game handler can still push an exception frame.

### Graphics and Invaders

A pixel is one cell of `memory`; `Cleared` and `Filled` are the sets of cells
that `clearScreen` and `fillRect` write, also outside the framebuffer (`over`).
`Update` moves all aliens, toggles the direction once per alien at a border,
orders the descent for the next call and draws; `HandleInput` moves the player
with unsigned arithmetic. Calls are single steps because handlers do not nest,
which is `InService` of `Kernel`.

`Draw` keeps which pixel of the texture each cell shows, with one row of cells
behind the framebuffer, and copies one row per step; positions are unsigned and
wrap, the right border clips, and `upsideDown` counts rows from the end.

### MemoryMap, CString

`MemoryMap` scans the boot loader's map entry by entry, keeps the largest usable
region and either cuts the first header off it or panics. Maps are arbitrary but
for what Limine guarantees of usable regions (page alignment, so one is either
empty or larger than a header).

`CString` holds a whole small memory and one call on it. `Legal` is what callers
vouch for: strings have a terminator, blocks are inside the memory, and a target
lies below its source or behind its end. A string for `strnlen` or `strncmp` needs no
terminator if all that they look at is inside the memory. `Reach` is how much that is,
and not the length: `strnlen` reads one character before it tests the length, and
`strncmp` compares one before it does, so that with length 0 it looks at one. `i`
counts the turns, `seen` the offsets read. The order of read and test within a turn is
the code's; `strcpy` copies the terminator before the loop sees it.

### Serial

`uart` has the registers that the code touches: DLAB, divisor, interrupt enable,
loop-back, the byte written and the byte received. `Written` and `Received` are
`outb` and `inb`; without a port writes are lost and every read gives 255.
`InitWrites` lists the eight writes of `init()` in order, then come the test and
the last write. `todo` is what `writeCString` has left, `polled` that `writeByte`
has left its loop but not yet written. `PanicWithMessage` replaces `todo` and never
gives it back, at any step, of the panic's own message as well. `Shift` is the
hardware, at its own pace. The port works, is missing, or loops back badly.

### KeyStates

The object is a row of bytes: `m_currentKeyStates`, `m_previousKeyStates` and what
lies behind, so a key code beyond `KEY_CODE_COUNT` hits what it hits in memory.
Scancodes are set 1 with prefix 0xE0, which the handler takes for a key of its own.

### Texture, TextLayout, StdString

`Texture` gives each variable a texture or none, and the heap a size and content
per live block. Every constructor, `update`, `resize` and the destructor is an
action; a second delete or one of an image in the kernel sets `badDelete`. Images
are records with the fields of their headers.

`TextLayout` runs `setText`'s measuring loop and its copying loop one character
and one glyph row per step. `GlyphIndex` keeps the width of `char`, which is signed.

`StdString` has the buffer byte by byte, with `Anything` in what `new` or `realloc`
have not filled. `Grown` is `realloc` as this code has it: where it moves the bytes down
over a free block of any size (`before`), it has written a header into them first
(`Overwritten`). `text` is what callers have put in and `Place` where in the buffer each
character of it belongs, with a terminator behind every one that was pushed; the
properties compare the two.

## The runs

Run with `tlc -config X.cfg <module>`.

| Run | Module | Instance | States | Result |
|---|---|---|---|---|
| Arena | HeapClients | 24-byte heap, 2-byte headers, sizes 1, 2, 4, alignments 1, 2, 8, 3 pointers | 3,409 | holds |
| Stack | HeapClients | 16-byte heap, sizes 1, 3, alignments 1, 2, 3 pointers; deadlock checked | 1,925 | holds |
| Text | TextClient | 23-byte heap, 2 texts | 4,583 | holds |
| Kernel | Kernel | 2 keys, 2 bytes, lines 3, 7, 12, fault 13 | 336,528 | holds |
| Machine | MCMachine | see below | 152,975 | holds |
| Console | MCConsole | see below | 218,634 | holds |
| Malloc | HeapClients | `malloc` beside `operator new` | | violated |
| Realloc | HeapClients | `realloc` in any order | | violated |
| TextTemporary | TextClient | 24-byte heap, a temporary string, 2 texts | | violated |
| Panic | Kernel | a panic in main context | | violated |
| Overrun | Invaders | the game of Machine | | violated |
| TextureFont | MCTexture | the textures of Console and the font's file | | violated |

The instances of Machine: 4 bytes of memory, characters 0, 1, 3 and lengths 0, 1, 3,
with every legal call; memory maps of up to 3 regions with 3 usable lengths (0 among
them) and larger reserved and framebuffer regions; strings of 2 characters with
capacity step 3, headers of 2 bytes and text up to 4, with and without memory; a log of 3 and a message of
2 characters over 3 divisors, 3 kinds of port and 2 panics; a game with a 14 x 9 screen
and 3 x 2 aliens. Those of Console: a 3 x 3 screen with a padded row, sides 0, 1, 2, 4
and positions around both borders and at the wrap; 2 textures, 3 blocks, 2 bitmaps; all
texts of up to 4 characters from a newline, two printable ones and one above 127; 6
keys with 3 bytes in the controller.

What the passing runs check:

* **Arena**: `Tiled` (the list cuts the heap into blocks without gap or overlap),
  `NewlyAllocated` (what callers hold is theirs alone and free of headers),
  `FirstFit` (null only when no block would do), `CallReturns` (each call ends),
  `AbsSpec` (refinement).
* **Stack**: `NewlyAllocated`, `CallReturns` and `AbsSpec` also with deletes, `Links`
  (prev and next mirror each other in both directions) and `FullRecovery` (everything
  given back is one block again). That the list is `Tiled` here too is proved.
* **Text**: `ScopeGivesAllBack` and `NoFault`, for frees that are not last in,
  first out. They hold in this order of calls and fail in others (below). The 23
  bytes make the heap run out in the middle of `setText` (`Panic`) and let a block
  take the whole tail, and are the least for which the first string, pixels and object
  each leave a block behind them (`Roomy`, below). At every other size from 20 to 36 the properties hold as
  well (from 35 on, 117,728 states, the heap never runs out and its tail is always
  free, as in a heap of megabytes). They are not claimed of every heap: with 16 to
  19 bytes, where the texture object takes the whole tail at the wrong moment,
  `NoFault` fails, so a nearly full heap can make `free()` write through a null.
* **Kernel**: `Dispatch`, `InService`, `GameReady`, `KeyEdge`, `KeysFollow`,
  `JustPressedFirst`, `FaultStops`; see the comments in the module. `TickServed`:
  no tick is lost for ever.
* **Machine**, `MachineTypeOK`: the types of all its parts.
* **Machine**, game: `FormationTurns`, `FrameShows`; `Progress` has `Invasion` (the
  formation comes down past the player).
* **Console**, `ConsoleTypeOK`: the types of all its parts.
* **Console**, drawing, `DrawsTexture`: `SourceFits` (no read beside the texture,
  clipped or flipped), `ShowsTexture` (exactly the visible part, in place, and nothing else changes).
* **Machine**, memory map, `HeapPlaced`: `LargestRegion`, `PanicWithoutMemory`, `RootFits` (the first
  block ends where the region ends and its size has not wrapped).
* **Machine**, calls, `CallsRight`: `ReadsInside` (no read outside the memory, behind
  `Reach`, or behind a terminator), `LengthIs`, `CompareIs` (the difference of the first
  characters that differ, with length 0 too), `CopyIs`, `FillIs`, which compare each
  result with a definition over the memory at the call. This is what the code does; in
  two places `memory.hpp` says otherwise (below). `Progress` has `Returns`.
* **Machine**, serial port, `LogSound`: `LogInOrder` (after a successful `init()` the wire has exactly what
  was written, panics between any two steps included), `Configured`, `NoTestByte`;
  `Progress` has `LogEnds` (no kind of port keeps the boot from going on: a missing one reads as
  ready) and `PanicHeard`.
* **Console**, key states, `KeysSound`: `GameKeysFollow` and `NoStuckKey` among
  repetitions, prefixes and keys with a shared code, `StaysInside`. `GameUndisturbed`:
  `OthersMiss` (a code that reaches into the other array misses the game's keys) and
  `RepeatsAreNotPresses`.
* **Console**, textures, `PixelsSafe`: `DeletesLive`, `DataFits`, `Exclusive`.
  `PixelsKept`: `OwnersFree` (a texture gives up its own block only by deleting it) and
  `KeepsPixels` (no texture that shows pixels comes to show memory nobody has filled).
* **Console**, text layout: `GlyphsFit` (the second loop stays in what the first
  measured); `TextShown`: `ReadsFont`, which speaks of characters 32 to 159 only, and
  `LastLineShown`.
* **Machine**, strings, `StringHolds`: `InBounds` and `Terminated` as long as there is
  memory; `Placed` (after any number of pushes each character stands where the sizes put
  it, or `realloc` has written over it, and the last one stands there for certain);
  `ReaderSees` (until the buffer grows, the text up to the first terminator is what was
  constructed and at most one character of all that was pushed). That is less than
  `string.hpp` says of `push_back` (below).

Bounds. Three pointers give every combination of a block with a held and a free
neighbour; the arena is big enough for a padding split, a full split, an
undivided hand-out and an exhausted heap, the stack for merges of a block with a
split rest. Alignment 8 against headers of 2 gives paddings of zero, too small
for a header, exactly a header, and more. Two scancodes let one wait behind
another, two keys tell their states apart. The lines are one that is masked (3),
the spurious vector's own (7) and the mouse behind the cascade (12). Six aliens in
an odd number of rows turn at both borders and come down past the player and off
the screen (`MaxY`); an even number would not turn, which is why the code's five
rows matter.

Three regions give every order of a larger, a smaller and a useless one. Four
bytes hold two strings, one inside the other, adjacent or apart, and every overlap
that is legal; 3 stands for the characters that would be negative if `char` were
compared signed. Length 0 is one of the lengths, and 3 reaches behind strings that end
before it, and to the end of memory without a terminator. Of two panics the second breaks into the first one's message.
Three blocks let two textures resize into the third, or run out. Texts of four
characters have up to five lines, empty ones at every place. Capacity step 3 and
text 4 grow a buffer up to twice, from both constructors, and a header of 2 written at
every place hits any part of the text; the code's step is larger, which the proofs cover.

Fairness. Heap: `WF(Running)`, a CPU that runs a loop goes on; callers need never
call. Text likewise. Kernel: `WF(Handler)`; `SF(MainContext)`, between two ticks
there is time for an instruction of main context; `SF(Interrupt(Timer))`, the
line with the highest priority is taken before spurious interrupts can hold it
off for ever. These are assumptions about the machine's speed: a frame that takes
longer than a tick to draw would starve main context, and steps have no duration
here. Invaders: `WF(Update)`, ticks keep coming, which `TickServed` establishes.
CString: `WF(CStringNext)`, the CPU goes on. Serial: `WF(Code)`, the CPU again, and
`WF(Shift)`, a port that has a byte sends it.
`CHECK_DEADLOCK FALSE` is set where the system really stops: an arena with all
pointers in use, a panic, `hlt`, a call that has returned, a string that is gone.

### Disagreements between the code and what it says of itself

* **Malloc**: `malloc` marks a block that it hands out whole as free
  (memory.cpp:32); the next call hands it out again. `memory.hpp` promises newly
  allocated memory.
* **Realloc**: moving a block down onto its free predecessor writes a header into
  the old data before copying it (memory.cpp:177). `memory.hpp` promises that the
  data is preserved.
* **TextTemporary**: `merge(Previous)` into the root leaves a stale `prev`
  (heap.cpp:88). In the run the string lies behind the root's header at 8, the pixels
  behind 12 and the object behind 17. When the temporary string is gone, `~Text` gives
  back the pixels, which go into the root's block; the object still names 12. Giving it
  back merges it into the header at 12, which is not in the list any more, and that one
  into the root: the 3 bytes of pixels and the header are counted twice, the root's size
  is 27 where the whole heap gives 22, and the block reaches 5 bytes behind the heap. The
  next `setText` gets pixels from there. `memory.hpp` has `mallocAligned` allocate a block
  of memory in the heap.
* **Panic**: `hcf()` leaves interrupts enabled, so after a panic in main context
  the handlers go on. The comment in `os.hpp` says that all execution halts.
* **Overrun**: `fillRect` lets the row just below the screen through
  (graphics.cpp:29).
* **TextureFont**: `fromGob` starts one byte late and the pixels of the kernel's font
  end behind the file (texture.cpp:30).

Others that were met while the modules were written, which no run checks:

* `clearScreen` ignores the pitch (graphics.cpp:19): with padded rows the bottom of the
  screen keeps its pixels. In the game's instance the pitch is the width.
* `drawTexture` has the row test of `fillRect` (graphics.cpp:47), and ignores
  `sourceRect` (graphics.cpp:37).
* `strncmp` with length 0 compares a character (memory.cpp:219), where `memory.hpp` (line
  45) says that values beyond the length are not accessed; a negative length does the
  same. `strncmp` and `strcmp` return a difference, where lines 49 and 58 promise -1, 0
  or 1. Nothing in this version calls `strncmp` or `strnlen`. `Reach` and `CompareIs`
  state the behaviour of the code.
* A panic while `init()` of the serial port has DLAB or loop-back set is not heard
  (serial.cpp:8), and a port that has not looped the test byte back at once stays in
  loop-back, so that the log is lost (serial.cpp:18). `LogInOrder` and `PanicHeard`
  speak of a successful `init()` for that reason.
* `isKeyPressed` lets `KEY_CODE_COUNT` through (keyboard.cpp:22), and the enum has F11
  where scancode set 1 has NumLock, and so on from there (keyboard.hpp:188).
* A copy that `update()` or `resize()` makes of borrowed pixels is not marked as the
  texture's own and never deleted (texture.cpp:65); an empty texture is not cleared
  (texture.cpp:19).
* Lines of a text are one pixel apart (text.cpp:50), so `LastLineShown` speaks of the
  last one. Glyphs of a newline and of characters from 160 on are read in front of the
  font (font.cpp:25).
* `push_back` counts the terminator, so the second character it adds stands behind a
  zero (string.cpp:41), where `string.hpp` (line 38) says that characters come to the end
  of the string; behind `string(char, count)`, which counts its terminator as well
  (string.cpp:15), already the first one does. `ReaderSees` states how much can be read.
  `push_back` does not test what `realloc` returned (string.cpp:38).

## What is proved

For all heap bases, heap sizes, header sizes, requested sizes, alignments and
numbers of pointers that `HeapAssumption` allows:

* `ArenaTypes`, `ArenaTiled`, `ArenaNewlyAllocated`, `ArenaFirstFit`, and
  `ArenaImplements`: `ArenaSpec => AbsSpec`.
* `StackTiled`, `StackNewlyAllocated`, `StackLinks`, `StackFullRecovery`, and
  `StackImplements`: `StackSpec => AbsSpec`.

`Tiled` and `NewlyAllocated` are not inductive. `IInv` adds `HeldUsed` (each
pointer in use is the data of a block of the list that is marked used and big
enough), `HeldOnce` (no block is held twice), `Underway` (what a running call
knows) and `FirstFit`. `NewlyAllocated` then follows from `Tiled` and `HeldUsed`:
two used blocks are two different tiles. Lemmas about `Split` and `MergeNext` say
which headers they write and that they keep the tiling, and carry the actions.

`IInv` is not preserved by `FreeMergePrev` in general, since stale prev links are
possible in other disciplines. For the stack, `SInv` adds that the only free
block is the last one or the one `free()` is working on, that each used block is
held, that the slots are in the order of their addresses, that the running
request's alignment is at most a header, and `Links`. From it `NoMergeBack` and
`NoPad` prove that the first loop of `free()` and the padding split never happen
under this discipline, so every step is one for which `IInv` is proved.

* `TextTypesCorrect`, `TextNewlyAllocated`, `TextGivesAllBack` and
  `TextHeapImplements`: `ScopeSpec => AbsSpec`, for all string and pixel sizes and any
  number of calls and scopes, if all requests have one alignment that is at most a
  header (`OneAlignment`), as those of `operator new` do: 16 against 32 bytes.
* `TextNeverFaults`, if moreover the heap is `Roomy`: each of the first string, the
  first pixels and the first object is cut from the last block and leaves a rest. In a
  kernel heap of megabytes it is; where it is not, the fault is real (run Text).

`Links` does not hold under `setText`: a block taken from the middle of the list is
cut, and its old successor goes on naming it (heap.cpp:119). What `TInv` knows instead
is where the blocks are. The string is the first block. Behind it is the *seat*: the
object is there or, under the first text, the pixels are and the object right behind
them (`Seated`). Every pixel block that is deleted looks back at a block in use
(`LooksAtUsed`), by a link that may be wrong, so `free()` does not merge it back. The
object alone merges back, only from behind the seat, and the links between those two
are right (`Mirrored`), so that `merge(Previous)` does what `merge(Next)` of its
neighbour would (`MergeBack`), which `MergeKeepsHeld` covers. Merges ahead stop at the
new pixels, and the next object gets the seat again: it is free, big enough and first
in the list (`SeatServes`, from `FirstFit`). `TInv` gives each place of the client one stage
(`NoText` to `NewObject`), and each lemma that ends in `Keeps` or `Step` takes one
action from stage to stage. The temporary string has no such invariant, since it frees
the first block while the text stays: the run TextTemporary.

For all keys, lines and faults that `KernelAssumption` allows: `KernelTypes`,
`KernelDispatch`, `KernelInService`, `KernelGameReady`, `KernelKeyEdge`,
`KernelFaultStops`, `KernelKeysFollow`, `KernelJustPressed`. The inductive
invariant `KInv` adds `Stages`, what the boot has set up by each step (the gates
before `lidt`, the mask before `sti`, the game before its handlers), and `Shape`,
the four forms of the stack with the lines in service that belong to each. For the
last two theorems `QInv` follows the bytes from the controller into the handler's
hand: applied to the key states they give the keyboard, and each knows whether it
repeats its predecessor. Lemmas say what `StateAfter` does when a byte is appended
to the queue or taken from it.

* **StringProofs**, for every memory, character set and length, 0 included:
  `NeverReadsBehind` (`ReadsInside`), `LengthCorrect`, `FillCorrect`, `CopyCorrect`, `CompareCorrect`, which together are
  `CallsAlwaysRight`. One conjunct of
  `CallInv` per function is its loop invariant: what has been written, copied or
  compared so far. That of the copies says that what is still to be read is as it was
  at the call, which is where a target below its source is needed.
  Of strings, for every text, character set and capacity step from 2 on:
  `NeverBehind`, `AlwaysTerminated`, `AlwaysPlaced`, `ReaderAlwaysSees`, together
  `StringsAlwaysHold`, for both constructors and any number of pushes. They rest on
  `Grown`, so on a `realloc` that may write a header anywhere over the text, and not on
  one that keeps it. `LiveInv` adds the arithmetic of the sizes (`LiveNumbers`): two bytes
  per push from where the constructor left off, never more than the buffer. `PushWrites`
  says what a push leaves of the buffer, and `PlacesBefore` that no character put in has
  its place where the next push writes.
* **TextureProofs**, for any number of textures, blocks, files and sizes:
  `NeverDeletesDead` and `NeverShares`, and `PixelsInReach` if all files are bitmaps
  (for the font's format the run TextureFont refutes it), together `PixelsAlwaysSafe`;
  `OwnersNeverLose` and `PixelsAlwaysShown`, together `PixelsAlwaysKept`. `TextureInv`
  adds that a texture over a block has a live one of its size, from offset 0
  (`AllSeated`), and that no two textures have the same (`Apart`).
* **TextLayoutProofs**, for every text and font: `GlyphsAlwaysFit`. `MeasureInv` and
  `CopyInv` relate `width` to the longest line of any prefix and `height` and `y` to the
  number of newlines so far; the second loop walks the same lines as the first.
  `TextAlwaysShown`, for fonts of 128 glyphs and more, since `char` is signed; that reads
  stay inside the font is shown of characters 32 to 159 and of no others. `ShownInv` says that every row read is of its character's cell, and that what has
  been copied of the current line stands, whatever of the line above it has covered.
* **MachineProofs**. For every log, message, divisor left by the boot loader and number
  of panics: `LogArrives`, `StaysConfigured`, `TestByteStaysInside`, together
  `LogAlwaysSound`. `PortInv` adds the
  registers before each write of `init()` (`BootInv`), that a polled port is empty
  until the write (`PolledInv`), that the test byte waits only in loop-back
  (`TestInv`), and that a missing port keeps nothing.
  `HeapAlwaysPlaced`, for every memory map: `MapInv` says that the
  region kept so far is the largest of the usable entries read, with room for a header.
  `FormationAlwaysTurns` and `FramesShown`, for every number of columns, sizes, speed
  and screen; the first needs an odd number of rows, because every alien of a column at
  the border toggles the direction, and `FramesShown` also `Pitch = Width`, because
  `clearScreen` ignores the pitch. Lemmas say which cells `Cleared` and `Filled` write
  and where the aliens of a formation are relative to the first. Of the whole,
  `MachineTypesCorrect` and `PartsAlwaysHold`: the step of one part is a stutter of all
  others.
* **ConsoleProofs**. `TextureAlwaysDrawn`, for every screen, pitch, texture and
  position: `DrawInv` says that the rows up to `line` show what they should and the
  others nothing yet; what wraps at the top and is clipped at the right are its cases.
  `KeysAlwaysSound`, for every keyboard whose game keys have codes of their own and whose
  codes are below the count (`GameKeyboard`; the `% 128` of the handler lets others
  write behind the object): `KeysInv` says of every code what its state will be when
  the waiting bytes have been handled (`Settles`), down for a held key of the game and up
  for a code that no held key has. It is the last of a code's waiting bytes that counts,
  so a prefix or a key with the same code in between changes nothing for the game.
  `GameNeverDisturbed` needs no such hypothesis. `ConsoleTypesCorrect` for all parts.

The constants' assumptions are those of the machine and the boot loader: addresses and
sizes are below `Word`, which stands for 2^64, a header is smaller than the heap, the
player is no wider than the screen, and the files of textures have the lengths that
their headers say.

Only model-checked: liveness (`CallReturns`, `TickServed`, `Progress`), which is
outside the prover's reach. Every invariant and every action property of a passing run
is a theorem.

## What is not modelled

* Sizes near 2^64: `PassesOver` adds size and padding without the wrap of memory.cpp:94,
  and `realloc`'s comparison in 32 bits (memory.cpp:131) is one of plain numbers.
* `clearScreen` with a padded pitch and the player who has wrapped at the left border
  (invaders.cpp:128) are outside `FrameShows`, which takes the pitch for the width and a
  player beyond the border for one who is not on the screen.
* A serial port that is there and never becomes ready, at which `writeByte` waits for ever
  (serial.cpp:47): `WF(Shift)` excludes it.
* Keys with codes from 100 on are not in the instance of Console, since they write behind
  the object; `GameNeverDisturbed` covers them.
* `readByte`, `readUntil` and `writeBuffer` of the serial port, `keycodeToAscii` and
  `String::size`, which nothing calls or which have no body.
* The interpolation of `Texture::resize`, which writes its new block and changes no
  other state; bitmaps with negative heights, which the sizes of the code cannot
  express.
* The timer's rate and the millisecond counter; a tick is an action of `Kernel`.
* The GDT, which is loaded before anything else and never changes; Limine's own
  structures beyond the memory map and the framebuffer.
* `sprite.cpp`, which is empty, and the stubs that the C++ run time needs.

## Plan

1. Core (done): heap and its disciplines, boot and interrupts, game and frames,
   text over the heap; proofs for arena, stack and kernel.
2. Extend (done): the choice of the heap's region, byte and string functions, serial
   port, key codes, `drawTexture`, textures, text layout and strings; proofs for
   string functions, serial port, textures, layout and strings; the key states
   from a queue invariant.
3. Prove (done): the heap's region for every memory map, the game for every formation
   with an odd number of rows, drawing, text, key codes, the two compositions, and the
   heap under `setText` and `~Text`. Left: what of `Tiled` survives for callers of
   `malloc` and `realloc`, whose blocks are not always their own.
