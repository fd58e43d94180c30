----------------------------- MODULE StdString -----------------------------
(***************************************************************************)
(* std::string of std/string.cpp: its buffer, size and capacity through    *)
(* both constructors, push_back and the destructor.                        *)
(*                                                                         *)
(* The heap is seen from its caller: operator new gives a buffer with      *)
(* anything in it; realloc gives null, or a larger buffer in which it may  *)
(* have written a header over the old bytes (run Realloc).  What new does  *)
(* without memory is in TextClient, and that malloc lets others have what  *)
(* realloc got from it in HeapClients (run Malloc).                        *)
(***************************************************************************)
EXTENDS Integers, Sequences

CONSTANTS
  Letters,       \* characters, not the terminator
  Step,          \* STD_STRING_CAPACITY_STEP
  BlockHeader,   \* sizeof(BlockHeader)
  MaxLength,     \* bound on the text of a string
  ReallocFails,  \* whether the heap may be exhausted
  Terminator,
  Anything       \* what a byte of new memory or of a header holds

ASSUME StdStringAssumption ==
  /\ Step \in Nat /\ Step >= 2 /\ BlockHeader \in Nat /\ MaxLength \in Nat /\ ReallocFails \in BOOLEAN
  /\ Terminator \notin Letters /\ Anything \notin Letters /\ Terminator # Anything

VARIABLES
  buffer,         \* what m_data points to, from 0 on
  size,           \* m_size
  allocatedSize,  \* m_allocatedSize
  state,          \* "none", "live", "null" after a write through null, "gone"
  faults,         \* a byte has been written outside the buffer
  text,           \* what callers have put into the string
  pushes,         \* how much of it by push_back
  counted         \* it was made by string(char, count)

stringVars == <<buffer, size, allocatedSize, state, faults, text, pushes, counted>>

StringInit ==
  /\ buffer = [k \in {} |-> Anything] /\ size = 0 /\ allocatedSize = 0
  /\ state = "none" /\ faults = FALSE /\ text = <<>> /\ pushes = 0 /\ counted = FALSE

Capacity(n) == ((n \div Step) + 1) * Step

\* Both constructors leave the characters and a terminator behind them.
Construct(str, counts) ==
  /\ state = "none" /\ state' = "live"
  /\ size' = Len(str) + (IF counts THEN 1 ELSE 0)
  /\ allocatedSize' = Capacity(size')
  /\ buffer' = [k \in 0 .. allocatedSize' - 1 |->
                  IF k < Len(str) THEN str[k + 1] ELSE IF k = Len(str) THEN Terminator ELSE Anything]
  /\ faults' = (Len(str) >= allocatedSize')
  /\ text' = str /\ counted' = counts /\ UNCHANGED pushes

FromCString(str) == Construct(str, FALSE)

\* string(char, count) counts the terminator in m_size.
FromCharacter(ch, count) == Construct([k \in 1 .. count |-> ch], TRUE)

FullForOne == size + 1 > allocatedSize
Full == size + 2 > allocatedSize

\* realloc by one step.  Where it moves the bytes down onto a free block of
\* `before` bytes, it splits the joined block first: the header that this writes
\* ends `before` bytes short of the new size, counted from where the bytes were.
\* Nothing is hit in place, or when `before` is the new size or more.
Overwritten(before) == allocatedSize + Step - before - BlockHeader .. allocatedSize + Step - before - 1
Grown(before) ==
  [k \in 0 .. allocatedSize + Step - 1 |->
     IF k < allocatedSize /\ k \notin Overwritten(before) THEN buffer[k] ELSE Anything]

\* The terminator is counted as well, so that the next character goes behind it.
WithCharOnly(b, ch) == [b EXCEPT ![size] = ch]
WithCharOver(b, ch) == [b EXCEPT ![size] = Terminator]
WithChar(b, ch) == [b EXCEPT ![size] = ch, ![size + 1] = Terminator]

Pushed(ch) ==
  /\ state = "live" /\ Len(text) < MaxLength
  /\ text' = Append(text, ch) /\ pushes' = pushes + 1 /\ size' = size + 2
  /\ UNCHANGED counted

PushBack(ch) ==
  /\ Pushed(ch) /\ UNCHANGED state
  /\ IF Full THEN /\ allocatedSize' = allocatedSize + Step
                  /\ \E before \in 0 .. allocatedSize' : buffer' = WithChar(Grown(before), ch)
             ELSE UNCHANGED allocatedSize /\ buffer' = WithChar(buffer, ch)
  /\ faults' = (faults \/ size + 1 >= allocatedSize')

\* What realloc returned is not tested: the character is written through null.
PushBackNoMemory(ch) ==
  /\ Pushed(ch) /\ Full /\ ReallocFails
  /\ allocatedSize' = allocatedSize + Step
  /\ state' = "null" /\ faults' = TRUE /\ UNCHANGED buffer

Destroy ==
  /\ state = "live" /\ state' = "gone"
  /\ UNCHANGED <<buffer, size, allocatedSize, faults, text, pushes, counted>>

StringNext ==
  \/ \E n \in 0 .. MaxLength : \E str \in [1 .. n -> Letters] : FromCString(str)
  \/ \E n \in 0 .. MaxLength, ch \in Letters : FromCharacter(ch, n)
  \/ \E ch \in Letters : PushBack(ch) \/ PushBackNoMemory(ch)
  \/ Destroy
StringSpec == StringInit /\ [][StringNext]_stringVars

-----------------------------------------------------------------------------
\* The variables have their types, and the buffer has the size that is kept for it.
StringTypeOK ==
  /\ size \in Nat /\ allocatedSize \in Nat /\ pushes \in Nat
  /\ state \in {"none", "live", "null", "gone"} /\ faults \in BOOLEAN /\ counted \in BOOLEAN
  /\ text \in Seq(Letters)
  /\ state = "live" => buffer \in [0 .. allocatedSize - 1 -> Letters \cup {Terminator, Anything}]

\* As long as the heap has memory, constructors and push_back never write behind
\* the buffer, whatever the lengths and however often the string grows.
InBounds == state # "null" => ~faults

\* c_str() ends inside the buffer.
Terminated == state = "live" => \E k \in 0 .. allocatedSize - 1 : k <= size /\ buffer[k] = Terminator

\* The characters from the constructor, the m_size it left, and whether the buffer
\* has been through realloc since.
Made == Len(text) - pushes
Start == Made + (IF counted THEN 1 ELSE 0)
Grew == allocatedSize > Capacity(Start)

\* Where the k-th character put in belongs: those of the constructor side by side,
\* each one pushed with the terminator that came with the one before it in between.
Place(k) == IF k <= Made THEN k - 1 ELSE Start + 2 * (k - Made - 1)

\* However long the string grows, a character stays where it was put until a
\* realloc writes over it, no other one takes its place, and the last one is there.
Placed ==
  state = "live" =>
    /\ \A k \in 1 .. Len(text) :
         buffer[Place(k)] = text[k] \/ (Grew /\ buffer[Place(k)] = Anything)
    /\ pushes > 0 => Place(Len(text)) = size - 2 /\ buffer[size - 2] = text[Len(text)]

\* What a reader of c_str() sees is what was constructed and of all that push_back
\* adds at most the first character, and this only behind a C string: the others
\* stand behind a terminator.  std/string.hpp:38 says of all of them that they come
\* to the end of the string.
Readable == IF pushes = 0 \/ counted THEN Made ELSE Made + 1
ReaderSees ==
  state = "live" /\ ~Grew =>
    /\ Readable \in DOMAIN buffer /\ buffer[Readable] = Terminator
    /\ \A k \in 1 .. Readable : buffer[k - 1] = text[k]

\* A string stays in its buffer, ends there, and holds and shows what is said above
\* of what was put in.
StringHolds == InBounds /\ Terminated /\ Placed /\ ReaderSees
=============================================================================
