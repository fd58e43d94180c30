------------------------------ MODULE CString ------------------------------
(***************************************************************************)
(* The byte and string functions of std/memory.cpp: memset, memcpy, strcpy,*)
(* strlen, strnlen, strcmp and strncmp.  One call on one memory, one turn  *)
(* of the function's loop per step.                                        *)
(***************************************************************************)
EXTENDS Integers

CONSTANTS
  Size,     \* addresses are 0 .. Size - 1
  Char,     \* values of unsigned char, of which 0 ends a string
  Lengths   \* lengths that callers pass

ASSUME CStringAssumption ==
  Size \in Nat /\ Char \subseteq Nat /\ 0 \in Char /\ Lengths \subseteq Nat

Addr == 0 .. Size - 1
Memory == [Addr -> Char]

VARIABLES
  mem,
  fn, a, b, n, v,  \* the call: function, first and second pointer, length, value
  i,               \* turns done, by which both pointers have moved on
  pc,              \* "run" or "done"
  result,
  old,             \* the memory when the call began
  seen             \* offsets that the call has read, from either pointer

call == <<fn, a, b, n, v, old>>
vars == <<mem, call, i, pc, result, seen>>

StringAt(p) == \E k \in Addr : p + k \in Addr /\ mem[p + k] = 0
BlockAt(p, size) == p + size <= Size

\* The most characters that a call looks at.  strnlen reads one before it tests
\* the length, strncmp compares one before it does; a length of 0 is no exception.
Reach ==
  CASE fn = "memcpy" -> n
    [] fn = "strnlen" -> n + 1
    [] fn = "strncmp" -> IF n = 0 THEN 1 ELSE n
    [] OTHER -> Size

\* A string ends, or is at least as long as what is looked at.
StringFor(p) == StringAt(p) \/ (fn \in {"strnlen", "strncmp"} /\ BlockAt(p, Reach))

\* Copying upwards is right when the target is not inside what is still to be
\* read; realloc depends on that when it moves a block down.
Copyable(size) == a <= b \/ a >= b + size

\* What a caller must vouch for.  For strnlen and strncmp it is one character more
\* than the length when that is 0 or no terminator comes before it.
Legal ==
  CASE fn = "memset" -> BlockAt(a, n)
    [] fn = "memcpy" -> BlockAt(a, n) /\ BlockAt(b, n) /\ Copyable(n)
    [] fn = "strcpy" -> \E k \in Addr : /\ BlockAt(a, k + 1) /\ b + k \in Addr
                                       /\ mem[b + k] = 0 /\ Copyable(k + 1)
    [] fn \in {"strlen", "strnlen"} -> StringFor(a)
    [] OTHER -> StringFor(a) /\ StringFor(b)

CStringInit ==
  /\ mem \in Memory /\ old = mem
  /\ fn \in {"memset", "memcpy", "strcpy", "strlen", "strnlen", "strcmp", "strncmp"}
  /\ a \in Addr /\ b \in Addr /\ n \in Lengths /\ v \in Char
  /\ Legal
  /\ i = 0 /\ pc = "run" /\ result = 0 /\ seen = {}

TurnForgets == i' = i /\ UNCHANGED <<pc, result>>
Turn == i' = i + 1 /\ UNCHANGED <<pc, result>>
Return(r) == pc' = "done" /\ result' = r /\ UNCHANGED i
Fetch == seen' = seen \cup {i}

MemsetTurnShort ==
  IF i + 1 < n THEN Turn /\ mem' = [mem EXCEPT ![a + i] = v] ELSE Return(a) /\ UNCHANGED mem
MemsetTurn ==
  IF i < n THEN Turn /\ mem' = [mem EXCEPT ![a + i] = v] ELSE Return(a) /\ UNCHANGED mem
Memset == pc = "run" /\ fn = "memset" /\ MemsetTurn /\ UNCHANGED <<call, seen>>

MemcpyTurnDown ==
  IF i < n THEN Turn /\ mem' = [mem EXCEPT ![a + n - 1 - i] = mem[b + n - 1 - i]] /\ Fetch
           ELSE Return(a) /\ UNCHANGED <<mem, seen>>
MemcpyTurn ==
  IF i < n THEN Turn /\ mem' = [mem EXCEPT ![a + i] = mem[b + i]] /\ Fetch
           ELSE Return(a) /\ UNCHANGED <<mem, seen>>
Memcpy == pc = "run" /\ fn = "memcpy" /\ MemcpyTurn /\ UNCHANGED call

\* The terminator is copied before the loop sees it.
Strcpy ==
  /\ pc = "run" /\ fn = "strcpy"
  /\ mem' = [mem EXCEPT ![a + i] = mem[b + i]]
  /\ IF mem[b + i] # 0 THEN Turn ELSE Return(a)
  /\ Fetch /\ UNCHANGED call

\* The character is read before the length is tested.
CountsOnShort == mem[a + i] # 0 /\ (fn = "strnlen" => i + 1 < n)
CountsOn == mem[a + i] # 0 /\ (fn = "strnlen" => i < n)
Count ==
  /\ pc = "run" /\ fn \in {"strlen", "strnlen"}
  /\ IF CountsOn THEN Turn ELSE Return(i)
  /\ Fetch /\ UNCHANGED <<mem, call>>

\* c1 - c2 as unsigned char, promoted to int.
Signed(x) == IF x >= 2 THEN x - 4 ELSE x  \* a char of two bits, for the mutant
DifferenceSigned(x, y) == Signed(x) - Signed(y)
Difference(x, y) == x - y
ComparesOnEqual == mem[a + i] = mem[b + i] /\ (fn = "strncmp" => i + 1 < n)
ComparesOnOneMore ==
  /\ mem[a + i] # 0 /\ mem[a + i] = mem[b + i]
  /\ fn = "strncmp" => i < n
ComparesOn ==
  /\ mem[a + i] # 0 /\ mem[a + i] = mem[b + i]
  /\ fn = "strncmp" => i + 1 < n
Compare ==
  /\ pc = "run" /\ fn \in {"strcmp", "strncmp"}
  /\ IF ComparesOn THEN Turn ELSE Return(Difference(mem[a + i], mem[b + i]))
  /\ Fetch /\ UNCHANGED <<mem, call>>

CStringNext == Memset \/ Memcpy \/ Strcpy \/ Count \/ Compare
CStringSpec == CStringInit /\ [][CStringNext]_vars /\ WF_vars(CStringNext)

-----------------------------------------------------------------------------
\* The variables have their types.
CStringTypeOK ==
  /\ mem \in Memory /\ old \in Memory
  /\ a \in Addr /\ b \in Addr /\ n \in Lengths /\ v \in Char
  /\ i \in Nat /\ pc \in {"run", "done"} /\ result \in Int
  /\ pc = "done" /\ fn \in {"memset", "memcpy", "strcpy"} => result \in Addr

\* The characters of p before offset k belong to its string.
Inside(p, k) == \A j \in 0 .. k - 1 : old[p + j] # 0

\* Where a function reads.
Sources ==
  CASE fn \in {"memcpy", "strcpy"} -> {b}
    [] fn \in {"strlen", "strnlen"} -> {a}
    [] fn \in {"strcmp", "strncmp"} -> {a, b}
    [] OTHER -> {}

\* No function reads outside the memory or behind what its length reaches, and no
\* function of strings behind a terminator, of either string, also when one string
\* is the beginning of the other and when the string has no terminator at all.
ReadsInside ==
  \A k \in seen, p \in Sources :
    /\ p + k \in Addr /\ k < Reach
    /\ fn # "memcpy" => Inside(p, k)

\* strlen is the distance to the first terminator, strnlen that or n.
LengthIs ==
  pc = "done" /\ fn \in {"strlen", "strnlen"} =>
    /\ Inside(a, result)
    /\ old[a + result] = 0 \/ (fn = "strnlen" /\ result = n)
    /\ fn = "strnlen" => result <= n

\* The first character of those compared in which the strings differ.
Differ(k) ==
  /\ k < Reach /\ a + k \in Addr /\ b + k \in Addr
  /\ \A j \in 0 .. k - 1 : old[a + j] = old[b + j] /\ old[a + j] # 0
  /\ old[a + k] # old[b + k]

\* strcmp and strncmp return the difference of the first characters that differ, as
\* unsigned numbers, and 0 if there are none among those compared.
CompareIs ==
  pc = "done" /\ fn \in {"strcmp", "strncmp"} =>
    IF \E k \in Addr : Differ(k)
      THEN \E k \in Addr : Differ(k) /\ result = old[a + k] - old[b + k]
      ELSE result = 0

\* What memcpy and strcpy leave at the target is what the source held when the
\* call began, also where the two overlap, and no other byte changes.
CopyIs ==
  pc = "done" /\ fn \in {"memcpy", "strcpy"} =>
    \E size \in 0 .. Size :
      /\ BlockAt(a, size) /\ BlockAt(b, size)
      /\ fn = "memcpy" => size = n
      /\ fn = "strcpy" => size > 0 /\ old[b + size - 1] = 0 /\ Inside(b, size - 1)
      /\ \A x \in Addr :
           mem[x] = IF x \in a .. a + size - 1 THEN old[x - a + b] ELSE old[x]

\* memset fills exactly its block.
FillIs ==
  pc = "done" /\ fn = "memset" =>
    \A x \in Addr : mem[x] = IF x \in a .. a + n - 1 THEN v ELSE old[x]

\* Each function gives the result, writes the bytes and reads no more than the
\* bytes stated above.  In two places that is not what std/memory.hpp says: strncmp
\* accesses a value beyond a length of 0 (line 45), and both comparisons return the
\* difference where -1 or 1 is promised (lines 49 and 58).
CallsRight == ReadsInside /\ LengthIs /\ CompareIs /\ CopyIs /\ FillIs

\* Every call returns: strcpy never overwrites the terminator it runs to.
Returns == <>(pc = "done")
=============================================================================
