---------------------------- MODULE StringProofs ----------------------------
(***************************************************************************)
(* Theorems about the byte and string functions of CString, for every count *)
(* of the memory, every set of characters and every length, and about the  *)
(* strings of StdString, for every capacity step of at least two and       *)
(* strings of any length.                                                  *)
(***************************************************************************)
EXTENDS CString, StdString, TLAPS

-----------------------------------------------------------------------------
(* CString.  What the loops keep true says, for each function, how far it  *)
(* has come after i turns.                                                 *)

Counting == {"strlen", "strnlen"}
Comparing == {"strcmp", "strncmp"}
Functions == {"memset", "memcpy", "strcpy"} \cup Counting \cup Comparing

CallTypes ==
  /\ Size \in Nat /\ Char \subseteq Nat /\ Lengths \subseteq Nat
  /\ mem \in Memory /\ old \in Memory
  /\ fn \in Functions /\ a \in Addr /\ b \in Addr /\ n \in Lengths /\ v \in Char
  /\ i \in Nat /\ pc \in {"run", "done"} /\ result \in Int

\* What the callers promise, of the memory that they passed.
EndsAt(p, e) == p + e \in Addr /\ old[p + e] = 0
StringGiven(p) ==
  \/ \E e \in Addr : EndsAt(p, e)
  \/ fn \in {"strnlen", "strncmp"} /\ BlockAt(p, Reach)

FilledTo(m) == \A x \in Addr : mem[x] = IF x \in a .. a + m - 1 THEN v ELSE old[x]
CopiedTo(m) == \A x \in Addr : mem[x] = IF x \in a .. a + m - 1 THEN old[x - a + b] ELSE old[x]
CopiesTo(m) == \A x \in Addr : mem'[x] = IF x \in a .. a + m - 1 THEN old[x - a + b] ELSE old[x]

MemsetInv ==
  fn = "memset" =>
    /\ BlockAt(a, n) /\ i <= n /\ FilledTo(i)
    /\ pc = "done" => i = n /\ result = a

MemcpyInv ==
  fn = "memcpy" =>
    /\ BlockAt(a, n) /\ BlockAt(b, n) /\ Copyable(n) /\ i <= n /\ CopiedTo(i)
    /\ pc = "done" => i = n /\ result = a

StrcpyInv ==
  fn = "strcpy" =>
    /\ \E e \in Addr : BlockAt(a, e + 1) /\ EndsAt(b, e) /\ Copyable(e + 1)
    /\ Inside(b, i)
    /\ pc = "run" => CopiedTo(i)
    /\ pc = "done" => CopiedTo(i + 1) /\ EndsAt(b, i) /\ BlockAt(a, i + 1) /\ result = a

CountInv ==
  fn \in Counting =>
    /\ mem = old /\ StringGiven(a) /\ Inside(a, i) /\ (fn = "strnlen" => i <= n)
    /\ pc = "done" => result = i /\ (old[a + i] = 0 \/ (fn = "strnlen" /\ i = n))

\* The first m characters agree and are none of them a terminator.
Agree(m) == \A k \in 0 .. m - 1 : old[a + k] = old[b + k] /\ old[a + k] # 0

CompareInv ==
  fn \in Comparing =>
    /\ mem = old /\ StringGiven(a) /\ StringGiven(b) /\ Agree(i)
    /\ fn = "strncmp" => i = 0 \/ i < n
    /\ pc = "done" =>
         /\ result = old[a + i] - old[b + i]
         /\ \/ old[a + i] = 0 \/ old[a + i] # old[b + i]
            \/ fn = "strncmp" /\ i + 1 >= n

SeenInv ==
  /\ seen \subseteq Nat
  /\ \A k \in seen : k <= i /\ (pc = "run" \/ fn = "memcpy" => k < i)

CallInv == CallTypes /\ MemsetInv /\ MemcpyInv /\ StrcpyInv /\ CountInv /\ CompareInv /\ SeenInv

-----------------------------------------------------------------------------
\* How far each function looks.
LEMMA ReachOf ==
  ASSUME CallTypes
  PROVE  /\ fn = "memcpy" => Reach = n
         /\ fn = "strnlen" => Reach = n + 1
         /\ fn = "strncmp" => Reach = IF n = 0 THEN 1 ELSE n
         /\ fn \in {"strcpy", "strlen", "strcmp"} => Reach = Size
BY DEF Reach

\* A string ends behind every offset up to which it has no terminator, or has as
\* many characters as are looked at.
LEMMA OffsetInside ==
  ASSUME CallTypes, NEW p \in Addr, StringGiven(p), NEW k \in Nat, Inside(p, k),
         fn \in {"strnlen", "strncmp"} => k < Reach
  PROVE  p + k \in Addr
<1>1. Reach \in Nat
  BY ReachOf DEF CallTypes, Functions, Counting, Comparing, Reach
<1>2. CASE \E e \in Addr : EndsAt(p, e)
  BY <1>2 DEF CallTypes, EndsAt, Inside, Addr
<1>3. CASE fn \in {"strnlen", "strncmp"} /\ BlockAt(p, Reach)
  BY <1>1, <1>3 DEF CallTypes, BlockAt, Addr
<1> QED BY <1>2, <1>3 DEF StringGiven

\* Characters that agree make both strings as long.
LEMMA AgreeInside ==
  ASSUME NEW m \in Nat, Agree(m)
  PROVE  Inside(a, m) /\ Inside(b, m)
BY DEF Agree, Inside

LEMMA CallInitInv == CStringInit => CallInv
<1> SUFFICES ASSUME CStringInit PROVE CallInv
  OBVIOUS
<1> USE CStringAssumption
<1>1. CallTypes /\ mem = old /\ SeenInv
  BY DEF CStringInit, CallTypes, Functions, Counting, Comparing, Memory, SeenInv
<1>2. MemsetInv
  BY <1>1 DEF CStringInit, MemsetInv, Legal, FilledTo, CallTypes, Addr
<1>3. MemcpyInv
  BY <1>1 DEF CStringInit, MemcpyInv, Legal, CopiedTo, CallTypes, Addr
<1>4. StrcpyInv
  BY <1>1 DEF CStringInit, StrcpyInv, Legal, CopiedTo, CallTypes, Addr, Inside, EndsAt
<1>5. CountInv
  BY <1>1 DEF CStringInit, CountInv, Legal, StringFor, StringAt, StringGiven, EndsAt, CallTypes, Addr, Inside, Counting
<1>6. CompareInv
  BY <1>1 DEF CStringInit, CompareInv, Legal, StringFor, StringAt, StringGiven, EndsAt, CallTypes, Addr, Agree, Comparing
<1> QED BY <1>1, <1>2, <1>3, <1>4, <1>5, <1>6 DEF CallInv

-----------------------------------------------------------------------------
\* A copied byte still holds what it held at the call: the target is not inside
\* what is still to be read.
LEMMA SourceUntouched ==
  ASSUME CallTypes, NEW count \in Nat, Copyable(count), i < count, CopiedTo(i), BlockAt(b, count)
  PROVE  b + i \in Addr /\ mem[b + i] = old[b + i]
BY DEF CallTypes, Copyable, CopiedTo, BlockAt, Addr, Memory

\* One more byte is copied.
LEMMA CopiesOneMore ==
  ASSUME CallTypes, CopiedTo(i), a + i \in Addr, b + i \in Addr,
         mem' = [mem EXCEPT ![a + i] = old[b + i]]
  PROVE  CopiesTo(i + 1) /\ mem' \in Memory
<1>1. i \in Nat /\ a \in Int /\ b \in Int /\ mem \in [Addr -> Char] /\ old \in [Addr -> Char]
  BY DEF CallTypes, Addr, Memory
<1>2. ASSUME NEW x \in Addr
      PROVE  mem'[x] = IF x \in a .. a + (i + 1) - 1 THEN old[x - a + b] ELSE old[x]
  <2>1. x \in Int
    BY DEF Addr, CallTypes
  <2>2. CASE x = a + i
    <3>1. x - a + b = b + i /\ x \in a .. a + (i + 1) - 1
      BY <1>1, <2>1, <2>2
    <3>2. mem'[x] = old[b + i]
      BY <1>1, <2>2
    <3> QED BY <3>1, <3>2
  <2>3. CASE x # a + i
    <3>1. x \in a .. a + (i + 1) - 1 <=> x \in a .. a + i - 1
      BY <1>1, <2>1, <2>3
    <3>2. mem'[x] = mem[x]
      BY <1>1, <2>3
    <3> QED BY <3>1, <3>2 DEF CopiedTo
  <2> QED BY <2>2, <2>3
<1>3. mem' \in Memory
  BY <1>1 DEF Memory
<1> QED BY <1>2, <1>3 DEF CopiesTo

LEMMA MemsetStep == CallInv /\ Memset => CallInv'
<1> SUFFICES ASSUME CallInv, Memset PROVE CallInv'
  OBVIOUS
<1> USE DEF Memset, MemsetTurn, call
<1>1. fn = "memset" /\ MemsetInv /\ CallTypes /\ SeenInv
  BY DEF CallInv
<1>2. n \in Nat
  BY <1>1 DEF CallTypes
<1>3. CASE i < n
  <2>1. a + i \in Addr /\ mem' \in Memory /\ i' = i + 1 /\ pc' = "run"
    BY <1>1, <1>2, <1>3 DEF CallTypes, MemsetInv, BlockAt, Addr, Memory, Turn
  <2>2. CallTypes' /\ SeenInv'
    BY <1>1, <1>3, <2>1 DEF CallTypes, SeenInv, Turn
  <2>3. MemsetInv'
    BY <1>1, <1>2, <1>3, <2>1 DEF CallTypes, MemsetInv, FilledTo, BlockAt, Addr, Memory
  <2> QED BY <1>1, <2>2, <2>3 DEF CallInv, MemcpyInv, StrcpyInv, CountInv, CompareInv, Counting, Comparing
<1>4. CASE ~(i < n)
  <2>1. CallTypes' /\ SeenInv'
    BY <1>1, <1>4 DEF CallTypes, SeenInv, Return, Addr
  <2>2. MemsetInv'
    BY <1>1, <1>2, <1>4 DEF CallTypes, MemsetInv, FilledTo, BlockAt, Return
  <2> QED BY <1>1, <2>1, <2>2 DEF CallInv, MemcpyInv, StrcpyInv, CountInv, CompareInv, Counting, Comparing
<1> QED BY <1>3, <1>4

LEMMA MemcpyStep == CallInv /\ Memcpy => CallInv'
<1> SUFFICES ASSUME CallInv, Memcpy PROVE CallInv'
  OBVIOUS
<1> USE DEF Memcpy, MemcpyTurn, call
<1>1. fn = "memcpy" /\ MemcpyInv /\ CallTypes /\ SeenInv
  BY DEF CallInv
<1>2. n \in Nat
  BY <1>1 DEF CallTypes
<1>3. CASE i < n
  <2>1. b + i \in Addr /\ mem[b + i] = old[b + i]
    BY <1>1, <1>2, <1>3, SourceUntouched DEF MemcpyInv
  <2>2. a + i \in Addr /\ i' = i + 1 /\ pc' = "run"
    BY <1>1, <1>2, <1>3 DEF CallTypes, MemcpyInv, BlockAt, Addr, Turn
  <2>3. CopiesTo(i + 1) /\ mem' \in Memory
    BY <1>1, <1>3, <2>1, <2>2, CopiesOneMore DEF MemcpyInv
  <2>4. CallTypes' /\ SeenInv'
    BY <1>1, <1>3, <2>2, <2>3 DEF CallTypes, SeenInv, Turn, Fetch
  <2>5. MemcpyInv'
    BY <1>1, <1>2, <1>3, <2>2, <2>3 DEF CallTypes, MemcpyInv, CopiedTo, CopiesTo, Copyable, BlockAt
  <2> QED BY <1>1, <2>4, <2>5 DEF CallInv, MemsetInv, StrcpyInv, CountInv, CompareInv, Counting, Comparing
<1>4. CASE ~(i < n)
  <2>1. CallTypes' /\ SeenInv'
    BY <1>1, <1>4 DEF CallTypes, SeenInv, Return, Addr
  <2>2. MemcpyInv'
    BY <1>1, <1>2, <1>4 DEF CallTypes, MemcpyInv, CopiedTo, Copyable, BlockAt, Return
  <2> QED BY <1>1, <2>1, <2>2 DEF CallInv, MemsetInv, StrcpyInv, CountInv, CompareInv, Counting, Comparing
<1> QED BY <1>3, <1>4

LEMMA StrcpyStep == CallInv /\ Strcpy => CallInv'
<1> SUFFICES ASSUME CallInv, Strcpy PROVE CallInv'
  OBVIOUS
<1> USE DEF Strcpy, call
<1>1. fn = "strcpy" /\ pc = "run" /\ StrcpyInv /\ CallTypes /\ SeenInv
  BY DEF CallInv
<1>2. PICK e \in Addr : BlockAt(a, e + 1) /\ EndsAt(b, e) /\ Copyable(e + 1)
  BY <1>1 DEF StrcpyInv
<1>3. i <= e /\ BlockAt(b, e + 1) /\ e + 1 \in Nat /\ Inside(b, i) /\ CopiedTo(i)
  BY <1>1, <1>2 DEF StrcpyInv, Inside, EndsAt, BlockAt, CallTypes, Addr
<1>4. b + i \in Addr /\ mem[b + i] = old[b + i]
  BY <1>1, <1>2, <1>3, SourceUntouched DEF CallTypes, Addr
<1>5. a + i \in Addr
  BY <1>1, <1>2, <1>3 DEF CallTypes, BlockAt, Addr
<1>6. CopiesTo(i + 1) /\ mem' \in Memory
  BY <1>1, <1>3, <1>4, <1>5, CopiesOneMore
<1>7. \E d \in Addr : BlockAt(a, d + 1)' /\ EndsAt(b, d)' /\ Copyable(d + 1)'
  BY <1>2 DEF BlockAt, EndsAt, Copyable
<1>8. CASE mem[b + i] # 0
  <2>1. i' = i + 1 /\ pc' = "run" /\ UNCHANGED result
    BY <1>8 DEF Turn
  <2>2. CallTypes' /\ SeenInv'
    BY <1>1, <1>6, <2>1 DEF CallTypes, SeenInv, Fetch
  <2>3. Inside(b, i)'
    BY <1>1, <1>3, <1>4, <1>8, <2>1 DEF Inside, CallTypes
  <2>4. StrcpyInv'
    BY <1>6, <1>7, <2>1, <2>3 DEF StrcpyInv, CopiedTo, CopiesTo
  <2> QED BY <1>1, <2>2, <2>4 DEF CallInv, MemsetInv, MemcpyInv, CountInv, CompareInv, Counting, Comparing
<1>9. CASE mem[b + i] = 0
  <2>1. i' = i /\ pc' = "done" /\ result' = a
    BY <1>9 DEF Return
  <2>2. CallTypes' /\ SeenInv'
    BY <1>1, <1>6, <2>1 DEF CallTypes, SeenInv, Fetch, Addr
  <2>3. /\ EndsAt(b, i)' /\ Inside(b, i)'
        /\ BlockAt(a, i + 1)'
    <3>1. b' = b /\ a' = a /\ old' = old
      OBVIOUS
    <3>2. EndsAt(b, i)' /\ Inside(b, i)'
      BY <1>3, <1>4, <1>9, <2>1, <3>1 DEF EndsAt, Inside
    <3>3. BlockAt(a, i + 1)'
      BY <1>1, <1>5, <2>1, <3>1 DEF BlockAt, CallTypes, Addr
    <3> QED BY <3>2, <3>3
  <2>4. StrcpyInv'
    BY <1>6, <1>7, <2>1, <2>3 DEF StrcpyInv, CopiedTo, CopiesTo
  <2> QED BY <1>1, <2>2, <2>4 DEF CallInv, MemsetInv, MemcpyInv, CountInv, CompareInv, Counting, Comparing
<1> QED BY <1>8, <1>9

LEMMA CountStep == CallInv /\ Count => CallInv'
<1> SUFFICES ASSUME CallInv, Count PROVE CallInv'
  OBVIOUS
<1> USE DEF Count, call
<1>1. fn \in Counting /\ CountInv /\ CallTypes /\ SeenInv
  BY DEF CallInv, Counting
<1>2. n \in Nat /\ mem = old /\ StringGiven(a) /\ Inside(a, i)
  BY <1>1 DEF CallTypes, CountInv
<1>0. a + i \in Addr
  <2>1. fn \in {"strnlen", "strncmp"} => i < Reach
    BY <1>1, <1>2, ReachOf DEF CallTypes, CountInv, Counting
  <2> QED BY <1>1, <1>2, <2>1, OffsetInside DEF CallTypes
<1>a. StringGiven(a)'
  BY <1>2 DEF StringGiven, EndsAt, BlockAt, Reach
<1>3. CASE CountsOn
  <2>1. i' = i + 1 /\ UNCHANGED <<pc, result, mem>>
    BY <1>3 DEF Turn
  <2>2. CallTypes' /\ SeenInv'
    BY <1>1, <2>1 DEF CallTypes, SeenInv, Fetch
  <2>3. Inside(a, i)' /\ (fn = "strnlen" => i + 1 <= n)
    BY <1>1, <1>2, <1>3, <2>1 DEF Inside, CallTypes, CountsOn
  <2>4. CountInv'
    BY <1>1, <1>2, <1>a, <2>1, <2>3 DEF CountInv, Inside, CallTypes
  <2> QED BY <1>1, <2>2, <2>4 DEF CallInv, MemsetInv, MemcpyInv, StrcpyInv, CompareInv, Counting, Comparing
<1>4. CASE ~CountsOn
  <2>1. i' = i /\ pc' = "done" /\ result' = i /\ UNCHANGED mem
    BY <1>4 DEF Return
  <2>2. CallTypes' /\ SeenInv'
    BY <1>1, <2>1 DEF CallTypes, SeenInv, Fetch
  <2>3. old[a + i] = 0 \/ (fn = "strnlen" /\ i = n)
    BY <1>1, <1>2, <1>4 DEF CountsOn, CountInv, CallTypes
  <2>4. CountInv'
    BY <1>1, <1>2, <1>a, <2>1, <2>3 DEF CountInv, Inside
  <2> QED BY <1>1, <2>2, <2>4 DEF CallInv, MemsetInv, MemcpyInv, StrcpyInv, CompareInv, Counting, Comparing
<1> QED BY <1>3, <1>4

LEMMA CompareStep == CallInv /\ Compare => CallInv'
<1> SUFFICES ASSUME CallInv, Compare PROVE CallInv'
  OBVIOUS
<1> USE DEF Compare, call
<1>1. fn \in Comparing /\ CompareInv /\ CallTypes /\ SeenInv
  BY DEF CallInv, Comparing
<1>2. n \in Nat /\ mem = old /\ StringGiven(a) /\ StringGiven(b) /\ Agree(i)
  BY <1>1 DEF CallTypes, CompareInv
<1>3. a + i \in Addr /\ b + i \in Addr
  <2>1. fn \in {"strnlen", "strncmp"} => i < Reach
    BY <1>1, <1>2, ReachOf DEF CallTypes, CompareInv, Comparing
  <2> QED BY <1>1, <1>2, <2>1, AgreeInside, OffsetInside DEF CallTypes
<1>a. StringGiven(a)' /\ StringGiven(b)'
  BY <1>2 DEF StringGiven, EndsAt, BlockAt, Reach
<1>4. CASE ComparesOn
  <2>1. i' = i + 1 /\ UNCHANGED <<pc, result, mem>>
    BY <1>4 DEF Turn
  <2>2. CallTypes' /\ SeenInv'
    BY <1>1, <2>1 DEF CallTypes, SeenInv, Fetch
  <2>3. Agree(i)' /\ (fn = "strncmp" => i + 1 < n)
    BY <1>1, <1>2, <1>4, <2>1 DEF Agree, CallTypes, ComparesOn
  <2>4. CompareInv'
    BY <1>1, <1>2, <1>a, <2>1, <2>3 DEF CompareInv, Agree, CallTypes
  <2> QED BY <1>1, <2>2, <2>4 DEF CallInv, MemsetInv, MemcpyInv, StrcpyInv, CountInv, Counting, Comparing
<1>5. CASE ~ComparesOn
  <2>1. /\ i' = i /\ pc' = "done" /\ UNCHANGED mem
        /\ result' = old[a + i] - old[b + i]
    BY <1>2, <1>5 DEF Return, Difference
  <2>2. old[a + i] \in Nat /\ old[b + i] \in Nat
    BY <1>1, <1>3 DEF CallTypes, Memory
  <2>3. CallTypes' /\ SeenInv'
    BY <1>1, <2>1, <2>2 DEF CallTypes, SeenInv, Fetch
  <2>4. \/ old[a + i] = 0 \/ old[a + i] # old[b + i]
        \/ fn = "strncmp" /\ i + 1 >= n
    BY <1>1, <1>2, <1>5 DEF ComparesOn, CallTypes
  <2>5. CompareInv'
    BY <1>1, <1>2, <1>a, <2>1, <2>4 DEF CompareInv, Agree
  <2> QED BY <1>1, <2>3, <2>5 DEF CallInv, MemsetInv, MemcpyInv, StrcpyInv, CountInv, Counting, Comparing
<1> QED BY <1>4, <1>5

LEMMA CallStutterStep == CallInv /\ UNCHANGED vars => CallInv'
<1> SUFFICES ASSUME CallInv, UNCHANGED vars PROVE CallInv'
  OBVIOUS
<1> USE DEF CallInv, vars, call
<1>1. CallTypes' /\ SeenInv'
  BY DEF CallTypes, SeenInv
<1>2. MemsetInv' /\ MemcpyInv' /\ StrcpyInv'
  BY DEF MemsetInv, MemcpyInv, StrcpyInv, FilledTo, CopiedTo, BlockAt, Copyable, EndsAt, Inside
<1>3. CountInv' /\ CompareInv'
  BY DEF CountInv, CompareInv, StringGiven, EndsAt, BlockAt, Reach, Inside, Agree
<1> QED BY <1>1, <1>2, <1>3

LEMMA CallInvStep == CallInv /\ [CStringNext]_vars => CallInv'
BY MemsetStep, MemcpyStep, StrcpyStep, CountStep, CompareStep, CallStutterStep DEF CStringNext

\* How far the loop of each function has come, after any number of turns.
THEOREM LoopInvariant == CStringSpec => []CallInv
BY CallInitInv, CallInvStep, PTL DEF CStringSpec

-----------------------------------------------------------------------------
LEMMA CStringTypeOKHolds == CallInv => CStringTypeOK
BY DEF CallInv, CallTypes, CStringTypeOK, MemsetInv, MemcpyInv, StrcpyInv, CountInv, CompareInv,
       Functions, Counting, Comparing, Addr, Memory

\* Every variable keeps its type, and memset, memcpy and strcpy return an address.
THEOREM CallTypesCorrect == CStringSpec => []CStringTypeOK
BY CStringTypeOKHolds, LoopInvariant, PTL

LEMMA ReadsInsideHolds == CallInv => ReadsInside
<1>1. ASSUME CallInv, NEW k \in seen, NEW p \in Sources
      PROVE  p + k \in Addr /\ k < Reach /\ (fn # "memcpy" => Inside(p, k))
  <2>1. CallTypes /\ k \in Nat /\ k <= i /\ i \in Nat /\ n \in Nat /\ a \in Addr /\ b \in Addr
    BY <1>1 DEF CallInv, SeenInv, CallTypes
  <2>2. CASE fn = "memset"
    BY <1>1, <2>2 DEF Sources
  <2>3. CASE fn = "memcpy"
    <3>1. p = b /\ k < i /\ i <= n /\ BlockAt(b, n) /\ Reach = n
      BY <1>1, <2>1, <2>3, ReachOf DEF Sources, CallInv, SeenInv, MemcpyInv
    <3> QED BY <2>1, <2>3, <3>1 DEF BlockAt, Addr, CallTypes
  <2>4. ASSUME p \in Addr, StringGiven(p), Inside(p, i), fn # "memset", fn # "memcpy",
               fn \in {"strnlen", "strncmp"} => i < Reach
        PROVE  p + k \in Addr /\ k < Reach /\ Inside(p, k)
    <3>1. Inside(p, k)
      BY <2>1, <2>4 DEF Inside
    <3>2. CASE fn \in {"strnlen", "strncmp"}
      <4>1. Reach \in Nat /\ k < Reach
        BY <2>1, <2>4, <3>2, ReachOf
      <4> QED BY <2>1, <2>4, <3>1, <4>1, OffsetInside
    <3>3. CASE fn \notin {"strnlen", "strncmp"}
      <4>1. p + k \in Addr
        BY <2>1, <2>4, <3>1, <3>3, OffsetInside
      <4>2. Reach = Size
        BY <2>1, <2>4, <3>3, ReachOf DEF CallTypes, Functions, Counting, Comparing
      <4> QED BY <2>1, <2>4, <3>1, <4>1, <4>2 DEF Addr, CallTypes
    <3> QED BY <3>2, <3>3
  <2>5. CASE fn = "strcpy"
    <3>1. p = b /\ Inside(b, i) /\ StringGiven(b)
      BY <1>1, <2>5 DEF Sources, CallInv, StrcpyInv, StringGiven
    <3> QED BY <2>1, <2>4, <2>5, <3>1
  <2>6. CASE fn \in Counting
    <3>1. p = a /\ Inside(a, i) /\ StringGiven(a) /\ (fn = "strnlen" => i <= n)
      BY <1>1, <2>6 DEF Sources, CallInv, CountInv, Counting
    <3>2. fn \in {"strnlen", "strncmp"} => i < Reach
      BY <2>1, <2>6, <3>1, ReachOf DEF Counting
    <3> QED BY <2>1, <2>4, <2>6, <3>1, <3>2 DEF Counting
  <2>7. CASE fn \in Comparing
    <3>1. /\ p \in {a, b} /\ Agree(i) /\ StringGiven(a) /\ StringGiven(b)
          /\ fn = "strncmp" => i = 0 \/ i < n
      BY <1>1, <2>7 DEF Sources, CallInv, CompareInv, Comparing
    <3>2. Inside(a, i) /\ Inside(b, i)
      BY <2>1, <3>1, AgreeInside
    <3>3. fn \in {"strnlen", "strncmp"} => i < Reach
      BY <2>1, <2>7, <3>1, ReachOf DEF Comparing
    <3> QED BY <2>1, <2>4, <2>7, <3>1, <3>2, <3>3 DEF Comparing
  <2> QED BY <2>1, <2>2, <2>3, <2>5, <2>6, <2>7 DEF CallTypes, Functions
<1> QED BY <1>1 DEF ReadsInside

\* No function reads outside the memory, behind a terminator, or beyond its length:
\* memcpy and strncmp stop at it, but that strncmp compares one character when it is
\* 0, and strnlen reads one character more.
THEOREM NeverReadsBehind == CStringSpec => []ReadsInside
BY ReadsInsideHolds, LoopInvariant, PTL

LEMMA LengthIsHolds == CallInv => LengthIs
BY DEF CallInv, CountInv, Counting, LengthIs

\* strlen is the distance to the first terminator, strnlen that or its length.
THEOREM LengthCorrect == CStringSpec => []LengthIs
BY LengthIsHolds, LoopInvariant, PTL

LEMMA FillIsHolds == CallInv => FillIs
BY DEF CallInv, MemsetInv, FilledTo, FillIs

\* memset fills exactly its block.
THEOREM FillCorrect == CStringSpec => []FillIs
BY FillIsHolds, LoopInvariant, PTL

LEMMA CopyIsHolds == CallInv => CopyIs
<1>1. ASSUME CallInv, pc = "done", fn = "memcpy"
      PROVE  CopyIs
  <2>1. CallTypes /\ MemcpyInv
    BY <1>1 DEF CallInv
  <2>2. BlockAt(a, n) /\ BlockAt(b, n) /\ CopiedTo(n) /\ n \in 0 .. Size
    BY <1>1, <2>1 DEF MemcpyInv, CallTypes, BlockAt, Addr
  <2> QED BY <1>1, <2>2 DEF CopyIs, CopiedTo
<1>2. ASSUME CallInv, pc = "done", fn = "strcpy"
      PROVE  CopyIs
  <2>1. CallTypes /\ StrcpyInv
    BY <1>2 DEF CallInv
  <2> DEFINE count == i + 1
  <2>2. count \in 0 .. Size /\ count > 0 /\ count - 1 = i /\ b + count - 1 = b + i
    BY <1>2, <2>1 DEF StrcpyInv, CallTypes, BlockAt, Addr
  <2>3. BlockAt(a, count) /\ BlockAt(b, count)
    BY <1>2, <2>1 DEF StrcpyInv, CallTypes, BlockAt, EndsAt, Addr
  <2>4. CopiedTo(count) /\ old[b + i] = 0 /\ Inside(b, i)
    BY <1>2, <2>1 DEF StrcpyInv, EndsAt
  <2> HIDE DEF count
  <2> QED BY <1>2, <2>2, <2>3, <2>4 DEF CopyIs, CopiedTo
<1> QED BY <1>1, <1>2 DEF CopyIs

\* memcpy and strcpy leave at the target what the source held, overlapping or not.
THEOREM CopyCorrect == CStringSpec => []CopyIs
BY CopyIsHolds, LoopInvariant, PTL

LEMMA CompareIsHolds == CallInv => CompareIs
<1>1. ASSUME CallInv, pc = "done", fn \in Comparing
      PROVE  IF \E k \in Addr : Differ(k)
               THEN \E k \in Addr : Differ(k) /\ result = old[a + k] - old[b + k]
               ELSE result = 0
  <2>1. CallTypes /\ CompareInv /\ n \in Nat /\ i \in Nat /\ a \in Addr /\ b \in Addr
    BY <1>1 DEF CallInv, CallTypes
  <2>2. /\ Agree(i) /\ StringGiven(a) /\ StringGiven(b) /\ result = old[a + i] - old[b + i]
        /\ fn = "strncmp" => i = 0 \/ i < n
        /\ \/ old[a + i] = 0 \/ old[a + i] # old[b + i]
           \/ fn = "strncmp" /\ i + 1 >= n
    BY <1>1, <2>1 DEF CompareInv
  <2>3. fn \in {"strnlen", "strncmp"} => i < Reach
    BY <1>1, <2>1, <2>2, ReachOf DEF Comparing
  <2>4. a + i \in Addr /\ b + i \in Addr
    BY <2>1, <2>2, <2>3, AgreeInside, OffsetInside
  <2>5. i \in Addr /\ i < Reach
    <3>1. i \in Addr /\ i < Size
      BY <2>1, <2>4 DEF Addr, CallTypes
    <3> QED BY <1>1, <2>1, <2>3, <3>1, ReachOf DEF Comparing
  <2>6. old[a + i] \in Nat /\ old[b + i] \in Nat
    BY <2>1, <2>4 DEF CallTypes, Memory
  <2>7. CASE old[a + i] # old[b + i]
    <3>1. Differ(i)
      BY <2>2, <2>4, <2>5, <2>7 DEF Differ, Agree
    <3> QED BY <2>2, <2>5, <3>1
  <2>8. CASE old[a + i] = old[b + i]
    <3>1. result = 0
      BY <2>2, <2>6, <2>8
    <3>2. ASSUME NEW k \in Addr, Differ(k) PROVE FALSE
      <4>1. /\ k \in Nat /\ k < Reach /\ old[a + k] # old[b + k]
            /\ \A j \in 0 .. k - 1 : old[a + j] # 0
        BY <2>1, <3>2 DEF Differ, Addr, CallTypes
      <4>2. ~(k < i)
        BY <2>1, <2>2, <4>1 DEF Agree
      <4>3. i < k
        BY <2>1, <2>8, <4>1, <4>2
      <4>4. old[a + i] # 0
        BY <2>1, <4>1, <4>3
      <4>5. fn = "strncmp" /\ i + 1 >= n
        BY <2>2, <2>8, <4>4
      <4>6. Reach <= i + 1
        BY <2>1, <4>5, ReachOf
      <4>7. Reach \in Nat
        BY <2>1, <4>5, ReachOf
      <4> QED BY <2>1, <4>1, <4>3, <4>6, <4>7
    <3> QED BY <3>1, <3>2
  <2> QED BY <2>7, <2>8
<1> QED BY <1>1 DEF CompareIs, Comparing

\* strcmp and strncmp return the difference of the first characters that differ,
\* among all or the first n, of which there is one also when n is 0.
THEOREM CompareCorrect == CStringSpec => []CompareIs
BY CompareIsHolds, LoopInvariant, PTL

LEMMA CallsRightHolds == CallInv => CallsRight
BY ReadsInsideHolds, LengthIsHolds, CompareIsHolds, CopyIsHolds, FillIsHolds DEF CallsRight

\* Every call of the byte and string functions has the result, the writes and the
\* reads that CString states, also where these are not those of std/memory.hpp, for
\* every memory, address and length that its caller may give.
THEOREM CallsAlwaysRight == CStringSpec => []CallsRight
BY CallsRightHolds, LoopInvariant, PTL

-----------------------------------------------------------------------------
(* StdString                                                               *)

Cell == Letters \cup {Terminator, Anything}

Numbers ==
  /\ size \in Nat /\ allocatedSize \in Nat /\ pushes \in Nat
  /\ state \in {"none", "live", "null", "gone"}
  /\ text \in Seq(Letters)
Flags == faults \in BOOLEAN /\ counted \in BOOLEAN
StringTypes == Numbers /\ Flags

\* A live string: the size counts the terminators of push_back and stays in the
\* buffer, which has not shrunk since the constructor.
LiveNumbers ==
  /\ pushes <= Len(text) /\ size = Start + 2 * pushes
  /\ size <= allocatedSize /\ Capacity(Start) <= allocatedSize
LiveInv ==
  /\ state = "live" =>
       buffer \in [0 .. allocatedSize - 1 -> Cell] /\ LiveNumbers /\ Terminated
  /\ Placed /\ ReaderSees

NoneInv == state = "none" => pushes = 0

StringInv == StringTypes /\ LiveInv /\ NoneInv /\ InBounds

-----------------------------------------------------------------------------
\* STD_STRING_CAPACITY_STEP leaves room for one more byte.
LEMMA CapacityHasRoom ==
  ASSUME NEW len \in Nat
  PROVE  Capacity(len) \in Nat /\ len < Capacity(len)
<1>1. Step \in Nat /\ Step >= 2
  BY StdStringAssumption
<1> QED BY <1>1 DEF Capacity

\* Writing two bytes at m leaves those before it.
LEMMA BeforeKept ==
  ASSUME NEW m \in Nat, NEW len \in Nat, NEW f \in [0 .. len - 1 -> Cell], NEW c, NEW t
  PROVE  \A k \in 0 .. len - 1 : k < m => [f EXCEPT ![m] = c, ![m + 1] = t][k] = f[k]
OBVIOUS

\* An offset below the capacity is one of the buffer.
LEMMA OfBuffer ==
  ASSUME NEW m \in Nat, NEW len \in Nat, m < len
  PROVE  m \in 0 .. len - 1
OBVIOUS

LEMMA StringInitInv == StringInit => StringInv
<1> SUFFICES ASSUME StringInit PROVE StringInv
  OBVIOUS
<1>1. StringTypes
  <2>1. Numbers
    BY DEF StringInit, Numbers
  <2>2. Flags
    BY DEF StringInit, Flags
  <2> QED BY <2>1, <2>2 DEF StringTypes
<1>2. LiveInv /\ NoneInv /\ InBounds
  BY DEF StringInit, LiveInv, NoneInv, InBounds, Placed, ReaderSees
<1> QED BY <1>1, <1>2 DEF StringInv

LEMMA ConstructStep ==
  ASSUME StringInv, NEW str \in Seq(Letters), NEW counts \in BOOLEAN, Construct(str, counts)
  PROVE  StringInv'
<1>1. /\ state = "none" /\ state' = "live" /\ pushes' = 0 /\ text' = str /\ counted' = counts
      /\ size' = Len(str) + (IF counts THEN 1 ELSE 0) /\ allocatedSize' = Capacity(size')
      /\ faults' = (Len(str) >= allocatedSize')
      /\ buffer' = [k \in 0 .. allocatedSize' - 1 |->
                      IF k < Len(str) THEN str[k + 1] ELSE IF k = Len(str) THEN Terminator ELSE Anything]
  BY DEF Construct, StringInv, NoneInv
<1>2. Len(str) \in Nat /\ size' \in Nat /\ Len(str) <= size'
  BY <1>1
<1>3. allocatedSize' \in Nat /\ size' < allocatedSize'
  BY <1>1, <1>2, CapacityHasRoom
<1>4. faults' = FALSE
  BY <1>1, <1>2, <1>3
<1>5. StringTypes'
  <2>1. Numbers'
    BY <1>1, <1>2, <1>3 DEF Numbers
  <2>2. Flags'
    BY <1>1, <1>4 DEF Flags
  <2> QED BY <2>1, <2>2 DEF StringTypes
<1>6. buffer' \in [0 .. allocatedSize' - 1 -> Cell]
  BY <1>1, <1>2, <1>3 DEF Cell
<1>7. Len(str) \in 0 .. allocatedSize' - 1
  BY <1>2, <1>3
<1>8. Made' = Len(str) /\ Start' = size' /\ Grew' = FALSE
  BY <1>1, <1>2, <1>3 DEF Made, Start, Grew
<1>9. Terminated'
  BY <1>1, <1>2, <1>7 DEF Terminated
<1>10. LiveNumbers'
  BY <1>1, <1>2, <1>3, <1>8 DEF LiveNumbers
<1>11. \A k \in 1 .. Len(str) : buffer'[k - 1] = str[k]
  BY <1>1, <1>2, <1>3
<1>12. Placed'
  BY <1>1, <1>2, <1>8, <1>11 DEF Placed, Place
<1>13. ReaderSees'
  BY <1>1, <1>2, <1>3, <1>7, <1>8, <1>11 DEF ReaderSees, Readable
<1>14. LiveInv'
  BY <1>6, <1>9, <1>10, <1>12, <1>13 DEF LiveInv
<1> QED BY <1>1, <1>4, <1>5, <1>14 DEF StringInv, NoneInv, InBounds

\* Characters before a push keep their places, all of them before the size.
LEMMA PlacesBefore ==
  ASSUME StringTypes, LiveNumbers, NEW k \in 1 .. Len(text)
  PROVE  Place(k) \in Nat /\ Place(k) < size
<1>1. pushes \in Nat /\ Len(text) \in Nat /\ k \in Nat /\ counted \in BOOLEAN
  BY DEF StringTypes, Numbers, Flags
<1>2. Made \in Nat /\ Start \in Nat /\ Made <= Start /\ pushes = Len(text) - Made /\ size = Start + 2 * pushes
  BY <1>1 DEF Made, Start, LiveNumbers
<1> QED BY <1>1, <1>2 DEF Place

\* A push leaves each byte before the size as it was or, if it grows, unknown; what
\* comes behind is the character and a terminator.
LEMMA PushWrites ==
  ASSUME StringTypes, NEW ch \in Letters, PushBack(ch),
         buffer \in [0 .. allocatedSize - 1 -> Cell], size <= allocatedSize
  PROVE  /\ allocatedSize' \in Nat /\ size + 1 < allocatedSize'
         /\ buffer' \in [0 .. allocatedSize' - 1 -> Cell]
         /\ buffer'[size] = ch /\ buffer'[size + 1] = Terminator
         /\ \/ /\ allocatedSize' = allocatedSize
               /\ \A k \in Nat : k < size => buffer'[k] = buffer[k]
            \/ /\ allocatedSize' = allocatedSize + Step
               /\ \A k \in Nat : k < size => buffer'[k] \in {buffer[k], Anything}
<1>1. size \in Nat /\ allocatedSize \in Nat /\ Step \in Nat /\ Step >= 2 /\ ch \in Cell /\ Terminator \in Cell
  BY StdStringAssumption DEF StringTypes, Numbers, Cell
<1>2. ASSUME NEW len \in Nat, NEW buf \in [0 .. len - 1 -> Cell],
             size + 1 < len, buffer' = WithChar(buf, ch), allocatedSize' = len
      PROVE  /\ buffer' \in [0 .. len - 1 -> Cell]
             /\ buffer'[size] = ch /\ buffer'[size + 1] = Terminator
             /\ \A k \in Nat : k < size => buffer'[k] = buf[k]
  <2>1. PICK m \in Nat : m = size
    BY <1>1
  <2>2. buffer' = [buf EXCEPT ![m] = ch, ![m + 1] = Terminator] /\ m + 1 < len
    BY <1>2, <2>1 DEF WithChar
  <2>3. m \in 0 .. len - 1 /\ m + 1 \in 0 .. len - 1
    BY <2>2
  <2>4. buffer' \in [0 .. len - 1 -> Cell] /\ buffer'[m] = ch /\ buffer'[m + 1] = Terminator
    BY <1>1, <2>2, <2>3
  <2>5. \A k \in 0 .. len - 1 : k < m => buffer'[k] = buf[k]
    BY <2>2, BeforeKept
  <2>6. \A k \in Nat : k < m => k \in 0 .. len - 1
    BY <2>2
  <2> QED BY <2>1, <2>4, <2>5, <2>6
<1>3. CASE Full
  <2>1. size + 2 > allocatedSize /\ allocatedSize' = allocatedSize + Step
    BY <1>3 DEF PushBack, Full
  <2>2. PICK before \in 0 .. allocatedSize' : buffer' = WithChar(Grown(before), ch)
    BY <1>3 DEF PushBack
  <2>3. allocatedSize' \in Nat /\ size + 1 < allocatedSize'
    BY <1>1, <2>1
  <2>4. Grown(before) \in [0 .. allocatedSize' - 1 -> Cell]
    BY <1>1, <2>1 DEF Grown, Cell
  <2>5. \A k \in Nat : k < size => Grown(before)[k] \in {buffer[k], Anything}
    BY <1>1 DEF Grown
  <2> QED BY <1>2, <2>1, <2>2, <2>3, <2>4, <2>5
<1>4. CASE ~Full
  <2>1. size + 2 <= allocatedSize /\ allocatedSize' = allocatedSize /\ buffer' = WithChar(buffer, ch)
    BY <1>1, <1>4 DEF PushBack, Full
  <2> QED BY <1>1, <1>2, <2>1
<1> QED BY <1>3, <1>4

LEMMA PushBackStep ==
  ASSUME StringInv, NEW ch \in Letters, PushBack(ch)
  PROVE  StringInv'
<1>1. /\ state = "live" /\ state' = "live" /\ text' = Append(text, ch) /\ pushes' = pushes + 1
      /\ size' = size + 2 /\ counted' = counted
  BY DEF PushBack, Pushed
<1>2. Flags /\ faults = FALSE
  BY <1>1, ZenonT(30) DEF StringInv, StringTypes, Flags, InBounds
<1>3. /\ StringTypes /\ buffer \in [0 .. allocatedSize - 1 -> Cell] /\ LiveNumbers /\ Placed /\ ReaderSees
  BY <1>1 DEF StringInv, LiveInv
<1>4. /\ size \in Nat /\ allocatedSize \in Nat /\ pushes \in Nat /\ text \in Seq(Letters)
       /\ Step \in Nat /\ Step >= 2
  BY <1>3, StdStringAssumption DEF StringTypes, Numbers
<1>5. size <= allocatedSize /\ pushes <= Len(text) /\ size = Start + 2 * pushes /\ Capacity(Start) <= allocatedSize
  BY <1>3 DEF LiveNumbers
<1>6. /\ allocatedSize' \in Nat /\ size + 1 < allocatedSize'
      /\ buffer' \in [0 .. allocatedSize' - 1 -> Cell]
      /\ buffer'[size] = ch /\ buffer'[size + 1] = Terminator
      /\ \/ /\ allocatedSize' = allocatedSize
            /\ \A k \in Nat : k < size => buffer'[k] = buffer[k]
         \/ /\ allocatedSize' = allocatedSize + Step
            /\ \A k \in Nat : k < size => buffer'[k] \in {buffer[k], Anything}
  BY <1>3, <1>5, PushWrites
<1>7. allocatedSize' \in Nat /\ size + 1 < allocatedSize'
  BY <1>6
<1>8. allocatedSize' = allocatedSize \/ allocatedSize' = allocatedSize + Step
  BY <1>6
<1>9. /\ Len(text) \in Nat /\ Len(text') = Len(text) + 1 /\ text'[Len(text) + 1] = ch
      /\ \A k \in 1 .. Len(text) : text'[k] = text[k]
  BY <1>1, <1>4
<1>10. /\ Made' = Made /\ Start' = Start /\ Made \in Nat /\ Start \in Nat /\ Made <= Start
      /\ Made = Len(text) - pushes
  <2>1. Made' = Made /\ Made \in Nat /\ Made = Len(text) - pushes
    BY <1>1, <1>5, <1>9, <1>4 DEF Made
  <2>2. CASE counted
    BY <1>1, <2>1, <2>2 DEF Start
  <2>3. CASE ~counted
    BY <1>1, <2>1, <2>3 DEF Start
  <2> QED BY <2>1, <2>2, <2>3
<1>11. faults' = FALSE
  <2>1. faults' = (faults \/ size + 1 >= allocatedSize')
    BY DEF PushBack
  <2>2. ~(size + 1 >= allocatedSize')
    BY <1>4, <1>7
  <2> QED BY <1>2, <2>1, <2>2, ZenonT(30)
<1>12. StringTypes'
  <2>1. Numbers'
    BY <1>1, <1>4, <1>7 DEF Numbers
  <2>2. Flags'
    BY <1>2, <1>1, <1>11 DEF Flags
  <2> QED BY <2>1, <2>2 DEF StringTypes
<1>13. Capacity(Start)' = Capacity(Start)
  BY <1>10 DEF Capacity
<1>14. Capacity(Start) \in Nat
  BY <1>10, CapacityHasRoom
<1>15. LiveNumbers'
  <2>1. pushes' <= Len(text')
    BY <1>1, <1>5, <1>9, <1>4
  <2>2. size' = Start' + 2 * pushes'
    BY <1>1, <1>5, <1>10, <1>4
  <2>3. size' <= allocatedSize'
    BY <1>1, <1>4, <1>7
  <2>4. Capacity(Start)' <= allocatedSize'
    BY <1>5, <1>13, <1>14, <1>4, <1>8
  <2> QED BY <2>1, <2>2, <2>3, <2>4 DEF LiveNumbers
<1>16. Terminated'
  <2>1. size + 1 \in Nat
    BY <1>4
  <2>2. size + 1 \in 0 .. allocatedSize' - 1
    BY <1>7, <2>1, OfBuffer
  <2>3. size + 1 <= size'
    BY <1>1, <1>4
  <2> QED BY <1>6, <2>2, <2>3 DEF Terminated
<1>17. Placed'
  <2>1. \A k \in 1 .. Len(text) : Place(k)' = Place(k) /\ Place(k) \in Nat /\ Place(k) < size
    <3> TAKE k \in 1 .. Len(text)
    <3>1. Place(k)' = Place(k)
      BY <1>10 DEF Place
    <3> QED BY <1>3, <3>1, PlacesBefore
  <2>2. PICK last \in Nat : last = Len(text) + 1
    BY <1>9
  <2>3. Place(last)' = size
    <3>1. ~(last <= Made)
      BY <1>10, <1>9, <1>4, <2>2
    <3>2. Place(last)' = Start + 2 * (last - Made - 1)
      BY <1>10, <3>1 DEF Place
    <3>3. last - Made - 1 = pushes
      BY <1>9, <1>10, <1>4, <2>2
    <3> QED BY <1>5, <3>2, <3>3
  <2>4. ASSUME NEW k \in 1 .. Len(text)
        PROVE  buffer'[Place(k)'] = text'[k] \/ (Grew' /\ buffer'[Place(k)'] = Anything)
    <3>1. buffer[Place(k)] = text[k] \/ (Grew /\ buffer[Place(k)] = Anything)
      BY <1>1, <1>3 DEF Placed
    <3>2. CASE allocatedSize' = allocatedSize /\ buffer'[Place(k)] = buffer[Place(k)]
      <4>1. Grew' <=> Grew
        BY <1>13, <3>2 DEF Grew
      <4> QED BY <1>9, <2>1, <3>1, <3>2, <4>1
    <3>3. CASE allocatedSize' = allocatedSize + Step /\ buffer'[Place(k)] \in {buffer[Place(k)], Anything}
      <4>1. allocatedSize' > Capacity(Start)
        BY <1>5, <1>14, <1>4, <3>3
      <4>2. Grew'
        BY <1>13, <4>1 DEF Grew
      <4> QED BY <1>9, <2>1, <3>1, <3>3, <4>2
    <3> QED BY <1>6, <2>1, <3>2, <3>3
  <2>5. \A k \in 1 .. Len(text') :
          buffer'[Place(k)'] = text'[k] \/ (Grew' /\ buffer'[Place(k)'] = Anything)
    <3> TAKE k \in 1 .. Len(text')
    <3>1. CASE k = last
      <4>1. Place(k)' = Place(last)' /\ text'[k] = text'[last]
        BY <3>1
      <4>2. buffer'[Place(k)'] = buffer'[size]
        BY <2>3, <4>1
      <4> QED BY <1>6, <1>9, <2>2, <4>1, <4>2
    <3>2. CASE k \in 1 .. Len(text)
      BY <2>4, <3>2
    <3>3. k = last \/ k \in 1 .. Len(text)
      BY <1>9, <2>2
    <3> QED BY <3>1, <3>2, <3>3
  <2>6. size' - 2 = size
    BY <1>1, <1>4
  <2>7. \A x : x = last => Place(x)' = size
    BY <2>3
  <2>8. Len(text') = last /\ text'[last] = ch
    BY <1>9, <2>2
  <2> SUFFICES ASSUME pushes' > 0
               PROVE  (Place(Len(text)) = size - 2)' /\ (buffer[size - 2] = text[Len(text)])'
    BY <2>5 DEF Placed
  <2>9. (Place(Len(text)) = size - 2)'
    BY <2>6, <2>3, <2>8 DEF Place
  <2>10. (buffer[size - 2] = text[Len(text)])'
    BY <1>6, <2>6, <2>8
  <2> QED BY <2>9, <2>10
<1>18. ReaderSees'
  <2> SUFFICES ASSUME ~Grew'
               PROVE  /\ Readable' \in DOMAIN buffer' /\ buffer'[Readable'] = Terminator
                      /\ \A k \in 1 .. Readable' : buffer'[k - 1] = text'[k]
    BY DEF ReaderSees
  <2>1. ~(allocatedSize' > Capacity(Start))
    BY <1>13 DEF Grew
  <2>2. allocatedSize' = allocatedSize /\ \A k \in Nat : k < size => buffer'[k] = buffer[k]
    <3>1. ~(allocatedSize' = allocatedSize + Step)
      BY <1>5, <1>14, <1>4, <2>1
    <3> QED BY <1>6, <3>1
  <2>3. ~Grew
    BY <1>13, <2>1, <2>2 DEF Grew
  <2>4. /\ Readable \in DOMAIN buffer /\ buffer[Readable] = Terminator
        /\ \A k \in 1 .. Readable : buffer[k - 1] = text[k]
    BY <1>1, <1>3, <2>3 DEF ReaderSees
  <2>5. DOMAIN buffer' = 0 .. allocatedSize' - 1
    BY <1>6
  <2>6. CASE pushes = 0 /\ ~counted
    <3>1. Start = Made
      BY <1>10, <2>6 DEF Start
    <3>2. pushes = 0 /\ pushes' # 0
      BY <1>1, <2>6
    <3>3. Start = Made /\ pushes = 0 /\ pushes' # 0 /\ ~counted'
      BY <1>1, <2>6, <3>1, <3>2
    <3>4. Readable = Made /\ Readable' = Made + 1
      BY <1>10, <3>3 DEF Readable
    <3>5. Readable = Made /\ Made = size /\ Made = Len(text) /\ Readable' = Made + 1
      BY <1>5, <1>9, <1>10, <1>4, <3>3, <3>4
    <3>6. \A k \in 1 .. Made : buffer'[k - 1] = text'[k]
      <4> TAKE k \in 1 .. Made
      <4>1. k - 1 \in Nat /\ k - 1 < size /\ k \in 1 .. Len(text)
        BY <1>10, <1>4, <3>5
      <4> QED BY <1>9, <2>2, <2>4, <3>5, <4>1
    <3>7. \A k \in 1 .. Made + 1 : buffer'[k - 1] = text'[k]
      <4> TAKE k \in 1 .. Made + 1
      <4>1. CASE k = Made + 1
        <5>1. k - 1 = size /\ k = Len(text) + 1
          BY <1>10, <3>5, <4>1
        <5> QED BY <1>6, <1>9, <5>1
      <4>2. CASE k \in 1 .. Made
        BY <3>6, <4>2
      <4> QED BY <1>10, <4>1, <4>2
    <3>8. Readable' \in 0 .. allocatedSize' - 1 /\ buffer'[Readable'] = Terminator
      <4>1. Readable' \in 0 .. allocatedSize' - 1 /\ Readable' = size + 1
        BY <1>10, <1>4, <1>7, <3>5
      <4> QED BY <1>6, <4>1
    <3> QED BY <2>5, <3>5, <3>7, <3>8
  <2>7. CASE ~(pushes = 0 /\ ~counted)
    <3>1. Readable' = Readable /\ Readable \in Nat /\ Readable < size /\ Readable <= Len(text)
      <4>1. CASE counted
        <5>1. Readable' = Made /\ Readable = Made /\ Start = Made + 1
          BY <1>1, <1>10, <4>1 DEF Readable, Start
        <5> QED BY <1>5, <1>9, <1>10, <1>4, <5>1
      <4>2. CASE ~counted
        <5>1. Start = Made
          BY <1>10, <4>2 DEF Start
        <5>2. pushes # 0
          BY <2>7, <4>2
        <5>3. pushes' # 0
          BY <1>1, <1>4
        <5>4. pushes # 0 /\ pushes' # 0 /\ Start = Made
          BY <5>1, <5>2, <5>3
        <5>5. Readable' = Made + 1 /\ Readable = Made + 1
          BY <1>1, <1>10, <4>2, <5>4 DEF Readable
        <5> QED BY <1>5, <1>9, <1>10, <1>4, <5>4, <5>5
      <4> QED BY <4>1, <4>2
    <3>2. buffer'[Readable] = Terminator /\ Readable \in 0 .. allocatedSize' - 1
      <4>1. Readable \in 0 .. allocatedSize' - 1
        <5>1. Readable \in Nat /\ allocatedSize' \in Nat /\ Readable < allocatedSize'
          BY <1>4, <1>7, <3>1
        <5> QED BY <5>1, OfBuffer
      <4> QED BY <2>2, <2>4, <3>1, <4>1
    <3>3. \A k \in 1 .. Readable : buffer'[k - 1] = text'[k]
      <4> TAKE k \in 1 .. Readable
      <4>1. k - 1 \in Nat /\ k - 1 < size /\ k \in 1 .. Len(text)
        BY <1>9, <1>4, <3>1
      <4> QED BY <1>9, <2>2, <2>4, <4>1
    <3> QED BY <2>5, <3>1, <3>2, <3>3
  <2> QED BY <2>6, <2>7
<1>19. LiveInv'
  BY <1>6, <1>15, <1>16, <1>17, <1>18 DEF LiveInv
<1> QED BY <1>1, <1>11, <1>12, <1>19 DEF StringInv, NoneInv, InBounds

LEMMA PushBackNoMemoryStep ==
  ASSUME StringInv, NEW ch \in Letters, PushBackNoMemory(ch)
  PROVE  StringInv'
<1>1. /\ StringTypes /\ state' = "null" /\ text' = Append(text, ch) /\ pushes' = pushes + 1 /\ size' = size + 2
      /\ counted' = counted /\ allocatedSize' = allocatedSize + Step /\ faults' = TRUE
  BY DEF PushBackNoMemory, Pushed, StringInv
<1>2. StringTypes'
  <2>1. Numbers'
    BY <1>1, StdStringAssumption DEF StringTypes, Numbers
  <2>2. Flags'
    BY <1>1 DEF StringTypes, Flags
  <2> QED BY <2>1, <2>2 DEF StringTypes
<1> QED BY <1>1, <1>2 DEF StringInv, LiveInv, NoneInv, InBounds, Placed, ReaderSees

LEMMA DestroyStep == StringInv /\ Destroy => StringInv'
BY DEF StringInv, Destroy, StringTypes, Numbers, Flags, LiveInv, NoneInv, InBounds, Placed, ReaderSees

LEMMA StringStutterStep == StringInv /\ UNCHANGED stringVars => StringInv'
<1> SUFFICES ASSUME StringInv, UNCHANGED stringVars PROVE StringInv'
  OBVIOUS
<1> USE DEF stringVars
<1>1. StringTypes' /\ NoneInv' /\ InBounds'
  BY DEF StringInv, StringTypes, Numbers, Flags, NoneInv, InBounds
<1>2. Made' = Made /\ Start' = Start /\ Grew' = Grew /\ Readable' = Readable /\ \A k : Place(k)' = Place(k)
  BY DEF Made, Start, Grew, Readable, Place, Capacity
<1>3. Placed' /\ ReaderSees'
  BY <1>2 DEF StringInv, LiveInv, Placed, ReaderSees
<1>4. LiveInv'
  BY <1>2, <1>3 DEF StringInv, LiveInv, LiveNumbers, Terminated, Capacity
<1> QED BY <1>1, <1>4 DEF StringInv

LEMMA StringInvStep == StringInv /\ [StringNext]_stringVars => StringInv'
<1> SUFFICES ASSUME StringInv, [StringNext]_stringVars PROVE StringInv'
  OBVIOUS
<1>1. ASSUME NEW len \in 0 .. MaxLength, NEW str \in [1 .. len -> Letters], FromCString(str) PROVE StringInv'
  <2>1. str \in Seq(Letters)
    BY StdStringAssumption
  <2> QED BY <1>1, <2>1, ConstructStep DEF FromCString
<1>2. ASSUME NEW len \in 0 .. MaxLength, NEW ch \in Letters, FromCharacter(ch, len) PROVE StringInv'
  <2>1. [k \in 1 .. len |-> ch] \in Seq(Letters)
    BY StdStringAssumption
  <2> QED BY <1>2, <2>1, ConstructStep DEF FromCharacter
<1> QED BY <1>1, <1>2, PushBackStep, PushBackNoMemoryStep, DestroyStep, StringStutterStep DEF StringNext

\* What a string is after any number of push_back, as long as there is memory.
THEOREM StringInvariant == StringSpec => []StringInv
BY StringInitInv, StringInvStep, PTL DEF StringSpec

LEMMA StringTypeOKHolds == StringInv => StringTypeOK
BY DEF StringInv, StringTypes, Numbers, Flags, LiveInv, StringTypeOK, Cell

\* Every variable keeps its type, and the buffer the size that is kept for it.
THEOREM StringTypesCorrect == StringSpec => []StringTypeOK
BY StringTypeOKHolds, StringInvariant, PTL

LEMMA InBoundsHolds == StringInv => InBounds
BY DEF StringInv

\* No constructor and no push_back writes behind the buffer while there is memory.
THEOREM NeverBehind == StringSpec => []InBounds
BY InBoundsHolds, StringInvariant, PTL

LEMMA TerminatedHolds == StringInv => Terminated
BY DEF StringInv, LiveInv, Terminated

\* c_str() always ends inside the buffer.
THEOREM AlwaysTerminated == StringSpec => []Terminated
BY TerminatedHolds, StringInvariant, PTL

\* Every character put in stands where the sizes put it, unless a realloc has
\* written over it, and the last one always does.
THEOREM AlwaysPlaced == StringSpec => []Placed
<1>1. StringInv => Placed
  BY DEF StringInv, LiveInv
<1> QED BY <1>1, StringInvariant, PTL

\* Before the buffer grows a reader sees what was constructed, behind a C string one
\* character more, and never a second one of push_back.
THEOREM ReaderAlwaysSees == StringSpec => []ReaderSees
<1>1. StringInv => ReaderSees
  BY DEF StringInv, LiveInv
<1> QED BY <1>1, StringInvariant, PTL

LEMMA StringHoldsAlways == StringInv => StringHolds
BY InBoundsHolds, TerminatedHolds DEF StringHolds, StringInv, LiveInv

\* A string stays inside its buffer, ends inside it, and holds and shows of what was
\* put in what Placed and ReaderSees say.
THEOREM StringsAlwaysHold == StringSpec => []StringHolds
BY StringHoldsAlways, StringInvariant, PTL
=============================================================================
