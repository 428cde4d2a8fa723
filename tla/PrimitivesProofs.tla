-------------------------- MODULE PrimitivesProofs --------------------------
(***************************************************************************)
(* Proofs about Primitives, for memory of every size and every legal call: *)
(* the four functions do what C says, however source and target overlap.   *)
(***************************************************************************)
EXTENDS Primitives, TLAPS

-----------------------------------------------------------------------------
(***************************************************************************)
(* The inductive invariant.                                                *)
(***************************************************************************)
Addresses == 0 .. Size - 1
Memory == [Addresses -> Byte]

PrimitiveTypes ==
    /\ mem \in Memory /\ old \in Memory /\ df \in BOOLEAN
    /\ call \in Calls
    /\ rdi \in Int /\ rsi \in Int /\ rcx \in Nat /\ result \in Int
    /\ pc \in {"call", "memcpy", "rep", "return"}

\* Nothing has been written yet; memcmp has found no difference so far.
Called ==
    /\ pc \in {"call", "memcpy"} => mem = old /\ ~df
    /\ pc = "memcpy" => call.fn = "memmove" /\ ~Backwards
    /\ pc = "call" /\ call.fn = "memcmp" =>
          /\ rcx <= call.len
          /\ \A i \in 0 .. rcx - 1 : old[call.dst + i] = old[call.src + i]

\* The bytes of the target that the rep instruction has already written: its
\* first ones, or with DF its last ones.
Written(a) ==
    IF df THEN call.dst + rcx <= a /\ a < call.dst + call.len
          ELSE call.dst <= a /\ a < call.dst + (call.len - rcx)

\* Registers and memory between two iterations.
Moving ==
    pc = "rep" =>
        /\ call.fn # "memcmp" /\ rcx <= call.len
        /\ rdi = IF df THEN call.dst + rcx - 1 ELSE call.dst + (call.len - rcx)
        /\ call.fn # "memset" =>
              rsi = IF df THEN call.src + rcx - 1 ELSE call.src + (call.len - rcx)
        /\ df <=> (call.fn = "memmove" /\ Backwards)
        /\ \A a \in Addresses : mem[a] = IF Written(a) THEN Expected(a) ELSE old[a]

IInv == PrimitiveTypes /\ Called /\ Moving /\ PrimitivesAsInC
-----------------------------------------------------------------------------
(***************************************************************************)
(* Calls and memory.                                                       *)
(***************************************************************************)
\* The numbers of a call, and where its ranges lie.
LEMMA CallFacts ==
    ASSUME NEW c \in Calls
    PROVE  /\ Size \in Nat /\ c.dst \in Nat /\ c.src \in Nat /\ c.len \in Nat
           /\ c.dst + c.len <= Size /\ c.src + c.len <= Size
           /\ c.byte \in Int /\ c.fn \in Functions
           /\ c.fn = "memcpy" => c.dst + c.len <= c.src \/ c.src + c.len <= c.dst
<1>1. /\ c.dst \in 0 .. Size /\ c.src \in 0 .. Size /\ c.len \in 0 .. Size
      /\ c.byte \in Fills /\ c.fn \in Functions /\ Legal(c)
  BY DEF Calls
<1>2. Size \in Nat /\ c.byte \in Int
  BY <1>1, PrimitivesAssumption
<1>3. c.dst \in Nat /\ c.src \in Nat /\ c.len \in Nat
  BY <1>1, <1>2
<1>4. /\ c.dst + c.len <= Size /\ c.src + c.len <= Size
      /\ c.fn = "memcpy" => c.dst + c.len <= c.src \/ c.src + c.len <= c.dst
  BY <1>1 DEF Legal
<1>. QED  BY <1>1, <1>2, <1>3, <1>4, Zenon

\* memset stores the low byte of its argument.
LEMMA LowByte == \A n \in Int : n % 256 \in Byte
BY DEF Byte

\* No call has a target beyond memory.
LEMMA ExpectedType ==
    ASSUME old \in Memory, call \in Calls, NEW a \in Addresses
    PROVE  Expected(a) \in Byte
<1>1. /\ Size \in Nat /\ call.dst \in Nat /\ call.src \in Nat /\ call.len \in Nat
      /\ call.src + call.len <= Size /\ call.byte \in Int
  BY CallFacts
<1>2. \A b \in Addresses : old[b] \in Byte
  BY DEF Memory
<1>3. call.byte % 256 \in Byte
  BY <1>1, LowByte
<1>4. a \in call.dst .. call.dst + call.len - 1 => call.src + a - call.dst \in Addresses
  BY <1>1 DEF Addresses
<1>. QED  BY <1>2, <1>3, <1>4 DEF Expected

\* A memory that is as expected at every address.
LEMMA MemoryIs ==
    ASSUME mem \in Memory, \A a \in Addresses : mem[a] = Expected(a)
    PROVE  mem = [a \in 0 .. Size - 1 |-> Expected(a)]
BY DEF Memory, Addresses

-----------------------------------------------------------------------------
(***************************************************************************)
(* The inductive step, one lemma per action.                               *)
(***************************************************************************)
LEMMA InitIInv == Init => IInv
<1>. SUFFICES ASSUME Init PROVE IInv
  OBVIOUS
<1>1. mem \in Memory
  BY PrimitivesAssumption DEF Init, Memory, Addresses
<1>a. df \in BOOLEAN
  BY Zenon DEF Init
<1>2. PrimitiveTypes
  BY <1>1, <1>a DEF Init, PrimitiveTypes
<1>3. Called
  <2>1. 0 <= call.len
    BY CallFacts DEF Init
  <2>. QED  BY <2>1 DEF Init, Called
<1>4. Moving /\ PrimitivesAsInC
  BY DEF Init, Moving, PrimitivesAsInC
<1>. QED  BY <1>2, <1>3, <1>4 DEF IInv

\* A rep instruction is about to start: nothing is written, DF is clear.
LEMMA RepStarts ==
    ASSUME IInv, pc \in {"call", "memcpy"}, call.fn # "memcmp",
           pc' = "rep", UNCHANGED <<mem, call, old, result>>,
           \/ /\ UNCHANGED df /\ ~(call.fn = "memmove" /\ Backwards)
              /\ Rep(call.dst, call.src, call.len)
           \/ /\ df' = TRUE /\ call.fn = "memmove" /\ Backwards
              /\ Rep(call.dst + call.len - 1, call.src + call.len - 1, call.len)
    PROVE  IInv'
<1>1. /\ call.dst \in Nat /\ call.src \in Nat /\ call.len \in Nat
      /\ mem = old /\ ~df
  BY CallFacts DEF IInv, PrimitiveTypes, Called
<1>2. PrimitiveTypes'
  <2>1. rdi' \in Int /\ rsi' \in Int /\ rcx' \in Nat
    BY <1>1 DEF Rep
  <2>2. df \in BOOLEAN /\ (df' = df \/ df' = TRUE)
    BY Zenon DEF IInv, PrimitiveTypes
  <2>3. df' \in BOOLEAN
    BY <2>2, Zenon
  <2>. QED  BY <2>1, <2>3 DEF IInv, PrimitiveTypes
<1>3. Called' /\ PrimitivesAsInC'
  BY DEF Called, PrimitivesAsInC
<1>4. Moving'
  <2>1. (Backwards' <=> Backwards) /\ rcx' = call.len
    BY DEF Backwards, Rep
  <2>2. df' <=> (call.fn = "memmove" /\ Backwards)
    BY <1>1
  <2>3. /\ rdi' = IF df' THEN call.dst + rcx' - 1 ELSE call.dst + (call.len - rcx')
        /\ rsi' = IF df' THEN call.src + rcx' - 1 ELSE call.src + (call.len - rcx')
    BY <1>1, <2>1 DEF Rep
  <2>4. \A a \in Addresses : ~Written(a)'
    <3>1. \A a \in Addresses : a \in Int
      BY DEF Addresses
    <3>. QED  BY <1>1, <2>1, <3>1 DEF Written
  <2>. QED  BY <1>1, <2>1, <2>2, <2>3, <2>4 DEF Moving
<1>. QED  BY <1>2, <1>3, <1>4 DEF IInv

LEMMA MemsetStep == IInv /\ memset => IInv'
BY RepStarts DEF memset, Rep

LEMMA MemcpyStep == IInv /\ memcpy => IInv'
<1>. SUFFICES ASSUME IInv, memcpy PROVE IInv'
  OBVIOUS
<1>1. ~(call.fn = "memmove" /\ Backwards) /\ call.fn # "memcmp"
  BY DEF memcpy, IInv, Called
<1>. QED  BY <1>1, RepStarts DEF memcpy, Rep

\* memmove chooses the direction in which no byte is overwritten unread.
LEMMA MemmoveStep == IInv /\ memmove => IInv'
<1>. SUFFICES ASSUME IInv, memmove PROVE IInv'
  OBVIOUS
<1>1. CASE Backwards
  BY <1>1, RepStarts DEF memmove, Rep
<1>2. CASE ~Backwards
  <2>1. pc' = "memcpy" /\ call.fn = "memmove" /\ pc = "call"
        /\ UNCHANGED <<mem, df, call, old, rdi, rsi, rcx, result>>
    BY <1>2 DEF memmove
  <2>2. PrimitiveTypes' /\ Moving' /\ PrimitivesAsInC'
    BY <2>1 DEF IInv, PrimitiveTypes, Moving, PrimitivesAsInC
  <2>3. Called'
    BY <1>2, <2>1 DEF IInv, Called, Backwards
  <2>. QED  BY <2>2, <2>3 DEF IInv
<1>. QED  BY <1>1, <1>2

\* The byte that is read next has not been written yet.
LEMMA SourceIsOld ==
    ASSUME IInv, pc = "rep", rcx > 0
    PROVE  /\ rdi \in Addresses /\ ~Written(rdi)
           /\ rdi \in call.dst .. call.dst + call.len - 1
           /\ call.fn # "memset" =>
                 /\ rsi \in Addresses /\ ~Written(rsi)
                 /\ rsi = call.src + rdi - call.dst
<1>1. /\ Size \in Nat /\ call.dst \in Nat /\ call.src \in Nat /\ call.len \in Nat
      /\ call.dst + call.len <= Size /\ call.src + call.len <= Size
      /\ call.fn \in Functions
      /\ call.fn = "memcpy" =>
            call.dst + call.len <= call.src \/ call.src + call.len <= call.dst
  BY CallFacts DEF IInv, PrimitiveTypes
<1>2. /\ rcx \in Nat /\ rcx <= call.len /\ df \in BOOLEAN
      /\ rdi = IF df THEN call.dst + rcx - 1 ELSE call.dst + (call.len - rcx)
      /\ call.fn # "memset" =>
            rsi = IF df THEN call.src + rcx - 1 ELSE call.src + (call.len - rcx)
      /\ call.fn # "memcmp"
      /\ df <=> (call.fn = "memmove" /\ Backwards)
  BY DEF IInv, PrimitiveTypes, Moving
<1>3. rdi \in Addresses /\ ~Written(rdi) /\ rdi \in call.dst .. call.dst + call.len - 1
  BY <1>1, <1>2 DEF Addresses, Written
<1>4. ASSUME call.fn # "memset"
      PROVE  /\ rsi \in Addresses /\ ~Written(rsi)
             /\ rsi = call.src + rdi - call.dst
  <2>1. rsi = IF df THEN call.src + rcx - 1 ELSE call.src + (call.len - rcx)
    BY <1>2, <1>4
  <2>2. rsi = call.src + rdi - call.dst /\ rsi \in Addresses
    BY <1>1, <1>2, <2>1 DEF Addresses
  <2>3. CASE df
    <3>1. call.src < call.dst
      BY <1>1, <1>2, <2>3 DEF Backwards
    <3>. QED  BY <1>1, <1>2, <2>1, <2>2, <2>3, <3>1 DEF Written
  <2>4. CASE ~df
    <3>1. call.dst <= call.src \/ call.dst - call.src >= call.len
      BY <1>1, <1>2, <1>4, <2>4 DEF Backwards, Functions
    <3>. QED  BY <1>1, <1>2, <2>1, <2>2, <2>4, <3>1 DEF Written
  <2>. QED  BY <2>2, <2>3, <2>4
<1>. QED  BY <1>3, <1>4

\* One iteration of rep brings one more byte to its place.
LEMMA RepByteStep == IInv /\ RepByte => IInv'
<1>. SUFFICES ASSUME IInv, RepByte PROVE IInv'
  OBVIOUS
<1>. DEFINE b == IF call.fn = "memset" THEN call.byte % 256 ELSE mem[rsi]
<1>1. /\ pc = "rep" /\ rcx > 0 /\ rcx' = rcx - 1 /\ mem' = [mem EXCEPT ![rdi] = b]
      /\ rdi' = IF df THEN rdi - 1 ELSE rdi + 1
      /\ call.fn # "memset" => rsi' = IF df THEN rsi - 1 ELSE rsi + 1
      /\ rsi' \in {rsi, rsi - 1, rsi + 1}
      /\ UNCHANGED <<df, call, old, result, pc>>
  BY DEF RepByte
<1>2. /\ mem \in Memory /\ old \in Memory /\ call \in Calls
      /\ rdi \in Int /\ rsi \in Int /\ rcx \in Nat /\ df \in BOOLEAN
      /\ call.dst \in Nat /\ call.src \in Nat /\ call.len \in Nat /\ call.byte \in Int
  BY CallFacts DEF IInv, PrimitiveTypes
<1>3. /\ call.fn # "memcmp" /\ rcx <= call.len
      /\ rdi = IF df THEN call.dst + rcx - 1 ELSE call.dst + (call.len - rcx)
      /\ call.fn # "memset" =>
            rsi = IF df THEN call.src + rcx - 1 ELSE call.src + (call.len - rcx)
      /\ df <=> (call.fn = "memmove" /\ Backwards)
      /\ \A a \in Addresses : mem[a] = IF Written(a) THEN Expected(a) ELSE old[a]
  BY <1>1 DEF IInv, Moving
<1>4. /\ rdi \in Addresses
      /\ rdi \in call.dst .. call.dst + call.len - 1
      /\ call.fn # "memset" => rsi \in Addresses /\ ~Written(rsi)
                                /\ rsi = call.src + rdi - call.dst
  BY <1>1, SourceIsOld
<1>5. b = Expected(rdi)
  <2>1. CASE call.fn = "memset"
    BY <2>1, <1>4 DEF Expected
  <2>2. CASE call.fn # "memset"
    <3>1. b = old[rsi]
      BY <2>2, <1>3, <1>4
    <3>. QED  BY <2>2, <3>1, <1>3, <1>4 DEF Expected
  <2>. QED  BY <2>1, <2>2
<1>6. b \in Byte
  BY <1>2, <1>4, <1>5, ExpectedType
<1>. HIDE DEF b
<1>7. /\ mem' \in Memory /\ mem'[rdi] = b
      /\ \A a \in Addresses : a # rdi => mem'[a] = mem[a]
  <2>1. mem \in Memory /\ rdi \in Addresses /\ b \in Byte /\ mem' = [mem EXCEPT ![rdi] = b]
    BY <1>1, <1>2, <1>4, <1>6
  <2>. QED  BY <2>1 DEF Memory
<1>8. PrimitiveTypes'
  <2>1. rdi' \in Int /\ rsi' \in Int /\ rcx' \in Nat
    BY <1>1, <1>2
  <2>. QED  BY <2>1, <1>1, <1>7 DEF IInv, PrimitiveTypes
<1>9. Called' /\ PrimitivesAsInC'
  BY <1>1 DEF Called, PrimitivesAsInC
<1>10. \A a \in Addresses : Written(a)' <=> Written(a) \/ a = rdi
  <2>1. \A a \in Addresses : a \in Int
    BY DEF Addresses
  <2>. QED  BY <1>1, <1>2, <1>3, <2>1 DEF Written
<1>11. \A a \in Addresses : Expected(a)' = Expected(a)
  BY <1>1 DEF Expected
<1>12. \A a \in Addresses : mem'[a] = IF Written(a)' THEN Expected(a)' ELSE old'[a]
  BY <1>1, <1>3, <1>5, <1>7, <1>10, <1>11
<1>13. /\ rcx' <= call.len
       /\ rdi' = IF df THEN call.dst + rcx' - 1 ELSE call.dst + (call.len - rcx')
       /\ call.fn # "memset" =>
             rsi' = IF df THEN call.src + rcx' - 1 ELSE call.src + (call.len - rcx')
  BY <1>1, <1>2, <1>3
<1>14. Backwards' <=> Backwards
  BY <1>1 DEF Backwards
<1>15. Moving'
  BY <1>1, <1>3, <1>12, <1>13, <1>14 DEF Moving
<1>. QED  BY <1>8, <1>9, <1>15 DEF IInv

\* With rcx at 0 the target is complete.
LEMMA RepDoneStep == IInv /\ RepDone => IInv'
<1>. SUFFICES ASSUME IInv, RepDone PROVE IInv'
  OBVIOUS
<1>1. /\ pc = "rep" /\ rcx = 0 /\ pc' = "return"
      /\ UNCHANGED <<mem, call, old, rdi, rsi, rcx, result>>
      /\ df' = IF call.fn = "memmove" /\ Backwards THEN FALSE ELSE df
  BY DEF RepDone
<1>2. /\ mem \in Memory /\ df \in BOOLEAN
      /\ call.dst \in Nat /\ call.len \in Nat
  BY CallFacts DEF IInv, PrimitiveTypes
<1>3. /\ call.fn # "memcmp" /\ (df <=> (call.fn = "memmove" /\ Backwards))
      /\ \A a \in Addresses : mem[a] = IF Written(a) THEN Expected(a) ELSE old[a]
  BY <1>1 DEF IInv, Moving
<1>4. ~df' /\ df' \in BOOLEAN
  BY <1>1, <1>2, <1>3
<1>5. \A a \in Addresses : ~Written(a) => Expected(a) = old[a]
  <2>1. \A a \in Addresses : a \in Int
    BY DEF Addresses
  <2>2. \A a \in Addresses : ~Written(a) => a \notin call.dst .. call.dst + call.len - 1
    BY <1>1, <1>2, <2>1 DEF Written
  <2>. QED  BY <2>2 DEF Expected
<1>6. mem = [a \in 0 .. Size - 1 |-> Expected(a)]
  <2>1. \A a \in Addresses : mem[a] = Expected(a)
    BY <1>3, <1>5
  <2>. QED  BY <2>1, <1>2, MemoryIs
<1>7. PrimitivesAsInC'
  BY <1>1, <1>3, <1>4, <1>6 DEF PrimitivesAsInC, Expected
<1>8. PrimitiveTypes' /\ Called' /\ Moving'
  BY <1>1, <1>4 DEF IInv, PrimitiveTypes, Called, Moving
<1>. QED  BY <1>7, <1>8 DEF IInv

\* memcmp stops at the first difference or at the end.
LEMMA MemcmpStep == IInv /\ memcmp => IInv'
<1>. SUFFICES ASSUME IInv, memcmp PROVE IInv'
  OBVIOUS
<1>1. /\ pc = "call" /\ call.fn = "memcmp" /\ mem = old /\ ~df /\ rcx <= call.len
      /\ \A i \in 0 .. rcx - 1 : old[call.dst + i] = old[call.src + i]
      /\ UNCHANGED <<mem, df, call, old, rdi, rsi>>
  BY DEF IInv, Called, memcmp
<1>2. /\ old \in Memory /\ mem \in Memory /\ rcx \in Nat /\ Size \in Nat
      /\ call.dst \in Nat /\ call.src \in Nat /\ call.len \in Nat
      /\ call.dst + call.len <= Size /\ call.src + call.len <= Size
  BY CallFacts DEF IInv, PrimitiveTypes
<1>3. mem' = [a \in 0 .. Size - 1 |-> Expected(a)']
  <2>1. mem = [a \in 0 .. Size - 1 |-> mem[a]]
    BY <1>2 DEF Memory, Addresses
  <2>2. \A a \in 0 .. Size - 1 : Expected(a)' = mem[a]
    BY <1>1 DEF Expected
  <2>. QED  BY <1>1, <2>1, <2>2
<1>4. CASE rcx = call.len
  <2>1. result' = 0 /\ pc' = "return" /\ rcx' = rcx
    BY <1>4 DEF memcmp
  <2>2. Differ' = {}
    BY <1>1, <1>4 DEF Differ
  <2>3. PrimitivesAsInC'
    BY <1>1, <1>3, <2>1, <2>2 DEF PrimitivesAsInC
  <2>4. PrimitiveTypes' /\ Called' /\ Moving'
    BY <1>1, <2>1 DEF IInv, PrimitiveTypes, Called, Moving
  <2>. QED  BY <2>3, <2>4 DEF IInv
<1>5. CASE rcx # call.len /\ mem[call.dst + rcx] # mem[call.src + rcx]
  <2>. DEFINE d == old[call.dst + rcx]
              s == old[call.src + rcx]
  <2>1. result' = d - s /\ pc' = "return" /\ rcx' = rcx /\ d # s
    BY <1>1, <1>5 DEF memcmp
  <2>2. call.dst + rcx \in Addresses /\ call.src + rcx \in Addresses
    BY <1>1, <1>2, <1>5 DEF Addresses
  <2>3. d \in Byte /\ s \in Byte
    BY <1>2, <2>2 DEF Memory
  <2>4. rcx \in Differ'
    <3>1. rcx \in 0 .. call.len - 1
      BY <1>1, <1>2, <1>5
    <3>. QED  BY <1>1, <2>1, <3>1 DEF Differ
  <2>5. \A j \in Differ' : rcx <= j
    <3>1. ASSUME NEW j \in 0 .. call.len - 1, j < rcx
          PROVE  old[call.dst + j] = old[call.src + j]
      <4>1. j \in 0 .. rcx - 1
        BY <1>2, <3>1
      <4>. QED  BY <1>1, <4>1
    <3>2. \A j \in 0 .. call.len - 1 : j \in Int
      OBVIOUS
    <3>. QED  BY <1>1, <1>2, <3>1, <3>2 DEF Differ
  <2>. HIDE DEF d, s
  <2>6. result' \in Int /\ result' # 0 /\ (result' < 0 <=> d < s)
    BY <2>1, <2>3 DEF Byte
  <2>7. Differ' # {} /\ \E i \in Differ' :
            /\ \A j \in Differ' : i <= j
            /\ result' # 0
            /\ result' < 0 <=> old[call.dst + i] < old[call.src + i]
    BY <2>4, <2>5, <2>6 DEF d, s
  <2>8. PrimitivesAsInC'
    BY <1>1, <1>3, <2>7 DEF PrimitivesAsInC
  <2>9. PrimitiveTypes' /\ Called' /\ Moving'
    BY <1>1, <2>1, <2>6 DEF IInv, PrimitiveTypes, Called, Moving
  <2>. QED  BY <2>8, <2>9 DEF IInv
<1>6. CASE rcx # call.len /\ mem[call.dst + rcx] = mem[call.src + rcx]
  <2>1. rcx' = rcx + 1 /\ UNCHANGED <<result, pc>>
    BY <1>6 DEF memcmp
  <2>2. rcx' \in Nat /\ rcx' <= call.len
    BY <1>1, <1>2, <1>6, <2>1
  <2>3. \A i \in 0 .. rcx' - 1 : old[call.dst + i] = old[call.src + i]
    <3>1. \A i \in 0 .. rcx' - 1 : i \in 0 .. rcx - 1 \/ i = rcx
      BY <1>2, <2>1
    <3>. QED  BY <1>1, <1>6, <3>1
  <2>4. PrimitiveTypes' /\ Called' /\ Moving' /\ PrimitivesAsInC'
    BY <1>1, <2>1, <2>2, <2>3 DEF IInv, PrimitiveTypes, Called, Moving, PrimitivesAsInC
  <2>. QED  BY <2>4 DEF IInv
<1>. QED  BY <1>4, <1>5, <1>6

\* The report of an exception starts over with memory as it is.
LEMMA ExceptionStep == IInv /\ Exception => IInv'
<1>. SUFFICES ASSUME IInv, Exception PROVE IInv'
  OBVIOUS
<1>1. /\ df' = FALSE /\ call' \in Reports /\ old' = mem /\ pc' = "call" /\ rcx' = 0
      /\ UNCHANGED <<mem, rdi, rsi, result>>
  BY DEF Exception
<1>2. call' \in Calls
  BY <1>1, PrimitivesAssumption
<1>3. call'.len \in Nat
  BY <1>2, CallFacts
<1>4. PrimitiveTypes'
  BY <1>1, <1>2 DEF IInv, PrimitiveTypes
<1>5. Called'
  BY <1>1, <1>3 DEF Called
<1>6. Moving' /\ PrimitivesAsInC'
  BY <1>1 DEF Moving, PrimitivesAsInC
<1>. QED  BY <1>4, <1>5, <1>6 DEF IInv

LEMMA StutterStep == IInv /\ UNCHANGED vars => IInv'
BY DEF IInv, PrimitiveTypes, Called, Moving, PrimitivesAsInC, Written, Expected, Differ,
       Backwards, vars

LEMMA NextIInv == IInv /\ [Next]_vars => IInv'
BY MemsetStep, MemcpyStep, MemmoveStep, RepByteStep, RepDoneStep, MemcmpStep, ExceptionStep,
   StutterStep DEF Next

-----------------------------------------------------------------------------
\* PrimitivesAsInC: for every memory and every legal call, memmove with any
\* overlap included, the target holds what the source held before, memcmp
\* tells the first difference, and DF is clear on return, also in the report
\* of an exception that came while memmove had set it.
THEOREM AsInC == Spec => []PrimitivesAsInC
<1>1. IInv => PrimitivesAsInC
  BY DEF IInv
<1>. QED  BY <1>1, InitIInv, NextIInv, PTL DEF Spec

=============================================================================
