----------------------------- MODULE Primitives ------------------------------
(***************************************************************************)
(* memset, memcpy, memmove and memcmp of arch.rs, which the compiler calls *)
(* behind the kernel's back: one byte of a rep instruction at a time.  An  *)
(* exception may come at any of them, also while memmove has set DF; its   *)
(* handler never returns, and calls these routines itself.                 *)
(***************************************************************************)
EXTENDS Integers

CONSTANTS
    Size,        \* bytes of memory
    Values,      \* what a byte holds
    Fills,       \* the i32 that memset is called with
    Reports      \* calls of the exception handler

Byte == 0 .. 255
Functions == {"memset", "memcpy", "memmove", "memcmp"}

\* C callers own the ranges, and memcpy's do not overlap.
Legal(c) ==
    /\ c.dst + c.len <= Size /\ c.src + c.len <= Size
    /\ c.fn = "memcpy" => c.dst + c.len <= c.src \/ c.src + c.len <= c.dst

Calls ==
    {c \in [fn : Functions, dst : 0 .. Size, src : 0 .. Size, len : 0 .. Size, byte : Fills] :
        Legal(c)}

ASSUME PrimitivesAssumption ==
    Size \in Nat /\ Values \subseteq Byte /\ Fills \subseteq Int /\ Reports \subseteq Calls

VARIABLES
    mem, df,
    call, old,       \* the call under way, and memory when it was made
    rdi, rsi, rcx,   \* memcmp's index is rcx
    result, pc

vars == <<mem, df, call, old, rdi, rsi, rcx, result, pc>>

Init ==
    /\ mem \in [0 .. Size - 1 -> Values] /\ df = FALSE
    /\ call \in Calls /\ old = mem
    /\ rdi = 0 /\ rsi = 0 /\ rcx = 0 /\ result = 0 /\ pc = "call"

Rep(dst, src, len) == rdi' = dst /\ rsi' = src /\ rcx' = len /\ pc' = "rep"

memset ==
    /\ pc = "call" /\ call.fn = "memset"
    /\ Rep(call.dst, call.src, call.len)
    /\ UNCHANGED <<mem, df, call, old, result>>

\* Also the rest of memmove, where the ranges may overlap with dst below src.
memcpy ==
    /\ pc \in {"call", "memcpy"} /\ (pc = "call" => call.fn = "memcpy")
    /\ Rep(call.dst, call.src, call.len)
    /\ UNCHANGED <<mem, df, call, old, result>>

\* Mutant: only a distance beyond the end counts as overlap.
BugBackwards == call.dst > call.src /\ call.dst - call.src < call.len - 1
Backwards == call.dst > call.src /\ call.dst - call.src < call.len

memmove ==
    /\ pc = "call" /\ call.fn = "memmove"
    /\ IF Backwards
       THEN df' = TRUE /\ Rep(call.dst + call.len - 1, call.src + call.len - 1, call.len)
       ELSE pc' = "memcpy" /\ UNCHANGED <<df, rdi, rsi, rcx>>
    /\ UNCHANGED <<mem, call, old, result>>

\* External: one iteration of rep stosb or rep movsb.
RepByte ==
    /\ pc = "rep" /\ rcx > 0
    /\ mem' = [mem EXCEPT ![rdi] = IF call.fn = "memset" THEN call.byte % 256 ELSE mem[rsi]]
    /\ rcx' = rcx - 1
    /\ rdi' = IF df THEN rdi - 1 ELSE rdi + 1
    /\ rsi' = IF call.fn = "memset" THEN rsi ELSE IF df THEN rsi - 1 ELSE rsi + 1
    /\ UNCHANGED <<df, call, old, result, pc>>

\* memmove ends its backward branch with CLD.
RepDone ==
    /\ pc = "rep" /\ rcx = 0
    /\ df' = IF call.fn = "memmove" /\ Backwards THEN FALSE ELSE df
    /\ pc' = "return"
    /\ UNCHANGED <<mem, call, old, rdi, rsi, rcx, result>>

memcmp ==
    /\ pc = "call" /\ call.fn = "memcmp"
    /\ IF rcx = call.len \/ mem[call.dst + rcx] # mem[call.src + rcx]
       THEN /\ result' = IF rcx = call.len THEN 0
                         ELSE mem[call.dst + rcx] - mem[call.src + rcx]
            /\ pc' = "return" /\ UNCHANGED rcx
       ELSE rcx' = rcx + 1 /\ UNCHANGED <<result, pc>>
    /\ UNCHANGED <<mem, df, call, old, rdi, rsi>>

\* exception_common; the handler starts with CLD and reports.  One at a time.
Exception ==
    /\ pc = "rep" /\ call \notin Reports
    /\ df' = FALSE
    /\ call' \in Reports /\ old' = mem
    /\ pc' = "call"
    /\ rcx' = 0 /\ UNCHANGED <<mem, rdi, rsi, result>>

Next ==
    \/ memset \/ memcpy \/ memmove \/ RepByte \/ RepDone \/ memcmp
    \/ Exception
    \/ pc = "return" /\ UNCHANGED vars

Spec == Init /\ [][Next]_vars

-----------------------------------------------------------------------------
(* PrimitivesAsInC: a call leaves the target as if the source had been read
   in full first, however the two overlap, and every other byte alone; memcmp
   tells the order of the first two bytes that differ, as unsigned bytes; and
   the direction flag is clear, in the report of an exception too that came
   while memmove had it set (arch.rs: memset to memcmp, entry.S: CLD). *)
Differ == {i \in 0 .. call.len - 1 : old[call.dst + i] # old[call.src + i]}
Expected(a) ==
    IF call.fn = "memcmp" \/ a \notin call.dst .. call.dst + call.len - 1 THEN old[a]
    ELSE IF call.fn = "memset" THEN call.byte % 256
    ELSE old[call.src + a - call.dst]
PrimitivesAsInC ==
    pc = "return" =>
        /\ mem = [a \in 0 .. Size - 1 |-> Expected(a)]
        /\ ~df
        /\ call.fn = "memcmp" =>
              IF Differ = {} THEN result = 0
              ELSE \E i \in Differ :
                      /\ \A j \in Differ : i <= j
                      /\ result # 0
                      /\ result < 0 <=> old[call.dst + i] < old[call.src + i]
=============================================================================
