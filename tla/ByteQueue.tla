------------------------------ MODULE ByteQueue ------------------------------
(***************************************************************************)
(* The ring buffer between the keyboard interrupt and the main loop:       *)
(* ByteQueue of src/kernel/keyboard.rs.  Its operations, as actions; who   *)
(* may call them when is the subject of module Interrupts.                 *)
(***************************************************************************)
EXTENDS Integers, Sequences

CONSTANTS
    Inputs,      \* the bytes the device sends
    Capacity,    \* QUEUE_CAPACITY
    MaxLost      \* bound on the two loss counters

Byte == 0 .. 255
None == -1

ASSUME QueueAssumption ==
    /\ Inputs \subseteq Byte
    /\ Capacity \in Nat \ {0}
    /\ MaxLost \in Nat

VARIABLES
    bytes, head, length, dropped, errors,   \* the fields of ByteQueue
    popped                                  \* what the last pop returned

queueVars == <<bytes, head, length, dropped, errors, popped>>

QueueInit ==
    /\ bytes = [i \in 0 .. Capacity - 1 |-> 0]
    /\ head = 0 /\ length = 0
    /\ dropped = 0 /\ errors = 0
    /\ popped = None

\* Mutants: a full ring overwrites its oldest byte; a full ring drops the
\* byte without counting it; the head does not wrap.
BugPushOverwrites(byte) ==
    /\ bytes' = [bytes EXCEPT ![(head + length) % Capacity] = byte]
    /\ IF length = Capacity THEN dropped' = dropped + 1 /\ UNCHANGED length
                            ELSE length' = length + 1 /\ UNCHANGED dropped
    /\ UNCHANGED <<head, errors, popped>>

BugPushSilent(byte) ==
    \/ length = Capacity /\ UNCHANGED queueVars
    \/ /\ length # Capacity
       /\ bytes' = [bytes EXCEPT ![(head + length) % Capacity] = byte]
       /\ length' = length + 1
       /\ UNCHANGED <<head, dropped, errors, popped>>

Push(byte) ==
    \/ /\ length = Capacity
       /\ dropped' = dropped + 1
       /\ UNCHANGED <<bytes, head, length, errors, popped>>
    \/ /\ length # Capacity
       /\ bytes' = [bytes EXCEPT ![(head + length) % Capacity] = byte]
       /\ length' = length + 1
       /\ UNCHANGED <<head, dropped, errors, popped>>

Pop ==
    \/ /\ length = 0
       /\ popped' = None
       /\ UNCHANGED <<bytes, head, length, dropped, errors>>
    \/ /\ length # 0
       /\ popped' = bytes[head]
       /\ head' = (head + 1) % Capacity
       /\ length' = length - 1
       /\ UNCHANGED <<bytes, dropped, errors>>

\* on_interrupt found no byte, or one that is not the keyboard's.
CountError ==
    /\ errors' = errors + 1
    /\ UNCHANGED <<bytes, head, length, dropped, popped>>

\* The main loop prints the two counters and clears them.
Report ==
    /\ dropped # 0 \/ errors # 0
    /\ dropped' = 0 /\ errors' = 0
    /\ UNCHANGED <<bytes, head, length, popped>>

QueueNext ==
    \/ \E byte \in Inputs : dropped < MaxLost /\ Push(byte)
    \/ Pop
    \/ errors < MaxLost /\ CountError
    \/ Report

QueueSpec == QueueInit /\ [][QueueNext]_queueVars

-----------------------------------------------------------------------------
\* The fields keep their types: head stays inside the array and length never
\* passes QUEUE_CAPACITY or wraps below zero.
QueueTypeOK ==
    /\ bytes \in [0 .. Capacity - 1 -> Byte]
    /\ head \in 0 .. Capacity - 1
    /\ length \in 0 .. Capacity
    /\ dropped \in Nat /\ errors \in Nat
    /\ popped \in Byte \cup {None}

\* The bytes waiting, oldest first.
Contents == [i \in 1 .. length |-> bytes[(head + i - 1) % Capacity]]

Fifo == INSTANCE BoundedFifo WITH fifo <- Contents

\* The ring with its wrapping head is a bounded FIFO that drops the newest
\* byte when full: push never overwrites an unread byte and pop returns the
\* oldest one, wherever head stands.
RingIsFifo == Fifo!Spec
=============================================================================
