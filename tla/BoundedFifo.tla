----------------------------- MODULE BoundedFifo -----------------------------
(***************************************************************************)
(* What the keyboard queue promises (the doc comment of ByteQueue in       *)
(* src/kernel/keyboard.rs): bytes leave in the order they entered, a full  *)
(* queue drops the newest byte and counts it, nothing unread is ever       *)
(* overwritten, and the loss counters are reported as a pair.              *)
(***************************************************************************)
EXTENDS Integers, Sequences

CONSTANTS Inputs, Capacity, MaxLost

VARIABLES fifo, dropped, errors, popped

None == -1

Init == fifo = <<>> /\ dropped = 0 /\ errors = 0 /\ popped = None

Put(byte) ==
    /\ \/ /\ Len(fifo) < Capacity
          /\ fifo' = Append(fifo, byte)
          /\ UNCHANGED dropped
       \/ /\ Len(fifo) = Capacity
          /\ dropped < MaxLost
          /\ dropped' = dropped + 1
          /\ UNCHANGED fifo
    /\ UNCHANGED <<errors, popped>>

Take ==
    /\ \/ fifo = <<>> /\ popped' = None /\ UNCHANGED fifo
       \/ fifo # <<>> /\ popped' = Head(fifo) /\ fifo' = Tail(fifo)
    /\ UNCHANGED <<dropped, errors>>

Fault == errors < MaxLost /\ errors' = errors + 1 /\ UNCHANGED <<fifo, dropped, popped>>

Report ==
    /\ dropped # 0 \/ errors # 0
    /\ dropped' = 0 /\ errors' = 0
    /\ UNCHANGED <<fifo, popped>>

Next == (\E byte \in Inputs : Put(byte)) \/ Take \/ Fault \/ Report

Spec == Init /\ [][Next]_<<fifo, dropped, errors, popped>>
=============================================================================
