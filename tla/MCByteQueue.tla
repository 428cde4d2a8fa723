----------------------------- MODULE MCByteQueue -----------------------------
(***************************************************************************)
(* Three slots, so that the head wraps while one, two or three bytes wait; *)
(* three distinct bytes, so that every permutation of the slots shows.     *)
(***************************************************************************)
EXTENDS ByteQueue

MCInputs == {30, 158, 225}
MCCapacity == 3
MCMaxLost == 2
=============================================================================
