---------------------------- MODULE MCInterrupts -----------------------------
(***************************************************************************)
(* Four typed bytes against a queue of two slots: the ring wraps, fills    *)
(* and drops, before, during and after keyboard::init.  One spurious       *)
(* vector, at any point where interrupts are open.                         *)
(***************************************************************************)
EXTENDS Interrupts

MCInputs == 1 .. 4
MCCapacity == 2
MCMaxLost == 4
MCMaxBytes == 4
MCMaxNoise == 1
=============================================================================
