--------------------------------- MODULE Pic ---------------------------------
(***************************************************************************)
(* The master 8259A and the commands src/kernel/interrupt/pic.rs gives it. *)
(* Lines are edge triggered.  The slave and the cascade line IRQ2 stay     *)
(* masked in every configuration the code programs, so no vector above 7   *)
(* is ever delivered and the slave has no state here.                      *)
(***************************************************************************)
EXTENDS Integers

VARIABLES
    irr,    \* latched requests
    isr,    \* lines in service
    imr     \* masked lines

picVars == <<irr, isr, imr>>

Lines == 0 .. 7
TimerLine == 0
KeyboardLine == 1
SpuriousLine == 7

\* The lines the PIC would interrupt for: line 0 has the highest priority,
\* and a line in service holds back itself and everything below it.
Requests == {l \in irr \ imr : \A s \in isr : l < s}

\* The interrupt acknowledge cycle.
Acknowledge(l) == irr' = irr \ {l} /\ isr' = isr \cup {l} /\ UNCHANGED imr

\* What the latch of a line holds after its level went from `before` to
\* `after`.  A request withdrawn before its acknowledge is forgotten by a
\* real 8259A and kept by common emulations.
Latched(l, before, after) ==
    IF after /\ ~before THEN {irr \cup {l}}
    ELSE IF before /\ ~after THEN {irr, irr \ {l}} ELSE {irr}

\* init: the ICW sequence resets the edge latches, nothing is in service, and
\* mask_all follows.
pic_init == irr' = {} /\ isr' = {} /\ imr' = Lines

mask_all == imr' = Lines
unmask_timer == imr' = Lines \ {TimerLine}
unmask_keyboard == imr' = Lines \ {KeyboardLine}

\* The request of the highest vector vanished before the acknowledge.
is_spurious(irq) == irq = SpuriousLine /\ irq \notin isr

\* Specific EOI.
end_of_interrupt(irq) == isr' = isr \ {irq}
=============================================================================
