------------------------------ MODULE Terminal -------------------------------
(***************************************************************************)
(* What console.rs shows its reader: one line of cols * rows cells, bent   *)
(* into rows and closed into a ring (there is no scrolling: the row after  *)
(* the last is the first, written over), with a cursor on one of them.     *)
(***************************************************************************)
EXTENDS Integers

CONSTANTS Glyphs, Blank, Unpainted, Tab

VARIABLES cols, rows, at, cells

Size == cols * rows
Write(n, c) ==
    /\ cells' = [p \in DOMAIN cells |->
                    IF \E k \in 0 .. n - 1 : p = (at + k) % Size THEN c ELSE cells[p]]
    /\ at' = (at + n) % Size

Put == \E c \in Glyphs : Write(1, c)

\* To the next tab stop, or as far beyond the edge as the stop would be.
TabStop == Write(Tab - ((at % cols) % Tab), Blank)

NewLine == at' = (at - (at % cols) + cols) % Size /\ UNCHANGED cells

Return == at' = at - (at % cols) /\ UNCHANGED cells

Backspace ==
    /\ at' = IF at = 0 THEN 0 ELSE at - 1
    /\ cells' = [cells EXCEPT ![at'] = Blank]

Init == at = 0 /\ cells = [p \in 0 .. Size - 1 |-> Unpainted]

Next == (Put \/ TabStop \/ NewLine \/ Return \/ Backspace) /\ UNCHANGED <<cols, rows>>

Spec == Init /\ [][Next]_<<cols, rows, at, cells>>
=============================================================================
