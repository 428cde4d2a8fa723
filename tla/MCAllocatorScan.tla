--------------------------- MODULE MCAllocatorScan ---------------------------
(***************************************************************************)
(* Small machines for AllocatorScan.                                       *)
(***************************************************************************)
EXTENDS AllocatorScan

Zone(s, e) == [start |-> s, end |-> e]

\* Two zones with a hole between them; the direct map ends in the first one.
Holed == [bits |-> 8, reserved |-> 2, zones |-> <<Zone(1, 5), Zone(6, 8)>>]
\* Adjacent zones: a run must not be joined across their border.
Adjacent == [bits |-> 7, reserved |-> 2, zones |-> <<Zone(4, 7), Zone(1, 4)>>]

\* Overlapping zones, which init refuses.
Clashing == [bits |-> 4, reserved |-> 1, zones |-> <<Zone(1, 3), Zone(2, 4)>>]

MCLayouts == {Holed, Adjacent, Clashing}
MCDirectEnd == 4
MCCounts == 0 .. 4

=============================================================================
