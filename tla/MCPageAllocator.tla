--------------------------- MODULE MCPageAllocator ---------------------------
(***************************************************************************)
(* Small machines for PageAllocator.  The direct map ends inside a zone,   *)
(* as 10 MiB does inside the RAM above 1 MiB.                              *)
(***************************************************************************)
EXTENDS PageAllocator

Zone(s, e) == [start |-> s, end |-> e]

\* Page 0 mixed (no zone), RAM, a one-page hole, RAM; kernel in pages 0 and 1.
Holed == [bits |-> 8, reserved |-> 2, zones |-> <<Zone(1, 5), Zone(6, 8)>>]
\* The BIOS lists the upper range first; only page 0 is reserved.
Unsorted == [bits |-> 7, reserved |-> 1, zones |-> <<Zone(4, 7), Zone(1, 3)>>]
\* Adjacent zones, the second one beyond the direct map; one zone all reserved.
Adjacent == [bits |-> 7, reserved |-> 3, zones |-> <<Zone(1, 3), Zone(3, 5), Zone(5, 7)>>]
\* A map whose ranges overlap, which init must refuse.
Clashing == [bits |-> 6, reserved |-> 1, zones |-> <<Zone(1, 4), Zone(3, 6)>>]

MCLayouts == {Holed, Unsorted, Adjacent, Clashing}
MCDirectEnd == 4
MCCounts == 0 .. 5

=============================================================================
