------------------------------- MODULE MCTasks -------------------------------
(***************************************************************************)
(* Every pair of adjacent or separate zones on a machine of six pages,     *)
(* sorted or not, some without a page for the thread.                      *)
(***************************************************************************)
EXTENDS Tasks

Zone(s, e) == [start |-> s, end |-> e]

MCLayouts ==
    {[bits |-> 6, reserved |-> 2, zones |-> zs] :
        zs \in {<<Zone(1, m), Zone(n, 6)>> : m \in 2 .. 4, n \in 4 .. 5}
               \cup {<<Zone(n, 6), Zone(1, m)>> : m \in 2 .. 4, n \in 4 .. 5}}

=============================================================================
