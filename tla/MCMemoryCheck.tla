---------------------------- MODULE MCMemoryCheck ----------------------------
(***************************************************************************)
(* Every machine of seven pages with one or two zones, in either order,    *)
(* that overlap or not, and up to two reserved pages.                      *)
(***************************************************************************)
EXTENDS MemoryCheck

Ranges == {z \in [start : 0 .. 6, end : 1 .. 7] : z.start < z.end}
MCLayouts ==
    {[bits |-> 7, reserved |-> r, zones |-> zs] :
        r \in 0 .. 2, zs \in [1 .. 1 -> Ranges] \cup [1 .. 2 -> Ranges]}
=============================================================================
