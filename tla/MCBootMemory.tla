---------------------------- MODULE MCBootMemory -----------------------------
(***************************************************************************)
(* An address space of 16384 bytes in pages of 512, an E820 table of four  *)
(* slots.  The answers hold bootable maps in any order, and what can go    *)
(* wrong with them: reserved ranges beside, inside and across RAM,         *)
(* disabled and extended descriptors, ranges at, up to and past the end of *)
(* the address space.                                                      *)
(***************************************************************************)
EXTENDS BootMemory

Short(a, l, k) ==
    [address |-> a, length |-> l, kind |-> k, size |-> 20, attributes |-> {}]
Long(a, l, k, att) ==
    [address |-> a, length |-> l, kind |-> k, size |-> 24, attributes |-> att]

MCAnswers == {
    Short(0, 200, 1),                  \* RAM with the bootstrap ranges
    Short(250, 3750, 1),               \* RAM with the kernel, pages 1 to 6
    Short(250, 600, 1),                \* too small for the metadata
    Short(4100, 1020, 1),              \* begins inside a page: page 9
    Long(5120, 1080, 1, {"enabled"}),  \* next to it, ends inside a page
    Long(5120, 1080, 1, {"enabled", "other"}),   \* the same with another attribute
    Short(2600, 100, 2),               \* reserved inside the kernel's range
    Long(2600, 100, 2, {}),  \* the same, disabled
    Short(3900, 300, 9),               \* unknown kind, across two ranges of RAM
    Short(16000, 300, 1),              \* RAM whose rounding overflows
    Short(6200, 8800, 1),              \* much RAM, needs much metadata
    Short(16300, 80, 2),               \* rounding its end overflows
    Short(16380, 8, 2)}                \* past the end

MCBootstrap == {[start |-> 20, end |-> 80], [start |-> 100, end |-> 180]}

=============================================================================
