---------------------------- MODULE MemoryLayout -----------------------------
(***************************************************************************)
(* What the boot code hands to the page manager: a memory map in whole     *)
(* pages, [bits, zones, reserved].  BootMemory produces one, PageAllocator *)
(* starts from one.                                                        *)
(***************************************************************************)
EXTENDS Integers, Sequences

\* Zones are not empty, in BIOS order and not necessarily sorted, every one
\* below bits, and the reserved prefix lies inside the bitmap.
WellFormed(L) ==
    /\ L.bits \in Nat
    /\ L.reserved \in 0 .. L.bits
    /\ L.zones \in Seq([start : Nat, end : Nat])
    /\ \A z \in 1 .. Len(L.zones) :
          /\ L.zones[z].start < L.zones[z].end
          /\ L.zones[z].end <= L.bits

\* No page belongs to two zones.
ZonesDisjoint(L) ==
    \A y, z \in 1 .. Len(L.zones) :
        y # z => \/ L.zones[y].end <= L.zones[z].start
                 \/ L.zones[z].end <= L.zones[y].start

=============================================================================
