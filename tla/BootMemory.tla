----------------------------- MODULE BootMemory ------------------------------
(***************************************************************************)
(* From the BIOS to the page manager: the Loader collects the E820 map     *)
(* into a table in low memory (src/boot/loader.asm), the kernel validates  *)
(* and copies it (src/kernel/bootinfo.rs) and memory::init derives the     *)
(* zones and the place of its own metadata (src/kernel/memory.rs) before   *)
(* it writes any of it.                                                    *)
(*                                                                         *)
(* The BIOS is external: it may end the list with EBX=0 or with CF, return *)
(* short or extended descriptors, fail or never end.  The machine may be   *)
(* reset at any moment, and DRAM keeps the last table and its header.      *)
(*                                                                         *)
(* Addresses are integers below Word (2^64); a checked_add that reaches    *)
(* Word is the panic it is in the code.                                    *)
(***************************************************************************)
EXTENDS MemoryLayout

CONSTANTS
    Word,          \* 2^64
    PageSize,      \* PAGE_2M_SIZE
    SmallPage,     \* PAGE_4K_SIZE
    MaxEntries,    \* MAX_ENTRIES, MemoryStructMaxEntries
    Answers,       \* the descriptors a BIOS may return
    Bootstrap,     \* the ranges read_memory_map insists on
    TextStart,     \* _text, physical
    KernelEnd,     \* _end, physical
    PageBytes,     \* size_of::<Page>()
    ZoneBytes,     \* MAX_ZONES * size_of::<Zone>()
    DirectRamEnd,  \* DIRECT_RAM_END
    MaxResets      \* bound: resets of the machine

Usable == 1
ReservedKind == 2

ASSUME BootAssumption ==
    /\ Word \in Nat /\ PageSize \in Nat \ {0} /\ SmallPage \in Nat \ {0}
    /\ MaxEntries \in Nat
    /\ Answers \subseteq [address : 0 .. Word - 1, length : 0 .. Word - 1,
                          kind : Nat, size : {20, 24},
                          attributes : SUBSET {"enabled", "other"}]
    /\ TextStart \in Nat /\ KernelEnd \in Nat /\ TextStart < KernelEnd
    /\ PageBytes \in Nat /\ ZoneBytes \in Nat /\ DirectRamEnd \in Nat
    /\ Bootstrap \subseteq [start : Nat, end : 0 .. TextStart]
    /\ MaxResets \in Nat

VARIABLES
    pc,
    fault,        \* the check that made the kernel panic
    header,       \* at 0x4ff0
    table,        \* at 0x5000
    map,          \* MemoryMap, the kernel's copy
    next,         \* entries memory::init has measured
    physicalEnd,  \* physical_end
    totalRam,     \* total_ram
    zones,        \* the usable ranges met so far, in pages
    layout,       \* what the page manager starts from
    \* history
    reported,     \* what the BIOS returned since the reset
    origin,       \* the entry each zone comes from
    resets

memory == <<header, table>>
measureVars == <<next, physicalEnd, totalRam, zones, origin>>
vars == <<pc, fault, memory, map, measureVars, layout, reported, resets>>

Slots == 1 .. MaxEntries
\* format: magic, version, entry_size and capacity; flags: 1 is complete.
Headers == [format : {"E820", "other"}, count : 0 .. MaxEntries + 1, flags : {0, 1}]
Empty == [address |-> 0, length |-> 0, kind |-> 0]
NoLayout == [bits |-> 0, reserved |-> 0, zones |-> <<>>]

End(e) == e.address + e.length
DivCeil(a, k) == (a + k - 1) \div k
AlignUp(a, k) == k * DivCeil(a, k)

-----------------------------------------------------------------------------
(***************************************************************************)
(* The Loader.                                                             *)
(***************************************************************************)
\* Only the 24-byte form has extended attributes: bit 0 and the others.
Enabled(a) == a.size = 24 => "enabled" \in a.attributes
Plain(a) == a.size = 24 => "other" \notin a.attributes

\* A descriptor that is not enabled keeps its slot with length 0; one with
\* any other extended attribute becomes reserved.
Normalise(a) ==
    [address |-> a.address,
     length |-> IF ~Enabled(a) THEN 0 ELSE a.length,
     kind |-> IF ~Plain(a) THEN ReservedKind ELSE a.kind]

Locals ==
    /\ map' = <<>> /\ next' = 0 /\ physicalEnd' = 0 /\ totalRam' = 0
    /\ zones' = <<>> /\ origin' = <<>> /\ layout' = NoLayout
    /\ fault' = "none" /\ reported' = <<>>

\* Power on: low memory holds anything, an accepted table of old included.
Init ==
    /\ pc = "reset" /\ fault = "none"
    /\ header \in Headers
    /\ \E e \in {Empty} \cup {Normalise(a) : a \in Answers} : table = [s \in Slots |-> e]
    /\ map = <<>> /\ next = 0 /\ physicalEnd = 0 /\ totalRam = 0
    /\ zones = <<>> /\ origin = <<>> /\ layout = NoLayout
    /\ reported = <<>> /\ resets = 0

\* Reset or power failure: the Loader and the kernel are read again from
\* disk, DRAM survives.
Reset ==
    /\ pc # "reset" /\ resets < MaxResets
    /\ resets' = resets + 1
    /\ pc' = "reset"
    /\ Locals
    /\ UNCHANGED memory

\* Mutant: the count survives from the last boot.
BugClear ==
    /\ pc = "reset"
    /\ header' = [header EXCEPT !.format = "E820", !.flags = 0]
    /\ table' = [s \in Slots |-> Empty]
    /\ pc' = "query"
    /\ UNCHANGED <<fault, map, measureVars, layout, reported, resets>>

\* rep stosw over header and table, then the constant fields of the header.
Clear ==
    /\ pc = "reset"
    /\ header' = [format |-> "E820", count |-> 0, flags |-> 0]
    /\ table' = [s \in Slots |-> Empty]
    /\ pc' = "query"
    /\ UNCHANGED <<fault, map, measureVars, layout, reported, resets>>

\* int 0x15 returned a descriptor; more: EBX is not 0.  A full table is a
\* failure, not a truncation.
Store(a, more) ==
    /\ pc = "query" /\ header.count < MaxEntries
    /\ reported' = Append(reported, a)
    /\ table' = [table EXCEPT ![header.count + 1] = Normalise(a)]
    /\ header' = [header EXCEPT !.count = header.count + 1]
    /\ pc' = IF more THEN "query" ELSE "publish"
    /\ UNCHANGED <<fault, map, measureVars, layout, resets>>

\* Mutant: a full table starts the collection over.
BugTableFull(a) ==
    /\ pc = "query" /\ header.count >= MaxEntries
    /\ pc' = "reset"
    /\ Locals
    /\ UNCHANGED <<memory, resets>>

TableFull(a) ==
    /\ pc = "query" /\ header.count >= MaxEntries
    /\ reported' = Append(reported, a)
    /\ pc' = "hang"
    /\ UNCHANGED <<fault, memory, map, measureVars, layout, resets>>

\* int 0x15 returned CF: the end of the list, unless nothing came before.
Carry ==
    /\ pc = "query"
    /\ pc' = IF header.count = 0 THEN "hang" ELSE "publish"
    /\ UNCHANGED <<fault, memory, map, measureVars, layout, reported, resets>>

\* Wrong signature, or a descriptor of neither 20 nor 24 bytes.
Malformed ==
    /\ pc = "query"
    /\ pc' = "hang"
    /\ UNCHANGED <<fault, memory, map, measureVars, layout, reported, resets>>

Publish ==
    /\ pc = "publish"
    /\ header' = [header EXCEPT !.flags = 1]
    /\ pc' = "kernel"
    /\ UNCHANGED <<fault, table, map, measureVars, layout, reported, resets>>

-----------------------------------------------------------------------------
(***************************************************************************)
(* bootinfo::read_memory_map.                                              *)
(***************************************************************************)
\* A failed check panics, naming the check; otherwise the kernel goes on.
Outcome(why, where) ==
    /\ fault' = why
    /\ pc' = IF why = "none" THEN where ELSE "panic"

\* MemoryMap::contains_usable
ContainsUsable(m, start, end) ==
    /\ start < end
    /\ \E k \in 1 .. Len(m) :
          /\ m[k].kind = Usable /\ m[k].length # 0
          /\ m[k].address <= start /\ End(m[k]) >= end

\* Mutant: a range that begins where an earlier one does is let through.
BugOverlap(e, f) == e.address < End(f) /\ f.address < e.address

Overlap(e, f) == e.address < End(f) /\ f.address < End(e)

\* validate_entries
ValidEntries(m) ==
    \A k \in 1 .. Len(m) :
        /\ End(m[k]) < Word
        /\ m[k].length # 0 =>
              \A j \in 1 .. k - 1 : ~(m[j].length # 0 /\ Overlap(m[k], m[j]))

\* The checks of read_memory_map in order, m being the copy of the table.
ReadFault(m) ==
    IF header.format # "E820" \/ header.flags # 1 THEN "handoff"
    ELSE IF header.count \notin Slots THEN "count"
    ELSE IF ~ValidEntries(m) THEN "entries"
    ELSE IF \E r \in Bootstrap : ~ContainsUsable(m, r.start, r.end) THEN "bootstrap"
    ELSE "none"

ReadMemoryMap ==
    /\ pc = "kernel"
    /\ map' = IF header.count \in Slots THEN [k \in 1 .. header.count |-> table[k]] ELSE <<>>
    /\ Outcome(ReadFault(map'), "measure")
    /\ UNCHANGED <<memory, measureVars, layout, reported, resets>>

-----------------------------------------------------------------------------
(***************************************************************************)
(* memory::init, up to the point where it writes metadata.                 *)
(***************************************************************************)
\* E820Entry::usable_range, in pages; both ends are rounded inward.
FirstPage(e) == DivCeil(e.address, PageSize)

\* Mutant: the end is rounded up.
BugEndPage(e) == DivCeil(End(e), PageSize)

EndPage(e) == End(e) \div PageSize

HasPages(e) == e.kind = Usable /\ e.length # 0 /\ FirstPage(e) < EndPage(e)

\* The first loop: the checks an entry of length # 0 goes through.
MeasureFault(e) ==
    IF End(e) >= Word THEN "end"
    ELSE IF e.kind = Usable /\ totalRam + e.length >= Word THEN "ram sum"
    ELSE IF e.kind = Usable /\ e.address + PageSize - 1 >= Word THEN "alignment"
    ELSE "none"

SkipEntry ==
    /\ pc = "measure" /\ next < Len(map)
    /\ map[next + 1].length = 0
    /\ next' = next + 1
    /\ UNCHANGED <<pc, fault, memory, map, physicalEnd, totalRam, zones, origin,
                   layout, reported, resets>>

MeasureEntry ==
    /\ pc = "measure" /\ next < Len(map)
    /\ LET e == map[next + 1]
       IN  /\ e.length # 0
           /\ physicalEnd' = IF End(e) > physicalEnd THEN End(e) ELSE physicalEnd
           /\ totalRam' = IF e.kind = Usable THEN totalRam + e.length ELSE totalRam
           /\ zones' = IF HasPages(e)
                       THEN Append(zones, [start |-> FirstPage(e), end |-> EndPage(e)])
                       ELSE zones
           /\ origin' = IF HasPages(e) THEN Append(origin, next + 1) ELSE origin
           /\ Outcome(MeasureFault(e), "measure")
    /\ next' = next + 1
    /\ UNCHANGED <<memory, map, layout, reported, resets>>

BitsSize == DivCeil(physicalEnd, PageSize)

\* bitmap, Page array and zones behind the kernel, each on its own 4 KiB page.
\* Where one of the code's checked sums overflows, this exceeds DirectRamEnd.
MetadataEnd(bits) ==
    LET bitmap == AlignUp(KernelEnd, SmallPage)
        pages == AlignUp(bitmap + 8 * DivCeil(bits, 64), SmallPage)
        zoneTable == AlignUp(pages + bits * PageBytes, SmallPage)
    IN  AlignUp(zoneTable + ZoneBytes, 256)

\* Mutant: the page with the end of the metadata is not reserved.
BugReservedPages(bits) == MetadataEnd(bits) \div PageSize

ReservedPages(bits) == DivCeil(MetadataEnd(bits), PageSize)

\* The checks before the first write, in order.
LayOutFault(end) ==
    IF zones = <<>> THEN "no pages"
    ELSE IF physicalEnd + PageSize - 1 >= Word THEN "alignment"
    ELSE IF end > DirectRamEnd THEN "metadata"
    ELSE IF ~ContainsUsable(map, TextStart, end) THEN "kernel"
    ELSE "none"

LayOut ==
    /\ pc = "measure" /\ next = Len(map)
    /\ Outcome(LayOutFault(MetadataEnd(BitsSize)), "ready")
    /\ layout' = [bits |-> BitsSize, reserved |-> ReservedPages(BitsSize), zones |-> zones]
    /\ UNCHANGED <<memory, map, measureVars, reported, resets>>

-----------------------------------------------------------------------------
Final == pc \in {"hang", "panic", "ready"}
Stopped == Final /\ UNCHANGED vars

Boot ==
    \/ Clear
    \/ \E a \in Answers : TableFull(a) \/ \E more \in BOOLEAN : Store(a, more)
    \/ Carry \/ Malformed
    \/ Publish
    \/ ReadMemoryMap
    \/ SkipEntry \/ MeasureEntry
    \/ LayOut

Next == Boot \/ Reset \/ Stopped

\* The CPU runs on and the BIOS returns from every call.
Spec == Init /\ [][Next]_vars /\ WF_vars(Boot)

-----------------------------------------------------------------------------
(***************************************************************************)
(* Properties.                                                             *)
(***************************************************************************)
Entries == [address : Nat, length : Nat, kind : Nat]

\* The variables have their types.
BootTypeOK ==
    /\ pc \in {"reset", "query", "publish", "kernel", "measure", "hang", "panic", "ready"}
    /\ fault \in {"none", "handoff", "count", "entries", "bootstrap", "end",
                  "ram sum", "alignment", "no pages", "metadata", "kernel"}
    /\ header \in Headers
    /\ table \in [Slots -> Entries]
    /\ map \in Seq(Entries)
    /\ next \in 0 .. Len(map)
    /\ physicalEnd \in Nat /\ totalRam \in Nat
    /\ zones \in Seq([start : Nat, end : Nat])
    /\ origin \in Seq(Nat)
    /\ reported \in Seq(Answers)
    /\ resets \in 0 .. MaxResets

Accepted == pc \in {"measure", "ready"}

\* The kernel works on the whole map the BIOS returned in this boot, entry by
\* entry: no stale entry of an earlier boot, no truncated or half written
\* table, whenever the machine was reset and however the list ended.
CompleteHandoff ==
    Accepted =>
        /\ Len(map) = Len(reported)
        /\ \A k \in 1 .. Len(map) : map[k] = Normalise(reported[k])

\* What the Loader publishes passes the header check, and what validate_entries
\* accepted cannot overflow in memory::init: the RAM sum of disjoint ranges
\* below 2^64 stays below it.
NeverRefusedTwice == fault \notin {"handoff", "count", "end", "ram sum"}

\* Every page the allocator may hand out lies wholly in one range that the
\* BIOS reported as enabled, ordinary RAM, and shares no byte with any other
\* enabled range it reported.
ZonesAreRam ==
    pc = "ready" =>
        \A z \in 1 .. Len(layout.zones) :
        \A p \in layout.zones[z].start .. layout.zones[z].end - 1 :
        \E k \in 1 .. Len(reported) :
            /\ reported[k].kind = Usable /\ Enabled(reported[k]) /\ Plain(reported[k])
            /\ reported[k].address <= p * PageSize
            /\ p * PageSize + PageSize <= End(reported[k])
            /\ \A j \in 1 .. Len(reported) \ {k} :
                  (Enabled(reported[j]) /\ reported[j].length # 0) =>
                      \/ End(reported[j]) <= p * PageSize
                      \/ p * PageSize + PageSize <= reported[j].address

\* The page manager starts from a layout it can work with: zones inside the
\* bitmap, reserved prefix inside the bitmap, and no two zones share a page,
\* so the assert "overlapping E820 RAM zones" cannot fail.
LayoutEstablished ==
    pc = "ready" => WellFormed(layout) /\ ZonesDisjoint(layout)

\* The pages with the bootstrap structures, the kernel and the metadata of the
\* page manager itself are reserved, and the metadata is addressable.
OwnMemoryReserved ==
    pc = "ready" =>
        /\ MetadataEnd(layout.bits) <= layout.reserved * PageSize
        /\ MetadataEnd(layout.bits) <= DirectRamEnd
        /\ KernelEnd <= MetadataEnd(layout.bits)
        /\ \A r \in Bootstrap : r.end <= layout.reserved * PageSize

\* What memory::init builds on when it installs the zones, whatever the BIOS
\* reported: disjoint zones, and its own memory out of the allocator's reach.
HandoverLayout == LayoutEstablished /\ OwnMemoryReserved

\* The boot comes to an end, with a layout or with an error, even when the
\* BIOS never ends its list.
BootDecides == <>[]Final

=============================================================================
