---------------------------- MODULE PageAllocator ----------------------------
(***************************************************************************)
(* The physical page manager: src/kernel/memory.rs (descriptors, zone      *)
(* installation, reservation, the run-time consistency check) and          *)
(* src/kernel/memory/allocator.rs (allocate_pages, free_pages).            *)
(*                                                                         *)
(* A page is a 2 MiB frame, named by its physical page number.  Three      *)
(* records of the same fact are kept by the code and must agree: the       *)
(* bitmap, the Page descriptors and the counters of each Zone.             *)
(* allocate() trusts the counters to skip a zone and the bitmap to choose  *)
(* pages; release() trusts the descriptors.                                *)
(*                                                                         *)
(* A failed assert! is the kernel's panic: print and halt for ever, the    *)
(* phase "panic".  Nothing reads the descriptors after that, so an action  *)
(* whose assert fails makes its other assignments all the same.            *)
(***************************************************************************)
EXTENDS Integers, Sequences, FiniteSets, MemoryLayout

CONSTANTS
    Layouts,     \* the machines: [bits, zones, reserved], in pages
    DirectEnd,   \* DIRECT_RAM_END / PAGE_2M_SIZE
    Counts       \* the page counts callers ask for

(***************************************************************************)
(* What memory::init has established when it starts writing metadata (see  *)
(* BootMemory).  That the zones are disjoint is NOT assumed: the code      *)
(* asserts it.                                                             *)
(***************************************************************************)
ASSUME LayoutAssumption == \A L \in Layouts : WellFormed(L)

ASSUME BoundAssumption == DirectEnd \in Nat /\ Counts \subseteq Nat

VARIABLES
    layout,      \* the memory map of this boot
    phase,       \* how far memory::init is, or "panic"
    zonesSize,   \* zones_size
    zoneOf,      \* Page.zone by page number; 0 is the null pointer
    used,        \* the bitmap: the pages whose bit is 1
    attr,        \* Page.attribute
    refs,        \* Page.reference_count
    usingCount,  \* Zone.page_using_count
    freeCount,   \* Zone.page_free_count
    refTotal,    \* Zone.total_pages_ref_count
    held,        \* the PageRun credentials callers own
    reply        \* what the last allocate_pages returned

pageVars == <<zoneOf, used, attr, refs>>
zoneVars == <<zonesSize, usingCount, freeCount, refTotal>>
vars == <<layout, phase, pageVars, zoneVars, held, reply>>

Areas == {"Mapped", "Any"}
Flags == {"PAGE_TABLE_MAPPED", "KERNEL_INIT", "REFERENCED", "ACTIVE",
          "KERNEL", "KERNEL_SHARE_TO_USER"}
Sharing == {"REFERENCED", "KERNEL_SHARE_TO_USER"}
ReserveFlags == {"PAGE_TABLE_MAPPED", "KERNEL_INIT", "ACTIVE", "KERNEL"}

Pages == 0 .. layout.bits - 1
Zones == 1 .. Len(layout.zones)
Reserved == 0 .. layout.reserved - 1

ZonePages(z) == layout.zones[z].start .. layout.zones[z].end - 1

\* The pages of z that the descriptors attribute to it.
OwnedBy(z) == {p \in Pages : zoneOf[p] = z}

RunPages(run) == run.first .. run.first + run.count - 1

Runs == [area : Areas, first : Nat, count : Nat]
NoReply == [area |-> "Any", count |-> 0, result |-> "none"]
Replies == [area : Areas, count : Nat,
            result : {"none", "InvalidCount", "OutOfMemory", "Ok"}]

\* assert!(ok): the code goes on to phase next, or panics.
Require(ok, next) == phase' = IF ok THEN next ELSE "panic"

First(x, S) == x \in S /\ \A y \in S : x <= y

-----------------------------------------------------------------------------
(***************************************************************************)
(* init_page on every page of S, want[p] being the attributes for page p.  *)
(* An unowned page becomes owned with one reference; a page that is shared *)
(* gains a reference; any other page only gains attributes.                *)
(***************************************************************************)
\* Mutant: the bitmap, not the attributes, tells whether a page is unowned.
BugFresh(S) == {p \in S : p \notin used}

Fresh(S) == {p \in S : attr[p] = {}}
Shared(S, want) ==
    {p \in S \ Fresh(S) : (attr[p] \cup want[p]) \cap Sharing # {}}

\* assert!(zone.page_free_count > 0), once for each page taken from a zone.
CanInit(S) == \A z \in Zones : Cardinality(Fresh(S) \cap OwnedBy(z)) <= freeCount[z]

InitPages(S, want) ==
    LET fresh == Fresh(S)
        again == Shared(S, want)
        Taken(z) == Cardinality(fresh \cap OwnedBy(z))
        Again(z) == Cardinality(again \cap OwnedBy(z))
    IN  /\ attr' = [p \in Pages |-> IF p \in S THEN attr[p] \cup want[p] ELSE attr[p]]
        /\ refs' = [p \in Pages |->
                       IF p \in fresh THEN 1
                       ELSE IF p \in again THEN refs[p] + 1 ELSE refs[p]]
        /\ used' = used \cup S
        /\ usingCount' = [z \in Zones |-> usingCount[z] + Taken(z)]
        /\ freeCount' = [z \in Zones |-> freeCount[z] - Taken(z)]
        /\ refTotal' = [z \in Zones |-> refTotal[z] + Taken(z) + Again(z)]

(***************************************************************************)
(* clean_page on every page of S: one reference less for each owned page,  *)
(* and a page without references is free again.                            *)
(***************************************************************************)
CanClean(S) ==
    \A p \in S : /\ zoneOf[p] # 0
                 /\ "KERNEL_INIT" \notin attr[p]
                 /\ attr[p] # {} => refs[p] > 0

CleanPages(S) ==
    LET owned == {p \in S : attr[p] # {}}
        last == {p \in owned : refs[p] = 1}
        Dropped(z) == Cardinality(owned \cap OwnedBy(z))
        Freed(z) == Cardinality(last \cap OwnedBy(z))
    IN  /\ attr' = [p \in Pages |-> IF p \in last THEN {} ELSE attr[p]]
        /\ refs' = [p \in Pages |-> IF p \in owned THEN refs[p] - 1 ELSE refs[p]]
        /\ used' = used \ last
        /\ usingCount' = [z \in Zones |-> usingCount[z] - Freed(z)]
        /\ freeCount' = [z \in Zones |-> freeCount[z] + Freed(z)]
        /\ refTotal' = [z \in Zones |-> refTotal[z] - Dropped(z)]

-----------------------------------------------------------------------------
(***************************************************************************)
(* memory::init, from the moment it writes metadata.                       *)
(***************************************************************************)
\* The bitmap all ones, descriptors and zones all zero.
Init ==
    /\ layout \in Layouts
    /\ phase = "zones"
    /\ zonesSize = 0
    /\ zoneOf = [p \in Pages |-> 0]
    /\ used = Pages
    /\ attr = [p \in Pages |-> {}]
    /\ refs = [p \in Pages |-> 0]
    /\ usingCount = [z \in Zones |-> 0]
    /\ freeCount = [z \in Zones |-> 0]
    /\ refTotal = [z \in Zones |-> 0]
    /\ held = {}
    /\ reply = NoReply

\* One iteration of the loop that turns a usable range into a Zone.  The
\* assert is "overlapping E820 RAM zones".
InstallZone ==
    /\ phase = "zones"
    /\ zonesSize < Len(layout.zones)
    /\ LET z == zonesSize + 1
       IN  /\ Require(\A p \in ZonePages(z) : zoneOf[p] = 0, "zones")
           /\ zonesSize' = z
           /\ freeCount' = [freeCount EXCEPT ![z] = Cardinality(ZonePages(z))]
           /\ zoneOf' = [p \in Pages |-> IF p \in ZonePages(z) THEN z ELSE zoneOf[p]]
           /\ used' = used \ ZonePages(z)
    /\ UNCHANGED <<layout, attr, refs, usingCount, refTotal, held, reply>>

\* Firmware, loader, kernel, stacks and metadata: pages [0, reserved).
ReservePages ==
    /\ phase = "zones"
    /\ zonesSize = Len(layout.zones)
    /\ Require(CanInit(Reserved), "check")
    /\ InitPages(Reserved, [p \in Reserved |-> ReserveFlags])
    /\ UNCHANGED <<layout, zonesSize, zoneOf, held, reply>>

\* The references to the pages of z, one pair for each.
References(z) == UNION {{p} \X (1 .. refs[p]) : p \in ZonePages(z)}

\* What init compares before it reports "Memory invariants OK".
Consistent(z) ==
    /\ \A p \in ZonePages(z) : p \in used <=> attr[p] # {}
    /\ freeCount[z] = Cardinality(ZonePages(z) \ used)
    /\ usingCount[z] + freeCount[z] = Cardinality(ZonePages(z))
    /\ refTotal[z] = Cardinality(References(z))

CheckInvariants ==
    /\ phase = "check"
    /\ Require(\A z \in Zones : Consistent(z), "ready")
    /\ UNCHANGED <<layout, pageVars, zoneVars, held, reply>>

-----------------------------------------------------------------------------
(***************************************************************************)
(* allocate: zones in installation order, first fit inside a zone.  A zone *)
(* is passed over when its (clipped) size or its free counter rules it     *)
(* out.  The bit by bit scan that finds the first window is the subject of *)
(* module AllocatorScan; here it is the smallest start of a free window.   *)
(***************************************************************************)
\* Mutant: the scan is not clipped to the direct map.
BugScanEnd(z, area) == layout.zones[z].end

ScanEnd(z, area) ==
    IF area = "Mapped" /\ DirectEnd < layout.zones[z].end
    THEN DirectEnd ELSE layout.zones[z].end

\* Mutant: a zone with exactly count free pages is passed over.
BugSkipped(z, area, count) ==
    \/ layout.zones[z].start + count > ScanEnd(z, area)
    \/ count >= freeCount[z]

\* count > end.saturating_sub(start) || count > zone.page_free_count
Skipped(z, area, count) ==
    \/ layout.zones[z].start + count > ScanEnd(z, area)
    \/ count > freeCount[z]

\* Mutant: the last bit of the window is not looked at.
BugWindows(z, area, count) ==
    {f \in layout.zones[z].start .. ScanEnd(z, area) - count :
        \A p \in f .. f + count - 2 : p \notin used}

\* The starts of the free windows of count pages in zone z.
Windows(z, area, count) ==
    {f \in layout.zones[z].start .. ScanEnd(z, area) - count :
        \A p \in f .. f + count - 1 : p \notin used}

Candidates(area, count) ==
    {z \in 1 .. zonesSize : /\ ~Skipped(z, area, count)
                            /\ Windows(z, area, count) # {}}

AllocFlags(p) ==
    {"ACTIVE", "KERNEL"} \cup IF p < DirectEnd THEN {"PAGE_TABLE_MAPPED"} ELSE {}

AllocateFails(area, count) ==
    /\ phase = "ready"
    /\ \/ /\ count = 0
          /\ reply' = [area |-> area, count |-> count, result |-> "InvalidCount"]
       \/ /\ count > 0
          /\ Candidates(area, count) = {}
          /\ reply' = [area |-> area, count |-> count, result |-> "OutOfMemory"]
    /\ UNCHANGED <<layout, phase, pageVars, zoneVars, held>>

AllocateSucceeds(area, count) ==
    /\ phase = "ready"
    /\ count > 0
    /\ \E z \in Candidates(area, count) : \E f \in Windows(z, area, count) :
          /\ First(z, Candidates(area, count))
          /\ First(f, Windows(z, area, count))
          /\ LET run == [area |-> area, first |-> f, count |-> count]
                 S == RunPages(run)
             IN  /\ Require(CanInit(S), "ready")
                 /\ InitPages(S, [p \in S |-> AllocFlags(p)])
                 /\ held' = held \cup {run}
    /\ reply' = [area |-> area, count |-> count, result |-> "Ok"]
    /\ UNCHANGED <<layout, zonesSize, zoneOf>>

(***************************************************************************)
(* release: the whole run is validated before the first page is given      *)
(* back.  The credential is consumed, so each run is released once.        *)
(***************************************************************************)
\* Mutant: the end of the run must be a valid page number.
BugReleasable(run) ==
    /\ run.count > 0
    /\ run.first + run.count < layout.bits
    /\ zoneOf[run.first] # 0
    /\ \A p \in RunPages(run) :
          /\ zoneOf[p] = zoneOf[run.first]
          /\ p \in used
          /\ attr[p] # {}
          /\ "KERNEL_INIT" \notin attr[p]
          /\ refs[p] = 1

Releasable(run) ==
    /\ run.count > 0
    /\ run.first + run.count <= layout.bits
    /\ zoneOf[run.first] # 0
    /\ \A p \in RunPages(run) :
          /\ zoneOf[p] = zoneOf[run.first]
          /\ p \in used
          /\ attr[p] # {}
          /\ "KERNEL_INIT" \notin attr[p]
          /\ refs[p] = 1

Release(run) ==
    /\ phase = "ready"
    /\ run \in held
    /\ Require(Releasable(run) /\ CanClean(RunPages(run)), "ready")
    /\ CleanPages(RunPages(run))
    /\ held' = held \ {run}
    /\ reply' = NoReply
    /\ UNCHANGED <<layout, zonesSize, zoneOf>>

\* A panic prints and halts; the kernel does nothing else.
Halted == phase = "panic" /\ UNCHANGED vars

Next ==
    \/ InstallZone
    \/ ReservePages
    \/ CheckInvariants
    \/ \E area \in Areas, count \in Counts :
          AllocateFails(area, count) \/ AllocateSucceeds(area, count)
    \/ \E run \in held : Release(run)
    \/ Halted

Spec == Init /\ [][Next]_vars

-----------------------------------------------------------------------------
(***************************************************************************)
(* Properties.                                                             *)
(***************************************************************************)
\* Every variable has its type; the counters are unsigned, so this also says
\* that no `-=` on a usize counter of a Zone or a Page ever wraps.
TypeOK ==
    /\ layout \in Layouts
    /\ phase \in {"zones", "check", "ready", "panic"}
    /\ zonesSize \in 0 .. Len(layout.zones)
    /\ zoneOf \in [Pages -> {0} \cup Zones]
    /\ used \in SUBSET Pages
    /\ attr \in [Pages -> SUBSET Flags]
    /\ refs \in [Pages -> Nat]
    /\ usingCount \in [Zones -> Nat]
    /\ freeCount \in [Zones -> Nat]
    /\ refTotal \in [Zones -> Nat]
    /\ held \in SUBSET Runs
    /\ reply \in Replies

Initialised == phase \in {"check", "ready"}

\* Two usable ranges of the map share a whole page.
Overlapping ==
    \E y, z \in Zones : y # z /\ ZonePages(y) \cap ZonePages(z) # {}

\* The only assert of memory::init and of the allocator that can fail is the
\* one about overlapping zones: the counters never run out under init_page,
\* the run-time check never fails, and release accepts every credential that
\* allocate handed out, whatever the order of the calls.
PanicsOnlyOnOverlap == phase = "panic" => Overlapping

\* check_allocation_state, after every call: bitmap, descriptors and zone
\* counters describe the same ownership, no page has a second reference, and
\* a hole of the memory map is never free.
Bookkeeping ==
    Initialised =>
        /\ \A p \in Pages :
              /\ \A z \in Zones : zoneOf[p] = z <=> p \in ZonePages(z)
              /\ p \in used <=> (zoneOf[p] = 0 \/ attr[p] # {})
              /\ refs[p] = IF attr[p] = {} THEN 0 ELSE 1
        /\ \A z \in Zones :
              /\ usingCount[z] = Cardinality(ZonePages(z) \cap used)
              /\ freeCount[z] = Cardinality(ZonePages(z) \ used)
              /\ refTotal[z] = usingCount[z]

\* A page belongs to at most one credential, a credential lies inside one
\* zone and never touches a reserved page, and the pages in use are exactly
\* the holes, the reserved prefix and the outstanding credentials: nothing
\* leaks, and releasing everything restores the state after boot.
ExclusiveOwnership ==
    Initialised =>
        /\ \A r \in held :
              /\ r.count > 0
              /\ \E z \in Zones : RunPages(r) \subseteq ZonePages(z)
              /\ RunPages(r) \cap Reserved = {}
        /\ \A r, s \in held : r # s => RunPages(r) \cap RunPages(s) = {}
        /\ used = {p \in Pages : zoneOf[p] = 0} \cup Reserved
                     \cup UNION {RunPages(r) : r \in held}

\* OutOfMemory is the truth: when allocate reports it, no zone has a window
\* of that many free pages.  The zones it skipped by their counters hid none.
CompleteSearch ==
    (phase = "ready" /\ reply.result = "OutOfMemory") =>
        \A z \in Zones : Windows(z, reply.area, reply.count) = {}

\* AllocationArea::Mapped promises that PAGE_OFFSET + address may be
\* dereferenced: the whole run lies in the direct map, and every page marked
\* PAGE_TABLE_MAPPED by allocate does.
MappedRunsAddressable ==
    Initialised =>
        \A r \in held : \A p \in RunPages(r) :
            /\ r.area = "Mapped" => p < DirectEnd
            /\ "PAGE_TABLE_MAPPED" \in attr[p] <=> p < DirectEnd

\* No call disturbs what somebody else owns: a reserved page, and a page whose
\* credential is outstanding before and after the step, keep their descriptor.
OthersUndisturbed ==
    [][phase = "ready" =>
         \A p \in Pages :
            (p \in Reserved \/ \E r \in held \cap held' : p \in RunPages(r)) =>
                /\ attr'[p] = attr[p]
                /\ refs'[p] = refs[p]
                /\ zoneOf'[p] = zoneOf[p]
                /\ p \in used <=> p \in used']_vars

=============================================================================
