----------------------------- MODULE MemoryCheck -----------------------------
(***************************************************************************)
(* The self test behind the feature memory-check: verify() of allocator.rs *)
(* as a caller of the page manager.  Its asserts about the page manager    *)
(* are told apart from what it requires of the machine, where it stops.    *)
(***************************************************************************)
EXTENDS PageAllocator

CONSTANTS
    Large,       \* the run that crosses a bitmap word, 65
    Huge         \* usize::MAX, more pages than any machine has

ASSUME CheckAssumption ==
    Large \in Nat \ {0} /\ Huge \in Nat /\ \A L \in Layouts : L.bits < Huge

VARIABLES
    step,        \* the next call of verify
    baseline,    \* the totals it starts from
    totals,      \* what check_allocation_state returned last
    kept         \* the runs it holds; the first may be given back on the way

checkVars == <<step, baseline, totals, kept>>
allCheckVars == <<vars, checkVars>>

Zoned == UNION {ZonePages(z) : z \in 1 .. zonesSize}
NoTotals == [used |-> 0, free |-> 0, refs |-> 0]

\* check_allocation_state: what it returns, and what it asserts first.
Totals == [used |-> Cardinality(Zoned \cap used), free |-> Cardinality(Zoned \ used),
           refs |-> Cardinality(UNION {References(z) : z \in 1 .. zonesSize})]

StateHolds ==
    /\ \A z \in 1 .. zonesSize :
          /\ \A p \in ZonePages(z) : /\ zoneOf[p] = z
                                     /\ p \in used <=> attr[p] # {}
                                     /\ attr[p] # {} <=> refs[p] > 0
          /\ usingCount[z] = Cardinality(ZonePages(z) \cap used)
          /\ freeCount[z] = Cardinality(ZonePages(z) \ used)
          /\ refTotal[z] = Cardinality(References(z))
          /\ usingCount[z] + freeCount[z] = Cardinality(ZonePages(z))
    /\ \A p \in Pages : (zoneOf[p] = 0 \/ "KERNEL_INIT" \in attr[p]) => p \in used

CheckInit == Init /\ step = "zero" /\ baseline = NoTotals /\ totals = NoTotals /\ kept = <<>>

\* The asserts between two calls; the descriptors are compared after each.
Holds(ok, next) ==
    /\ step' = IF StateHolds' /\ phase' = "ready" /\ ok THEN next ELSE "assert"
    /\ totals' = Totals'

\* memory::init, then the baseline.
Prepare ==
    \/ (InstallZone \/ ReservePages) /\ UNCHANGED checkVars
    \/ /\ CheckInvariants /\ Holds(TRUE, "zero")
       /\ baseline' = Totals /\ UNCHANGED kept

Ask(here, area, count) ==
    /\ phase = "ready" /\ step = here
    /\ AllocateFails(area, count) \/ AllocateSucceeds(area, count)
    /\ UNCHANGED baseline

Ok == reply'.result = "Ok"
Granted == CHOOSE run \in held' : run \notin held

\* assert_eq!(allocate(..).unwrap_err(), error), and nothing has changed.
Refused(here, area, count, error, next) ==
    /\ Ask(here, area, count)
    /\ Holds(reply'.result = error /\ Totals' = totals, next)
    /\ UNCHANGED kept

GiveBack(here, i, ok, next) ==
    /\ phase = "ready" /\ step = here
    /\ Release(kept[i]) /\ Holds(ok, next)
    /\ kept' = SubSeq(kept, 1, i - 1) \o SubSeq(kept, i + 1, Len(kept))
    /\ UNCHANGED baseline

\* A run is a run of its own pages, and the other one keeps out of it.
Apart(r, s) == s.first < r.first \/ s.first >= r.first + r.count

-----------------------------------------------------------------------------
ZeroPages == Refused("zero", "Any", 0, "InvalidCount", "huge")
TooMany == Refused("huge", "Any", Huge, "OutOfMemory", "large")

\* "verification needs 65 contiguous pages"
TakeLarge ==
    /\ Ask("large", "Any", Large)
    /\ IF Ok THEN /\ Holds(Totals'.free = baseline.free - Large, "other")
                  /\ kept' = <<Granted>>
             ELSE Holds(TRUE, "stop") /\ UNCHANGED kept

\* The unwrap needs one page more.
TakeOther ==
    /\ Ask("other", "Any", 1)
    /\ IF Ok THEN Holds(Apart(kept[1], Granted), "give_large") /\ kept' = Append(kept, Granted)
             ELSE Holds(TRUE, "stop") /\ UNCHANGED kept

\* Released, but remembered: the next run must start where it did.
GiveLarge ==
    /\ phase = "ready" /\ step = "give_large"
    /\ Release(kept[1]) /\ Holds(TRUE, "again")
    /\ UNCHANGED <<kept, baseline>>

TakeAgain ==
    /\ Ask("again", "Any", Large)
    /\ Holds(Ok /\ Granted.first = kept[1].first, "give_again")
    /\ UNCHANGED kept

GiveAgain == GiveBack("give_again", 1, TRUE, "give_other")
GiveOther == GiveBack("give_other", 1, Totals' = baseline, "fill")

\* The direct map, page by page; the array held has room for all of it.
Fill ==
    /\ Ask("fill", "Mapped", 1)
    /\ IF Ok THEN /\ Holds(Granted.first + 1 <= DirectEnd /\ Len(kept) < DirectEnd, "fill")
                  /\ kept' = Append(kept, Granted)
             ELSE /\ Holds(TRUE, IF Len(kept) >= 2 THEN "make_hole" ELSE "stop")
                  /\ UNCHANGED kept

MakeHole ==
    /\ phase = "ready" /\ step = "make_hole"
    /\ Release(kept[1]) /\ Holds(TRUE, "fragmented")
    /\ UNCHANGED <<kept, baseline>>

Fragmented == Refused("fragmented", "Mapped", 2, "OutOfMemory", "fill_hole")

FillHole ==
    /\ Ask("fill_hole", "Mapped", 1)
    /\ Holds(Ok /\ Granted.first = kept[1].first, "empty")
    /\ UNCHANGED kept

Empty ==
    GiveBack("empty", 1, Len(kept) = 1 => Totals' = baseline,
             IF Len(kept) > 1 THEN "empty"
             ELSE IF zonesSize = 1 /\ baseline.used = 0 THEN "entire" ELSE "stop")

\* All of RAM, up to the last page of the zone, and then nothing.
TakeEntire ==
    /\ Ask("entire", "Any", baseline.free)
    /\ Holds(Ok /\ Totals'.free = 0, "exhausted")
    /\ kept' = IF Ok THEN <<Granted>> ELSE kept

NothingLeft == Refused("exhausted", "Any", 1, "OutOfMemory", "give_entire")
GiveEntire == GiveBack("give_entire", 1, Totals' = baseline, "done")

Finished == (step \in {"stop", "assert", "done"} \/ phase = "panic") /\ UNCHANGED allCheckVars

CheckNext ==
    \/ Prepare \/ ZeroPages \/ TooMany \/ TakeLarge \/ TakeOther \/ GiveLarge
    \/ TakeAgain \/ GiveAgain \/ GiveOther \/ Fill \/ MakeHole \/ Fragmented
    \/ FillHole \/ Empty \/ TakeEntire \/ NothingLeft \/ GiveEntire
    \/ Finished

CheckSpec == CheckInit /\ [][CheckNext]_allCheckVars

-----------------------------------------------------------------------------
(* SelfTestSound: on every memory map verify() completes or stops for what it
   requires of the machine; first fit, reuse, exhaustion and the return to the
   baseline never fail it (allocator.rs: verify, check_allocation_state). *)
SelfTestSound == step # "assert" /\ (phase = "panic" => Overlapping)
=============================================================================
