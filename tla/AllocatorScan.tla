---------------------------- MODULE AllocatorScan ----------------------------
(***************************************************************************)
(* The search loop of MemoryDescriptor::allocate, bit by bit               *)
(* (src/kernel/memory/allocator.rs): the zones in order, and inside a zone *)
(* one probe of the bitmap per step, with a counter of consecutive free    *)
(* bits.  PageAllocator states the result as "the first window of the      *)
(* first zone that has one"; this module shows that the loop finds it.     *)
(*                                                                         *)
(* Interrupts are off and there is one CPU, so no other operation of the   *)
(* page manager runs while a search is under way.                          *)
(***************************************************************************)
EXTENDS PageAllocator

VARIABLES
    pc,           \* "idle", "zone" (at the head of the outer loop) or "bit"
    area,         \* the arguments of the call
    count,
    zi,           \* i of the outer loop, counted from 1
    index,        \* index of the inner loop
    consecutive   \* free bits seen since the last used one

scanVars == <<pc, area, count, zi, index, consecutive>>
allVars == <<vars, scanVars>>

\* Locals do not survive the call.
Return ==
    /\ pc' = "idle" /\ area' = "Any" /\ count' = 0
    /\ zi' = 0 /\ index' = 0 /\ consecutive' = 0

Idle == pc = "idle" /\ UNCHANGED scanVars

ScanInit ==
    /\ Init
    /\ pc = "idle" /\ area = "Any" /\ count = 0
    /\ zi = 0 /\ index = 0 /\ consecutive = 0

\* allocate is called; count == 0 returns at once.
RejectZero(a, n) ==
    /\ Idle /\ n = 0
    /\ AllocateFails(a, n)

StartSearch(a, n) ==
    /\ pc = "idle" /\ phase = "ready" /\ n > 0
    /\ pc' = "zone" /\ area' = a /\ count' = n
    /\ zi' = 1 /\ index' = 0 /\ consecutive' = 0
    /\ UNCHANGED vars

\* The head of the outer loop: pass the zone over, or start on its first bit.
SkipZone ==
    /\ pc = "zone" /\ zi <= zonesSize
    /\ Skipped(zi, area, count)
    /\ zi' = zi + 1
    /\ UNCHANGED <<vars, pc, area, count, index, consecutive>>

EnterZone ==
    /\ pc = "zone" /\ zi <= zonesSize
    /\ ~Skipped(zi, area, count)
    /\ pc' = "bit"
    /\ index' = layout.zones[zi].start
    /\ consecutive' = 0
    /\ UNCHANGED <<vars, area, count, zi>>

Exhausted ==
    /\ pc = "zone" /\ zi > zonesSize
    /\ reply' = [area |-> area, count |-> count, result |-> "OutOfMemory"]
    /\ Return
    /\ UNCHANGED <<layout, phase, pageVars, zoneVars, held>>

\* One iteration of the inner loop that does not complete a run.
Probe ==
    /\ pc = "bit" /\ index < ScanEnd(zi, area)
    /\ \/ index \in used /\ consecutive' = 0
       \/ /\ index \notin used /\ consecutive + 1 # count
          /\ consecutive' = consecutive + 1
    /\ index' = index + 1
    /\ UNCHANGED <<vars, pc, area, count, zi>>

LeaveZone ==
    /\ pc = "bit" /\ index >= ScanEnd(zi, area)
    /\ pc' = "zone" /\ zi' = zi + 1
    /\ UNCHANGED <<vars, area, count, index, consecutive>>

\* Mutant: the first page is one too low.
BugFound == [area |-> area, first |-> index - count, count |-> count]

\* first = index + 1 - count; the pages are marked only now.
Found ==
    [area |-> area, first |-> index + 1 - count, count |-> count]

Commit ==
    /\ pc = "bit" /\ index < ScanEnd(zi, area)
    /\ index \notin used /\ consecutive + 1 = count
    /\ LET S == RunPages(Found)
       IN  /\ Require(CanInit(S), "ready")
           /\ InitPages(S, [p \in S |-> AllocFlags(p)])
    /\ held' = held \cup {Found}
    /\ reply' = [area |-> area, count |-> count, result |-> "Ok"]
    /\ Return
    /\ UNCHANGED <<layout, zonesSize, zoneOf>>

Search == SkipZone \/ EnterZone \/ Exhausted \/ Probe \/ LeaveZone \/ Commit

ScanNext ==
    \/ Idle /\ (InstallZone \/ ReservePages \/ CheckInvariants)
    \/ \E a \in Areas, n \in Counts : RejectZero(a, n) \/ StartSearch(a, n)
    \/ Search
    \/ \E run \in held : Idle /\ Release(run)
    \/ Idle /\ Halted

ScanSpec == ScanInit /\ [][ScanNext]_allVars

-----------------------------------------------------------------------------
(***************************************************************************)
(* Properties.                                                             *)
(***************************************************************************)
\* The locals of allocate have their types, and a search is under way only
\* for a positive count on a page manager that is ready.
ScanTypeOK ==
    /\ pc \in {"idle", "zone", "bit"}
    /\ area \in Areas
    /\ count \in Nat
    /\ pc # "idle" => count \in Counts /\ count > 0 /\ phase = "ready"
    /\ zi \in Nat /\ index \in Nat /\ consecutive \in Nat

\* The loop never passes a window: no zone left behind has one, no window of
\* the current zone ends before index, and `consecutive` is the length of the
\* free run that ends there, never carried over from another zone.
NothingPassedOver ==
    /\ pc # "idle" =>
          /\ zi >= 1
          /\ \A z \in 1 .. zi - 1 : z <= zonesSize => z \notin Candidates(area, count)
    /\ pc = "zone" => zi <= zonesSize + 1
    /\ pc = "bit" =>
          LET start == layout.zones[zi].start
          IN  /\ zi <= zonesSize
              /\ ~Skipped(zi, area, count)
              /\ start + consecutive <= index
              /\ index <= ScanEnd(zi, area)
              /\ consecutive < count
              /\ \A p \in index - consecutive .. index - 1 : p \notin used
              /\ index = start + consecutive \/ index - consecutive - 1 \in used
              /\ \A f \in Windows(zi, area, count) : f + count > index

\* The scanning allocator behaves like PageAllocator: what it returns is the
\* first window of the first zone in order, and OutOfMemory only without one;
\* the page records change in one step, when the whole run is known.
FirstFit == Spec

=============================================================================
