--------------------------- MODULE AllocateProofs ---------------------------
(***************************************************************************)
(* allocate() from the inside and from the outside.                        *)
(*                                                                         *)
(* Inside, the search loop (AllocatorScan) implements PageAllocator, for   *)
(* every layout, bitmap and request.  The loop invariant is                *)
(* NothingPassedOver; with it each step of the loop is a stutter of        *)
(* PageAllocator except Commit, which is AllocateSucceeds, and Exhausted,  *)
(* which is AllocateFails.                                                 *)
(*                                                                         *)
(* Outside, the self test (MemoryCheck) passes on every machine.  Its      *)
(* invariant CheckInv says what verify() holds at each of its steps, and   *)
(* where the first fit of the empty bitmap is.                             *)
(***************************************************************************)
EXTENDS AllocatorScan, MemoryCheck, PageAllocatorProofs

(***************************************************************************)
(* The search loop.                                                        *)
(***************************************************************************)
LayoutOK == layout \in Layouts /\ zonesSize \in 0 .. Len(layout.zones)

ScanInv == LayoutOK /\ ScanTypeOK /\ NothingPassedOver

\* The bounds of the current zone.
LEMMA ScanBounds ==
    ASSUME LayoutOK, NEW z \in 1 .. zonesSize, NEW a
    PROVE  /\ z \in Zones
           /\ layout.zones[z].start \in Nat
           /\ ScanEnd(z, a) \in Nat
<1>1. Len(layout.zones) \in Nat /\ zonesSize \in Nat
  BY LayoutFacts DEF LayoutOK
<1>2. z \in Zones
  BY <1>1 DEF LayoutOK, Zones
<1>3. layout.zones[z].start \in Nat /\ layout.zones[z].end \in Nat
  BY <1>2, LayoutFacts DEF LayoutOK
<1>. QED  BY <1>2, <1>3, BoundAssumption DEF ScanEnd

\* The loop invariant holds before the first call of allocate.
LEMMA ScanInitInv == ScanInit => ScanInv
<1>. SUFFICES ASSUME ScanInit PROVE ScanInv
  OBVIOUS
<1>1. layout \in Layouts /\ zonesSize = 0
  BY DEF ScanInit, Init
<1>2. Len(layout.zones) \in Nat
  BY <1>1, LayoutFacts
<1>. QED  BY <1>1, <1>2
       DEF ScanInit, ScanInv, LayoutOK, ScanTypeOK, NothingPassedOver, Areas

\* The operations outside the search keep the layout and leave the loop idle.
LEMMA IdleStep ==
    ASSUME ScanInv, Idle,
           \/ InstallZone \/ ReservePages \/ CheckInvariants \/ Halted
           \/ \E a \in Areas, n \in Counts : AllocateFails(a, n)
           \/ \E run \in held : Release(run)
    PROVE  ScanInv'
<1>1. Len(layout.zones) \in Nat /\ zonesSize \in Nat
  BY LayoutFacts DEF ScanInv, LayoutOK
<1>2. layout' = layout /\ zonesSize' \in 0 .. Len(layout.zones)
  <2>1. CASE InstallZone
    BY <1>1, <2>1 DEF InstallZone
  <2>2. CASE ReservePages \/ CheckInvariants \/ Halted
    BY <2>2 DEF ScanInv, LayoutOK, ReservePages, CheckInvariants, Halted, vars, zoneVars
  <2>3. CASE \E a \in Areas, n \in Counts : AllocateFails(a, n)
    BY <2>3 DEF ScanInv, LayoutOK, AllocateFails, zoneVars
  <2>4. CASE \E run \in held : Release(run)
    BY <2>4 DEF ScanInv, LayoutOK, Release
  <2>. QED  BY <2>1, <2>2, <2>3, <2>4
<1>3. LayoutOK'
  BY <1>2 DEF ScanInv, LayoutOK
<1>4. /\ pc = "idle" /\ pc' = "idle" /\ area' = area /\ count' = count
      /\ zi' = zi /\ index' = index /\ consecutive' = consecutive
  BY DEF Idle, scanVars
<1>5. ScanTypeOK' /\ NothingPassedOver'
  BY <1>4 DEF ScanInv, ScanTypeOK, NothingPassedOver
<1>. QED  BY <1>3, <1>5 DEF ScanInv

\* Two states with the same page records have the same windows.
LEMMA SameRecords ==
    ASSUME UNCHANGED vars, area' = area, count' = count
    PROVE  /\ LayoutOK' = LayoutOK
           /\ \A z : Skipped(z, area, count)' = Skipped(z, area, count)
           /\ \A z : ScanEnd(z, area)' = ScanEnd(z, area)
           /\ \A z : Windows(z, area, count)' = Windows(z, area, count)
           /\ Candidates(area, count)' = Candidates(area, count)
           /\ zonesSize' = zonesSize /\ layout' = layout /\ used' = used /\ phase' = phase
<1>1. /\ zonesSize' = zonesSize /\ layout' = layout /\ used' = used
      /\ freeCount' = freeCount /\ phase' = phase
  BY DEF vars, pageVars, zoneVars
<1>. QED  BY <1>1 DEF LayoutOK, Skipped, ScanEnd, Windows, Candidates

\* Entering allocate with a positive count establishes the loop invariant.
LEMMA StartSearchStep ==
    ASSUME ScanInv, NEW a \in Areas, NEW n \in Counts, StartSearch(a, n)
    PROVE  ScanInv'
<1>1. /\ phase = "ready" /\ n > 0 /\ pc' = "zone" /\ area' = a /\ count' = n
      /\ zi' = 1 /\ index' = 0 /\ consecutive' = 0
      /\ layout' = layout /\ zonesSize' = zonesSize /\ phase' = phase
  BY DEF StartSearch, vars, zoneVars
<1>2. LayoutOK'
  BY <1>1 DEF ScanInv, LayoutOK
<1>3. ScanTypeOK'
  BY <1>1, BoundAssumption DEF ScanInv, ScanTypeOK
<1>4. zonesSize' \in Nat
  BY <1>1, LayoutFacts DEF ScanInv, LayoutOK
<1>5. NothingPassedOver'
  BY <1>1, <1>4 DEF NothingPassedOver
<1>. QED  BY <1>2, <1>3, <1>5 DEF ScanInv

\* A zone that is passed over is no candidate.
LEMMA SkipZoneStep == ScanInv /\ SkipZone => ScanInv'
<1>. SUFFICES ASSUME ScanInv, SkipZone PROVE ScanInv'
  OBVIOUS
<1>1. /\ pc = "zone" /\ zi <= zonesSize /\ Skipped(zi, area, count) /\ zi' = zi + 1
      /\ UNCHANGED vars /\ pc' = pc /\ area' = area /\ count' = count
      /\ index' = index /\ consecutive' = consecutive
  BY DEF SkipZone
<1>2. /\ LayoutOK' /\ Candidates(area, count)' = Candidates(area, count)
      /\ zonesSize' = zonesSize /\ phase' = phase
  BY <1>1, SameRecords DEF ScanInv
<1>3. zonesSize \in Nat /\ zi \in Nat
  BY LayoutFacts DEF ScanInv, LayoutOK, ScanTypeOK
<1>4. ScanTypeOK'
  BY <1>1, <1>2, <1>3 DEF ScanInv, ScanTypeOK
<1>5. zi \notin Candidates(area, count)
  BY <1>1 DEF Candidates
<1>6. NothingPassedOver'
  <2>1. \A z \in 1 .. zi : z <= zonesSize => z \notin Candidates(area, count)
    BY <1>1, <1>3, <1>5 DEF ScanInv, NothingPassedOver
  <2>2. zi' >= 1 /\ zi' - 1 = zi /\ zi' <= zonesSize + 1
    BY <1>1, <1>3
  <2>. QED  BY <1>1, <1>2, <2>1, <2>2 DEF NothingPassedOver
<1>. QED  BY <1>2, <1>4, <1>6 DEF ScanInv

\* Starting on a zone resets the counter of free bits.
LEMMA EnterZoneStep == ScanInv /\ EnterZone => ScanInv'
<1>. SUFFICES ASSUME ScanInv, EnterZone PROVE ScanInv'
  OBVIOUS
<1>1. /\ pc = "zone" /\ zi <= zonesSize /\ ~Skipped(zi, area, count) /\ pc' = "bit"
      /\ index' = layout.zones[zi].start /\ consecutive' = 0
      /\ UNCHANGED vars /\ area' = area /\ count' = count /\ zi' = zi
  BY DEF EnterZone
<1>2. /\ LayoutOK' /\ Candidates(area, count)' = Candidates(area, count)
      /\ zonesSize' = zonesSize /\ phase' = phase /\ layout' = layout /\ used' = used
      /\ \A z : Skipped(z, area, count)' = Skipped(z, area, count)
      /\ \A z : ScanEnd(z, area)' = ScanEnd(z, area)
      /\ \A z : Windows(z, area, count)' = Windows(z, area, count)
  BY <1>1, SameRecords DEF ScanInv
<1>3. zonesSize \in Nat /\ zi \in 1 .. zonesSize /\ count \in Nat /\ count > 0
  BY <1>1, LayoutFacts DEF ScanInv, LayoutOK, ScanTypeOK, NothingPassedOver
<1>4. layout.zones[zi].start \in Nat /\ ScanEnd(zi, area) \in Nat
  BY <1>3, ScanBounds DEF ScanInv
<1>5. ScanTypeOK'
  BY <1>1, <1>2, <1>3, <1>4 DEF ScanInv, ScanTypeOK
<1>6. layout.zones[zi].start <= ScanEnd(zi, area)
  BY <1>1, <1>3, <1>4 DEF Skipped
<1>7. \A f \in Windows(zi, area, count) : f + count > layout.zones[zi].start
  BY <1>3, <1>4 DEF Windows
<1>8. \A z \in 1 .. zi - 1 : z <= zonesSize => z \notin Candidates(area, count)
  BY <1>1 DEF ScanInv, NothingPassedOver
<1>9. NothingPassedOver'
  BY <1>1, <1>2, <1>3, <1>4, <1>6, <1>7, <1>8 DEF NothingPassedOver
<1>. QED  BY <1>2, <1>5, <1>9 DEF ScanInv

\* The facts of the inner loop, unpacked.
LEMMA InnerLoop ==
    ASSUME ScanInv, pc = "bit"
    PROVE  /\ zi \in 1 .. zonesSize /\ zi \in Nat /\ zonesSize \in Nat
           /\ count \in Nat /\ count > 0 /\ index \in Nat /\ consecutive \in Nat
           /\ layout.zones[zi].start \in Nat /\ ScanEnd(zi, area) \in Nat
           /\ ~Skipped(zi, area, count)
           /\ layout.zones[zi].start + consecutive <= index
           /\ index <= ScanEnd(zi, area)
           /\ consecutive < count
           /\ \A p \in index - consecutive .. index - 1 : p \notin used
           /\ index = layout.zones[zi].start + consecutive
                \/ index - consecutive - 1 \in used
           /\ \A f \in Windows(zi, area, count) : f + count > index
           /\ \A z \in 1 .. zi - 1 : z <= zonesSize => z \notin Candidates(area, count)
<1>1. zonesSize \in Nat
  BY LayoutFacts DEF ScanInv, LayoutOK
<1>2. zi \in 1 .. zonesSize /\ zi \in Nat
  BY <1>1 DEF ScanInv, ScanTypeOK, NothingPassedOver
<1>3. layout.zones[zi].start \in Nat /\ ScanEnd(zi, area) \in Nat
  BY <1>2, ScanBounds DEF ScanInv
<1>. QED  BY <1>1, <1>2, <1>3 DEF ScanInv, ScanTypeOK, NothingPassedOver

\* A probe that completes no run passes over no window.
LEMMA ProbeStep == ScanInv /\ Probe => ScanInv'
<1>. SUFFICES ASSUME ScanInv, Probe PROVE ScanInv'
  OBVIOUS
<1>1. /\ pc = "bit" /\ index < ScanEnd(zi, area) /\ index' = index + 1
      /\ \/ index \in used /\ consecutive' = 0
         \/ /\ index \notin used /\ consecutive + 1 # count
            /\ consecutive' = consecutive + 1
      /\ UNCHANGED vars /\ pc' = pc /\ area' = area /\ count' = count /\ zi' = zi
  BY DEF Probe
<1>2. /\ LayoutOK' /\ Candidates(area, count)' = Candidates(area, count)
      /\ zonesSize' = zonesSize /\ phase' = phase /\ layout' = layout /\ used' = used
      /\ \A z : Skipped(z, area, count)' = Skipped(z, area, count)
      /\ \A z : ScanEnd(z, area)' = ScanEnd(z, area)
      /\ \A z : Windows(z, area, count)' = Windows(z, area, count)
  BY <1>1, SameRecords DEF ScanInv
<1>. DEFINE start == layout.zones[zi].start
            limit == ScanEnd(zi, area)
            W == Windows(zi, area, count)
<1>3. /\ zi \in 1 .. zonesSize /\ zi \in Nat /\ zonesSize \in Nat
      /\ count \in Nat /\ count > 0 /\ index \in Nat /\ consecutive \in Nat
      /\ start \in Nat /\ limit \in Nat /\ ~Skipped(zi, area, count)
      /\ start + consecutive <= index /\ index <= limit /\ consecutive < count
      /\ \A p \in index - consecutive .. index - 1 : p \notin used
      /\ index = start + consecutive \/ index - consecutive - 1 \in used
      /\ \A f \in W : f + count > index
      /\ \A z \in 1 .. zi - 1 : z <= zonesSize => z \notin Candidates(area, count)
  BY <1>1, InnerLoop
<1>4. \A f \in W : /\ f \in Int /\ start <= f /\ f + count <= limit
                   /\ \A p \in f .. f + count - 1 : p \notin used
  BY <1>3 DEF Windows
<1>. HIDE DEF start, limit, W
\* A window that ended at index would be the free run before index extended
\* by this bit, which has another length than count.
<1>5. \A f \in W : f + count > index + 1
  <2>. SUFFICES ASSUME NEW f \in W, ~(f + count > index + 1) PROVE FALSE
    OBVIOUS
  <2>1. f \in Int /\ f + count = index + 1
    BY <1>3, <1>4
  <2>2. index \in f .. f + count - 1
    BY <1>3, <2>1
  <2>3. index \notin used
    BY <1>4, <2>2
  <2>4. consecutive + 1 < count
    BY <1>1, <1>3, <2>3
  <2>5. index - consecutive - 1 \in f .. f + count - 1 /\ start <= f
    BY <1>3, <1>4, <2>1, <2>4
  <2>6. index - consecutive - 1 \notin used
    BY <1>4, <2>5
  <2>7. index = start + consecutive
    BY <1>3, <2>6
  <2>. QED  BY <1>3, <2>1, <2>4, <2>5, <2>7
<1>6. /\ consecutive' \in Nat /\ index' \in Nat
      /\ start + consecutive' <= index' /\ index' <= limit /\ consecutive' < count
  BY <1>1, <1>3 DEF limit
<1>7. \A p \in index' - consecutive' .. index' - 1 : p \notin used
  <2>1. CASE index \in used /\ consecutive' = 0
    BY <1>1, <1>3, <2>1
  <2>2. CASE index \notin used /\ consecutive' = consecutive + 1
    <3>1. \A p \in index' - consecutive' .. index' - 1 :
             p = index \/ p \in index - consecutive .. index - 1
      BY <1>1, <1>3, <2>2
    <3>. QED  BY <1>3, <2>2, <3>1
  <2>. QED  BY <1>1, <2>1, <2>2
<1>8. index' = start + consecutive' \/ index' - consecutive' - 1 \in used
  <2>1. CASE index \in used /\ consecutive' = 0
    <3>1. index' - consecutive' - 1 = index
      BY <1>1, <1>3, <2>1
    <3>. QED  BY <2>1, <3>1
  <2>2. CASE index \notin used /\ consecutive' = consecutive + 1
    <3>1. index' - consecutive' - 1 = index - consecutive - 1
      BY <1>1, <1>3, <2>2
    <3>2. index = start + consecutive => index' = start + consecutive'
      BY <1>1, <1>3, <2>2
    <3>. QED  BY <1>3, <3>1, <3>2
  <2>. QED  BY <1>1, <2>1, <2>2
<1>9. ScanTypeOK'
  BY <1>1, <1>2, <1>6 DEF ScanInv, ScanTypeOK
<1>10. NothingPassedOver'
  <2>1. \A f \in W : f + count > index'
    BY <1>1, <1>5
  <2>2. /\ layout.zones[zi].start + consecutive' <= index'
        /\ index' <= ScanEnd(zi, area) /\ consecutive' < count
        /\ index' = layout.zones[zi].start + consecutive'
             \/ index' - consecutive' - 1 \in used
        /\ \A f \in Windows(zi, area, count) : f + count > index'
    BY <1>6, <1>8, <2>1 DEF start, limit, W
  <2>3. /\ zi >= 1 /\ zi <= zonesSize /\ ~Skipped(zi, area, count)
        /\ \A z \in 1 .. zi - 1 : z <= zonesSize => z \notin Candidates(area, count)
    BY <1>3
  <2>. QED  BY <1>1, <1>2, <1>7, <2>2, <2>3 DEF NothingPassedOver
<1>. QED  BY <1>2, <1>9, <1>10 DEF ScanInv

\* A zone scanned to its end has no window.
LEMMA LeaveZoneStep == ScanInv /\ LeaveZone => ScanInv'
<1>. SUFFICES ASSUME ScanInv, LeaveZone PROVE ScanInv'
  OBVIOUS
<1>1. /\ pc = "bit" /\ index >= ScanEnd(zi, area) /\ pc' = "zone" /\ zi' = zi + 1
      /\ UNCHANGED vars /\ area' = area /\ count' = count
      /\ index' = index /\ consecutive' = consecutive
  BY DEF LeaveZone
<1>2. /\ LayoutOK' /\ Candidates(area, count)' = Candidates(area, count)
      /\ zonesSize' = zonesSize /\ phase' = phase
  BY <1>1, SameRecords DEF ScanInv
<1>3. /\ zi \in 1 .. zonesSize /\ zi \in Nat /\ zonesSize \in Nat
      /\ count \in Nat /\ index \in Nat
      /\ layout.zones[zi].start \in Nat /\ ScanEnd(zi, area) \in Nat
      /\ \A f \in Windows(zi, area, count) : f + count > index
      /\ \A z \in 1 .. zi - 1 : z <= zonesSize => z \notin Candidates(area, count)
  BY <1>1, InnerLoop
<1>4. \A f \in Windows(zi, area, count) : f \in Int /\ f + count <= ScanEnd(zi, area)
  BY <1>3 DEF Windows
<1>5. Windows(zi, area, count) = {}
  BY <1>1, <1>3, <1>4
<1>6. zi \notin Candidates(area, count)
  BY <1>5 DEF Candidates
<1>7. ScanTypeOK'
  BY <1>1, <1>2, <1>3 DEF ScanInv, ScanTypeOK
<1>8. NothingPassedOver'
  <2>1. \A z \in 1 .. zi : z <= zonesSize => z \notin Candidates(area, count)
    BY <1>3, <1>6
  <2>2. zi' >= 1 /\ zi' - 1 = zi /\ zi' <= zonesSize + 1
    BY <1>1, <1>3
  <2>. QED  BY <1>1, <1>2, <2>1, <2>2 DEF NothingPassedOver
<1>. QED  BY <1>2, <1>7, <1>8 DEF ScanInv

\* Exhausted and Commit return, and the loop is idle again.
LEMMA ReturnStep == ScanInv /\ (Exhausted \/ Commit) => ScanInv'
<1>. SUFFICES ASSUME ScanInv, Exhausted \/ Commit PROVE ScanInv'
  OBVIOUS
<1>1. layout' = layout /\ zonesSize' = zonesSize /\ Return
  BY DEF Exhausted, Commit, zoneVars
<1>2. LayoutOK'
  BY <1>1 DEF ScanInv, LayoutOK
<1>3. ScanTypeOK' /\ NothingPassedOver'
  BY <1>1 DEF Return, ScanTypeOK, NothingPassedOver, Areas
<1>. QED  BY <1>2, <1>3 DEF ScanInv

\* A step that changes nothing keeps the loop invariant.
LEMMA ScanStutter == ScanInv /\ UNCHANGED allVars => ScanInv'
<1>. SUFFICES ASSUME ScanInv, UNCHANGED allVars PROVE ScanInv'
  OBVIOUS
<1>1. /\ UNCHANGED vars /\ pc' = pc /\ area' = area /\ count' = count
      /\ zi' = zi /\ index' = index /\ consecutive' = consecutive
  BY DEF allVars, scanVars
<1>2. /\ LayoutOK' /\ Candidates(area, count)' = Candidates(area, count)
      /\ zonesSize' = zonesSize /\ phase' = phase /\ layout' = layout /\ used' = used
      /\ \A z : Skipped(z, area, count)' = Skipped(z, area, count)
      /\ \A z : ScanEnd(z, area)' = ScanEnd(z, area)
      /\ \A z : Windows(z, area, count)' = Windows(z, area, count)
  BY <1>1, SameRecords DEF ScanInv
<1>3. ScanTypeOK'
  BY <1>1, <1>2 DEF ScanInv, ScanTypeOK
<1>4. NothingPassedOver'
  BY <1>1, <1>2 DEF ScanInv, NothingPassedOver
<1>. QED  BY <1>2, <1>3, <1>4 DEF ScanInv

\* Every step of the scanning allocator keeps the loop invariant.
LEMMA ScanNextInv == ScanInv /\ [ScanNext]_allVars => ScanInv'
<1>. SUFFICES ASSUME ScanInv, [ScanNext]_allVars PROVE ScanInv'
  OBVIOUS
<1>1. CASE Idle /\ (InstallZone \/ ReservePages \/ CheckInvariants \/ Halted)
  BY <1>1, IdleStep
<1>2. ASSUME NEW a \in Areas, NEW n \in Counts, RejectZero(a, n) PROVE ScanInv'
  BY <1>2, IdleStep DEF RejectZero
<1>3. ASSUME NEW a \in Areas, NEW n \in Counts, StartSearch(a, n) PROVE ScanInv'
  BY <1>3, StartSearchStep
<1>4. CASE Search
  BY <1>4, SkipZoneStep, EnterZoneStep, ProbeStep, LeaveZoneStep, ReturnStep DEF Search
<1>5. ASSUME NEW run \in held, Idle, Release(run) PROVE ScanInv'
  BY <1>5, IdleStep
<1>6. CASE UNCHANGED allVars
  BY <1>6, ScanStutter
<1>. QED  BY <1>1, <1>2, <1>3, <1>4, <1>5, <1>6 DEF ScanNext

-----------------------------------------------------------------------------
(***************************************************************************)
(* Refinement.                                                             *)
(***************************************************************************)
\* The run that Commit takes is the first window of the first candidate.
LEMMA CommitIsAllocate ==
    ASSUME ScanInv, Commit
    PROVE  AllocateSucceeds(area, count)
<1>. DEFINE first == index + 1 - count
<1>1. /\ pc = "bit" /\ index < ScanEnd(zi, area) /\ index \notin used
      /\ consecutive + 1 = count
  BY DEF Commit
<1>2. /\ zi \in 1 .. zonesSize /\ zi \in Nat /\ zonesSize \in Nat
      /\ count \in Nat /\ count > 0 /\ index \in Nat /\ consecutive \in Nat
      /\ layout.zones[zi].start \in Nat /\ ScanEnd(zi, area) \in Nat
      /\ ~Skipped(zi, area, count)
      /\ layout.zones[zi].start + consecutive <= index
      /\ \A p \in index - consecutive .. index - 1 : p \notin used
      /\ \A f \in Windows(zi, area, count) : f + count > index
      /\ \A z \in 1 .. zi - 1 : z <= zonesSize => z \notin Candidates(area, count)
  BY <1>1, InnerLoop
<1>3. first \in Windows(zi, area, count)
  <2>1. first \in layout.zones[zi].start .. ScanEnd(zi, area) - count
    BY <1>1, <1>2
  <2>2. \A p \in first .. first + count - 1 :
           p = index \/ p \in index - consecutive .. index - 1
    BY <1>1, <1>2
  <2>3. \A p \in first .. first + count - 1 : p \notin used
    BY <1>1, <1>2, <2>2
  <2>. QED  BY <2>1, <2>3 DEF Windows
<1>4. First(first, Windows(zi, area, count))
  <2>1. \A f \in Windows(zi, area, count) : f \in Int /\ first <= f
    BY <1>2 DEF Windows
  <2>. QED  BY <1>3, <2>1 DEF First
<1>5. zi \in Candidates(area, count)
  BY <1>2, <1>3 DEF Candidates
<1>6. First(zi, Candidates(area, count))
  <2>1. \A z \in Candidates(area, count) : z \in 1 .. zonesSize
    BY DEF Candidates
  <2>2. \A z \in Candidates(area, count) : zi <= z
    BY <1>2, <2>1
  <2>. QED  BY <1>5, <2>2 DEF First
<1>7. Found = [area |-> area, first |-> first, count |-> count]
  BY DEF Found
<1>8. phase = "ready"
  BY <1>1 DEF ScanInv, ScanTypeOK
<1>9. LET run == [area |-> area, first |-> first, count |-> count]
          S == RunPages(run)
      IN  /\ Require(CanInit(S), "ready")
          /\ InitPages(S, [p \in S |-> AllocFlags(p)])
          /\ held' = held \cup {run}
  BY <1>7, Zenon DEF Commit
<1>10. /\ reply' = [area |-> area, count |-> count, result |-> "Ok"]
       /\ UNCHANGED <<layout, zonesSize, zoneOf>>
  BY DEF Commit
<1>. HIDE DEF first
<1>. QED  BY <1>2, <1>3, <1>4, <1>5, <1>6, <1>8, <1>9, <1>10, Zenon DEF AllocateSucceeds

\* A search that runs out of zones is a failing allocate_pages.
LEMMA ExhaustedIsFailure ==
    ASSUME ScanInv, Exhausted PROVE AllocateFails(area, count)
<1>1. pc = "zone" /\ zi > zonesSize
  BY DEF Exhausted
<1>2. zonesSize \in Nat /\ zi \in Nat /\ count > 0 /\ phase = "ready"
  BY <1>1, LayoutFacts DEF ScanInv, LayoutOK, ScanTypeOK
<1>3. \A z \in 1 .. zonesSize : z \notin Candidates(area, count)
  BY <1>1, <1>2 DEF ScanInv, NothingPassedOver
<1>4. Candidates(area, count) = {}
  BY <1>3 DEF Candidates
<1>. QED  BY <1>2, <1>4 DEF Exhausted, AllocateFails

\* Every step of the scanning allocator is a step of PageAllocator or leaves
\* its variables alone.
LEMMA ScanStepRefines == ScanInv /\ [ScanNext]_allVars => [Next]_vars
<1>. SUFFICES ASSUME ScanInv, [ScanNext]_allVars PROVE Next \/ UNCHANGED vars
  OBVIOUS
<1>1. CASE Idle /\ (InstallZone \/ ReservePages \/ CheckInvariants \/ Halted)
  BY <1>1 DEF Next
<1>2. ASSUME NEW a \in Areas, NEW n \in Counts, RejectZero(a, n) \/ StartSearch(a, n)
      PROVE  Next \/ UNCHANGED vars
  BY <1>2 DEF RejectZero, StartSearch, Next
<1>3. CASE SkipZone \/ EnterZone \/ Probe \/ LeaveZone
  BY <1>3 DEF SkipZone, EnterZone, Probe, LeaveZone
<1>4. CASE Commit
  <2>1. area \in Areas /\ count \in Counts
    BY <1>4 DEF Commit, ScanInv, ScanTypeOK
  <2>2. AllocateSucceeds(area, count)
    BY <1>4, CommitIsAllocate
  <2>. QED  BY <2>1, <2>2 DEF Next
<1>5. CASE Exhausted
  <2>1. area \in Areas /\ count \in Counts
    BY <1>5 DEF Exhausted, ScanInv, ScanTypeOK
  <2>2. AllocateFails(area, count)
    BY <1>5, ExhaustedIsFailure
  <2>. QED  BY <2>1, <2>2 DEF Next
<1>6. ASSUME NEW run \in held, Idle, Release(run) PROVE Next
  BY <1>6 DEF Next
<1>7. CASE UNCHANGED allVars
  BY <1>7 DEF allVars
<1>. QED  BY <1>1, <1>2, <1>3, <1>4, <1>5, <1>6, <1>7 DEF ScanNext, Search

\* The loop of allocate never passes a window, whatever the bitmap.
THEOREM LoopInvariant == ScanSpec => []NothingPassedOver
<1>1. ScanSpec => []ScanInv
  BY ScanInitInv, ScanNextInv, PTL DEF ScanSpec
<1>2. ScanInv => NothingPassedOver
  BY DEF ScanInv
<1>. QED  BY <1>1, <1>2, PTL

\* The bit by bit search implements PageAllocator: first fit, all or nothing.
THEOREM ScanImplementsFirstFit == ScanSpec => FirstFit
<1>1. ScanSpec => []ScanInv
  BY ScanInitInv, ScanNextInv, PTL DEF ScanSpec
<1>2. ScanInit => Init
  BY DEF ScanInit
<1>3. ScanSpec => Init /\ [][Next]_vars
  BY <1>1, <1>2, ScanStepRefines, PTL DEF ScanSpec
<1>. QED  BY <1>3 DEF FirstFit, Spec

-----------------------------------------------------------------------------
(***************************************************************************)
(* The self test: its invariant.                                           *)
(***************************************************************************)
\* The pages in use when nobody holds a run: holes and the reserved prefix.
BaseUsed == {p \in Pages : zoneOf[p] = 0} \cup Reserved

\* The totals of check_allocation_state, if the pages of U are in use.
TotalsOf(U) == [used |-> Cardinality(Zoned \cap U), free |-> Cardinality(Zoned \ U),
                refs |-> Cardinality((Zoned \cap U) \X {1})]

\* First fit on a bitmap U: the first window of the first zone that has one.
WindowsOver(U, z, a, n) ==
    {f \in layout.zones[z].start .. ScanEnd(z, a) - n : \A p \in f .. f + n - 1 : p \notin U}
FirstOver(U, a, n, f) ==
    \E z \in Zones : /\ First(f, WindowsOver(U, z, a, n))
                     /\ \A y \in Zones : y < z => WindowsOver(U, y, a, n) = {}

Run(a, f, n) == [area |-> a, first |-> f, count |-> n]

\* Where the large run is found when nothing is held.
FirstLarge(f) == FirstOver(BaseUsed, "Any", Large, f)

KeptFrom(m) == {kept[i] : i \in m .. Len(kept)}

\* The totals are a function of the bitmap.
Counting == totals = Totals /\ baseline = TotalsOf(BaseUsed)

Unheld == step \in {"zero", "huge", "large", "entire"} => held = {}

\* The large run stays the first fit of the empty bitmap while another page is
\* held, so it is found again after it was given back.
Reuse ==
    /\ step \in {"other", "give_large", "again", "give_again"} =>
          \E f \in Nat : kept[1] = Run("Any", f, Large) /\ FirstLarge(f)
    /\ step = "other" => Len(kept) = 1 /\ held = {kept[1]}
    /\ step \in {"give_large", "again", "give_again"} => Len(kept) = 2 /\ kept[1] # kept[2]
    /\ step \in {"give_large", "give_again"} => held = {kept[1], kept[2]}
    /\ step = "again" => held = {kept[2]} /\ RunPages(kept[1]) \cap used = {}
    /\ step = "give_other" => Len(kept) = 1 /\ held = {kept[1]}

\* The direct map is taken page by page, and each run kept is held but for the
\* first one while its page is the hole.
Filling == {"fill", "make_hole", "fragmented", "fill_hole", "empty"}
Singles ==
    step \in Filling =>
        /\ \A i \in 1 .. Len(kept) : kept[i].area = "Mapped" /\ kept[i].count = 1
        /\ \A i, j \in 1 .. Len(kept) : kept[i] = kept[j] => i = j
        /\ step = "empty" => Len(kept) >= 1
        /\ step \notin {"fill", "empty"} => Len(kept) >= 2
        /\ held = KeptFrom(IF step \in {"fragmented", "fill_hole"} THEN 2 ELSE 1)

\* The direct map is full, but for the hole.
DirectFull ==
    /\ step = "make_hole" => \A p \in Zoned : p < DirectEnd => p \in used
    /\ step \in {"fragmented", "fill_hole"} =>
          /\ kept[1].first \in Zoned /\ kept[1].first < DirectEnd /\ kept[1].first \notin used
          /\ \A p \in Zoned : p < DirectEnd => p \in used \/ p = kept[1].first

\* The only zone is taken as one run.
Whole ==
    /\ step = "entire" => zonesSize = 1 /\ Zoned \cap BaseUsed = {}
    /\ step \in {"exhausted", "give_entire"} => Len(kept) = 1 /\ held = {kept[1]}
    /\ step = "exhausted" => Zoned \subseteq used

Progress == Counting /\ Unheld /\ Reuse /\ Singles /\ DirectFull /\ Whole

CheckInv ==
    /\ IInv
    /\ kept \in Seq(Runs)
    /\ step # "assert"
    /\ phase # "ready" => step = "zero"
    /\ phase = "ready" => Progress

\* check_allocation_state passes in every state of the page manager, and what
\* it returns depends on the bitmap only.
LEMMA StateFacts == IInv /\ phase = "ready" => StateHolds /\ Totals = TotalsOf(used)
<1>. SUFFICES ASSUME IInv, phase = "ready" PROVE StateHolds /\ Totals = TotalsOf(used)
  OBVIOUS
<1>1. /\ Initialised /\ TypeOK /\ Bookkeeping /\ OwnersMarked /\ zonesSize = Len(layout.zones)
  BY DEF IInv, Initialised, OwnersMarked
<1>2. 1 .. zonesSize = Zones
  BY <1>1 DEF Zones
<1>3. ASSUME NEW z \in Zones
      PROVE  /\ Consistent(z) /\ References(z) = (ZonePages(z) \cap used) \X {1}
             /\ ZonePages(z) \subseteq Pages /\ z # 0
  <2>1. layout \in Layouts
    BY <1>1 DEF TypeOK
  <2>2. z # 0
    BY DEF Zones
  <2>. QED  BY <1>1, <2>1, <2>2, LayoutFacts, AlwaysConsistent
<1>4. \A p \in Pages : /\ \A z \in Zones : zoneOf[p] = z <=> p \in ZonePages(z)
                       /\ p \in used <=> (zoneOf[p] = 0 \/ attr[p] # {})
                       /\ refs[p] = IF attr[p] = {} THEN 0 ELSE 1
  BY <1>1 DEF Bookkeeping
<1>5. StateHolds
  <2>1. ASSUME NEW z \in 1 .. zonesSize
        PROVE  /\ \A p \in ZonePages(z) : /\ zoneOf[p] = z
                                          /\ p \in used <=> attr[p] # {}
                                          /\ attr[p] # {} <=> refs[p] > 0
               /\ usingCount[z] = Cardinality(ZonePages(z) \cap used)
               /\ freeCount[z] = Cardinality(ZonePages(z) \ used)
               /\ refTotal[z] = Cardinality(References(z))
               /\ usingCount[z] + freeCount[z] = Cardinality(ZonePages(z))
    <3>1. z \in Zones
      BY <1>2
    <3>2. \A p \in ZonePages(z) : /\ zoneOf[p] = z
                                  /\ p \in used <=> attr[p] # {}
                                  /\ attr[p] # {} <=> refs[p] > 0
      BY <1>3, <1>4, <3>1
    <3>3. usingCount[z] = Cardinality(ZonePages(z) \cap used)
      BY <1>1, <3>1 DEF Bookkeeping
    <3>. QED  BY <1>3, <3>1, <3>2, <3>3 DEF Consistent
  <2>2. \A p \in Pages : (zoneOf[p] = 0 \/ "KERNEL_INIT" \in attr[p]) => p \in used
    BY <1>4
  <2>. QED  BY <2>1, <2>2 DEF StateHolds
<1>6. UNION {References(z) : z \in 1 .. zonesSize} = (Zoned \cap used) \X {1}
  <2>1. ASSUME NEW e
        PROVE  e \in UNION {References(z) : z \in 1 .. zonesSize}
                 <=> e \in (Zoned \cap used) \X {1}
    <3>1. e \in UNION {References(z) : z \in 1 .. zonesSize}
             <=> \E z \in Zones : e \in (ZonePages(z) \cap used) \X {1}
      BY <1>2, <1>3
    <3>2. \A z : e \in (ZonePages(z) \cap used) \X {1}
                   <=> \E p \in ZonePages(z) : p \in used /\ e = <<p, 1>>
      OBVIOUS
    <3>3. e \in (Zoned \cap used) \X {1} <=> \E p \in Zoned : p \in used /\ e = <<p, 1>>
      OBVIOUS
    <3>4. \A p : p \in Zoned <=> \E z \in Zones : p \in ZonePages(z)
      BY <1>2 DEF Zoned
    <3>. QED  BY <3>1, <3>2, <3>3, <3>4
  <2>. QED  BY <2>1
<1>. QED  BY <1>5, <1>6 DEF Totals, TotalsOf

LEMMA StateFactsNext ==
    ASSUME IInv', phase' = "ready"
    PROVE  StateHolds' /\ Totals' = TotalsOf(used)'
<1>1. [](IInv /\ phase = "ready" => StateHolds /\ Totals = TotalsOf(used))
  BY StateFacts, PTL
<1>2. (IInv /\ phase = "ready")' => (StateHolds /\ Totals = TotalsOf(used))'
  BY <1>1, PTL
<1>. QED  BY <1>2

-----------------------------------------------------------------------------
(***************************************************************************)
(* What the three calls do to a page manager that is ready.                *)
(***************************************************************************)
\* The memory map is never written again.
Fixed == layout' = layout /\ zonesSize' = zonesSize /\ zoneOf' = zoneOf

LEMMA FixedFacts ==
    ASSUME Fixed
    PROVE  /\ Pages' = Pages /\ Zones' = Zones /\ Zoned' = Zoned /\ BaseUsed' = BaseUsed
           /\ TotalsOf(BaseUsed)' = TotalsOf(BaseUsed)
           /\ TotalsOf(used)' = TotalsOf(used')
<1>1. Pages' = Pages /\ Zones' = Zones /\ Reserved' = Reserved
  BY DEF Fixed, Pages, Zones, Reserved
<1>2. Zoned' = Zoned
  BY DEF Fixed, Zoned, ZonePages
<1>3. BaseUsed' = BaseUsed
  BY <1>1 DEF Fixed, BaseUsed
<1>. QED  BY <1>1, <1>2, <1>3 DEF TotalsOf

\* The state of a page manager that is ready is determined by who holds what.
LEMMA OwnedFacts ==
    ASSUME IInv, phase = "ready"
    PROVE  /\ used = BaseUsed \cup UNION {RunPages(r) : r \in held}
           /\ held \subseteq Runs
           /\ \A r \in held : /\ r.count > 0
                              /\ RunPages(r) \subseteq Zoned
                              /\ RunPages(r) \cap BaseUsed = {}
                              /\ RunPages(r) # {}
           /\ \A r, t \in held : r # t => RunPages(r) \cap RunPages(t) = {}
           /\ 1 .. zonesSize = Zones
           /\ \A p : p \in Zoned <=> \E z \in Zones : p \in ZonePages(z)
<1>1. /\ Initialised /\ TypeOK /\ Bookkeeping /\ OwnersMarked /\ ExclusiveOwnership
      /\ zonesSize = Len(layout.zones) /\ layout \in Layouts
  BY DEF IInv, Initialised, OwnersMarked, TypeOK
<1>2. 1 .. zonesSize = Zones
  BY <1>1 DEF Zones
<1>3. used = BaseUsed \cup UNION {RunPages(r) : r \in held}
  BY <1>1 DEF ExclusiveOwnership, BaseUsed
<1>4. held \subseteq Runs
  BY <1>1 DEF TypeOK
<1>5. ASSUME NEW r \in held
      PROVE  /\ r.count > 0 /\ RunPages(r) \subseteq Zoned
             /\ RunPages(r) \cap BaseUsed = {} /\ RunPages(r) # {}
  <2>1. PICK z \in Zones : RunPages(r) \subseteq ZonePages(z)
    BY <1>1 DEF ExclusiveOwnership
  <2>2. ZonePages(z) \subseteq Pages /\ z # 0
    <3>1. z # 0
      BY DEF Zones
    <3>. QED  BY <1>1, <3>1, LayoutFacts
  <2>3. \A p \in RunPages(r) : zoneOf[p] # 0
    BY <1>1, <2>1, <2>2 DEF Bookkeeping
  <2>4. RunPages(r) \cap Reserved = {} /\ r.count > 0
    BY <1>1 DEF ExclusiveOwnership
  <2>5. r.first \in Nat /\ r.count \in Nat
    BY <1>4 DEF Runs
  <2>6. r.first \in RunPages(r)
    BY <2>4, <2>5 DEF RunPages
  <2>7. RunPages(r) \subseteq Zoned
    BY <1>2, <2>1 DEF Zoned
  <2>. QED  BY <2>3, <2>4, <2>6, <2>7 DEF BaseUsed
<1>6. \A r, t \in held : r # t => RunPages(r) \cap RunPages(t) = {}
  BY <1>1 DEF ExclusiveOwnership
<1>7. \A p : p \in Zoned <=> \E z \in Zones : p \in ZonePages(z)
  BY <1>2 DEF Zoned
<1>. QED  BY <1>2, <1>3, <1>4, <1>5, <1>6, <1>7

\* What holds after every call.
Sound == IInv' /\ phase' = "ready" /\ Fixed /\ StateHolds' /\ Totals' = TotalsOf(used')

LEMMA SoundStep ==
    ASSUME IInv, IInv', phase = "ready", phase' \in {"ready", "panic"}, Fixed
    PROVE  Sound
<1>1. phase' = "ready"
  BY ReadyStays DEF Fixed
<1>. QED  BY <1>1, StateFactsNext, FixedFacts DEF Sound

\* A call that is refused.
LEMMA FailEffect ==
    ASSUME IInv, phase = "ready", NEW a \in Areas, NEW n \in Nat, AllocateFails(a, n)
    PROVE  /\ Sound /\ used' = used /\ held' = held
           /\ reply'.result = IF n = 0 THEN "InvalidCount" ELSE "OutOfMemory"
           /\ n > 0 => \A z \in Zones : WindowsOver(used, z, a, n) = {}
<1>1. IInv'
  BY AllocateFailsStep
<1>2. phase' = phase /\ Fixed /\ used' = used /\ held' = held
  BY DEF AllocateFails, pageVars, zoneVars, Fixed
<1>3. /\ reply'.result = IF n = 0 THEN "InvalidCount" ELSE "OutOfMemory"
      /\ n > 0 => reply'.area = a /\ reply'.count = n
  BY DEF AllocateFails
<1>4. ASSUME n > 0, NEW z \in Zones PROVE WindowsOver(used, z, a, n) = {}
  <2>1. Windows(z, reply.area, reply.count)' = {}
    BY <1>1, <1>2, <1>3, <1>4, FixedFacts DEF IInv, CompleteSearch
  <2>. QED  BY <1>2, <1>3, <1>4, <2>1 DEF Windows, WindowsOver, ScanEnd, Fixed
<1>. QED  BY <1>1, <1>2, <1>3, <1>4, SoundStep

\* A call that is granted: the first fit, of pages that were free.
LEMMA GrantEffect ==
    ASSUME IInv, phase = "ready", NEW a \in Areas, NEW n \in Nat, AllocateSucceeds(a, n)
    PROVE  /\ Sound /\ reply'.result = "Ok" /\ n > 0
           /\ \E f \in Nat :
                 LET run == Run(a, f, n)
                 IN  /\ run \in Runs /\ run \notin held /\ held' = held \cup {run}
                     /\ Granted = run
                     /\ used' = used \cup RunPages(run)
                     /\ FirstOver(used, a, n, f)
                     /\ RunPages(run) = f .. f + n - 1
                     /\ RunPages(run) \subseteq Zoned \ used
                     /\ Cardinality(RunPages(run)) = n
                     /\ a = "Mapped" => f + n <= DirectEnd
<1>1. IInv'
  BY AllocateSucceedsStep
<1>2. n > 0 /\ reply'.result = "Ok" /\ Fixed
  BY DEF AllocateSucceeds, Fixed
<1>3. PICK z \in Candidates(a, n) : \E f \in Windows(z, a, n) :
        /\ First(z, Candidates(a, n)) /\ First(f, Windows(z, a, n))
        /\ phase' \in {"ready", "panic"}
        /\ used' = used \cup RunPages(Run(a, f, n))
        /\ held' = held \cup {Run(a, f, n)}
  BY DEF AllocateSucceeds, Require, InitPages, Run
<1>4. PICK f \in Windows(z, a, n) :
        /\ First(z, Candidates(a, n)) /\ First(f, Windows(z, a, n))
        /\ phase' \in {"ready", "panic"}
        /\ used' = used \cup RunPages(Run(a, f, n))
        /\ held' = held \cup {Run(a, f, n)}
  BY <1>3
<1>5. Sound
  BY <1>1, <1>2, <1>4, SoundStep
<1>6. z \in Zones /\ TypeOK
  BY OwnedFacts DEF Candidates, IInv
<1>7. /\ f \in Nat /\ f .. f + n - 1 \subseteq ZonePages(z) \ used
      /\ Cardinality(f .. f + n - 1) = n
      /\ a = "Mapped" => f + n <= DirectEnd
  BY <1>2, <1>6, WindowFacts
<1>. DEFINE run == Run(a, f, n)
<1>8. RunPages(run) = f .. f + n - 1 /\ run \in Runs
  BY <1>7 DEF RunPages, Run, Runs
<1>9. f \in RunPages(run) /\ f \notin used
  BY <1>2, <1>7, <1>8
<1>10. run \notin held
  BY <1>9, OwnedFacts
<1>11. Granted = run
  BY <1>4, <1>10 DEF Granted
<1>12. \A y \in Zones : Windows(y, a, n) = WindowsOver(used, y, a, n)
  BY DEF Windows, WindowsOver
<1>13. ASSUME NEW y \in Zones, y < z PROVE WindowsOver(used, y, a, n) = {}
  <2>1. y \in 1 .. zonesSize /\ y \notin Candidates(a, n)
    <3>1. y \in 1 .. zonesSize /\ z \in 1 .. zonesSize
      BY <1>6, OwnedFacts
    <3>. QED  BY <1>4, <1>13, <3>1 DEF First
  <2>. SUFFICES ASSUME NEW g \in WindowsOver(used, y, a, n) PROVE FALSE
    OBVIOUS
  <2>2. g \in Windows(y, a, n)
    BY <1>12
  <2>3. n <= Cardinality(ZonePages(y) \ used)
    BY <1>2, <1>6, <2>2, WindowFacts
  <2>4. freeCount[y] = Cardinality(ZonePages(y) \ used) /\ freeCount[y] \in Nat
    BY <1>6 DEF IInv, Bookkeeping, Initialised, TypeOK
  <2>5. layout.zones[y].start \in Nat /\ layout.zones[y].end \in Nat
    BY <1>6, LayoutFacts DEF TypeOK
  <2>6. ScanEnd(y, a) \in Nat
    BY <2>5, BoundAssumption DEF ScanEnd
  <2>7. layout.zones[y].start + n <= ScanEnd(y, a)
    BY <2>2, <2>5, <2>6 DEF Windows
  <2>8. ~Skipped(y, a, n)
    BY <2>3, <2>4, <2>5, <2>6, <2>7 DEF Skipped
  <2>. QED  BY <2>1, <2>2, <2>8 DEF Candidates
<1>14. FirstOver(used, a, n, f)
  BY <1>4, <1>6, <1>12, <1>13 DEF FirstOver
<1>15. RunPages(run) \subseteq Zoned \ used
  BY <1>6, <1>7, <1>8, OwnedFacts DEF Zoned
<1>16. Cardinality(RunPages(run)) = n
  BY <1>7, <1>8, Zenon
<1>. QED  BY <1>2, <1>4, <1>5, <1>7, <1>8, <1>10, <1>11, <1>14, <1>15, <1>16

\* The bitmap after a call is determined in the same way.
LEMMA UsedNow ==
    IInv /\ phase = "ready" => used = BaseUsed \cup UNION {RunPages(r) : r \in held}
BY OwnedFacts

LEMMA UsedNext ==
    ASSUME IInv', phase' = "ready"
    PROVE  used' = (BaseUsed \cup UNION {RunPages(r) : r \in held})'
<1>1. [](IInv /\ phase = "ready" => used = BaseUsed \cup UNION {RunPages(r) : r \in held})
  BY UsedNow, PTL
<1>2. (IInv /\ phase = "ready")' => (used = BaseUsed \cup UNION {RunPages(r) : r \in held})'
  BY <1>1, PTL
<1>. QED  BY <1>2

\* A run given back.
LEMMA ReleaseEffect ==
    ASSUME IInv, phase = "ready", NEW run \in held, Release(run)
    PROVE  /\ Sound /\ held' = held \ {run} /\ used' = used \ RunPages(run)
<1>1. IInv'
  BY ReleaseStep
<1>2. phase' \in {"ready", "panic"} /\ Fixed /\ held' = held \ {run}
  BY DEF Release, Require, Fixed
<1>3. Sound
  BY <1>1, <1>2, SoundStep
<1>4. used' = BaseUsed' \cup UNION {RunPages(r) : r \in held'}
  BY <1>3, UsedNext DEF Sound, RunPages
<1>5. used' = used \ RunPages(run)
  <2>1. BaseUsed' = BaseUsed
    BY <1>2, FixedFacts
  <2>2. \A p : (\E r \in held' : p \in RunPages(r))
                 <=> (\E r \in held : p \in RunPages(r)) /\ p \notin RunPages(run)
    BY <1>2, OwnedFacts
  <2>3. RunPages(run) \cap BaseUsed = {}
    BY OwnedFacts
  <2>. QED  BY <1>4, <2>1, <2>2, <2>3, OwnedFacts
<1>. QED  BY <1>2, <1>3, <1>5

-----------------------------------------------------------------------------
(***************************************************************************)
(* What the steps of the test share.                                       *)
(***************************************************************************)
LEMMA ZonedFacts ==
    ASSUME IInv, phase = "ready"
    PROVE  /\ Zoned \subseteq Pages /\ IsFiniteSet(Zoned)
           /\ layout.bits \in Nat
<1>1. layout \in Layouts
  BY DEF IInv, TypeOK
<1>2. Zoned \subseteq Pages
  <2>1. \A z \in Zones : ZonePages(z) \subseteq Pages
    BY <1>1, LayoutFacts
  <2>. QED  BY <2>1, OwnedFacts
<1>3. layout.bits \in Nat
  BY <1>1, LayoutFacts
<1>4. IsFiniteSet(Pages)
  <2>1. 0 \in Int /\ layout.bits - 1 \in Int
    BY <1>3
  <2>. QED  BY <2>1, FS_Interval DEF Pages
<1>. QED  BY <1>2, <1>3, <1>4, FS_Subset

\* A free page of the direct map is a window of one.
LEMMA SingleWindow ==
    ASSUME IInv, phase = "ready", NEW U, NEW p \in Zoned, p < DirectEnd, p \notin U
    PROVE  \E z \in Zones : p \in WindowsOver(U, z, "Mapped", 1)
<1>1. PICK z \in Zones : p \in ZonePages(z)
  BY OwnedFacts
<1>2. layout.zones[z].start \in Nat /\ layout.zones[z].end \in Nat
  BY LayoutFacts DEF IInv, TypeOK
<1>3. p \in Nat /\ layout.zones[z].start <= p /\ p < layout.zones[z].end
  BY <1>1, <1>2 DEF ZonePages
<1>4. ScanEnd(z, "Mapped") \in Nat /\ p < ScanEnd(z, "Mapped")
  BY <1>2, <1>3, BoundAssumption DEF ScanEnd
<1>5. p .. p + 1 - 1 = {p}
  BY <1>3
<1>. QED  BY <1>2, <1>3, <1>4, <1>5 DEF WindowsOver

\* First fit is found again: pages taken since then leave earlier windows no
\* freer, and the window itself is free.
LEMMA StillFirst ==
    ASSUME TypeOK, BaseUsed \subseteq used, NEW f \in Nat, FirstLarge(f),
           RunPages(Run("Any", f, Large)) \cap used = {}
    PROVE  /\ \E z \in Zones : WindowsOver(used, z, "Any", Large) # {}
           /\ \A g : FirstOver(used, "Any", Large, g) => g = f
<1>1. PICK z \in Zones : /\ First(f, WindowsOver(BaseUsed, z, "Any", Large))
                         /\ \A y \in Zones : y < z => WindowsOver(BaseUsed, y, "Any", Large) = {}
  BY DEF FirstLarge, FirstOver
<1>2. \A y : WindowsOver(used, y, "Any", Large) \subseteq WindowsOver(BaseUsed, y, "Any", Large)
  BY DEF WindowsOver
<1>3. f \in WindowsOver(used, z, "Any", Large)
  BY <1>1 DEF First, WindowsOver, RunPages, Run
<1>4. ASSUME NEW g, FirstOver(used, "Any", Large, g) PROVE g = f
  <2>1. PICK y \in Zones : /\ First(g, WindowsOver(used, y, "Any", Large))
                           /\ \A x \in Zones : x < y => WindowsOver(used, x, "Any", Large) = {}
    BY <1>4 DEF FirstOver
  <2>2. Zones \subseteq Int
    BY DEF Zones
  <2>3. ~(y < z)
    BY <1>1, <1>2, <2>1 DEF First
  <2>4. ~(z < y)
    BY <1>3, <2>1
  <2>5. y = z
    BY <2>2, <2>3, <2>4
  <2>6. g \in Int /\ f \in Int /\ g <= f /\ f <= g
    BY <1>1, <1>2, <1>3, <2>1, <2>5 DEF First, WindowsOver
  <2>. QED  BY <2>6
<1>. QED  BY <1>3, <1>4

LEMMA FirstLargeFixed ==
    ASSUME Fixed, NEW f
    PROVE  FirstLarge(f)' <=> FirstLarge(f)
BY FixedFacts DEF Fixed, FirstLarge, FirstOver, WindowsOver, ScanEnd

\* The array of verify() after its first credential is taken out.
WithoutFirst(s) == SubSeq(s, 1, 1 - 1) \o SubSeq(s, 1 + 1, Len(s))

LEMMA TailFacts ==
    ASSUME NEW s \in Seq(Runs), Len(s) >= 1
    PROVE  /\ WithoutFirst(s) \in Seq(Runs) /\ Len(WithoutFirst(s)) = Len(s) - 1
           /\ \A i \in 1 .. Len(WithoutFirst(s)) : WithoutFirst(s)[i] = s[i + 1]
<1>1. Len(s) \in Nat /\ \A i \in 1 .. Len(s) : s[i] \in Runs
  BY LenProperties, ElementOfSeq
<1>2. ASSUME NEW m \in Int, NEW n \in Int, \A i \in m .. n : s[i] \in Runs
      PROVE  /\ SubSeq(s, m, n) \in Seq(Runs)
             /\ Len(SubSeq(s, m, n)) = IF m <= n THEN n - m + 1 ELSE 0
             /\ \A i \in 1 .. n - m + 1 : SubSeq(s, m, n)[i] = s[m + i - 1]
  BY <1>2, SubSeqProperties
<1>3. /\ SubSeq(s, 1, 0) = <<>>
      /\ SubSeq(s, 2, Len(s)) \in Seq(Runs)
      /\ Len(SubSeq(s, 2, Len(s))) = Len(s) - 1
      /\ \A i \in 1 .. Len(s) - 1 : SubSeq(s, 2, Len(s))[i] = s[i + 1]
  <2>1. SubSeq(s, 1, 0) \in Seq(Runs) /\ Len(SubSeq(s, 1, 0)) = 0
    BY <1>2
  <2>2. SubSeq(s, 1, 0) = <<>>
    BY <2>1, EmptySeq
  <2>3. 2 \in Int /\ Len(s) \in Int /\ \A i \in 2 .. Len(s) : s[i] \in Runs
    BY <1>1
  <2>4. /\ SubSeq(s, 2, Len(s)) \in Seq(Runs)
        /\ Len(SubSeq(s, 2, Len(s))) = IF 2 <= Len(s) THEN Len(s) - 2 + 1 ELSE 0
        /\ \A i \in 1 .. Len(s) - 2 + 1 : SubSeq(s, 2, Len(s))[i] = s[2 + i - 1]
    BY <1>2, <2>3
  <2>5. Len(SubSeq(s, 2, Len(s))) = Len(s) - 1
    <3>1. ASSUME NEW k \in Nat, k >= 1, NEW l, l = IF 2 <= k THEN k - 2 + 1 ELSE 0
          PROVE  l = k - 1
      BY <3>1, SMT
    <3>. DEFINE tail == Len(SubSeq(s, 2, Len(s)))
    <3>2. tail = IF 2 <= Len(s) THEN Len(s) - 2 + 1 ELSE 0
      BY <2>4
    <3>. HIDE DEF tail
    <3>3. tail = Len(s) - 1
      BY <1>1, <3>1, <3>2
    <3>. QED  BY <3>3 DEF tail
  <2>6. \A i \in 1 .. Len(s) - 1 : SubSeq(s, 2, Len(s))[i] = s[i + 1]
    <3>1. \A i \in 1 .. Len(s) - 1 : i \in 1 .. Len(s) - 2 + 1 /\ 2 + i - 1 = i + 1
      BY <1>1
    <3>. QED  BY <2>4, <3>1
  <2>. QED  BY <2>2, <2>4, <2>5, <2>6
<1>4. WithoutFirst(s) = SubSeq(s, 2, Len(s))
  BY <1>3, ConcatEmptySeq DEF WithoutFirst
<1>. QED  BY <1>1, <1>3, <1>4

\* An array with one more credential.
LEMMA AppendFacts ==
    ASSUME NEW s \in Seq(Runs), NEW r \in Runs
    PROVE  /\ Append(s, r) \in Seq(Runs) /\ Len(Append(s, r)) = Len(s) + 1
           /\ \A i \in 1 .. Len(s) : Append(s, r)[i] = s[i]
           /\ Append(s, r)[Len(s) + 1] = r
BY AppendProperties

\* A step that passes its asserts, when nothing follows from it but the named
\* parts of the invariant.
LEMMA Passed ==
    ASSUME CheckInv, phase = "ready", Sound, baseline' = baseline, totals' = Totals',
           kept' \in Seq(Runs), step' # "assert",
           Unheld', Reuse', Singles', DirectFull', Whole'
    PROVE  CheckInv'
<1>1. TotalsOf(BaseUsed)' = TotalsOf(BaseUsed)
  BY FixedFacts DEF Sound
<1>2. Counting'
  BY <1>1 DEF CheckInv, Progress, Counting
<1>. QED  BY <1>2 DEF CheckInv, Progress, Sound

\* Nobody holds a run: the totals are the baseline again.
LEMMA BackToBaseline ==
    ASSUME CheckInv, phase = "ready", Sound, held' = {}
    PROVE  Totals' = baseline
<1>1. UNION {RunPages(r) : r \in held'} = {}
  OBVIOUS
<1>2. used' = BaseUsed
  BY <1>1, UsedNext, FixedFacts DEF Sound, RunPages
<1>. QED  BY <1>2 DEF Sound, CheckInv, Progress, Counting

-----------------------------------------------------------------------------
(***************************************************************************)
(* The steps of the test.                                                  *)
(***************************************************************************)
LEMMA CheckInitInv == CheckInit => CheckInv
<1>. SUFFICES ASSUME CheckInit PROVE CheckInv
  OBVIOUS
<1>1. IInv
  BY InitIInv DEF CheckInit
<1>2. kept \in Seq(Runs)
  BY EmptySeq DEF CheckInit
<1>. QED  BY <1>1, <1>2 DEF CheckInit, Init, CheckInv

\* Until memory::init is done nothing is held; then the baseline is taken.
LEMMA PrepareStep == ASSUME CheckInv, Prepare PROVE CheckInv'
<1>1. CASE (InstallZone \/ ReservePages) /\ UNCHANGED checkVars
  <2>1. IInv'
    BY <1>1, InstallZoneStep, ReservePagesStep DEF CheckInv
  <2>2. phase # "ready" /\ phase' # "ready"
    BY <1>1 DEF InstallZone, ReservePages, Require
  <2>. QED  BY <1>1, <2>1, <2>2 DEF CheckInv, checkVars
<1>2. CASE CheckInvariants /\ Holds(TRUE, "zero") /\ baseline' = Totals /\ UNCHANGED kept
  <2>1. IInv' /\ phase = "check" /\ held' = held
    BY <1>2, CheckInvariantsStep DEF CheckInv, CheckInvariants
  <2>2. phase' = "ready" /\ held = {}
    <3>1. Initialised /\ OwnersMarked
      BY <2>1 DEF CheckInv, IInv, Initialised
    <3>2. \A z \in Zones : Consistent(z)
      BY <3>1, AlwaysConsistent DEF CheckInv
    <3>. QED  BY <1>2, <2>1, <3>1, <3>2 DEF CheckInvariants, Require, OwnersMarked
  <2>3. StateHolds' /\ Totals' = TotalsOf(used)'
    BY <2>1, <2>2, StateFactsNext
  <2>4. used' = BaseUsed'
    <3>1. used' = (BaseUsed \cup UNION {RunPages(r) : r \in held})'
      BY <2>1, <2>2, UsedNext
    <3>. QED  BY <2>1, <2>2, <3>1
  <2>5. Totals' = Totals
    <3>1. /\ zonesSize' = zonesSize /\ used' = used /\ refs' = refs /\ layout' = layout
      BY <1>2 DEF CheckInvariants, pageVars, zoneVars
    <3>. QED  BY <3>1 DEF Totals, Zoned, References, ZonePages
  <2>6. Counting'
    BY <1>2, <2>3, <2>4, <2>5 DEF Counting, Holds, TotalsOf
  <2>7. step' = "zero"
    BY <1>2, <2>2, <2>3 DEF Holds
  <2>8. Progress'
    BY <2>1, <2>2, <2>6, <2>7
       DEF Progress, Unheld, Reuse, Singles, Filling, DirectFull, Whole
  <2>. QED  BY <1>2, <2>1, <2>7, <2>8 DEF CheckInv
<1>. QED  BY <1>1, <1>2 DEF Prepare

\* allocate_pages(.., 0) is refused.
LEMMA ZeroPagesStep == ASSUME CheckInv, ZeroPages PROVE CheckInv'
<1>1. IInv /\ phase = "ready" /\ Progress /\ step = "zero" /\ held = {}
  BY DEF CheckInv, ZeroPages, Refused, Ask, Progress, Unheld
<1>2. "Any" \in Areas /\ 0 \in Nat
  BY DEF Areas
<1>3. AllocateFails("Any", 0)
  <2>1. ~AllocateSucceeds("Any", 0)
    BY <1>1, <1>2, GrantEffect
  <2>. QED  BY <2>1 DEF ZeroPages, Refused, Ask
<1>4. Sound /\ used' = used /\ held' = held /\ reply'.result = "InvalidCount"
  BY <1>1, <1>2, <1>3, FailEffect
<1>5. Totals' = totals
  BY <1>1, <1>4, StateFacts, FixedFacts DEF Sound, Progress, Counting, TotalsOf
<1>6. step' = "huge" /\ totals' = Totals' /\ kept' = kept /\ baseline' = baseline
  BY <1>4, <1>5 DEF ZeroPages, Refused, Ask, Holds, Sound
<1>. QED
  BY <1>1, <1>4, <1>6, Passed
     DEF CheckInv, Unheld, Reuse, Singles, Filling, DirectFull, Whole

\* No machine has usize::MAX pages.
LEMMA TooManyStep == ASSUME CheckInv, TooMany PROVE CheckInv'
<1>1. IInv /\ phase = "ready" /\ Progress /\ step = "huge" /\ held = {}
  BY DEF CheckInv, TooMany, Refused, Ask, Progress, Unheld
<1>2. "Any" \in Areas /\ Huge \in Nat
  BY CheckAssumption DEF Areas
<1>3. AllocateFails("Any", Huge)
  <2>1. SUFFICES ASSUME AllocateSucceeds("Any", Huge) PROVE FALSE
    BY DEF TooMany, Refused, Ask
  <2>2. PICK f \in Nat : f .. f + Huge - 1 \subseteq Zoned
    <3>1. PICK f \in Nat :
            LET run == Run("Any", f, Huge)
            IN  RunPages(run) = f .. f + Huge - 1 /\ RunPages(run) \subseteq Zoned \ used
      BY <1>1, <1>2, <2>1, GrantEffect
    <3>. QED  BY <3>1
  <2>3. Huge > 0
    BY <1>1, <1>2, <2>1, GrantEffect
  <2>4. layout.bits \in Nat /\ layout.bits < Huge
    BY <1>1, CheckAssumption, ZonedFacts DEF IInv, TypeOK
  <2>5. f + Huge - 1 \in Pages
    <3>1. f + Huge - 1 \in f .. f + Huge - 1
      BY <1>2, <2>3
    <3>. QED  BY <1>1, <2>2, <3>1, ZonedFacts
  <2>. QED  BY <1>2, <2>4, <2>5 DEF Pages
<1>4. Sound /\ used' = used /\ held' = held /\ reply'.result = "OutOfMemory"
  <2>1. Huge # 0
    BY <1>1, <1>2, CheckAssumption, ZonedFacts DEF IInv, TypeOK
  <2>. QED  BY <1>1, <1>2, <1>3, <2>1, FailEffect
<1>5. Totals' = totals
  BY <1>1, <1>4, StateFacts, FixedFacts DEF Sound, Progress, Counting, TotalsOf
<1>6. step' = "large" /\ totals' = Totals' /\ kept' = kept /\ baseline' = baseline
  BY <1>4, <1>5 DEF TooMany, Refused, Ask, Holds, Sound
<1>. QED
  BY <1>1, <1>4, <1>6, Passed
     DEF CheckInv, Unheld, Reuse, Singles, Filling, DirectFull, Whole

\* 65 pages, on a page manager that nobody has asked: the totals fall by 65.
LEMMA TakeLargeStep == ASSUME CheckInv, TakeLarge PROVE CheckInv'
<1>1. /\ IInv /\ phase = "ready" /\ Progress /\ step = "large" /\ held = {}
      /\ baseline' = baseline
  BY DEF CheckInv, TakeLarge, Ask, Progress, Unheld
<1>2. "Any" \in Areas /\ Large \in Nat /\ Large > 0
  BY CheckAssumption DEF Areas
<1>3. CASE AllocateFails("Any", Large)
  <2>1. Sound /\ reply'.result = "OutOfMemory"
    BY <1>1, <1>2, <1>3, FailEffect
  <2>2. step' = "stop" /\ totals' = Totals' /\ kept' = kept
    BY <2>1 DEF TakeLarge, Ok, Holds, Sound
  <2>. QED
    BY <1>1, <2>1, <2>2, Passed
       DEF CheckInv, Unheld, Reuse, Singles, Filling, DirectFull, Whole
<1>4. CASE AllocateSucceeds("Any", Large)
  <2>1. Sound /\ reply'.result = "Ok"
    BY <1>1, <1>2, <1>4, GrantEffect
  <2>2. PICK f \in Nat :
          LET run == Run("Any", f, Large)
          IN  /\ run \in Runs /\ held' = held \cup {run} /\ Granted = run
              /\ used' = used \cup RunPages(run) /\ FirstOver(used, "Any", Large, f)
              /\ RunPages(run) \subseteq Zoned \ used
              /\ Cardinality(RunPages(run)) = Large
    BY <1>1, <1>2, <1>4, GrantEffect
  <2>. DEFINE run == Run("Any", f, Large)
  <2>3. used = BaseUsed
    BY <1>1, UsedNow
  <2>4. FirstLarge(f)'
    BY <2>1, <2>2, <2>3, FirstLargeFixed DEF FirstLarge, Sound
  <2>5. Totals'.free = baseline.free - Large
    <3>. DEFINE A == Zoned \ used
    <3>1. IsFiniteSet(A)
      BY <1>1, ZonedFacts, FS_Subset
    <3>2. Cardinality(A \ RunPages(run)) = Cardinality(A) - Cardinality(RunPages(run))
      BY <2>2, <3>1, CardRemove
    <3>3. Zoned \ used' = A \ RunPages(run)
      BY <2>2
    <3>4. baseline.free = Cardinality(A)
      BY <1>1, <2>3 DEF Progress, Counting, TotalsOf
    <3>5. Totals'.free = Cardinality(Zoned \ used')
      BY <2>1 DEF Sound, TotalsOf
    <3>. QED  BY <2>2, <3>2, <3>3, <3>4, <3>5
  <2>6. step' = "other" /\ totals' = Totals' /\ kept' = <<run>>
    BY <2>1, <2>2, <2>5 DEF TakeLarge, Ok, Holds, Sound
  <2>7. kept' \in Seq(Runs) /\ Len(kept') = 1 /\ kept'[1] = run
    BY <2>2, <2>6
  <2>8. held' = {kept'[1]}
    BY <1>1, <2>2, <2>7
  <2>9. Reuse'
    BY <2>4, <2>6, <2>7, <2>8 DEF Reuse
  <2>. QED
    BY <1>1, <2>1, <2>6, <2>7, <2>9, Passed
       DEF Unheld, Singles, Filling, DirectFull, Whole
<1>. QED  BY <1>3, <1>4 DEF TakeLarge, Ask

\* One page more, which keeps out of the large run.
LEMMA TakeOtherStep == ASSUME CheckInv, TakeOther PROVE CheckInv'
<1>1. /\ IInv /\ phase = "ready" /\ Progress /\ step = "other" /\ kept \in Seq(Runs)
      /\ baseline' = baseline
  BY DEF CheckInv, TakeOther, Ask
<1>2. "Any" \in Areas /\ 1 \in Nat
  BY DEF Areas
<1>3. PICK g \in Nat : kept[1] = Run("Any", g, Large) /\ FirstLarge(g)
  BY <1>1 DEF Progress, Reuse
<1>4. Len(kept) = 1 /\ held = {kept[1]}
  BY <1>1 DEF Progress, Reuse
<1>5. CASE AllocateFails("Any", 1)
  <2>1. Sound /\ reply'.result = "OutOfMemory"
    BY <1>1, <1>2, <1>5, FailEffect
  <2>2. step' = "stop" /\ totals' = Totals' /\ kept' = kept
    BY <2>1 DEF TakeOther, Ok, Holds, Sound
  <2>. QED
    BY <1>1, <2>1, <2>2, Passed
       DEF CheckInv, Unheld, Reuse, Singles, Filling, DirectFull, Whole
<1>6. CASE AllocateSucceeds("Any", 1)
  <2>1. Sound /\ reply'.result = "Ok"
    BY <1>1, <1>2, <1>6, GrantEffect
  <2>2. PICK f \in Nat :
          LET run == Run("Any", f, 1)
          IN  /\ run \in Runs /\ run \notin held /\ held' = held \cup {run}
              /\ Granted = run
              /\ RunPages(run) = f .. f + 1 - 1 /\ RunPages(run) \subseteq Zoned \ used
    BY <1>1, <1>2, <1>6, GrantEffect
  <2>. DEFINE run == Run("Any", f, 1)
  <2>3. Apart(kept[1], run)
    <3>1. RunPages(kept[1]) \subseteq used
      BY <1>1, <1>4, UsedNow
    <3>2. RunPages(kept[1]) = g .. g + Large - 1 /\ kept[1].first = g /\ kept[1].count = Large
      BY <1>3 DEF RunPages, Run
    <3>3. f \notin g .. g + Large - 1 /\ run.first = f
      <4>1. f \in RunPages(run)
        BY <2>2
      <4>. QED  BY <2>2, <3>1, <3>2, <4>1 DEF Run
    <3>. QED  BY <3>2, <3>3, CheckAssumption DEF Apart
  <2>4. step' = "give_large" /\ totals' = Totals' /\ kept' = Append(kept, run)
    BY <2>1, <2>2, <2>3 DEF TakeOther, Ok, Holds, Sound
  <2>5. kept' \in Seq(Runs) /\ Len(kept') = 2 /\ kept'[1] = kept[1] /\ kept'[2] = run
    <3>1. run \in Runs
      BY <2>2
    <3>2. kept' = Append(kept, run)
      BY <2>4
    <3>. HIDE DEF run
    <3>3. /\ Append(kept, run) \in Seq(Runs) /\ Len(Append(kept, run)) = Len(kept) + 1
          /\ \A i \in 1 .. Len(kept) : Append(kept, run)[i] = kept[i]
          /\ Append(kept, run)[Len(kept) + 1] = run
      BY <1>1, <3>1, AppendFacts
    <3>. QED  BY <1>4, <3>2, <3>3
  <2>6. held' = {kept'[1], kept'[2]} /\ kept'[1] # kept'[2]
    BY <1>4, <2>2, <2>5
  <2>7. FirstLarge(g)'
    BY <1>3, <2>1, FirstLargeFixed DEF Sound
  <2>8. Reuse'
    BY <1>3, <2>4, <2>5, <2>6, <2>7 DEF Reuse
  <2>. QED
    BY <1>1, <2>1, <2>4, <2>5, <2>8, Passed
       DEF Unheld, Singles, Filling, DirectFull, Whole
<1>. QED  BY <1>5, <1>6 DEF TakeOther, Ask

\* The large run is given back, and remembered.
LEMMA GiveLargeStep == ASSUME CheckInv, GiveLarge PROVE CheckInv'
<1>1. /\ IInv /\ phase = "ready" /\ Progress /\ step = "give_large" /\ kept \in Seq(Runs)
      /\ baseline' = baseline /\ kept' = kept
  BY DEF CheckInv, GiveLarge
<1>2. PICK g \in Nat : kept[1] = Run("Any", g, Large) /\ FirstLarge(g)
  BY <1>1 DEF Progress, Reuse
<1>3. Len(kept) = 2 /\ kept[1] # kept[2] /\ held = {kept[1], kept[2]}
  BY <1>1 DEF Progress, Reuse
<1>4. Sound /\ held' = held \ {kept[1]} /\ used' = used \ RunPages(kept[1])
  BY <1>1, <1>3, ReleaseEffect DEF GiveLarge
<1>5. step' = "again" /\ totals' = Totals'
  BY <1>4 DEF GiveLarge, Holds, Sound
<1>6. held' = {kept'[2]} /\ RunPages(kept'[1]) \cap used' = {}
  BY <1>1, <1>3, <1>4
<1>7. FirstLarge(g)'
  BY <1>2, <1>4, FirstLargeFixed DEF Sound
<1>8. Reuse'
  BY <1>1, <1>2, <1>3, <1>5, <1>6, <1>7 DEF Reuse, RunPages
<1>. QED
  BY <1>1, <1>4, <1>5, <1>8, Passed DEF Unheld, Singles, Filling, DirectFull, Whole

\* First fit finds the pages given back.
LEMMA TakeAgainStep == ASSUME CheckInv, TakeAgain PROVE CheckInv'
<1>1. /\ IInv /\ phase = "ready" /\ Progress /\ step = "again" /\ kept \in Seq(Runs)
      /\ baseline' = baseline /\ kept' = kept
  BY DEF CheckInv, TakeAgain, Ask
<1>2. "Any" \in Areas /\ Large \in Nat /\ Large > 0
  BY CheckAssumption DEF Areas
<1>3. PICK g \in Nat : kept[1] = Run("Any", g, Large) /\ FirstLarge(g)
  BY <1>1 DEF Progress, Reuse
<1>4. /\ Len(kept) = 2 /\ kept[1] # kept[2] /\ held = {kept[2]}
      /\ RunPages(kept[1]) \cap used = {}
  BY <1>1 DEF Progress, Reuse
<1>5. /\ \E z \in Zones : WindowsOver(used, z, "Any", Large) # {}
      /\ \A h : FirstOver(used, "Any", Large, h) => h = g
  <2>1. TypeOK /\ BaseUsed \subseteq used
    BY <1>1, UsedNow DEF IInv
  <2>. QED  BY <1>3, <1>4, <2>1, StillFirst
<1>6. AllocateSucceeds("Any", Large)
  <2>1. ~AllocateFails("Any", Large)
    BY <1>1, <1>2, <1>5, FailEffect
  <2>. QED  BY <2>1 DEF TakeAgain, Ask
<1>7. Sound /\ reply'.result = "Ok"
  BY <1>1, <1>2, <1>6, GrantEffect
<1>8. PICK f \in Nat :
        LET run == Run("Any", f, Large)
        IN  /\ held' = held \cup {run} /\ Granted = run
            /\ FirstOver(used, "Any", Large, f)
  BY <1>1, <1>2, <1>6, GrantEffect
<1>9. f = g
  BY <1>5, <1>8
<1>10. held' = {kept'[1], kept'[2]} /\ Granted = kept[1]
  BY <1>1, <1>3, <1>4, <1>8, <1>9
<1>11. step' = "give_again" /\ totals' = Totals'
  BY <1>7, <1>10 DEF TakeAgain, Ok, Holds, Sound
<1>12. FirstLarge(g)'
  BY <1>3, <1>7, FirstLargeFixed DEF Sound
<1>13. Reuse'
  BY <1>1, <1>3, <1>4, <1>10, <1>11, <1>12 DEF Reuse
<1>. QED
  BY <1>1, <1>7, <1>11, <1>13, Passed DEF Unheld, Singles, Filling, DirectFull, Whole

LEMMA GiveAgainStep == ASSUME CheckInv, GiveAgain PROVE CheckInv'
<1>1. /\ IInv /\ phase = "ready" /\ Progress /\ step = "give_again" /\ kept \in Seq(Runs)
      /\ baseline' = baseline
  BY DEF CheckInv, GiveAgain, GiveBack
<1>2. Len(kept) = 2 /\ kept[1] # kept[2] /\ held = {kept[1], kept[2]}
  BY <1>1 DEF Progress, Reuse
<1>3. Sound /\ held' = {kept[2]}
  BY <1>1, <1>2, ReleaseEffect DEF GiveAgain, GiveBack
<1>4. step' = "give_other" /\ totals' = Totals'
  BY <1>3 DEF GiveAgain, GiveBack, Holds, Sound
<1>5. kept' \in Seq(Runs) /\ Len(kept') = 1 /\ kept'[1] = kept[2]
  <2>1. kept' = WithoutFirst(kept)
    BY DEF GiveAgain, GiveBack, WithoutFirst
  <2>2. /\ kept' \in Seq(Runs) /\ Len(kept') = Len(kept) - 1
        /\ \A i \in 1 .. Len(kept') : kept'[i] = kept[i + 1]
    <3>1. Len(kept) >= 1
      BY <1>2
    <3>. QED  BY <1>1, <2>1, <3>1, TailFacts
  <2>. QED  BY <1>2, <2>2
<1>6. Reuse'
  BY <1>3, <1>4, <1>5 DEF Reuse
<1>. QED
  BY <1>1, <1>3, <1>4, <1>5, <1>6, Passed DEF Unheld, Singles, Filling, DirectFull, Whole

\* Everything is given back: the totals are those of the start.
LEMMA GiveOtherStep == ASSUME CheckInv, GiveOther PROVE CheckInv'
<1>1. /\ IInv /\ phase = "ready" /\ Progress /\ step = "give_other" /\ kept \in Seq(Runs)
      /\ baseline' = baseline
  BY DEF CheckInv, GiveOther, GiveBack
<1>2. Len(kept) = 1 /\ held = {kept[1]}
  BY <1>1 DEF Progress, Reuse
<1>3. Sound /\ held' = {}
  BY <1>1, <1>2, ReleaseEffect DEF GiveOther, GiveBack
<1>4. Totals' = baseline
  BY <1>1, <1>3, BackToBaseline
<1>5. step' = "fill" /\ totals' = Totals'
  BY <1>3, <1>4 DEF GiveOther, GiveBack, Holds, Sound
<1>6. kept' \in Seq(Runs) /\ Len(kept') = 0
  <2>1. kept' = WithoutFirst(kept)
    BY DEF GiveOther, GiveBack, WithoutFirst
  <2>2. kept' \in Seq(Runs) /\ Len(kept') = Len(kept) - 1
    <3>1. Len(kept) >= 1
      BY <1>2
    <3>. QED  BY <1>1, <2>1, <3>1, TailFacts
  <2>. QED  BY <1>2, <2>2
<1>7. Singles'
  BY <1>3, <1>5, <1>6 DEF Singles, Filling, KeptFrom
<1>. QED
  BY <1>1, <1>3, <1>5, <1>6, <1>7, Passed DEF Unheld, Reuse, Filling, DirectFull, Whole

\* What verify() holds of the direct map: one page each.
LEMMA SingleFacts ==
    ASSUME IInv, phase = "ready", NEW r \in held, r.area = "Mapped", r.count = 1
    PROVE  /\ r.first \in Nat /\ r.first < DirectEnd /\ r.first \in Zoned
           /\ RunPages(r) = {r.first} /\ r = Run("Mapped", r.first, 1)
<1>1. r \in Runs
  BY OwnedFacts
<1>2. r.first \in Nat /\ r = Run("Mapped", r.first, 1)
  BY <1>1 DEF Runs, Run
<1>3. RunPages(r) = {r.first}
  <2>1. \A f \in Nat : f .. f + 1 - 1 = {f}
    OBVIOUS
  <2>. QED  BY <1>2, <2>1 DEF RunPages
<1>4. r.first < DirectEnd
  BY <1>3 DEF IInv, MappedRunsAddressable, Initialised
<1>5. r.first \in Zoned
  BY <1>3, OwnedFacts
<1>. QED  BY <1>2, <1>3, <1>4, <1>5

\* The array held has room for every page of the direct map.
LEMMA Room ==
    ASSUME NEW s \in Seq(Runs), NEW n \in Nat,
           \A i \in 1 .. Len(s) : s[i] = Run("Mapped", s[i].first, 1) /\ s[i].first < n,
           \A i, j \in 1 .. Len(s) : s[i] = s[j] => i = j
    PROVE  Len(s) <= n
<1>. DEFINE I == 1 .. Len(s)
            P == 0 .. n - 1
            F == [i \in I |-> s[i].first]
<1>1. Len(s) \in Nat /\ \A i \in I : s[i] \in Runs
  BY LenProperties, ElementOfSeq
<1>2. \A i \in I : s[i].first \in P
  BY <1>1 DEF Runs
<1>3. F \in [I -> P]
  BY <1>2
<1>4. IsFiniteSet(I) /\ IsFiniteSet(P) /\ Cardinality(I) = Len(s) /\ Cardinality(P) = n
  <2>1. ASSUME NEW k \in Int, NEW l \in Int
        PROVE  /\ IsFiniteSet(k .. l)
               /\ Cardinality(k .. l) = IF k > l THEN 0 ELSE l - k + 1
    BY FS_Interval
  <2>2. IsFiniteSet(I) /\ Cardinality(I) = IF 1 > Len(s) THEN 0 ELSE Len(s) - 1 + 1
    BY <1>1, <2>1
  <2>3. IsFiniteSet(P) /\ Cardinality(P) = IF 0 > n - 1 THEN 0 ELSE n - 1 - 0 + 1
    <3>1. 0 \in Int /\ n - 1 \in Int
      OBVIOUS
    <3>. QED  BY <2>1, <3>1
  <2>. QED  BY <1>1, <2>2, <2>3
<1>. SUFFICES ASSUME n < Len(s) PROVE FALSE
  BY <1>1
<1>5. \E i, j \in I : i # j /\ F[i] = F[j]
  <2>. HIDE DEF I, P, F
  <2>. QED  BY <1>3, <1>4, FS_PigeonHole
<1>. QED  BY <1>5

\* The direct map, page by page, until it is full.
LEMMA FillStep == ASSUME CheckInv, Fill PROVE CheckInv'
<1>1. /\ IInv /\ phase = "ready" /\ Progress /\ step = "fill" /\ kept \in Seq(Runs)
      /\ baseline' = baseline
  BY DEF CheckInv, Fill, Ask
<1>2. "Mapped" \in Areas /\ 1 \in Nat /\ Len(kept) \in Nat
  BY <1>1 DEF Areas
<1>3. /\ \A i \in 1 .. Len(kept) : kept[i].area = "Mapped" /\ kept[i].count = 1
      /\ \A i, j \in 1 .. Len(kept) : kept[i] = kept[j] => i = j
      /\ held = {kept[i] : i \in 1 .. Len(kept)}
  BY <1>1 DEF Progress, Singles, Filling, KeptFrom
<1>4. CASE AllocateFails("Mapped", 1)
  <2>1. /\ Sound /\ reply'.result = "OutOfMemory" /\ held' = held /\ used' = used
        /\ \A z \in Zones : WindowsOver(used, z, "Mapped", 1) = {}
    BY <1>1, <1>2, <1>4, FailEffect
  <2>2. /\ step' = IF Len(kept) >= 2 THEN "make_hole" ELSE "stop"
        /\ totals' = Totals' /\ kept' = kept
    BY <2>1 DEF Fill, Ok, Holds, Sound
  <2>3. Singles'
    BY <1>3, <2>1, <2>2 DEF Singles, Filling, KeptFrom
  <2>4. \A p \in Zoned : p < DirectEnd => p \in used
    BY <1>1, <2>1, SingleWindow
  <2>5. DirectFull'
    BY <2>1, <2>2, <2>4, FixedFacts DEF DirectFull, Sound
  <2>. QED
    BY <1>1, <2>1, <2>2, <2>3, <2>5, Passed DEF Unheld, Reuse, Whole
<1>5. CASE AllocateSucceeds("Mapped", 1)
  <2>1. Sound /\ reply'.result = "Ok"
    BY <1>1, <1>2, <1>5, GrantEffect
  <2>2. PICK f \in Nat :
          LET run == Run("Mapped", f, 1)
          IN  /\ run \in Runs /\ run \notin held /\ held' = held \cup {run}
              /\ Granted = run /\ f + 1 <= DirectEnd
    BY <1>1, <1>2, <1>5, GrantEffect
  <2>. DEFINE run == Run("Mapped", f, 1)
              more == Append(kept, run)
  <2>3. run \in Runs /\ run \notin held /\ held' = held \cup {run} /\ Granted = run
    BY <2>2
  <2>4. run.area = "Mapped" /\ run.count = 1 /\ run.first = f /\ f < DirectEnd
    BY <2>2, BoundAssumption DEF Run
  <2>5. /\ more \in Seq(Runs) /\ Len(more) = Len(kept) + 1
        /\ \A i \in 1 .. Len(kept) : more[i] = kept[i]
        /\ more[Len(kept) + 1] = run
    <3>. HIDE DEF run
    <3>. QED  BY <1>1, <2>3, AppendFacts
  <2>. HIDE DEF run, more
  <2>6. \A i \in 1 .. Len(more) : i \in 1 .. Len(kept) \/ i = Len(kept) + 1
    BY <1>2, <2>5
  <2>7. \A i \in 1 .. Len(kept) : kept[i] \in held /\ kept[i] # run
    BY <1>3, <2>3
  <2>8. \A i, j \in 1 .. Len(more) : more[i] = more[j] => i = j
    BY <1>3, <2>5, <2>6, <2>7
  <2>9. \A i \in 1 .. Len(more) : more[i].area = "Mapped" /\ more[i].count = 1
    BY <1>3, <2>4, <2>5, <2>6
  <2>10. Len(kept) < DirectEnd
    <3>1. \A i \in 1 .. Len(more) : /\ more[i] = Run("Mapped", more[i].first, 1)
                                    /\ more[i].first < DirectEnd
      <4>1. \A i \in 1 .. Len(kept) : /\ kept[i] = Run("Mapped", kept[i].first, 1)
                                      /\ kept[i].first < DirectEnd
        BY <1>1, <1>3, <2>7, SingleFacts
      <4>2. run = Run("Mapped", run.first, 1)
        BY <2>4 DEF run
      <4>. QED  BY <2>4, <2>5, <2>6, <4>1, <4>2
    <3>2. Len(more) <= DirectEnd
      BY <2>5, <2>8, <3>1, Room, BoundAssumption
    <3>. QED  BY <1>2, <2>5, <3>2, BoundAssumption
  <2>11. step' = "fill" /\ totals' = Totals' /\ kept' = more
    <3>1. Granted.first + 1 <= DirectEnd
      BY <2>2, <2>3, <2>4
    <3>. QED  BY <2>1, <2>3, <2>10, <3>1 DEF Fill, Ok, Holds, Sound, more
  <2>12. held' = {more[i] : i \in 1 .. Len(more)}
    <3>1. \A r : r \in held' <=> \E i \in 1 .. Len(more) : r = more[i]
      <4>1. \A i \in 1 .. Len(kept) : i \in 1 .. Len(more)
        BY <1>2, <2>5
      <4>2. Len(kept) + 1 \in 1 .. Len(more)
        BY <1>2, <2>5
      <4>. QED  BY <1>3, <2>3, <2>5, <2>6, <4>1, <4>2
    <3>. QED  BY <3>1
  <2>13. Singles'
    BY <2>8, <2>9, <2>11, <2>12 DEF Singles, KeptFrom
  <2>. QED
    BY <1>1, <2>1, <2>5, <2>11, <2>13, Passed DEF Unheld, Reuse, DirectFull, Whole
<1>. QED  BY <1>4, <1>5 DEF Fill, Ask

\* One page is given back: the only free one of the direct map.
LEMMA MakeHoleStep == ASSUME CheckInv, MakeHole PROVE CheckInv'
<1>1. /\ IInv /\ phase = "ready" /\ Progress /\ step = "make_hole" /\ kept \in Seq(Runs)
      /\ baseline' = baseline /\ kept' = kept
  BY DEF CheckInv, MakeHole
<1>2. /\ \A i \in 1 .. Len(kept) : kept[i].area = "Mapped" /\ kept[i].count = 1
      /\ \A i, j \in 1 .. Len(kept) : kept[i] = kept[j] => i = j
      /\ held = {kept[i] : i \in 1 .. Len(kept)}
      /\ Len(kept) >= 2 /\ Len(kept) \in Nat
  BY <1>1 DEF Progress, Singles, Filling, KeptFrom
<1>3. \A p \in Zoned : p < DirectEnd => p \in used
  BY <1>1 DEF Progress, DirectFull
<1>4. kept[1] \in held /\ kept[1].area = "Mapped" /\ kept[1].count = 1
  BY <1>2
<1>5. Sound /\ held' = held \ {kept[1]} /\ used' = used \ RunPages(kept[1])
  BY <1>1, <1>4, ReleaseEffect DEF MakeHole
<1>6. step' = "fragmented" /\ totals' = Totals'
  BY <1>5 DEF MakeHole, Holds, Sound
<1>7. /\ kept[1].first < DirectEnd /\ kept[1].first \in Zoned
      /\ RunPages(kept[1]) = {kept[1].first}
  BY <1>1, <1>4, SingleFacts
<1>8. DirectFull'
  BY <1>1, <1>3, <1>5, <1>6, <1>7, FixedFacts DEF DirectFull, Sound
<1>9. held' = {kept[i] : i \in 2 .. Len(kept)}
  <2>1. \A i \in 1 .. Len(kept) : kept[i] # kept[1] <=> i \in 2 .. Len(kept)
    BY <1>2
  <2>2. \A i \in 2 .. Len(kept) : i \in 1 .. Len(kept)
    BY <1>2
  <2>. QED  BY <1>2, <1>5, <2>1, <2>2
<1>10. Singles'
  BY <1>1, <1>2, <1>6, <1>9 DEF Singles, KeptFrom
<1>. QED
  BY <1>1, <1>5, <1>6, <1>8, <1>10, Passed DEF Unheld, Reuse, Filling, Whole

\* No two pages in a row are free below the end of the direct map.
LEMMA FragmentedStep == ASSUME CheckInv, Fragmented PROVE CheckInv'
<1>1. /\ IInv /\ phase = "ready" /\ Progress /\ step = "fragmented" /\ kept \in Seq(Runs)
  BY DEF CheckInv, Fragmented, Refused, Ask
<1>2. "Mapped" \in Areas /\ 2 \in Nat
  BY DEF Areas
<1>3. /\ kept[1].first \in Zoned /\ kept[1].first < DirectEnd /\ kept[1].first \notin used
      /\ \A p \in Zoned : p < DirectEnd => p \in used \/ p = kept[1].first
  BY <1>1 DEF Progress, DirectFull
<1>4. AllocateFails("Mapped", 2)
  <2>1. SUFFICES ASSUME AllocateSucceeds("Mapped", 2) PROVE FALSE
    BY DEF Fragmented, Refused, Ask
  <2>2. PICK f \in Nat :
          LET run == Run("Mapped", f, 2)
          IN  /\ RunPages(run) = f .. f + 2 - 1 /\ RunPages(run) \subseteq Zoned \ used
              /\ f + 2 <= DirectEnd
    BY <1>1, <1>2, <2>1, GrantEffect
  <2>3. f \in Zoned \ used /\ f + 1 \in Zoned \ used
    BY <2>2
  <2>4. f < DirectEnd /\ f + 1 < DirectEnd
    BY <2>2, BoundAssumption
  <2>5. f = kept[1].first /\ f + 1 = kept[1].first
    BY <1>3, <2>3, <2>4
  <2>. QED  BY <2>5
<1>5. Sound /\ used' = used /\ held' = held /\ reply'.result = "OutOfMemory"
  BY <1>1, <1>2, <1>4, FailEffect
<1>6. Totals' = totals
  BY <1>1, <1>5, StateFacts, FixedFacts DEF Sound, Progress, Counting, TotalsOf
<1>7. step' = "fill_hole" /\ totals' = Totals' /\ kept' = kept /\ baseline' = baseline
  BY <1>5, <1>6 DEF Fragmented, Refused, Ask, Holds, Sound
<1>8. Singles'
  BY <1>1, <1>5, <1>7 DEF Progress, Singles, Filling, KeptFrom
<1>9. DirectFull'
  BY <1>3, <1>5, <1>7, FixedFacts DEF DirectFull, Sound
<1>. QED
  BY <1>1, <1>5, <1>7, <1>8, <1>9, Passed DEF Unheld, Reuse, Filling, Whole

\* The hole is found, and it is the page given back.
LEMMA FillHoleStep == ASSUME CheckInv, FillHole PROVE CheckInv'
<1>1. /\ IInv /\ phase = "ready" /\ Progress /\ step = "fill_hole" /\ kept \in Seq(Runs)
      /\ baseline' = baseline /\ kept' = kept
  BY DEF CheckInv, FillHole, Ask
<1>2. "Mapped" \in Areas /\ 1 \in Nat
  BY DEF Areas
<1>3. /\ \A i \in 1 .. Len(kept) : kept[i].area = "Mapped" /\ kept[i].count = 1
      /\ \A i, j \in 1 .. Len(kept) : kept[i] = kept[j] => i = j
      /\ held = {kept[i] : i \in 2 .. Len(kept)}
      /\ Len(kept) >= 2 /\ Len(kept) \in Nat
  BY <1>1 DEF Progress, Singles, Filling, KeptFrom
<1>4. /\ kept[1].first \in Zoned /\ kept[1].first < DirectEnd /\ kept[1].first \notin used
      /\ \A p \in Zoned : p < DirectEnd => p \in used \/ p = kept[1].first
  BY <1>1 DEF Progress, DirectFull
<1>5. AllocateSucceeds("Mapped", 1)
  <2>1. PICK z \in Zones : kept[1].first \in WindowsOver(used, z, "Mapped", 1)
    BY <1>1, <1>4, SingleWindow
  <2>2. ~AllocateFails("Mapped", 1)
    BY <1>1, <1>2, <2>1, FailEffect
  <2>. QED  BY <2>2 DEF FillHole, Ask
<1>6. Sound /\ reply'.result = "Ok"
  BY <1>1, <1>2, <1>5, GrantEffect
<1>7. PICK f \in Nat :
        LET run == Run("Mapped", f, 1)
        IN  /\ held' = held \cup {run} /\ Granted = run
            /\ RunPages(run) = f .. f + 1 - 1 /\ RunPages(run) \subseteq Zoned \ used
            /\ f + 1 <= DirectEnd
  BY <1>1, <1>2, <1>5, GrantEffect
<1>8. f = kept[1].first
  <2>1. f \in f .. f + 1 - 1 /\ f < DirectEnd
    BY <1>7, BoundAssumption
  <2>. QED  BY <1>4, <1>7, <2>1
<1>9. kept[1] = Run("Mapped", f, 1)
  <2>1. kept[1] \in Runs
    BY <1>1, <1>3, ElementOfSeq
  <2>2. kept[1].area = "Mapped" /\ kept[1].count = 1
    BY <1>3
  <2>. QED  BY <1>8, <2>1, <2>2 DEF Runs, Run
<1>10. held' = held \cup {kept[1]} /\ Granted.first = kept[1].first
  BY <1>7, <1>9
<1>11. step' = "empty" /\ totals' = Totals'
  BY <1>6, <1>10 DEF FillHole, Ok, Holds, Sound
<1>12. held' = {kept[i] : i \in 1 .. Len(kept)}
  <2>1. \A i \in 1 .. Len(kept) : i = 1 \/ i \in 2 .. Len(kept)
    BY <1>3
  <2>2. 1 \in 1 .. Len(kept) /\ \A i \in 2 .. Len(kept) : i \in 1 .. Len(kept)
    BY <1>3
  <2>. QED  BY <1>3, <1>10, <2>1, <2>2
<1>13. Singles'
  BY <1>1, <1>3, <1>11, <1>12 DEF Singles, KeptFrom
<1>. QED
  BY <1>1, <1>6, <1>11, <1>13, Passed DEF Unheld, Reuse, Filling, DirectFull, Whole

\* Page by page, the direct map is given back.
LEMMA EmptyStep == ASSUME CheckInv, Empty PROVE CheckInv'
<1>1. /\ IInv /\ phase = "ready" /\ Progress /\ step = "empty" /\ kept \in Seq(Runs)
      /\ baseline' = baseline /\ kept' = WithoutFirst(kept)
  BY DEF CheckInv, Empty, GiveBack, WithoutFirst
<1>2. /\ \A i \in 1 .. Len(kept) : kept[i].area = "Mapped" /\ kept[i].count = 1
      /\ \A i, j \in 1 .. Len(kept) : kept[i] = kept[j] => i = j
      /\ held = {kept[i] : i \in 1 .. Len(kept)}
      /\ Len(kept) >= 1 /\ Len(kept) \in Nat
  BY <1>1 DEF Progress, Singles, Filling, KeptFrom
<1>3. /\ kept' \in Seq(Runs) /\ Len(kept') = Len(kept) - 1
      /\ \A i \in 1 .. Len(kept') : kept'[i] = kept[i + 1]
  BY <1>1, <1>2, TailFacts
<1>4. kept[1] \in held
  BY <1>2
<1>5. Sound /\ held' = held \ {kept[1]}
  BY <1>1, <1>4, ReleaseEffect DEF Empty, GiveBack
<1>6. held' = {kept'[i] : i \in 1 .. Len(kept')}
  <2>1. \A i \in 1 .. Len(kept') : /\ i + 1 \in 1 .. Len(kept) /\ i + 1 # 1
                                   /\ kept'[i] = kept[i + 1]
    BY <1>2, <1>3
  <2>2. \A j \in 1 .. Len(kept) : j # 1 => j - 1 \in 1 .. Len(kept') /\ kept'[j - 1] = kept[j]
    BY <1>2, <1>3
  <2>3. 1 \in 1 .. Len(kept)
    BY <1>2
  <2>4. \A r : r \in held' <=> \E j \in 1 .. Len(kept) : j # 1 /\ r = kept[j]
    BY <1>2, <1>5, <2>3
  <2>5. \A r : (\E j \in 1 .. Len(kept) : j # 1 /\ r = kept[j])
                 <=> (\E i \in 1 .. Len(kept') : r = kept'[i])
    <3>. TAKE r
    <3>1. ASSUME NEW j \in 1 .. Len(kept), j # 1, r = kept[j]
          PROVE  \E i \in 1 .. Len(kept') : r = kept'[i]
      BY <2>2, <3>1
    <3>2. ASSUME NEW i \in 1 .. Len(kept'), r = kept'[i]
          PROVE  \E j \in 1 .. Len(kept) : j # 1 /\ r = kept[j]
      BY <2>1, <3>2
    <3>. QED  BY <3>1, <3>2
  <2>. QED  BY <2>4, <2>5
<1>7. CASE Len(kept) > 1
  <2>1. step' = "empty" /\ totals' = Totals'
    BY <1>2, <1>5, <1>7 DEF Empty, GiveBack, Holds, Sound
  <2>2. \A i \in 1 .. Len(kept') : kept'[i].area = "Mapped" /\ kept'[i].count = 1
    BY <1>2, <1>3
  <2>3. \A i, j \in 1 .. Len(kept') : kept'[i] = kept'[j] => i = j
    BY <1>2, <1>3
  <2>4. Len(kept') >= 1
    BY <1>2, <1>3, <1>7
  <2>5. Singles'
    BY <1>6, <2>1, <2>2, <2>3, <2>4 DEF Singles, KeptFrom
  <2>. QED
    BY <1>1, <1>3, <1>5, <2>1, <2>5, Passed DEF Unheld, Reuse, DirectFull, Whole
<1>8. CASE ~(Len(kept) > 1)
  <2>1. Len(kept) = 1 /\ Len(kept') = 0
    BY <1>2, <1>3, <1>8
  <2>2. held' = {}
    BY <1>6, <2>1
  <2>3. Totals' = baseline
    BY <1>1, <1>5, <2>2, BackToBaseline
  <2>4. /\ step' = IF zonesSize = 1 /\ baseline.used = 0 THEN "entire" ELSE "stop"
        /\ totals' = Totals'
    BY <1>5, <1>8, <2>3 DEF Empty, GiveBack, Holds, Sound
  <2>5. ASSUME zonesSize = 1, baseline.used = 0 PROVE Whole'
    <3>1. IsFiniteSet(Zoned \cap BaseUsed)
      BY <1>1, ZonedFacts, FS_Subset
    <3>2. Cardinality(Zoned \cap BaseUsed) = 0
      BY <1>1, <2>5 DEF Progress, Counting, TotalsOf
    <3>3. Zoned \cap BaseUsed = {}
      BY <3>1, <3>2, FS_EmptySet
    <3>4. zonesSize' = 1 /\ Zoned' \cap BaseUsed' = {}
      BY <1>5, <2>5, <3>3, FixedFacts DEF Sound, Fixed
    <3>. QED  BY <2>4, <2>5, <3>4 DEF Whole
  <2>6. Whole'
    BY <2>4, <2>5 DEF Whole
  <2>. QED
    BY <1>1, <1>3, <1>5, <2>2, <2>4, <2>6, Passed
       DEF Unheld, Reuse, Singles, Filling, DirectFull
<1>. QED  BY <1>7, <1>8

\* The only zone as one run, up to its last page.
LEMMA TakeEntireStep == ASSUME CheckInv, TakeEntire PROVE CheckInv'
<1>1. /\ IInv /\ phase = "ready" /\ Progress /\ step = "entire" /\ held = {}
      /\ baseline' = baseline
  BY DEF CheckInv, TakeEntire, Ask, Progress, Unheld
<1>. DEFINE n == baseline.free
<1>2. used = BaseUsed /\ Zones = {1} /\ Zoned = ZonePages(1) /\ Zoned \cap used = {}
  <2>1. used = BaseUsed
    BY <1>1, UsedNow
  <2>2. zonesSize = 1 /\ Zoned \cap BaseUsed = {}
    BY <1>1 DEF Progress, Whole
  <2>3. Zones = {1}
    <3>1. 1 .. zonesSize = Zones
      BY <1>1, OwnedFacts
    <3>. QED  BY <2>2, <3>1
  <2>4. Zoned = ZonePages(1)
    BY <1>1, <2>3, OwnedFacts
  <2>. QED  BY <2>1, <2>2, <2>3, <2>4
<1>3. n = Cardinality(Zoned)
  <2>1. Zoned \ BaseUsed = Zoned
    BY <1>2
  <2>. QED  BY <1>1, <2>1 DEF Progress, Counting, TotalsOf
<1>4. /\ layout.zones[1].start \in Nat /\ layout.zones[1].end \in Nat
      /\ layout.zones[1].start < layout.zones[1].end
  BY <1>1, <1>2, LayoutFacts DEF IInv, TypeOK
<1>5. n = layout.zones[1].end - layout.zones[1].start
  <2>. DEFINE b == layout.zones[1].start
              e == layout.zones[1].end
  <2>1. Cardinality(b .. e - 1) = IF b > e - 1 THEN 0 ELSE e - 1 - b + 1
    <3>1. b \in Int /\ e - 1 \in Int
      BY <1>4
    <3>. HIDE DEF b, e
    <3>. QED  BY <3>1, FS_Interval
  <2>2. n = Cardinality(b .. e - 1)
    BY <1>2, <1>3 DEF ZonePages
  <2>. HIDE DEF b, e, n
  <2>3. b \in Nat /\ e \in Nat /\ b < e
    BY <1>4 DEF b, e
  <2>4. n = e - b
    BY <2>1, <2>2, <2>3
  <2>. QED  BY <2>4 DEF b, e, n
<1>. HIDE DEF n
<1>6. n \in Nat /\ n > 0 /\ "Any" \in Areas
  BY <1>4, <1>5 DEF Areas
<1>7. layout.zones[1].start \in WindowsOver(used, 1, "Any", n)
  <2>1. ScanEnd(1, "Any") = layout.zones[1].end
    BY DEF ScanEnd
  <2>2. layout.zones[1].start + n - 1 = layout.zones[1].end - 1
        /\ ScanEnd(1, "Any") - n = layout.zones[1].start
    BY <1>4, <1>5, <2>1
  <2>3. \A p \in layout.zones[1].start .. layout.zones[1].end - 1 : p \notin used
    BY <1>2 DEF ZonePages
  <2>. QED  BY <1>4, <2>2, <2>3 DEF WindowsOver
<1>8. AllocateSucceeds("Any", n)
  <2>1. ~AllocateFails("Any", n)
    BY <1>1, <1>2, <1>6, <1>7, FailEffect
  <2>. QED  BY <2>1 DEF TakeEntire, Ask, n
<1>9. Sound /\ reply'.result = "Ok"
  BY <1>1, <1>6, <1>8, GrantEffect
<1>10. PICK f \in Nat :
        LET run == Run("Any", f, n)
        IN  /\ run \in Runs /\ held' = held \cup {run} /\ Granted = run
            /\ used' = used \cup RunPages(run)
            /\ RunPages(run) \subseteq Zoned \ used /\ Cardinality(RunPages(run)) = n
  BY <1>1, <1>6, <1>8, GrantEffect
<1>. DEFINE run == Run("Any", f, n)
<1>11. RunPages(run) = Zoned
  <2>1. RunPages(run) \subseteq Zoned /\ Cardinality(RunPages(run)) = Cardinality(Zoned)
    BY <1>3, <1>10
  <2>. HIDE DEF run
  <2>. QED  BY <1>1, <2>1, ZonedFacts, FS_Subset
<1>12. Totals'.free = 0
  <2>1. Zoned \ used' = {}
    BY <1>10, <1>11
  <2>2. Totals'.free = Cardinality(Zoned \ used')
    BY <1>9 DEF Sound, TotalsOf
  <2>. QED  BY <2>1, <2>2, FS_EmptySet
<1>13. step' = "exhausted" /\ totals' = Totals' /\ kept' = <<run>>
  BY <1>9, <1>10, <1>12 DEF TakeEntire, Ok, Holds, Sound
<1>14. kept' \in Seq(Runs) /\ Len(kept') = 1 /\ kept'[1] = run
  BY <1>10, <1>13
<1>15. held' = {kept'[1]} /\ Zoned' \subseteq used'
  BY <1>1, <1>9, <1>10, <1>11, <1>14, FixedFacts DEF Sound
<1>16. Whole'
  BY <1>13, <1>14, <1>15 DEF Whole
<1>. QED
  BY <1>1, <1>9, <1>13, <1>14, <1>16, Passed
     DEF Unheld, Reuse, Singles, Filling, DirectFull

\* Not one page is left.
LEMMA NothingLeftStep == ASSUME CheckInv, NothingLeft PROVE CheckInv'
<1>1. /\ IInv /\ phase = "ready" /\ Progress /\ step = "exhausted" /\ kept \in Seq(Runs)
  BY DEF CheckInv, NothingLeft, Refused, Ask
<1>2. "Any" \in Areas /\ 1 \in Nat
  BY DEF Areas
<1>3. Len(kept) = 1 /\ held = {kept[1]} /\ Zoned \subseteq used
  BY <1>1 DEF Progress, Whole
<1>4. AllocateFails("Any", 1)
  <2>1. SUFFICES ASSUME AllocateSucceeds("Any", 1) PROVE FALSE
    BY DEF NothingLeft, Refused, Ask
  <2>2. PICK f \in Nat :
          LET run == Run("Any", f, 1)
          IN  RunPages(run) = f .. f + 1 - 1 /\ RunPages(run) \subseteq Zoned \ used
    BY <1>1, <1>2, <2>1, GrantEffect
  <2>3. f \in Zoned \ used
    BY <2>2
  <2>. QED  BY <1>3, <2>3
<1>5. Sound /\ used' = used /\ held' = held /\ reply'.result = "OutOfMemory"
  BY <1>1, <1>2, <1>4, FailEffect
<1>6. Totals' = totals
  BY <1>1, <1>5, StateFacts, FixedFacts DEF Sound, Progress, Counting, TotalsOf
<1>7. step' = "give_entire" /\ totals' = Totals' /\ kept' = kept /\ baseline' = baseline
  BY <1>5, <1>6 DEF NothingLeft, Refused, Ask, Holds, Sound
<1>8. Whole'
  BY <1>3, <1>5, <1>7 DEF Whole
<1>. QED
  BY <1>1, <1>5, <1>7, <1>8, Passed DEF Unheld, Reuse, Singles, Filling, DirectFull

LEMMA GiveEntireStep == ASSUME CheckInv, GiveEntire PROVE CheckInv'
<1>1. /\ IInv /\ phase = "ready" /\ Progress /\ step = "give_entire" /\ kept \in Seq(Runs)
      /\ baseline' = baseline /\ kept' = WithoutFirst(kept)
  BY DEF CheckInv, GiveEntire, GiveBack, WithoutFirst
<1>2. Len(kept) = 1 /\ held = {kept[1]}
  BY <1>1 DEF Progress, Whole
<1>3. Sound /\ held' = {}
  BY <1>1, <1>2, ReleaseEffect DEF GiveEntire, GiveBack
<1>4. Totals' = baseline
  BY <1>1, <1>3, BackToBaseline
<1>5. step' = "done" /\ totals' = Totals'
  BY <1>3, <1>4 DEF GiveEntire, GiveBack, Holds, Sound
<1>6. kept' \in Seq(Runs)
  <2>1. Len(kept) >= 1
    BY <1>2
  <2>. QED  BY <1>1, <2>1, TailFacts
<1>. QED
  BY <1>1, <1>3, <1>5, <1>6, Passed
     DEF Unheld, Reuse, Singles, Filling, DirectFull, Whole

-----------------------------------------------------------------------------
\* The test has ended, or nothing has happened.
LEMMA CheckStutter == CheckInv /\ UNCHANGED allCheckVars => CheckInv'
<1>. SUFFICES ASSUME CheckInv, UNCHANGED allCheckVars PROVE CheckInv'
  OBVIOUS
<1>1. UNCHANGED vars /\ UNCHANGED checkVars
  BY DEF allCheckVars
<1>2. IInv'
  BY <1>1, StutterStep DEF CheckInv
<1>3. /\ phase' = phase /\ held' = held /\ used' = used /\ Fixed /\ refs' = refs
      /\ step' = step /\ baseline' = baseline /\ totals' = totals /\ kept' = kept
  BY <1>1 DEF vars, pageVars, zoneVars, checkVars, Fixed
<1>4. ASSUME phase = "ready" PROVE Progress'
  <2>1. Progress
    BY <1>4 DEF CheckInv
  <2>2. Totals' = Totals
    BY <1>3 DEF Totals, Zoned, References, ZonePages, Fixed
  <2>3. Counting'
    BY <1>3, <2>1, <2>2, FixedFacts DEF Progress, Counting
  <2>4. Unheld' /\ Singles'
    BY <1>3, <2>1 DEF Progress, Unheld, Singles, KeptFrom
  <2>5. Reuse'
    <3>1. \A f : FirstLarge(f)' <=> FirstLarge(f)
      BY <1>3, FirstLargeFixed
    <3>2. step' \in {"other", "give_large", "again", "give_again"} =>
              \E f \in Nat : kept'[1] = Run("Any", f, Large) /\ FirstLarge(f)'
      BY <1>3, <2>1, <3>1 DEF Progress, Reuse
    <3>. QED  BY <1>3, <2>1, <3>2 DEF Progress, Reuse, RunPages
  <2>6. DirectFull' /\ Whole'
    BY <1>3, <2>1, FixedFacts DEF Progress, DirectFull, Whole, Fixed
  <2>. QED  BY <2>3, <2>4, <2>5, <2>6 DEF Progress
<1>. QED  BY <1>2, <1>3, <1>4 DEF CheckInv

LEMMA CheckStep == CheckInv /\ [CheckNext]_allCheckVars => CheckInv'
<1>. SUFFICES ASSUME CheckInv, [CheckNext]_allCheckVars PROVE CheckInv'
  OBVIOUS
<1>1. CASE Finished \/ UNCHANGED allCheckVars
  BY <1>1, CheckStutter DEF Finished
<1>. QED
  BY <1>1, PrepareStep, ZeroPagesStep, TooManyStep, TakeLargeStep, TakeOtherStep,
     GiveLargeStep, TakeAgainStep, GiveAgainStep, GiveOtherStep, FillStep,
     MakeHoleStep, FragmentedStep, FillHoleStep, EmptyStep, TakeEntireStep,
     NothingLeftStep, GiveEntireStep DEF CheckNext

THEOREM CheckInvariance == CheckSpec => []CheckInv
<1>1. CheckInit => CheckInv
  BY CheckInitInv
<1>2. CheckInv /\ [CheckNext]_allCheckVars => CheckInv'
  BY CheckStep
<1>. QED  BY <1>1, <1>2, PTL DEF CheckSpec

\* The self test passes on every machine that the boot code accepts, or stops
\* for want of pages: no assert of verify or check_allocation_state fails.
THEOREM SelfTestPasses == CheckSpec => []SelfTestSound
<1>1. CheckInv => SelfTestSound
  BY DEF CheckInv, SelfTestSound, IInv, PanicsOnlyOnOverlap
<1>. QED  BY <1>1, CheckInvariance, PTL
=============================================================================
