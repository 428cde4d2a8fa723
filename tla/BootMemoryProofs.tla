-------------------------- MODULE BootMemoryProofs ---------------------------
(***************************************************************************)
(* Proofs about BootMemory, for every BIOS, every table size and every     *)
(* placement of the kernel: what memory::init accepts is the whole map of  *)
(* this boot, and the layout it derives from it is sound.                  *)
(***************************************************************************)
EXTENDS BootMemory, FiniteSetTheorems, TLAPS

(***************************************************************************)
(* The inductive invariant.                                                *)
(***************************************************************************)
\* While the Loader collects, the table mirrors what the BIOS returned.
LoaderInv ==
    /\ pc = "reset" => reported = <<>>
    /\ pc \in {"query", "publish", "kernel"} =>
          /\ header.format = "E820"
          /\ header.count = Len(reported)
          /\ header.count <= MaxEntries
          /\ \A k \in 1 .. Len(reported) : table[k] = Normalise(reported[k])
    /\ pc \in {"publish", "kernel"} => header.count > 0
    /\ pc = "kernel" => header.flags = 1

\* The loop of memory::init starts from nothing.
Unmeasured ==
    pc \in {"reset", "query", "publish", "kernel"} =>
        /\ map = <<>> /\ next = 0 /\ physicalEnd = 0
        /\ zones = <<>> /\ origin = <<>>

Validated == Accepted => ValidEntries(map)

\* The zones are the usable ranges of the entries measured so far, in order.
MeasureInv ==
    Accepted =>
        /\ \A k \in 1 .. next : map[k].length # 0 => End(map[k]) <= physicalEnd
        /\ Len(zones) = Len(origin)
        /\ \A z \in 1 .. Len(zones) :
              /\ origin[z] \in 1 .. next
              /\ HasPages(map[origin[z]])
              /\ zones[z].start = FirstPage(map[origin[z]])
              /\ zones[z].end = EndPage(map[origin[z]])
        /\ \A y, z \in 1 .. Len(zones) : y < z => origin[y] < origin[z]

LaidOut ==
    pc = "ready" =>
        /\ next = Len(map)
        /\ layout = [bits |-> BitsSize, reserved |-> ReservedPages(BitsSize),
                     zones |-> zones]
        /\ MetadataEnd(BitsSize) <= DirectRamEnd
        /\ ContainsUsable(map, TextStart, MetadataEnd(BitsSize))

IInv ==
    /\ BootTypeOK /\ LoaderInv /\ Unmeasured /\ CompleteHandoff
    /\ Validated /\ MeasureInv /\ LaidOut

-----------------------------------------------------------------------------
(***************************************************************************)
(* Arithmetic and sequences.                                               *)
(***************************************************************************)
\* The quotient of a division and its remainder.
LEMMA DivBounds ==
    ASSUME NEW a \in Nat, NEW k \in Nat \ {0}
    PROVE  /\ a \div k \in Nat
           /\ k * (a \div k) <= a
           /\ a < k * (a \div k) + k
OBVIOUS

\* A multiple of k grows with its factor.
LEMMA MulMono ==
    ASSUME NEW a \in Nat, NEW b \in Nat, NEW k \in Nat, a <= b
    PROVE  k * a <= k * b /\ k * a \in Nat /\ k * b \in Nat
OBVIOUS

\* Multiples of k compare as their factors do.
LEMMA MulCancel ==
    ASSUME NEW a \in Nat, NEW b \in Nat, NEW k \in Nat, k * a < k * b
    PROVE  a < b
<1>1. CASE b <= a
  <2>1. k * b <= k * a
    BY <1>1, MulMono
  <2>2. k * a \in Int /\ k * b \in Int
    OBVIOUS
  <2>. QED  BY <2>1, <2>2
<1>. QED  BY <1>1

\* div_ceil rounds up to the next multiple and not further.
LEMMA CeilBounds ==
    ASSUME NEW a \in Nat, NEW k \in Nat \ {0}
    PROVE  /\ DivCeil(a, k) \in Nat
           /\ a <= k * DivCeil(a, k)
           /\ k * DivCeil(a, k) < a + k
           /\ AlignUp(a, k) \in Nat
           /\ a <= AlignUp(a, k)
<1>1. a + k - 1 \in Nat
  OBVIOUS
<1>. DEFINE q == (a + k - 1) \div k
<1>2. q \in Nat /\ k * q <= a + k - 1 /\ a + k - 1 < k * q + k
  BY <1>1, DivBounds
<1>3. k * q \in Nat
  BY <1>2
<1>. HIDE DEF q
<1>4. a <= k * q /\ k * q < a + k
  BY <1>2, <1>3
<1>5. DivCeil(a, k) = q
  BY DEF DivCeil, q
<1>. QED  BY <1>2, <1>3, <1>4, <1>5 DEF AlignUp

\* What Append does to a sequence.
LEMMA AppendFacts ==
    ASSUME NEW S, NEW s \in Seq(S), NEW e \in S
    PROVE  /\ Append(s, e) \in Seq(S)
           /\ Len(s) \in Nat
           /\ Len(Append(s, e)) = Len(s) + 1
           /\ \A k \in 1 .. Len(s) : Append(s, e)[k] = s[k]
           /\ Append(s, e)[Len(s) + 1] = e
OBVIOUS

\* A normalised descriptor is an entry of the table.
LEMMA NormaliseType == \A a \in Answers : Normalise(a) \in Entries
BY BootAssumption DEF Normalise, Entries, ReservedKind

\* The count of a header, and the count changed.
LEMMA HeaderCount ==
    ASSUME NEW h \in Headers
    PROVE  /\ h.count \in Nat
           /\ \A n \in 0 .. MaxEntries + 1 :
                 /\ [h EXCEPT !.count = n] \in Headers
                 /\ [h EXCEPT !.count = n].count = n
                 /\ [h EXCEPT !.count = n].format = h.format
BY BootAssumption DEF Headers

\* A header with the complete flag set.
LEMMA HeaderComplete ==
    ASSUME NEW h \in Headers
    PROVE  /\ [h EXCEPT !.flags = 1] \in Headers
           /\ [h EXCEPT !.flags = 1].flags = 1
           /\ [h EXCEPT !.flags = 1].count = h.count
           /\ [h EXCEPT !.flags = 1].format = h.format
BY BootAssumption DEF Headers

\* BootTypeOK, for the header alone.
LEMMA HeaderTyped == BootTypeOK => header \in Headers
BY DEF BootTypeOK

-----------------------------------------------------------------------------
(***************************************************************************)
(* The inductive step, one lemma per action.                               *)
(***************************************************************************)
\* Power on establishes the invariant, whatever low memory holds.
LEMMA InitIInv == Init => IInv
<1>. SUFFICES ASSUME Init PROVE IInv
  OBVIOUS
<1>1. Empty \in Entries
  BY DEF Empty, Entries
<1>2. table \in [Slots -> Entries]
  BY <1>1, NormaliseType DEF Init
<1>3. MaxEntries \in Nat /\ MaxResets \in Nat
  BY BootAssumption
<1>4. BootTypeOK
  BY <1>2, <1>3 DEF Init, BootTypeOK
<1>5. LoaderInv /\ Unmeasured /\ CompleteHandoff /\ Validated /\ MeasureInv /\ LaidOut
  BY DEF Init, LoaderInv, Unmeasured, CompleteHandoff, Validated, MeasureInv, LaidOut, Accepted
<1>. QED  BY <1>4, <1>5 DEF IInv

\* A reset forgets everything but DRAM.
LEMMA ResetStep == IInv /\ Reset => IInv'
<1>. SUFFICES ASSUME IInv, Reset PROVE IInv'
  OBVIOUS
<1>1. MaxResets \in Nat
  BY BootAssumption
<1>a. /\ BootTypeOK /\ UNCHANGED <<header, table>>
      /\ pc' = "reset" /\ fault' = "none" /\ map' = <<>> /\ next' = 0
      /\ physicalEnd' = 0 /\ totalRam' = 0 /\ zones' = <<>> /\ origin' = <<>>
      /\ reported' = <<>> /\ resets' \in 0 .. MaxResets
  <2>1. resets \in 0 .. MaxResets /\ resets < MaxResets /\ resets' = resets + 1
    BY DEF IInv, BootTypeOK, Reset
  <2>2. resets' \in 0 .. MaxResets
    BY <2>1, <1>1
  <2>. QED  BY <2>2 DEF IInv, Reset, Locals, memory
<1>b. \A S : <<>> \in Seq(S)
  OBVIOUS
<1>c. next' \in 0 .. Len(map')
  BY <1>a
<1>2. BootTypeOK'
  BY <1>a, <1>b, <1>c, Zenon DEF BootTypeOK
<1>3. (LoaderInv /\ Unmeasured /\ CompleteHandoff /\ Validated /\ MeasureInv /\ LaidOut)'
  BY DEF Reset, Locals, LoaderInv, Unmeasured, CompleteHandoff, Validated, MeasureInv,
         LaidOut, Accepted
<1>. QED  BY <1>2, <1>3 DEF IInv

\* Clearing header and table starts a table without entries.
LEMMA ClearStep == IInv /\ Clear => IInv'
<1>. SUFFICES ASSUME IInv, Clear PROVE IInv'
  OBVIOUS
<1>1. MaxEntries \in Nat
  BY BootAssumption
<1>a. header' \in Headers
  BY <1>1 DEF Clear, Headers
<1>b. table' \in [Slots -> Entries]
  BY DEF Clear, Empty, Entries
<1>2. BootTypeOK'
  BY <1>a, <1>b DEF IInv, BootTypeOK, Clear, measureVars
<1>3. LoaderInv'
  BY <1>1 DEF IInv, LoaderInv, Clear
<1>4. Unmeasured'
  BY DEF IInv, Unmeasured, Clear, measureVars
<1>5. (CompleteHandoff /\ Validated /\ MeasureInv /\ LaidOut)'
  BY DEF Clear, CompleteHandoff, Validated, MeasureInv, LaidOut, Accepted
<1>. QED  BY <1>2, <1>3, <1>4, <1>5 DEF IInv

\* A stored descriptor keeps table and report in step.
LEMMA StoreStep ==
    ASSUME NEW a \in Answers, NEW more \in BOOLEAN, IInv, Store(a, more)
    PROVE  IInv'
<1>. USE DEF Store
<1>1. MaxEntries \in Nat /\ reported \in Seq(Answers)
  BY BootAssumption DEF IInv, BootTypeOK
<1>2. Normalise(a) \in Entries
  BY NormaliseType
<1>3. header.count \in Nat /\ header.count + 1 \in Slots
  <2>1. header \in Headers
    BY HeaderTyped DEF IInv
  <2>2. header.count \in Nat
    BY <2>1, HeaderCount
  <2>. QED  BY <2>2, <1>1 DEF Slots
<1>4. /\ reported' \in Seq(Answers)
      /\ Len(reported') = Len(reported) + 1
      /\ \A k \in 1 .. Len(reported) : reported'[k] = reported[k]
      /\ reported'[Len(reported) + 1] = a
      /\ Len(reported) \in Nat
  BY <1>1, AppendFacts
<1>5. /\ header' \in Headers
      /\ header'.count = header.count + 1 /\ header'.format = header.format
  <2>1. header.count + 1 \in 0 .. MaxEntries + 1
    BY <1>1, <1>3 DEF Slots
  <2>2. header \in Headers
    BY HeaderTyped DEF IInv
  <2>3. \A n \in 0 .. MaxEntries + 1 :
           /\ [header EXCEPT !.count = n] \in Headers
           /\ [header EXCEPT !.count = n].count = n
           /\ [header EXCEPT !.count = n].format = header.format
    BY <2>2, HeaderCount, Zenon
  <2>4. header' = [header EXCEPT !.count = header.count + 1]
    OBVIOUS
  <2>. QED  BY <2>1, <2>3, <2>4
<1>6. table' \in [Slots -> Entries]
  BY <1>2 DEF IInv, BootTypeOK
<1>7. BootTypeOK'
  BY <1>4, <1>5, <1>6 DEF IInv, BootTypeOK, measureVars
<1>8. header' = [header EXCEPT !.count = header.count + 1] /\ header.count = Len(reported)
      /\ header.format = "E820"
  BY DEF IInv, LoaderInv
<1>9. header'.count = Len(reported') /\ header'.format = "E820" /\ header'.count <= MaxEntries
      /\ header'.count > 0
  BY <1>1, <1>3, <1>4, <1>5, <1>8 DEF Slots
<1>10. ASSUME NEW k \in 1 .. Len(reported') PROVE table'[k] = Normalise(reported'[k])
  <2>1. k \in Slots
    BY <1>1, <1>9, <1>4 DEF Slots
  <2>2. CASE k = Len(reported) + 1
    BY <2>1, <2>2, <1>4, <1>8 DEF IInv, BootTypeOK
  <2>3. CASE k # Len(reported) + 1
    <3>1. k \in 1 .. Len(reported)
      BY <2>3, <1>4
    <3>2. table[k] = Normalise(reported[k])
      BY <3>1 DEF IInv, LoaderInv
    <3>. QED  BY <3>1, <3>2, <2>1, <2>3, <1>4, <1>8 DEF IInv, BootTypeOK
  <2>. QED  BY <2>2, <2>3
<1>11. LoaderInv'
  BY <1>9, <1>10 DEF LoaderInv
<1>12. Unmeasured'
  BY DEF IInv, Unmeasured, measureVars
<1>13. (CompleteHandoff /\ Validated /\ MeasureInv /\ LaidOut)'
  BY DEF CompleteHandoff, Validated, MeasureInv, LaidOut, Accepted
<1>. QED  BY <1>7, <1>11, <1>12, <1>13 DEF IInv

\* The failures of the Loader, and the end of the list by CF.
LEMMA EndOfListStep ==
    ASSUME IInv, Carry \/ Malformed \/ \E a \in Answers : TableFull(a)
    PROVE  IInv'
<1>1. /\ pc = "query" /\ pc' \in {"hang", "publish"}
      /\ UNCHANGED <<fault, header, table, map, next, physicalEnd, totalRam, zones, origin,
                     layout, resets>>
      /\ pc' = "publish" => UNCHANGED reported /\ header.count # 0
      /\ reported' = reported \/ \E a \in Answers : reported' = Append(reported, a)
  BY DEF Carry, Malformed, TableFull, memory, measureVars
<1>2. reported' \in Seq(Answers)
  BY <1>1, AppendFacts DEF IInv, BootTypeOK
<1>3. BootTypeOK'
  BY <1>1, <1>2 DEF IInv, BootTypeOK
<1>a. header.count \in Nat
  BY HeaderTyped, HeaderCount DEF IInv
<1>4. LoaderInv'
  BY <1>1, <1>a DEF IInv, LoaderInv
<1>5. Unmeasured'
  BY <1>1 DEF IInv, Unmeasured
<1>6. (CompleteHandoff /\ Validated /\ MeasureInv /\ LaidOut)'
  BY <1>1 DEF CompleteHandoff, Validated, MeasureInv, LaidOut, Accepted
<1>. QED  BY <1>3, <1>4, <1>5, <1>6 DEF IInv

\* The complete flag is written last.
LEMMA PublishStep == IInv /\ Publish => IInv'
<1>. SUFFICES ASSUME IInv, Publish PROVE IInv'
  OBVIOUS
<1>. USE DEF Publish
<1>1. header' \in Headers
      /\ header'.flags = 1 /\ header'.count = header.count /\ header'.format = header.format
  <2>1. header \in Headers
    BY HeaderTyped DEF IInv
  <2>. QED  BY <2>1, HeaderComplete, Zenon
<1>2. BootTypeOK'
  BY <1>1 DEF IInv, BootTypeOK, measureVars
<1>3. LoaderInv'
  BY <1>1 DEF IInv, LoaderInv
<1>4. Unmeasured'
  BY DEF IInv, Unmeasured, measureVars
<1>5. (CompleteHandoff /\ Validated /\ MeasureInv /\ LaidOut)'
  BY DEF CompleteHandoff, Validated, MeasureInv, LaidOut, Accepted
<1>. QED  BY <1>2, <1>3, <1>4, <1>5 DEF IInv

\* BootTypeOK, for the variables of the kernel.
LEMMA TypeFacts ==
    ASSUME BootTypeOK
    PROVE  /\ table \in [Slots -> Entries]
           /\ map \in Seq(Entries) /\ Len(map) \in Nat
           /\ next \in Nat /\ next <= Len(map)
           /\ physicalEnd \in Nat /\ totalRam \in Nat
           /\ zones \in Seq([start : Nat, end : Nat])
           /\ origin \in Seq(Nat) /\ reported \in Seq(Answers)
<1>1. /\ table \in [Slots -> Entries] /\ map \in Seq(Entries) /\ next \in 0 .. Len(map)
      /\ physicalEnd \in Nat /\ totalRam \in Nat
      /\ zones \in Seq([start : Nat, end : Nat])
      /\ origin \in Seq(Nat) /\ reported \in Seq(Answers)
  BY Zenon DEF BootTypeOK
<1>2. Len(map) \in Nat
  BY <1>1
<1>3. next \in Nat /\ next <= Len(map)
  BY <1>1, <1>2
<1>. QED  BY <1>1, <1>2, <1>3

\* What the kernel copies is the table of this boot, or it panics.
LEMMA ReadStep == IInv /\ ReadMemoryMap => IInv'
<1>. SUFFICES ASSUME IInv, ReadMemoryMap PROVE IInv'
  OBVIOUS
<1>. DEFINE n == header.count
<1>1. /\ n = Len(reported) /\ n \in Nat /\ n > 0 /\ n <= MaxEntries
      /\ \A k \in 1 .. n : table[k] = Normalise(reported[k])
  <2>1. header \in Headers
    BY HeaderTyped DEF IInv
  <2>2. n \in Nat
    BY <2>1, HeaderCount
  <2>. QED  BY <2>2 DEF IInv, LoaderInv, ReadMemoryMap
<1>2. n \in Slots /\ MaxEntries \in Nat
  BY <1>1, BootAssumption DEF Slots
<1>3. map' = [k \in 1 .. n |-> table[k]]
  BY <1>2 DEF ReadMemoryMap
<1>4. \A k \in 1 .. n : table[k] \in Entries
  <2>1. table \in [Slots -> Entries]
    BY TypeFacts DEF IInv
  <2>2. \A k \in 1 .. n : k \in Slots
    BY <1>1, <1>2 DEF Slots
  <2>. QED  BY <2>1, <2>2
<1>5. map' \in Seq(Entries) /\ Len(map') = n /\ \A k \in 1 .. n : map'[k] = table[k]
  BY <1>1, <1>3, <1>4
<1>6. /\ UNCHANGED <<header, table, next, physicalEnd, totalRam, zones, origin, layout,
                     reported, resets>>
      /\ pc' \in {"measure", "panic"} /\ fault' = ReadFault(map')
      /\ pc' = "measure" => ReadFault(map') = "none"
  BY DEF ReadMemoryMap, Outcome, memory, measureVars
<1>7. next = 0 /\ zones = <<>> /\ origin = <<>>
  BY DEF IInv, Unmeasured, ReadMemoryMap
<1>8. fault' \in {"handoff", "count", "entries", "bootstrap", "none"}
  BY <1>6 DEF ReadFault
<1>9. next' \in 0 .. Len(map')
  BY <1>1, <1>5, <1>6, <1>7
<1>10. BootTypeOK'
  BY <1>5, <1>6, <1>8, <1>9 DEF IInv, BootTypeOK
<1>11. pc' = "measure" => ValidEntries(map')
  BY <1>6 DEF ReadFault
<1>12. (LoaderInv /\ Unmeasured /\ LaidOut)'
  BY <1>6 DEF LoaderInv, Unmeasured, LaidOut
<1>13. CompleteHandoff'
  BY <1>1, <1>5, <1>6 DEF CompleteHandoff
<1>14. Validated'
  BY <1>6, <1>11 DEF Validated, Accepted
<1>15. MeasureInv'
  BY <1>6, <1>7 DEF MeasureInv
<1>. QED  BY <1>10, <1>12, <1>13, <1>14, <1>15 DEF IInv

\* An empty entry is passed over.
LEMMA SkipEntryStep == IInv /\ SkipEntry => IInv'
<1>. SUFFICES ASSUME IInv, SkipEntry PROVE IInv'
  OBVIOUS
<1>1. /\ UNCHANGED <<pc, fault, header, table, map, physicalEnd, totalRam, zones, origin,
                     layout, reported, resets>>
      /\ pc = "measure" /\ next < Len(map) /\ next' = next + 1
      /\ map[next + 1].length = 0
  BY DEF SkipEntry, memory
<1>2. next \in Nat /\ Len(map) \in Nat /\ next' \in 0 .. Len(map)
  <2>1. next \in Nat /\ Len(map) \in Nat
    BY TypeFacts DEF IInv
  <2>. QED  BY <1>1, <2>1
<1>3. BootTypeOK'
  BY <1>1, <1>2 DEF IInv, BootTypeOK
<1>4. (LoaderInv /\ Unmeasured /\ LaidOut)'
  BY <1>1 DEF LoaderInv, Unmeasured, LaidOut
<1>5. CompleteHandoff' /\ Validated'
  BY <1>1 DEF IInv, CompleteHandoff, Validated, Accepted
<1>6. MeasureInv'
  <2>1. MeasureInv
    BY DEF IInv
  <2>2. \A k \in 1 .. next' : k \in 1 .. next \/ k = next + 1
    BY <1>1, <1>2
  <2>3. \A k \in 1 .. next' : map[k].length # 0 => End(map[k]) <= physicalEnd
    BY <2>1, <2>2, <1>1 DEF MeasureInv, Accepted
  <2>4. \A k \in 1 .. next : k \in 1 .. next'
    BY <1>1, <1>2
  <2>. QED  BY <2>1, <2>3, <2>4, <1>1 DEF MeasureInv, Accepted
<1>. QED  BY <1>3, <1>4, <1>5, <1>6 DEF IInv

\* The numbers of an entry.
LEMMA EntryFacts ==
    ASSUME NEW e \in Entries
    PROVE  /\ e.address \in Nat /\ e.length \in Nat /\ End(e) \in Nat
           /\ FirstPage(e) \in Nat /\ EndPage(e) \in Nat
<1>1. e.address \in Nat /\ e.length \in Nat /\ End(e) \in Nat
  BY DEF Entries, End
<1>2. PageSize \in Nat \ {0}
  BY BootAssumption
<1>3. FirstPage(e) \in Nat
  BY <1>1, <1>2, CeilBounds DEF FirstPage
<1>4. EndPage(e) \in Nat
  BY <1>1, <1>2, DivBounds DEF EndPage
<1>. QED  BY <1>1, <1>3, <1>4

\* Measuring an entry raises physical_end and may add a zone.
LEMMA MeasureEntryStep == IInv /\ MeasureEntry => IInv'
<1>. SUFFICES ASSUME IInv, MeasureEntry PROVE IInv'
  OBVIOUS
<1>. DEFINE e == map[next + 1]
            r == [start |-> FirstPage(e), end |-> EndPage(e)]
<1>1. /\ UNCHANGED <<header, table, map, layout, reported, resets>>
      /\ pc = "measure" /\ next < Len(map) /\ next' = next + 1
      /\ pc' \in {"measure", "panic"} /\ fault' = MeasureFault(e)
      /\ physicalEnd' = IF End(e) > physicalEnd THEN End(e) ELSE physicalEnd
      /\ totalRam' = IF e.kind = Usable THEN totalRam + e.length ELSE totalRam
      /\ zones' = IF HasPages(e) THEN Append(zones, r) ELSE zones
      /\ origin' = IF HasPages(e) THEN Append(origin, next + 1) ELSE origin
  BY DEF MeasureEntry, Outcome, memory
<1>2. /\ next \in Nat /\ Len(map) \in Nat /\ next' \in 0 .. Len(map) /\ next' \in Nat
      /\ map \in Seq(Entries) /\ physicalEnd \in Nat /\ totalRam \in Nat
      /\ zones \in Seq([start : Nat, end : Nat]) /\ origin \in Seq(Nat)
  <2>1. next \in Nat /\ Len(map) \in Nat
    BY TypeFacts DEF IInv
  <2>2. next' \in 0 .. Len(map) /\ next' \in Nat
    BY <1>1, <2>1
  <2>. QED  BY <2>1, <2>2, TypeFacts DEF IInv
<1>3. next + 1 \in 1 .. Len(map) /\ e \in Entries
  BY <1>1, <1>2
<1>4. /\ e.address \in Nat /\ e.length \in Nat /\ End(e) \in Nat
      /\ FirstPage(e) \in Nat /\ EndPage(e) \in Nat
  BY <1>3, EntryFacts
<1>5. r \in [start : Nat, end : Nat] /\ r.start = FirstPage(e) /\ r.end = EndPage(e)
  BY <1>4
<1>. HIDE DEF e, r
<1>6. /\ physicalEnd' \in Nat /\ totalRam' \in Nat
      /\ physicalEnd' >= physicalEnd /\ physicalEnd' >= End(e)
  <2>1. physicalEnd' = IF End(e) > physicalEnd THEN End(e) ELSE physicalEnd
    BY <1>1
  <2>2. totalRam' = totalRam + e.length \/ totalRam' = totalRam
    BY <1>1
  <2>3. physicalEnd \in Nat /\ totalRam \in Nat /\ e.length \in Nat /\ End(e) \in Nat
    BY <1>2, <1>4
  <2>. QED  BY <2>1, <2>2, <2>3
<1>7. fault' \in {"none", "end", "ram sum", "alignment"}
  BY <1>1 DEF MeasureFault
<1>8. zones' \in Seq([start : Nat, end : Nat]) /\ origin' \in Seq(Nat)
  BY <1>1, <1>2, <1>5, AppendFacts
<1>9. BootTypeOK'
  BY <1>1, <1>2, <1>6, <1>7, <1>8 DEF IInv, BootTypeOK
<1>10. (LoaderInv /\ Unmeasured /\ LaidOut)'
  BY <1>1 DEF LoaderInv, Unmeasured, LaidOut
<1>11. CompleteHandoff' /\ Validated'
  BY <1>1 DEF IInv, CompleteHandoff, Validated, Accepted
<1>12. MeasureInv'
  <2>1. /\ \A k \in 1 .. next : map[k].length # 0 => End(map[k]) <= physicalEnd
        /\ Len(zones) = Len(origin)
        /\ \A z \in 1 .. Len(zones) :
              /\ origin[z] \in 1 .. next
              /\ HasPages(map[origin[z]])
              /\ zones[z].start = FirstPage(map[origin[z]])
              /\ zones[z].end = EndPage(map[origin[z]])
        /\ \A y, z \in 1 .. Len(zones) : y < z => origin[y] < origin[z]
    BY <1>1 DEF IInv, MeasureInv, Accepted
  <2>2. ASSUME NEW k \in 1 .. next', map[k].length # 0
        PROVE  End(map[k]) <= physicalEnd'
    <3>1. map[k] \in Entries
      BY <1>2
    <3>2. End(map[k]) \in Nat
      BY <3>1, EntryFacts
    <3>3. k \in 1 .. next \/ k = next + 1
      BY <1>1, <1>2
    <3>. QED  BY <3>2, <3>3, <2>1, <2>2, <1>2, <1>6 DEF e
  <2>3. CASE ~HasPages(e)
    <3>1. zones' = zones /\ origin' = origin
      BY <2>3, <1>1
    <3>2. \A k \in 1 .. next : k \in 1 .. next'
      BY <1>1, <1>2
    <3>. QED  BY <3>1, <3>2, <2>1, <2>2, <1>1 DEF MeasureInv
  <2>4. CASE HasPages(e)
    <3>. DEFINE n == Len(zones)
    <3>1. /\ n \in Nat /\ Len(zones') = n + 1
          /\ \A z \in 1 .. n : zones'[z] = zones[z]
          /\ zones'[n + 1] = r
      BY <2>4, <1>1, <1>2, <1>5, AppendFacts
    <3>2. /\ Len(origin') = n + 1
          /\ \A z \in 1 .. n : origin'[z] = origin[z]
          /\ origin'[n + 1] = next + 1
      BY <2>1, <2>4, <1>1, <1>2, AppendFacts
    <3>. HIDE DEF n
    <3>3. \A z \in 1 .. n + 1 : z \in 1 .. n \/ z = n + 1
      BY <3>1
    <3>4. \A z \in 1 .. n : origin[z] \in 1 .. next
      BY <2>1 DEF n
    <3>5. ASSUME NEW z \in 1 .. n + 1
          PROVE  /\ origin'[z] \in 1 .. next'
                 /\ HasPages(map[origin'[z]])
                 /\ zones'[z].start = FirstPage(map[origin'[z]])
                 /\ zones'[z].end = EndPage(map[origin'[z]])
      <4>1. CASE z \in 1 .. n
        <5>1. origin'[z] \in 1 .. next'
          BY <4>1, <3>2, <3>4, <1>1, <1>2
        <5>. QED  BY <5>1, <4>1, <3>1, <3>2, <2>1 DEF n
      <4>2. CASE z = n + 1
        BY <4>2, <3>1, <3>2, <2>4, <1>1, <1>2, <1>5 DEF e
      <4>. QED  BY <4>1, <4>2, <3>3
    <3>6. ASSUME NEW y \in 1 .. n + 1, NEW z \in 1 .. n + 1, y < z
          PROVE  origin'[y] < origin'[z]
      <4>1. y \in 1 .. n
        BY <3>1, <3>6
      <4>2. CASE z \in 1 .. n
        BY <4>1, <4>2, <3>2, <3>6, <2>1 DEF n
      <4>3. CASE z = n + 1
        <5>1. origin'[y] \in 1 .. next /\ origin'[z] = next + 1
          BY <4>1, <4>3, <3>2, <3>4
        <5>2. next \in Nat
          BY <1>2
        <5>. QED  BY <5>1, <5>2
      <4>. QED  BY <4>2, <4>3, <3>3
    <3>. QED  BY <3>1, <3>2, <3>5, <3>6, <2>2, <1>1 DEF MeasureInv
  <2>. QED  BY <2>3, <2>4
<1>. QED  BY <1>9, <1>10, <1>11, <1>12 DEF IInv

\* The metadata lies behind the kernel, however many pages it describes.
LEMMA MetadataFacts ==
    ASSUME NEW bits \in Nat
    PROVE  MetadataEnd(bits) \in Nat /\ KernelEnd <= MetadataEnd(bits)
<1>. DEFINE bitmap == AlignUp(KernelEnd, SmallPage)
            pages == AlignUp(bitmap + 8 * DivCeil(bits, 64), SmallPage)
            zoneTable == AlignUp(pages + bits * PageBytes, SmallPage)
<1>1. /\ KernelEnd \in Nat /\ SmallPage \in Nat \ {0}
      /\ PageBytes \in Nat /\ ZoneBytes \in Nat
  BY BootAssumption
<1>2. bitmap \in Nat /\ KernelEnd <= bitmap
  BY <1>1, CeilBounds
<1>3. DivCeil(bits, 64) \in Nat
  BY CeilBounds
<1>. HIDE DEF bitmap
<1>4. bitmap + 8 * DivCeil(bits, 64) \in Nat /\ bitmap <= bitmap + 8 * DivCeil(bits, 64)
  BY <1>2, <1>3
<1>5. pages \in Nat /\ bitmap + 8 * DivCeil(bits, 64) <= pages
  BY <1>1, <1>4, CeilBounds
<1>. HIDE DEF pages
<1>6. bits * PageBytes \in Nat
  BY <1>1
<1>7. pages + bits * PageBytes \in Nat /\ pages <= pages + bits * PageBytes
  BY <1>5, <1>6
<1>8. zoneTable \in Nat /\ pages + bits * PageBytes <= zoneTable
  BY <1>1, <1>7, CeilBounds
<1>. HIDE DEF zoneTable
<1>9. zoneTable + ZoneBytes \in Nat /\ zoneTable <= zoneTable + ZoneBytes
  BY <1>1, <1>8
<1>10. /\ AlignUp(zoneTable + ZoneBytes, 256) \in Nat
       /\ zoneTable + ZoneBytes <= AlignUp(zoneTable + ZoneBytes, 256)
  BY <1>9, CeilBounds
<1>11. MetadataEnd(bits) = AlignUp(zoneTable + ZoneBytes, 256)
  BY DEF MetadataEnd, zoneTable, pages, bitmap
<1>12. KernelEnd <= zoneTable + ZoneBytes
  BY <1>1, <1>2, <1>4, <1>5, <1>7, <1>8, <1>9
<1>. QED  BY <1>1, <1>9, <1>10, <1>11, <1>12

\* BitsSize covers physical_end.
LEMMA BitsFacts ==
    ASSUME BootTypeOK
    PROVE  /\ BitsSize \in Nat /\ physicalEnd <= PageSize * BitsSize
           /\ MetadataEnd(BitsSize) \in Nat /\ KernelEnd <= MetadataEnd(BitsSize)
<1>1. physicalEnd \in Nat /\ PageSize \in Nat \ {0}
  BY TypeFacts, BootAssumption
<1>2. BitsSize \in Nat /\ physicalEnd <= PageSize * BitsSize
  BY <1>1, CeilBounds DEF BitsSize
<1>. QED  BY <1>2, MetadataFacts

\* A layout is derived only after every check.
LEMMA LayOutStep == IInv /\ LayOut => IInv'
<1>. SUFFICES ASSUME IInv, LayOut PROVE IInv'
  OBVIOUS
<1>. DEFINE end == MetadataEnd(BitsSize)
<1>1. /\ UNCHANGED <<header, table, map, next, physicalEnd, totalRam, zones, origin,
                     reported, resets>>
      /\ pc = "measure" /\ next = Len(map)
      /\ fault' = LayOutFault(end)
      /\ pc' \in {"ready", "panic"}
      /\ pc' = "ready" => LayOutFault(end) = "none"
      /\ layout' = [bits |-> BitsSize, reserved |-> ReservedPages(BitsSize), zones |-> zones]
  BY DEF LayOut, Outcome, memory, measureVars
<1>2. fault' \in {"no pages", "alignment", "metadata", "kernel", "none"}
  BY <1>1 DEF LayOutFault
<1>3. BootTypeOK'
  BY <1>1, <1>2 DEF IInv, BootTypeOK
<1>4. LoaderInv' /\ Unmeasured'
  BY <1>1 DEF LoaderInv, Unmeasured
<1>5. CompleteHandoff' /\ Validated' /\ MeasureInv'
  BY <1>1 DEF IInv, CompleteHandoff, Validated, MeasureInv, Accepted
<1>6. BitsSize' = BitsSize
  BY <1>1 DEF BitsSize
<1>7. end \in Nat /\ DirectRamEnd \in Nat
  BY BitsFacts, BootAssumption DEF IInv
<1>8. LayOutFault(end) = "none" =>
          end <= DirectRamEnd /\ ContainsUsable(map, TextStart, end)
  BY <1>7 DEF LayOutFault
<1>9. LaidOut'
  BY <1>1, <1>6, <1>8 DEF LaidOut
<1>. QED  BY <1>3, <1>4, <1>5, <1>9 DEF IInv

\* A step that changes nothing keeps the invariant.
LEMMA StutterStep == IInv /\ UNCHANGED vars => IInv'
<1>. SUFFICES ASSUME IInv, UNCHANGED vars PROVE IInv'
  OBVIOUS
<1>1. UNCHANGED <<pc, fault, header, table, map, next, physicalEnd, totalRam, zones, origin,
                  layout, reported, resets>>
  BY DEF vars, memory, measureVars
<1>2. BootTypeOK'
  BY <1>1 DEF IInv, BootTypeOK
<1>3. LoaderInv' /\ Unmeasured' /\ CompleteHandoff' /\ Validated'
  BY <1>1 DEF IInv, LoaderInv, Unmeasured, CompleteHandoff, Validated, Accepted
<1>4. MeasureInv' /\ LaidOut'
  BY <1>1 DEF IInv, MeasureInv, LaidOut, Accepted, BitsSize
<1>. QED  BY <1>2, <1>3, <1>4 DEF IInv

\* Every step of the boot keeps the invariant.
LEMMA NextIInv == IInv /\ [Next]_vars => IInv'
<1>. SUFFICES ASSUME IInv, [Next]_vars PROVE IInv'
  OBVIOUS
<1>1. CASE Clear
  BY <1>1, ClearStep
<1>2. CASE \E a \in Answers : \E more \in BOOLEAN : Store(a, more)
  BY <1>2, StoreStep
<1>3. CASE Carry \/ Malformed \/ \E a \in Answers : TableFull(a)
  BY <1>3, EndOfListStep
<1>4. CASE Publish
  BY <1>4, PublishStep
<1>5. CASE ReadMemoryMap
  BY <1>5, ReadStep
<1>6. CASE SkipEntry
  BY <1>6, SkipEntryStep
<1>7. CASE MeasureEntry
  BY <1>7, MeasureEntryStep
<1>8. CASE LayOut
  BY <1>8, LayOutStep
<1>9. CASE Reset
  BY <1>9, ResetStep
<1>10. CASE Stopped \/ UNCHANGED vars
  BY <1>10, StutterStep DEF Stopped
<1>. QED
  BY <1>1, <1>2, <1>3, <1>4, <1>5, <1>6, <1>7, <1>8, <1>9, <1>10 DEF Next, Boot

\* The inductive invariant holds in every reachable state.
THEOREM Invariance == Spec => []IInv
<1>1. Init => IInv
  BY InitIInv
<1>2. IInv /\ [Next]_vars => IInv'
  BY NextIInv
<1>. QED  BY <1>1, <1>2, PTL DEF Spec

-----------------------------------------------------------------------------
(***************************************************************************)
(* What the invariant says about an accepted map.                          *)
(***************************************************************************)
\* Multiples of a page size compare as their factors do.
LEMMA MulLe ==
    ASSUME NEW a \in Nat, NEW b \in Nat, NEW k \in Nat \ {0}, k * a <= k * b
    PROVE  a <= b
<1>1. CASE b + 1 <= a
  <2>1. k * (b + 1) <= k * a
    BY <1>1, MulMono
  <2>2. k * (b + 1) = k * b + k
    OBVIOUS
  <2>3. k * a \in Nat /\ k * b \in Nat
    BY MulMono
  <2>. QED  BY <2>1, <2>2, <2>3
<1>. QED  BY <1>1

\* Rounding inward: the pages of a range lie inside it.
LEMMA InwardRounding ==
    ASSUME NEW e \in Entries, NEW p \in FirstPage(e) .. EndPage(e) - 1
    PROVE  /\ e.address <= p * PageSize
           /\ p * PageSize + PageSize <= End(e)
           /\ p \in Nat
<1>1. /\ e.address \in Nat /\ End(e) \in Nat
      /\ FirstPage(e) \in Nat /\ EndPage(e) \in Nat
      /\ PageSize \in Nat \ {0}
  BY EntryFacts, BootAssumption
<1>2. e.address <= PageSize * FirstPage(e)
  BY <1>1, CeilBounds DEF FirstPage
<1>3. PageSize * EndPage(e) <= End(e)
  BY <1>1, DivBounds DEF EndPage
<1>4. p \in Nat /\ FirstPage(e) <= p /\ p + 1 <= EndPage(e)
  BY <1>1
<1>5. PageSize * FirstPage(e) <= PageSize * p
  BY <1>1, <1>4, MulMono
<1>6. PageSize * (p + 1) <= PageSize * EndPage(e)
  BY <1>1, <1>4, MulMono
<1>7. PageSize * p = p * PageSize /\ PageSize * (p + 1) = p * PageSize + PageSize
      /\ p * PageSize \in Nat
  BY <1>1, <1>4
<1>8. PageSize * FirstPage(e) \in Nat /\ PageSize * EndPage(e) \in Nat
  BY <1>1
<1>. QED  BY <1>1, <1>2, <1>3, <1>4, <1>5, <1>6, <1>7, <1>8

\* Ranges that do not overlap have no page in common.
LEMMA DisjointPages ==
    ASSUME NEW e \in Entries, NEW f \in Entries, End(e) <= f.address
    PROVE  EndPage(e) <= FirstPage(f)
<1>1. /\ f.address \in Nat /\ End(e) \in Nat
      /\ FirstPage(f) \in Nat /\ EndPage(e) \in Nat
      /\ PageSize \in Nat \ {0}
  BY EntryFacts, BootAssumption
<1>2. f.address <= PageSize * FirstPage(f)
  BY <1>1, CeilBounds DEF FirstPage
<1>3. PageSize * EndPage(e) <= End(e)
  BY <1>1, DivBounds DEF EndPage
<1>4. PageSize * FirstPage(f) \in Nat /\ PageSize * EndPage(e) \in Nat
  BY <1>1
<1>5. PageSize * EndPage(e) <= PageSize * FirstPage(f)
  BY <1>1, <1>2, <1>3, <1>4
<1>. QED  BY <1>1, <1>5, MulLe

\* Two entries of a validated map that are not empty do not overlap.
LEMMA NoOverlap ==
    ASSUME NEW m \in Seq(Entries), ValidEntries(m),
           NEW j \in 1 .. Len(m), NEW k \in 1 .. Len(m), j # k,
           m[j].length # 0, m[k].length # 0
    PROVE  End(m[j]) <= m[k].address \/ End(m[k]) <= m[j].address
<1>1. /\ m[j].address \in Nat /\ End(m[j]) \in Nat
      /\ m[k].address \in Nat /\ End(m[k]) \in Nat
  <2>1. m[j] \in Entries /\ m[k] \in Entries
    OBVIOUS
  <2>. QED  BY <2>1, EntryFacts
<1>2. ~Overlap(m[j], m[k]) \/ ~Overlap(m[k], m[j])
  <2>1. CASE j < k
    <3>1. j \in 1 .. k - 1
      BY <2>1
    <3>. QED  BY <3>1 DEF ValidEntries
  <2>2. CASE k < j
    <3>1. k \in 1 .. j - 1
      BY <2>2
    <3>. QED  BY <3>1 DEF ValidEntries
  <2>. QED  BY <2>1, <2>2
<1>. QED  BY <1>1, <1>2 DEF Overlap

\* The facts about a zone of the layout and the entry it comes from.
LEMMA ZoneFacts ==
    ASSUME IInv, pc = "ready", NEW z \in 1 .. Len(layout.zones)
    PROVE  /\ layout.zones = zones /\ layout.bits = BitsSize
           /\ origin[z] \in 1 .. Len(map)
           /\ map[origin[z]] \in Entries
           /\ HasPages(map[origin[z]])
           /\ layout.zones[z].start = FirstPage(map[origin[z]])
           /\ layout.zones[z].end = EndPage(map[origin[z]])
           /\ End(map[origin[z]]) <= physicalEnd
<1>1. layout.zones = zones /\ layout.bits = BitsSize /\ next = Len(map)
  BY DEF IInv, LaidOut
<1>2. z \in 1 .. Len(zones)
  BY <1>1
<1>3. /\ origin[z] \in 1 .. next
      /\ HasPages(map[origin[z]])
      /\ zones[z].start = FirstPage(map[origin[z]])
      /\ zones[z].end = EndPage(map[origin[z]])
  BY <1>2 DEF IInv, MeasureInv, Accepted
<1>4. map \in Seq(Entries)
  BY TypeFacts DEF IInv
<1>5. origin[z] \in 1 .. Len(map) /\ map[origin[z]] \in Entries
  BY <1>1, <1>3, <1>4
<1>6. End(map[origin[z]]) <= physicalEnd
  BY <1>3 DEF IInv, MeasureInv, Accepted, HasPages
<1>. QED  BY <1>1, <1>3, <1>5, <1>6

\* An accepted layout is well formed.
LEMMA LayoutWellFormed == IInv /\ pc = "ready" => WellFormed(layout)
<1>. SUFFICES ASSUME IInv, pc = "ready" PROVE WellFormed(layout)
  OBVIOUS
<1>. DEFINE end == MetadataEnd(BitsSize)
<1>1. /\ layout.bits = BitsSize /\ layout.reserved = ReservedPages(BitsSize)
      /\ layout.zones = zones /\ next = Len(map)
      /\ ContainsUsable(map, TextStart, end)
  BY DEF IInv, LaidOut
<1>2. /\ BitsSize \in Nat /\ physicalEnd <= PageSize * BitsSize /\ end \in Nat
      /\ PageSize \in Nat \ {0} /\ physicalEnd \in Nat
      /\ PageSize * BitsSize \in Nat
  <2>1. /\ BitsSize \in Nat /\ physicalEnd <= PageSize * BitsSize /\ end \in Nat
        /\ PageSize \in Nat \ {0} /\ physicalEnd \in Nat
    BY BitsFacts, TypeFacts, BootAssumption DEF IInv
  <2>2. PageSize * BitsSize \in Nat
    BY <2>1
  <2>. QED  BY <2>1, <2>2
<1>3. end <= physicalEnd
  <2>1. PICK k \in 1 .. Len(map) : map[k].length # 0 /\ End(map[k]) >= end
    BY <1>1 DEF ContainsUsable
  <2>2. End(map[k]) <= physicalEnd
    BY <2>1, <1>1 DEF IInv, MeasureInv, Accepted
  <2>3. map \in Seq(Entries)
    BY TypeFacts DEF IInv
  <2>4. End(map[k]) \in Nat
    BY <2>3, EntryFacts
  <2>. QED  BY <2>1, <2>2, <2>4, <1>2
<1>. HIDE DEF end
<1>4. layout.reserved \in 0 .. layout.bits
  <2>. DEFINE r == DivCeil(end, PageSize)
  <2>1. r \in Nat /\ PageSize * r < end + PageSize
    BY <1>2, CeilBounds
  <2>2. layout.reserved = r
    BY <1>1 DEF ReservedPages, end
  <2>. HIDE DEF r
  <2>3. PageSize * r \in Nat /\ PageSize * (BitsSize + 1) = PageSize * BitsSize + PageSize
    BY <2>1, <1>2
  <2>4. PageSize * r < PageSize * (BitsSize + 1)
    BY <2>1, <2>3, <1>2, <1>3
  <2>5. r < BitsSize + 1
    BY <2>1, <2>4, <1>2, MulCancel
  <2>. QED  BY <2>1, <2>2, <2>5, <1>1, <1>2
<1>5. ASSUME NEW z \in 1 .. Len(layout.zones)
      PROVE  /\ layout.zones[z].start < layout.zones[z].end
             /\ layout.zones[z].end <= layout.bits
  <2>. DEFINE e == map[origin[z]]
  <2>1. /\ e \in Entries /\ HasPages(e)
        /\ layout.zones[z].start = FirstPage(e) /\ layout.zones[z].end = EndPage(e)
        /\ End(e) <= physicalEnd
    BY ZoneFacts
  <2>. HIDE DEF e
  <2>2. FirstPage(e) < EndPage(e)
    BY <2>1 DEF HasPages
  <2>3. End(e) \in Nat /\ EndPage(e) \in Nat
    BY <2>1, EntryFacts
  <2>4. PageSize * EndPage(e) <= End(e) /\ PageSize * EndPage(e) \in Nat
    BY <2>3, <1>2, DivBounds DEF EndPage
  <2>5. PageSize * EndPage(e) <= PageSize * BitsSize
    BY <2>1, <2>3, <2>4, <1>2
  <2>6. EndPage(e) <= BitsSize
    BY <2>3, <2>5, <1>2, MulLe
  <2>. QED  BY <2>1, <2>2, <2>6, <1>1
<1>6. layout.zones \in Seq([start : Nat, end : Nat])
  BY <1>1, TypeFacts DEF IInv
<1>. QED  BY <1>1, <1>2, <1>4, <1>5, <1>6 DEF WellFormed

\* Zones that come from different entries share no page.
LEMMA LayoutDisjoint == IInv /\ pc = "ready" => ZonesDisjoint(layout)
<1>. SUFFICES ASSUME IInv, pc = "ready",
                     NEW y \in 1 .. Len(layout.zones), NEW z \in 1 .. Len(layout.zones),
                     y # z
              PROVE  \/ layout.zones[y].end <= layout.zones[z].start
                     \/ layout.zones[z].end <= layout.zones[y].start
  BY DEF ZonesDisjoint
<1>. DEFINE e == map[origin[y]]
            f == map[origin[z]]
<1>1. /\ e \in Entries /\ HasPages(e) /\ origin[y] \in 1 .. Len(map)
      /\ layout.zones[y].start = FirstPage(e) /\ layout.zones[y].end = EndPage(e)
  BY ZoneFacts
<1>2. /\ f \in Entries /\ HasPages(f) /\ origin[z] \in 1 .. Len(map)
      /\ layout.zones[z].start = FirstPage(f) /\ layout.zones[z].end = EndPage(f)
  BY ZoneFacts
<1>3. origin[y] # origin[z]
  <2>1. y \in 1 .. Len(zones) /\ z \in 1 .. Len(zones)
    BY ZoneFacts
  <2>2. (y < z => origin[y] < origin[z]) /\ (z < y => origin[z] < origin[y])
    BY <2>1 DEF IInv, MeasureInv, Accepted
  <2>. QED  BY <2>1, <2>2, <1>1, <1>2
<1>4. map \in Seq(Entries) /\ ValidEntries(map)
  BY TypeFacts DEF IInv, Validated, Accepted
<1>5. End(e) <= f.address \/ End(f) <= e.address
  BY <1>1, <1>2, <1>3, <1>4, NoOverlap DEF HasPages
<1>. HIDE DEF e, f
<1>6. EndPage(e) <= FirstPage(f) \/ EndPage(f) <= FirstPage(e)
  BY <1>1, <1>2, <1>5, DisjointPages
<1>. QED  BY <1>1, <1>2, <1>6

\* A usable entry of the table was reported enabled and plain.
LEMMA UsableIsReported ==
    ASSUME NEW a \in Answers, NEW e, e = Normalise(a), e.kind = Usable, e.length # 0
    PROVE  /\ a.kind = Usable /\ Enabled(a) /\ Plain(a)
           /\ a.address = e.address /\ End(a) = End(e)
BY DEF Normalise, Usable, ReservedKind, End

\* An enabled range of the report keeps its extent in the table.
LEMMA EnabledIsKept ==
    ASSUME NEW a \in Answers, NEW e, e = Normalise(a), Enabled(a), a.length # 0
    PROVE  e.length # 0 /\ a.address = e.address /\ End(a) = End(e)
BY DEF Normalise, End

\* The kernel works on the complete map of this boot.
THEOREM HandoffIsComplete == Spec => []CompleteHandoff
<1>1. IInv => CompleteHandoff
  BY DEF IInv
<1>. QED  BY <1>1, Invariance, PTL

\* Accepted layouts are what PageAllocator assumes, with disjoint zones.
THEOREM LayoutIsSound == Spec => []LayoutEstablished
<1>1. IInv => LayoutEstablished
  BY LayoutWellFormed, LayoutDisjoint DEF LayoutEstablished
<1>. QED  BY <1>1, Invariance, PTL

\* No page of a zone holds a byte that the BIOS did not report as plain RAM.
THEOREM OnlyRamIsManaged == Spec => []ZonesAreRam
<1>1. IInv => ZonesAreRam
  <2>. SUFFICES ASSUME IInv, pc = "ready", NEW z \in 1 .. Len(layout.zones),
                       NEW p \in layout.zones[z].start .. layout.zones[z].end - 1
                PROVE  \E k \in 1 .. Len(reported) :
                         /\ reported[k].kind = Usable /\ Enabled(reported[k])
                         /\ Plain(reported[k])
                         /\ reported[k].address <= p * PageSize
                         /\ p * PageSize + PageSize <= End(reported[k])
                         /\ \A j \in 1 .. Len(reported) \ {k} :
                               (Enabled(reported[j]) /\ reported[j].length # 0) =>
                                 \/ End(reported[j]) <= p * PageSize
                                 \/ p * PageSize + PageSize <= reported[j].address
    BY DEF ZonesAreRam
  <2>. DEFINE k == origin[z]
              e == map[k]
  <2>1. /\ k \in 1 .. Len(map) /\ e \in Entries /\ HasPages(e)
        /\ layout.zones[z].start = FirstPage(e) /\ layout.zones[z].end = EndPage(e)
    BY ZoneFacts
  <2>2. /\ map \in Seq(Entries) /\ reported \in Seq(Answers)
        /\ ValidEntries(map) /\ Len(map) = Len(reported)
        /\ \A i \in 1 .. Len(map) : map[i] = Normalise(reported[i])
    BY TypeFacts DEF IInv, Validated, CompleteHandoff, Accepted
  <2>3. /\ e.address <= p * PageSize /\ p * PageSize + PageSize <= End(e) /\ p \in Nat
    BY <2>1, InwardRounding
  <2>4. k \in 1 .. Len(reported) /\ reported[k] \in Answers /\ e = Normalise(reported[k])
    BY <2>1, <2>2
  <2>5. e.kind = Usable /\ e.length # 0
    BY <2>1 DEF HasPages
  <2>6. /\ reported[k].kind = Usable /\ Enabled(reported[k]) /\ Plain(reported[k])
        /\ reported[k].address = e.address /\ End(reported[k]) = End(e)
    BY <2>4, <2>5, UsableIsReported
  <2>7. e.address \in Nat /\ End(e) \in Nat /\ PageSize \in Nat /\ p * PageSize \in Nat
    BY <2>1, <2>3, EntryFacts, BootAssumption, SMTT(30)
  <2>8. ASSUME NEW j \in 1 .. Len(reported) \ {k},
               Enabled(reported[j]), reported[j].length # 0
        PROVE  \/ End(reported[j]) <= p * PageSize
               \/ p * PageSize + PageSize <= reported[j].address
    <3>1. j \in 1 .. Len(map) /\ map[j] \in Entries /\ reported[j] \in Answers
          /\ map[j] = Normalise(reported[j])
      BY <2>2
    <3>2. /\ map[j].length # 0 /\ reported[j].address = map[j].address
          /\ End(reported[j]) = End(map[j])
      BY <3>1, <2>8, EnabledIsKept
    <3>3. End(map[j]) <= e.address \/ End(e) <= map[j].address
      BY <3>1, <3>2, <2>1, <2>2, <2>5, NoOverlap
    <3>4. map[j].address \in Nat /\ End(map[j]) \in Nat
      BY <3>1, EntryFacts
    <3>. HIDE DEF e, k
    <3>. QED  BY <3>2, <3>3, <3>4, <2>3, <2>7
  <2>. HIDE DEF e
  <2>9. reported[k].address <= p * PageSize /\ p * PageSize + PageSize <= End(reported[k])
    BY <2>3, <2>6
  <2>. QED  BY <2>4, <2>6, <2>8, <2>9
<1>. QED  BY <1>1, Invariance, PTL

\* Kernel, bootstrap structures and metadata are never handed out.
THEOREM OwnMemoryIsKept == Spec => []OwnMemoryReserved
<1>1. IInv => OwnMemoryReserved
  <2>. SUFFICES ASSUME IInv, pc = "ready" PROVE OwnMemoryReserved
    BY DEF OwnMemoryReserved
  <2>. DEFINE end == MetadataEnd(BitsSize)
              r == DivCeil(end, PageSize)
  <2>1. layout.bits = BitsSize /\ layout.reserved = r /\ end <= DirectRamEnd
    BY DEF IInv, LaidOut, ReservedPages
  <2>2. end \in Nat /\ KernelEnd <= end /\ PageSize \in Nat \ {0}
    BY BitsFacts, BootAssumption DEF IInv
  <2>. HIDE DEF end
  <2>3. r \in Nat /\ end <= PageSize * r
    BY <2>2, CeilBounds
  <2>. HIDE DEF r
  <2>4. PageSize * r = r * PageSize /\ r * PageSize \in Nat
    BY <2>2, <2>3
  <2>5. end <= layout.reserved * PageSize
    BY <2>1, <2>3, <2>4
  <2>6. \A b \in Bootstrap : b.end <= layout.reserved * PageSize
    <3>1. \A b \in Bootstrap : b.end \in Nat /\ b.end <= TextStart
      BY BootAssumption
    <3>2. TextStart \in Nat /\ KernelEnd \in Nat /\ TextStart < KernelEnd
      BY BootAssumption
    <3>. QED  BY <3>1, <3>2, <2>1, <2>2, <2>4, <2>5
  <2>7. MetadataEnd(layout.bits) = end
    BY <2>1 DEF end
  <2>. QED  BY <2>1, <2>2, <2>5, <2>6, <2>7 DEF OwnMemoryReserved
<1>. QED  BY <1>1, Invariance, PTL

\* Both together: what memory::init hands to the page manager is sound.
THEOREM HandoverIsSound == Spec => []HandoverLayout
<1>1. LayoutEstablished /\ OwnMemoryReserved => HandoverLayout
  BY DEF HandoverLayout
<1>. QED  BY <1>1, LayoutIsSound, OwnMemoryIsKept, PTL

-----------------------------------------------------------------------------
(***************************************************************************)
(* No check fails twice.  The header checks of read_memory_map follow from *)
(* LoaderInv; that the RAM sum of memory::init stays below Word needs one  *)
(* more invariant: the sum counts bytes, and no byte twice.                *)
(***************************************************************************)
\* The bytes of the usable entries among the first n of a map.
RamBytes(m, n) ==
    {b \in 0 .. Word - 2 :
        \E k \in 1 .. n :
            m[k].kind = Usable /\ m[k].address <= b /\ b < End(m[k])}

\* total_ram is the number of bytes of RAM met so far.
Summed ==
    /\ pc \in {"reset", "query", "publish", "kernel"} => totalRam = 0
    /\ Accepted => totalRam = Cardinality(RamBytes(map, next))

RamInv == Summed /\ NeverRefusedTwice

\* A map has no more RAM than the address space has bytes.
LEMMA RamBounded ==
    ASSUME NEW m, NEW n
    PROVE  /\ IsFiniteSet(RamBytes(m, n))
           /\ Cardinality(RamBytes(m, n)) \in Nat
           /\ Word \in Nat \ {0} => Cardinality(RamBytes(m, n)) < Word
<1>. DEFINE space == 0 .. Word - 2
<1>1. Word \in Nat
  BY BootAssumption
<1>2. IsFiniteSet(space) /\ Cardinality(space) = IF 0 > Word - 2 THEN 0 ELSE Word - 1
  <2>1. 0 \in Int /\ Word - 2 \in Int
    BY <1>1
  <2>2. IsFiniteSet(space)
        /\ Cardinality(space) = IF 0 > Word - 2 THEN 0 ELSE (Word - 2) - 0 + 1
    BY <2>1, FS_Interval
  <2>3. (Word - 2) - 0 + 1 = Word - 1
    BY <1>1
  <2>. QED  BY <2>2, <2>3
<1>3. RamBytes(m, n) \in SUBSET space
  BY DEF RamBytes
<1>. HIDE DEF space
<1>4. IsFiniteSet(RamBytes(m, n)) /\ Cardinality(RamBytes(m, n)) <= Cardinality(space)
  BY <1>2, <1>3, FS_Subset
<1>5. Cardinality(RamBytes(m, n)) \in Nat
  BY <1>4, FS_CardinalityType
<1>. QED  BY <1>1, <1>2, <1>4, <1>5

\* An entry that is not empty usable RAM adds no byte.
LEMMA RamUnchanged ==
    ASSUME NEW m \in Seq(Entries), NEW n \in Nat, n < Len(m),
           m[n + 1].kind # Usable \/ m[n + 1].length = 0
    PROVE  RamBytes(m, n + 1) = RamBytes(m, n)
<1>1. m[n + 1] \in Entries
  <2>1. n + 1 \in 1 .. Len(m)
    OBVIOUS
  <2>. QED  BY <2>1
<1>2. m[n + 1].length = 0 => End(m[n + 1]) = m[n + 1].address
  BY <1>1, EntryFacts DEF End
<1>3. \A k \in 1 .. n + 1 : k \in 1 .. n \/ k = n + 1
  OBVIOUS
<1>4. \A k \in 1 .. n : k \in 1 .. n + 1
  OBVIOUS
<1>5. m[n + 1].address \in Nat
  BY <1>1, EntryFacts
<1>6. ASSUME NEW b \in 0 .. Word - 2
      PROVE  ~(m[n + 1].kind = Usable /\ m[n + 1].address <= b /\ b < End(m[n + 1]))
  <2>1. CASE m[n + 1].length = 0
    <3>1. b \in Int
      OBVIOUS
    <3>. QED  BY <2>1, <3>1, <1>2, <1>5
  <2>. QED  BY <2>1
<1>. QED  BY <1>3, <1>4, <1>6 DEF RamBytes

\* Usable RAM adds its bytes, and validate_entries has made sure that they
\* are new.
LEMMA RamGrows ==
    ASSUME NEW m \in Seq(Entries), ValidEntries(m), NEW n \in Nat, n < Len(m),
           m[n + 1].kind = Usable, m[n + 1].length # 0
    PROVE  Cardinality(RamBytes(m, n + 1)) = Cardinality(RamBytes(m, n)) + m[n + 1].length
<1>. DEFINE e == m[n + 1]
            bytes == e.address .. End(e) - 1
<1>1. n + 1 \in 1 .. Len(m) /\ e \in Entries /\ Len(m) \in Nat
  <2>1. n + 1 \in 1 .. Len(m) /\ Len(m) \in Nat
    OBVIOUS
  <2>. QED  BY <2>1
<1>2. e.address \in Nat /\ e.length \in Nat /\ End(e) \in Nat /\ Word \in Nat
  BY <1>1, EntryFacts, BootAssumption
<1>3. End(e) < Word
  BY <1>1 DEF ValidEntries
<1>4. End(e) = e.address + e.length /\ e.length > 0
  BY <1>2 DEF End
<1>a. e.kind = Usable
  OBVIOUS
<1>b. \A k \in 1 .. n : k \in 1 .. Len(m) /\ k # n + 1 /\ k \in 1 .. n + 1
  BY <1>1
<1>c. \A k \in 1 .. n + 1 : k \in 1 .. n \/ k = n + 1
  OBVIOUS
<1>d. n + 1 \in 1 .. n + 1
  OBVIOUS
<1>e. ASSUME NEW k \in 1 .. n, NEW b \in Int, m[k].address <= b, b < End(m[k])
      PROVE  b \notin bytes
  <2>1. m[k] \in Entries
    BY <1>b
  <2>2. m[k].address \in Nat /\ m[k].length \in Nat /\ End(m[k]) \in Nat
    BY <2>1, EntryFacts
  <2>3. m[k].length # 0
    BY <2>2, <1>e DEF End
  <2>4. End(m[k]) <= e.address \/ End(e) <= m[k].address
    BY <2>3, <1>1, <1>4, <1>b, NoOverlap
  <2>. HIDE DEF e
  <2>. QED  BY <1>2, <1>e, <2>2, <2>4
<1>. HIDE DEF e
<1>5. IsFiniteSet(bytes) /\ Cardinality(bytes) = e.length
  <2>1. e.address \in Int /\ End(e) - 1 \in Int
    BY <1>2
  <2>2. IsFiniteSet(bytes)
        /\ Cardinality(bytes) = IF e.address > End(e) - 1 THEN 0 ELSE (End(e) - 1) - e.address + 1
    BY <2>1, FS_Interval
  <2>3. ~(e.address > End(e) - 1) /\ (End(e) - 1) - e.address + 1 = e.length
    BY <1>2, <1>4
  <2>. QED  BY <2>2, <2>3
<1>6. bytes \subseteq 0 .. Word - 2
  BY <1>2, <1>3
<1>7. \A b \in Int : b \in bytes <=> e.address <= b /\ b < End(e)
  BY <1>2
<1>f. \A b \in 0 .. Word - 2 : b \in Int
  OBVIOUS
<1>. HIDE DEF bytes
<1>8. RamBytes(m, n + 1) = RamBytes(m, n) \cup bytes
  <2>1. \A b \in 0 .. Word - 2 :
           (\E k \in 1 .. n + 1 : m[k].kind = Usable /\ m[k].address <= b /\ b < End(m[k]))
           <=> \/ \E k \in 1 .. n : m[k].kind = Usable /\ m[k].address <= b /\ b < End(m[k])
               \/ b \in bytes
    BY <1>a, <1>b, <1>c, <1>d, <1>f, <1>7 DEF e
  <2>. QED  BY <2>1, <1>6 DEF RamBytes
<1>9. RamBytes(m, n) \cap bytes = {}
  BY <1>e, <1>f DEF RamBytes
<1>10. IsFiniteSet(RamBytes(m, n)) /\ Cardinality(RamBytes(m, n)) \in Nat
  BY RamBounded
<1>11. Cardinality(RamBytes(m, n) \cup bytes)
          = Cardinality(RamBytes(m, n)) + Cardinality(bytes)
              - Cardinality(RamBytes(m, n) \cap bytes)
  BY <1>5, <1>10, FS_Union
<1>12. Cardinality(RamBytes(m, n) \cap bytes) = 0
  BY <1>9, FS_EmptySet
<1>13. Cardinality(RamBytes(m, n + 1)) = Cardinality(RamBytes(m, n)) + e.length
  <2>. DEFINE c == Cardinality(RamBytes(m, n))
              l == e.length
  <2>1. c \in Nat /\ l \in Nat
    BY <1>2, <1>10
  <2>2. Cardinality(RamBytes(m, n + 1)) = c + l - 0
    BY <1>5, <1>8, <1>11, <1>12, Zenon
  <2>. HIDE DEF c, l
  <2>3. c + l - 0 = c + l
    BY <2>1
  <2>4. Cardinality(RamBytes(m, n + 1)) = c + l
    BY <2>2, <2>3, Zenon
  <2>. QED  BY <2>4, Zenon DEF c, l
<1>. QED  BY <1>13, Zenon DEF e

\* The Loader and a reset measure nothing and refuse nothing.
LEMMA LoaderRam ==
    ASSUME IInv, RamInv,
           \/ Clear \/ Carry \/ Malformed \/ Publish \/ Reset
           \/ \E a \in Answers : TableFull(a) \/ \E more \in BOOLEAN : Store(a, more)
    PROVE  RamInv'
<1>1. /\ pc' \notin {"measure", "ready"}
      /\ fault' = fault \/ fault' = "none"
      /\ totalRam' = 0 \/ pc' = "hang"
  BY DEF Clear, Carry, Malformed, Publish, Reset, TableFull, Store, Locals, measureVars,
         RamInv, Summed
<1>. QED  BY <1>1 DEF RamInv, Summed, NeverRefusedTwice, Accepted

\* The header that the Loader publishes passes read_memory_map.
LEMMA ReadRam == IInv /\ RamInv /\ ReadMemoryMap => RamInv'
<1>. SUFFICES ASSUME IInv, RamInv, ReadMemoryMap PROVE RamInv'
  OBVIOUS
<1>1. header.format = "E820" /\ header.flags = 1
  BY DEF IInv, LoaderInv, ReadMemoryMap
<1>2. header.count \in Slots
  <2>1. header.count \in Nat /\ MaxEntries \in Nat
    BY HeaderTyped, HeaderCount, BootAssumption DEF IInv
  <2>2. header.count > 0 /\ header.count <= MaxEntries
    BY DEF IInv, LoaderInv, ReadMemoryMap
  <2>. QED  BY <2>1, <2>2 DEF Slots
<1>3. fault' \in {"entries", "bootstrap", "none"}
  BY <1>1, <1>2 DEF ReadMemoryMap, Outcome, ReadFault
<1>4. totalRam' = 0 /\ next' = 0 /\ pc' \in {"measure", "panic"}
  BY DEF ReadMemoryMap, Outcome, measureVars, IInv, Unmeasured, RamInv, Summed
<1>5. Cardinality(RamBytes(map', 0)) = 0
  <2>1. RamBytes(map', 0) = {}
    BY DEF RamBytes
  <2>. QED  BY <2>1, FS_EmptySet
<1>. QED  BY <1>3, <1>4, <1>5 DEF RamInv, Summed, NeverRefusedTwice

\* What memory::init has measured, and what validate_entries said of it.
LEMMA MeasuredFacts ==
    ASSUME IInv, pc = "measure", next < Len(map)
    PROVE  /\ map \in Seq(Entries) /\ ValidEntries(map) /\ next \in Nat
           /\ next + 1 \in 1 .. Len(map) /\ map[next + 1] \in Entries
<1>1. map \in Seq(Entries) /\ next \in Nat /\ Len(map) \in Nat
  BY TypeFacts DEF IInv
<1>2. next + 1 \in 1 .. Len(map)
  BY <1>1
<1>3. ValidEntries(map)
  BY DEF IInv, Validated, Accepted
<1>. QED  BY <1>1, <1>2, <1>3

\* An empty entry holds no RAM.
LEMMA SkipRam == IInv /\ RamInv /\ SkipEntry => RamInv'
<1>. SUFFICES ASSUME IInv, RamInv, SkipEntry PROVE RamInv'
  OBVIOUS
<1>1. /\ pc = "measure" /\ next < Len(map) /\ map[next + 1].length = 0
      /\ next' = next + 1 /\ UNCHANGED <<pc, fault, map, totalRam>>
  BY DEF SkipEntry
<1>2. RamBytes(map, next + 1) = RamBytes(map, next)
  BY <1>1, MeasuredFacts, RamUnchanged
<1>. QED  BY <1>1, <1>2 DEF RamInv, Summed, NeverRefusedTwice, Accepted

\* Neither sum of the loop reaches Word: the end of an entry by
\* validate_entries, the RAM because its bytes are different addresses.
LEMMA MeasureRam == IInv /\ RamInv /\ MeasureEntry => RamInv'
<1>. SUFFICES ASSUME IInv, RamInv, MeasureEntry PROVE RamInv'
  OBVIOUS
<1>. DEFINE e == map[next + 1]
<1>1. /\ pc = "measure" /\ next < Len(map) /\ e.length # 0
      /\ next' = next + 1 /\ map' = map
      /\ totalRam' = IF e.kind = Usable THEN totalRam + e.length ELSE totalRam
      /\ fault' = MeasureFault(e) /\ pc' \in {"measure", "panic"}
  BY DEF MeasureEntry, Outcome
<1>2. totalRam = Cardinality(RamBytes(map, next))
  BY <1>1 DEF RamInv, Summed, Accepted
<1>3. totalRam' = Cardinality(RamBytes(map, next + 1))
  <2>1. CASE e.kind = Usable
    BY <2>1, <1>1, <1>2, MeasuredFacts, RamGrows
  <2>2. CASE e.kind # Usable
    <3>1. RamBytes(map, next + 1) = RamBytes(map, next)
      BY <2>2, <1>1, MeasuredFacts, RamUnchanged
    <3>. QED  BY <2>2, <3>1, <1>1, <1>2
  <2>. QED  BY <2>1, <2>2
<1>4. End(e) \in Nat /\ End(e) < Word /\ Word \in Nat
  <2>1. End(e) \in Nat
    BY <1>1, MeasuredFacts, EntryFacts
  <2>2. End(e) < Word
    BY <1>1, MeasuredFacts DEF ValidEntries
  <2>. QED  BY <2>1, <2>2, BootAssumption
<1>5. totalRam' < Word /\ totalRam' \in Nat
  BY <1>3, <1>4, RamBounded
<1>. HIDE DEF e
<1>6. ~(e.kind = Usable /\ totalRam + e.length >= Word)
  BY <1>1, <1>4, <1>5
<1>7. fault' \in {"alignment", "none"}
  <2>1. ~(End(e) >= Word)
    BY <1>4
  <2>. QED  BY <1>1, <1>6, <2>1, Zenon DEF MeasureFault
<1>. QED  BY <1>1, <1>3, <1>7 DEF RamInv, Summed, NeverRefusedTwice

\* The checks behind the loop are other checks.
LEMMA LayOutRam == IInv /\ RamInv /\ LayOut => RamInv'
<1>. SUFFICES ASSUME IInv, RamInv, LayOut PROVE RamInv'
  OBVIOUS
<1>1. /\ fault' = LayOutFault(MetadataEnd(BitsSize))
      /\ pc = "measure" /\ pc' \in {"ready", "panic"} /\ UNCHANGED <<map, next, totalRam>>
  BY DEF LayOut, Outcome, measureVars
<1>2. fault' \in {"no pages", "alignment", "metadata", "kernel", "none"}
  BY <1>1 DEF LayOutFault
<1>. QED  BY <1>1, <1>2 DEF RamInv, Summed, NeverRefusedTwice, Accepted

\* Every step of the boot keeps the sum.
LEMMA NextRam == IInv /\ RamInv /\ [Next]_vars => RamInv'
<1>. SUFFICES ASSUME IInv, RamInv, [Next]_vars PROVE RamInv'
  OBVIOUS
<1>1. CASE \/ Clear \/ Carry \/ Malformed \/ Publish \/ Reset
           \/ \E a \in Answers : TableFull(a) \/ \E more \in BOOLEAN : Store(a, more)
  BY <1>1, LoaderRam
<1>2. CASE ReadMemoryMap
  BY <1>2, ReadRam
<1>3. CASE SkipEntry
  BY <1>3, SkipRam
<1>4. CASE MeasureEntry
  BY <1>4, MeasureRam
<1>5. CASE LayOut
  BY <1>5, LayOutRam
<1>6. CASE Stopped \/ UNCHANGED vars
  <2>1. UNCHANGED <<pc, fault, map, next, totalRam>>
    BY <1>6 DEF Stopped, vars, measureVars
  <2>. QED  BY <2>1 DEF RamInv, Summed, NeverRefusedTwice, Accepted
<1>. QED  BY <1>1, <1>2, <1>3, <1>4, <1>5, <1>6 DEF Next, Boot

\* For every BIOS and every moment of a reset: the kernel never panics over
\* the Loader's header, and the checked_add of memory::init never overflow on
\* a map that validate_entries let through.
THEOREM AcceptedOnce == Spec => []NeverRefusedTwice
<1>1. Init => RamInv
  BY DEF Init, RamInv, Summed, NeverRefusedTwice, Accepted
<1>2. IInv /\ RamInv /\ [Next]_vars => RamInv'
  BY NextRam
<1>3. RamInv => NeverRefusedTwice
  BY DEF RamInv
<1>. QED  BY <1>1, <1>2, <1>3, Invariance, PTL DEF Spec

=============================================================================
