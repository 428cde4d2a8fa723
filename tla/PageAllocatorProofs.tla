------------------------- MODULE PageAllocatorProofs -------------------------
(***************************************************************************)
(* Proofs about PageAllocator, for every set of layouts, every direct map  *)
(* limit and every set of requested counts.                                *)
(***************************************************************************)
EXTENDS PageAllocator, FiniteSetTheorems, SequenceTheorems, TLAPS

(***************************************************************************)
(* The inductive invariant.  While zones are being installed the           *)
(* descriptors of the installed ones describe exactly their pages and no   *)
(* page has an owner.  Afterwards the reserved pages carry KERNEL_INIT and *)
(* the pages of a credential do not: that is what lets release accept each *)
(* credential, and what ExclusiveOwnership alone does not say.             *)
(***************************************************************************)
Installing ==
    phase = "zones" =>
        /\ held = {} /\ reply = NoReply
        /\ \A p \in Pages :
              /\ attr[p] = {} /\ refs[p] = 0
              /\ p \in used <=> zoneOf[p] = 0
              /\ zoneOf[p] <= zonesSize
              /\ \A z \in 1 .. zonesSize : zoneOf[p] = z <=> p \in ZonePages(z)
        /\ \A z \in Zones : usingCount[z] = 0 /\ refTotal[z] = 0
        /\ \A z \in 1 .. zonesSize : freeCount[z] = Cardinality(ZonePages(z))

OwnersMarked ==
    Initialised =>
        /\ zonesSize = Len(layout.zones)
        /\ \A p \in Reserved : "KERNEL_INIT" \in attr[p]
        /\ \A r \in held : \A p \in RunPages(r) :
              "KERNEL_INIT" \notin attr[p] /\ attr[p] # {}
        /\ phase = "check" => held = {} /\ reply = NoReply

IInv ==
    /\ TypeOK
    /\ Installing
    /\ PanicsOnlyOnOverlap
    /\ Bookkeeping
    /\ OwnersMarked
    /\ ExclusiveOwnership
    /\ MappedRunsAddressable
    /\ CompleteSearch

-----------------------------------------------------------------------------
\* The size of a union of two disjoint finite sets of pages.
LEMMA CardUnion ==
    ASSUME NEW A, NEW B, IsFiniteSet(A), IsFiniteSet(B), A \cap B = {}
    PROVE  /\ Cardinality(A) \in Nat /\ Cardinality(B) \in Nat
           /\ Cardinality(A \cup B) = Cardinality(A) + Cardinality(B)
<1>1. Cardinality(A) \in Nat /\ Cardinality(B) \in Nat
  BY FS_CardinalityType
<1>2. Cardinality(A \cup B) = Cardinality(A) + Cardinality(B) - Cardinality(A \cap B)
  BY FS_Union
<1>3. Cardinality(A \cap B) = 0
  BY FS_EmptySet
<1>. QED  BY <1>1, <1>2, <1>3

\* The size of a finite set of pages after a part of it is taken out.
LEMMA CardRemove ==
    ASSUME NEW A, NEW B, IsFiniteSet(A), B \subseteq A
    PROVE  /\ Cardinality(A) \in Nat /\ Cardinality(B) \in Nat
           /\ Cardinality(B) <= Cardinality(A)
           /\ Cardinality(A \ B) = Cardinality(A) - Cardinality(B)
<1>1. IsFiniteSet(B) /\ Cardinality(B) <= Cardinality(A)
  BY FS_Subset
<1>2. Cardinality(A \ B) = Cardinality(A) - Cardinality(A \cap B)
  BY FS_Difference
<1>3. A \cap B = B
  OBVIOUS
<1>. QED  BY <1>1, <1>2, <1>3, FS_CardinalityType

\* Taking the pages S out of the free part of Z moves that many from one
\* count to the other.
LEMMA TakeCounts ==
    ASSUME NEW Z, NEW U, NEW S, IsFiniteSet(Z), S \cap Z \cap U = {}
    PROVE  /\ Cardinality(S \cap Z) \in Nat
           /\ Cardinality(S \cap Z) <= Cardinality(Z \ U)
           /\ Cardinality(Z \cap (U \cup S)) = Cardinality(Z \cap U) + Cardinality(S \cap Z)
           /\ Cardinality(Z \ (U \cup S)) = Cardinality(Z \ U) - Cardinality(S \cap Z)
<1>. DEFINE A == Z \cap U
            B == S \cap Z
            C == Z \ U
<1>1. IsFiniteSet(A) /\ IsFiniteSet(B) /\ IsFiniteSet(C)
  BY FS_Intersection, FS_Difference
<1>2. /\ A \cap B = {} /\ B \subseteq C
      /\ Z \cap (U \cup S) = A \cup B
      /\ Z \ (U \cup S) = C \ B
  OBVIOUS
<1>. HIDE DEF A, B, C
<1>3. Cardinality(A \cup B) = Cardinality(A) + Cardinality(B)
  BY <1>1, <1>2, CardUnion
<1>4. /\ Cardinality(B) \in Nat /\ Cardinality(B) <= Cardinality(C)
      /\ Cardinality(C \ B) = Cardinality(C) - Cardinality(B)
  BY <1>1, <1>2, CardRemove
<1>5. /\ Cardinality(B) \in Nat /\ Cardinality(B) <= Cardinality(C)
      /\ Cardinality(Z \cap (U \cup S)) = Cardinality(A) + Cardinality(B)
      /\ Cardinality(Z \ (U \cup S)) = Cardinality(C) - Cardinality(B)
  BY <1>2, <1>3, <1>4
<1>. QED  BY <1>5 DEF A, B, C

\* Giving the pages S of the used part U back does the reverse.
LEMMA GiveCounts ==
    ASSUME NEW Z, NEW U, NEW S, IsFiniteSet(Z), S \subseteq U
    PROVE  /\ Cardinality(S \cap Z) \in Nat
           /\ Cardinality(S \cap Z) <= Cardinality(Z \cap U)
           /\ Cardinality(Z \cap (U \ S)) = Cardinality(Z \cap U) - Cardinality(S \cap Z)
           /\ Cardinality(Z \ (U \ S)) = Cardinality(Z \ U) + Cardinality(S \cap Z)
<1>. DEFINE A == Z \cap U
            B == S \cap Z
            C == Z \ U
<1>1. IsFiniteSet(A) /\ IsFiniteSet(B) /\ IsFiniteSet(C)
  BY FS_Intersection, FS_Difference
<1>2. /\ C \cap B = {} /\ B \subseteq A
      /\ Z \cap (U \ S) = A \ B
      /\ Z \ (U \ S) = C \cup B
  OBVIOUS
<1>. HIDE DEF A, B, C
<1>3. Cardinality(C \cup B) = Cardinality(C) + Cardinality(B)
  BY <1>1, <1>2, CardUnion
<1>4. /\ Cardinality(B) \in Nat /\ Cardinality(B) <= Cardinality(A)
      /\ Cardinality(A \ B) = Cardinality(A) - Cardinality(B)
  BY <1>1, <1>2, CardRemove
<1>5. /\ Cardinality(B) \in Nat /\ Cardinality(B) <= Cardinality(A)
      /\ Cardinality(Z \cap (U \ S)) = Cardinality(A) - Cardinality(B)
      /\ Cardinality(Z \ (U \ S)) = Cardinality(C) + Cardinality(B)
  BY <1>2, <1>3, <1>4
<1>. QED  BY <1>5 DEF A, B, C

\* The bounds of a layout the code relies on, in the form the steps use.
LEMMA LayoutFacts ==
    ASSUME layout \in Layouts
    PROVE  /\ layout.bits \in Nat
           /\ layout.reserved \in Nat /\ layout.reserved <= layout.bits
           /\ Len(layout.zones) \in Nat
           /\ Reserved \subseteq Pages
           /\ \A z \in Zones : /\ layout.zones[z].start \in Nat
                               /\ layout.zones[z].end \in Nat
                               /\ layout.zones[z].start < layout.zones[z].end
                               /\ layout.zones[z].end <= layout.bits
                               /\ ZonePages(z) \subseteq Pages
                               /\ IsFiniteSet(ZonePages(z))
                               /\ Cardinality(ZonePages(z)) \in Nat
<1>1. /\ layout.bits \in Nat
      /\ layout.reserved \in 0 .. layout.bits
      /\ layout.zones \in Seq([start : Nat, end : Nat])
      /\ \A z \in 1 .. Len(layout.zones) :
            /\ layout.zones[z].start < layout.zones[z].end
            /\ layout.zones[z].end <= layout.bits
  BY LayoutAssumption DEF WellFormed
<1>2. \A s \in Seq([start : Nat, end : Nat]) : \A i \in 1 .. Len(s) :
          s[i].start \in Nat /\ s[i].end \in Nat
  <2>. TAKE s \in Seq([start : Nat, end : Nat])
  <2>. TAKE i \in 1 .. Len(s)
  <2>1. s[i] \in [start : Nat, end : Nat]
    BY ElementOfSeq
  <2>. QED  BY <2>1
<1>3. ASSUME NEW z \in Zones
      PROVE  /\ layout.zones[z].start \in Nat
             /\ layout.zones[z].end \in Nat
             /\ layout.zones[z].start < layout.zones[z].end
             /\ layout.zones[z].end <= layout.bits
  BY <1>1, <1>2 DEF Zones
<1>4. ASSUME NEW z \in Zones
      PROVE  IsFiniteSet(ZonePages(z)) /\ Cardinality(ZonePages(z)) \in Nat
  <2>1. layout.zones[z].start \in Int /\ layout.zones[z].end - 1 \in Int
    BY <1>3
  <2>2. IsFiniteSet(layout.zones[z].start .. layout.zones[z].end - 1)
    BY <2>1, FS_Interval
  <2>. QED  BY <2>2, FS_CardinalityType DEF ZonePages
<1>5. ASSUME NEW z \in Zones
      PROVE  ZonePages(z) \subseteq Pages
  BY <1>1, <1>3, SMTT(30) DEF Pages, ZonePages
<1>6. Len(layout.zones) \in Nat
  BY <1>1
<1>. QED  BY <1>1, <1>3, <1>4, <1>5, <1>6 DEF Pages, Reserved

-----------------------------------------------------------------------------
(***************************************************************************)
(* What init_page and clean_page do to the counters, when the descriptors  *)
(* and counters agree before the call.                                     *)
(***************************************************************************)
CountersAgree ==
    \A z \in Zones :
        /\ OwnedBy(z) = ZonePages(z)
        /\ usingCount[z] = Cardinality(ZonePages(z) \cap used)
        /\ freeCount[z] = Cardinality(ZonePages(z) \ used)
        /\ refTotal[z] = usingCount[z]

CountersFollow ==
    /\ usingCount' \in [Zones -> Nat]
    /\ freeCount' \in [Zones -> Nat]
    /\ refTotal' \in [Zones -> Nat]
    /\ \A z \in Zones :
          /\ usingCount'[z] = Cardinality(ZonePages(z) \cap used')
          /\ freeCount'[z] = Cardinality(ZonePages(z) \ used')
          /\ refTotal'[z] = usingCount'[z]

PagesTaken(S, want) ==
    /\ attr' = [p \in Pages |-> IF p \in S THEN want[p] ELSE attr[p]]
    /\ refs' = [p \in Pages |-> IF p \in S THEN 1 ELSE refs[p]]
    /\ used' = used \cup S
    /\ CountersFollow

PagesGiven(S) ==
    /\ attr' = [p \in Pages |-> IF p \in S THEN {} ELSE attr[p]]
    /\ refs' = [p \in Pages |-> IF p \in S THEN 0 ELSE refs[p]]
    /\ used' = used \ S
    /\ CountersFollow

\* Pages without an owner that are free wherever they belong to a zone can be
\* taken: the assert of init_page holds and the counters follow the bitmap.
LEMMA InitPagesEffect ==
    ASSUME TypeOK, CountersAgree, NEW S, NEW want, S \subseteq Pages,
           \A p \in S : attr[p] = {},
           \A z \in Zones : S \cap ZonePages(z) \cap used = {}
    PROVE  /\ CanInit(S)
           /\ InitPages(S, want) => PagesTaken(S, want)
<1>1. Fresh(S) = S /\ Shared(S, want) = {}
  BY DEF Fresh, Shared
<1>2. ASSUME NEW z \in Zones
      PROVE  /\ Cardinality(S \cap OwnedBy(z)) = Cardinality(S \cap ZonePages(z))
             /\ Cardinality(S \cap ZonePages(z)) \in Nat
             /\ Cardinality(S \cap ZonePages(z)) <= freeCount[z]
             /\ Cardinality(ZonePages(z) \cap (used \cup S))
                   = usingCount[z] + Cardinality(S \cap ZonePages(z))
             /\ Cardinality(ZonePages(z) \ (used \cup S))
                   = freeCount[z] - Cardinality(S \cap ZonePages(z))
  <2>1. IsFiniteSet(ZonePages(z))
    BY LayoutFacts DEF TypeOK
  <2>2. S \cap ZonePages(z) \cap used = {}
    OBVIOUS
  <2>3. /\ Cardinality(S \cap ZonePages(z)) \in Nat
        /\ Cardinality(S \cap ZonePages(z)) <= Cardinality(ZonePages(z) \ used)
        /\ Cardinality(ZonePages(z) \cap (used \cup S))
              = Cardinality(ZonePages(z) \cap used) + Cardinality(S \cap ZonePages(z))
        /\ Cardinality(ZonePages(z) \ (used \cup S))
              = Cardinality(ZonePages(z) \ used) - Cardinality(S \cap ZonePages(z))
    BY <2>1, <2>2, TakeCounts
  <2>4. Cardinality(S \cap OwnedBy(z)) = Cardinality(S \cap ZonePages(z))
    BY Zenon DEF CountersAgree
  <2>. QED  BY <2>3, <2>4 DEF CountersAgree
<1>3. CanInit(S)
  BY <1>1, <1>2 DEF CanInit
<1>. SUFFICES InitPages(S, want) => PagesTaken(S, want)
  BY <1>3
<1>4. HAVE InitPages(S, want)
<1>5. /\ attr' = [p \in Pages |-> IF p \in S THEN want[p] ELSE attr[p]]
      /\ refs' = [p \in Pages |-> IF p \in S THEN 1 ELSE refs[p]]
      /\ used' = used \cup S
      /\ usingCount' = [z \in Zones |-> usingCount[z] + Cardinality(S \cap OwnedBy(z))]
      /\ freeCount' = [z \in Zones |-> freeCount[z] - Cardinality(S \cap OwnedBy(z))]
      /\ refTotal' = [z \in Zones |->
                        refTotal[z] + Cardinality(S \cap OwnedBy(z)) + Cardinality({})]
  <2>1. \A z : {} \cap OwnedBy(z) = {}
    OBVIOUS
  <2>. QED  BY <1>1, <1>4, <2>1 DEF InitPages
<1>6. ASSUME NEW z \in Zones
      PROVE  /\ usingCount'[z] \in Nat /\ freeCount'[z] \in Nat
             /\ refTotal'[z] = usingCount'[z]
             /\ usingCount'[z] = Cardinality(ZonePages(z) \cap used')
             /\ freeCount'[z] = Cardinality(ZonePages(z) \ used')
  <2>1. /\ Cardinality(ZonePages(z) \cap used') = Cardinality(ZonePages(z) \cap (used \cup S))
        /\ Cardinality(ZonePages(z) \ used') = Cardinality(ZonePages(z) \ (used \cup S))
    BY <1>5, Zenon
  <2>2. /\ usingCount[z] \in Nat /\ freeCount[z] \in Nat
        /\ refTotal[z] = usingCount[z]
    BY DEF TypeOK, CountersAgree
  <2>3. /\ usingCount'[z] = usingCount[z] + Cardinality(S \cap OwnedBy(z))
        /\ freeCount'[z] = freeCount[z] - Cardinality(S \cap OwnedBy(z))
        /\ refTotal'[z] = refTotal[z] + Cardinality(S \cap OwnedBy(z)) + Cardinality({})
    BY <1>5, Zenon
  <2>4. Cardinality({}) = 0
    BY FS_EmptySet
  <2>. DEFINE n == Cardinality(S \cap ZonePages(z))
              u == Cardinality(ZonePages(z) \cap used')
              f == Cardinality(ZonePages(z) \ used')
  <2>5. /\ n \in Nat /\ n <= freeCount[z]
        /\ u = usingCount[z] + n /\ f = freeCount[z] - n
        /\ usingCount'[z] = usingCount[z] + n
        /\ freeCount'[z] = freeCount[z] - n
        /\ refTotal'[z] = refTotal[z] + n + 0
    BY <1>2, <2>1, <2>3, <2>4, Zenon
  <2>. HIDE DEF n, u, f
  <2>6. /\ usingCount'[z] \in Nat /\ freeCount'[z] \in Nat
        /\ refTotal'[z] = usingCount'[z]
        /\ usingCount'[z] = u /\ freeCount'[z] = f
    BY <2>2, <2>5
  <2>. QED  BY <2>6 DEF u, f
<1>7. DOMAIN usingCount' = Zones /\ DOMAIN freeCount' = Zones /\ DOMAIN refTotal' = Zones
  BY <1>5
<1>8. /\ usingCount' \in [Zones -> Nat]
      /\ freeCount' \in [Zones -> Nat]
      /\ refTotal' \in [Zones -> Nat]
  BY <1>5, <1>6, <1>7
<1>. QED  BY <1>5, <1>6, <1>8 DEF PagesTaken, CountersFollow

\* The pages of a run that owns them exclusively can be given back.
LEMMA CleanPagesEffect ==
    ASSUME TypeOK, CountersAgree, NEW S, S \subseteq used,
           \A p \in S : attr[p] # {} /\ refs[p] = 1
    PROVE  CleanPages(S) => PagesGiven(S)
<1>1. ASSUME NEW z \in Zones
      PROVE  /\ Cardinality(S \cap OwnedBy(z)) = Cardinality(S \cap ZonePages(z))
             /\ Cardinality(S \cap ZonePages(z)) \in Nat
             /\ Cardinality(S \cap ZonePages(z)) <= usingCount[z]
             /\ Cardinality(ZonePages(z) \cap (used \ S))
                   = usingCount[z] - Cardinality(S \cap ZonePages(z))
             /\ Cardinality(ZonePages(z) \ (used \ S))
                   = freeCount[z] + Cardinality(S \cap ZonePages(z))
  <2>1. IsFiniteSet(ZonePages(z))
    BY LayoutFacts DEF TypeOK
  <2>2. /\ Cardinality(S \cap ZonePages(z)) \in Nat
        /\ Cardinality(S \cap ZonePages(z)) <= Cardinality(ZonePages(z) \cap used)
        /\ Cardinality(ZonePages(z) \cap (used \ S))
              = Cardinality(ZonePages(z) \cap used) - Cardinality(S \cap ZonePages(z))
        /\ Cardinality(ZonePages(z) \ (used \ S))
              = Cardinality(ZonePages(z) \ used) + Cardinality(S \cap ZonePages(z))
    BY <2>1, GiveCounts
  <2>3. Cardinality(S \cap OwnedBy(z)) = Cardinality(S \cap ZonePages(z))
    BY Zenon DEF CountersAgree
  <2>. QED  BY <2>2, <2>3 DEF CountersAgree
<1>2. {p \in S : attr[p] # {}} = S /\ {p \in S : refs[p] = 1} = S
  OBVIOUS
<1>3. HAVE CleanPages(S)
<1>4. /\ attr' = [p \in Pages |-> IF p \in S THEN {} ELSE attr[p]]
      /\ refs' = [p \in Pages |-> IF p \in S THEN refs[p] - 1 ELSE refs[p]]
      /\ used' = used \ S
      /\ usingCount' = [z \in Zones |-> usingCount[z] - Cardinality(S \cap OwnedBy(z))]
      /\ freeCount' = [z \in Zones |-> freeCount[z] + Cardinality(S \cap OwnedBy(z))]
      /\ refTotal' = [z \in Zones |-> refTotal[z] - Cardinality(S \cap OwnedBy(z))]
  BY <1>2, <1>3 DEF CleanPages
<1>5. refs' = [p \in Pages |-> IF p \in S THEN 0 ELSE refs[p]]
  BY <1>4
<1>6. ASSUME NEW z \in Zones
      PROVE  /\ usingCount'[z] \in Nat /\ freeCount'[z] \in Nat
             /\ refTotal'[z] = usingCount'[z]
             /\ usingCount'[z] = Cardinality(ZonePages(z) \cap used')
             /\ freeCount'[z] = Cardinality(ZonePages(z) \ used')
  <2>1. /\ Cardinality(ZonePages(z) \cap used') = Cardinality(ZonePages(z) \cap (used \ S))
        /\ Cardinality(ZonePages(z) \ used') = Cardinality(ZonePages(z) \ (used \ S))
    BY <1>4, Zenon
  <2>2. /\ usingCount[z] \in Nat /\ freeCount[z] \in Nat
        /\ refTotal[z] = usingCount[z]
    BY DEF TypeOK, CountersAgree
  <2>3. /\ usingCount'[z] = usingCount[z] - Cardinality(S \cap OwnedBy(z))
        /\ freeCount'[z] = freeCount[z] + Cardinality(S \cap OwnedBy(z))
        /\ refTotal'[z] = refTotal[z] - Cardinality(S \cap OwnedBy(z))
    BY <1>4, Zenon
  <2>. DEFINE n == Cardinality(S \cap ZonePages(z))
              u == Cardinality(ZonePages(z) \cap used')
              f == Cardinality(ZonePages(z) \ used')
  <2>4. /\ n \in Nat /\ n <= usingCount[z]
        /\ u = usingCount[z] - n /\ f = freeCount[z] + n
        /\ usingCount'[z] = usingCount[z] - n
        /\ freeCount'[z] = freeCount[z] + n
        /\ refTotal'[z] = refTotal[z] - n
    BY <1>1, <2>1, <2>3, Zenon
  <2>. HIDE DEF n, u, f
  <2>5. /\ usingCount'[z] \in Nat /\ freeCount'[z] \in Nat
        /\ refTotal'[z] = usingCount'[z]
        /\ usingCount'[z] = u /\ freeCount'[z] = f
    BY <2>2, <2>4
  <2>. QED  BY <2>5 DEF u, f
<1>7. DOMAIN usingCount' = Zones /\ DOMAIN freeCount' = Zones /\ DOMAIN refTotal' = Zones
  BY <1>4
<1>8. /\ usingCount' \in [Zones -> Nat]
      /\ freeCount' \in [Zones -> Nat]
      /\ refTotal' \in [Zones -> Nat]
  BY <1>4, <1>6, <1>7
<1>. QED  BY <1>4, <1>5, <1>6, <1>8 DEF PagesGiven, CountersFollow

-----------------------------------------------------------------------------
(***************************************************************************)
(* The inductive step, one lemma per action.                               *)
(***************************************************************************)
\* An operation that keeps the memory map keeps its pages, its zones and its
\* reserved prefix.
LEMMA SameLayout ==
    ASSUME layout' = layout
    PROVE  /\ Pages' = Pages /\ Zones' = Zones /\ Reserved' = Reserved
           /\ \A z : ZonePages(z)' = ZonePages(z)
           /\ Overlapping' = Overlapping
BY DEF Pages, Zones, Reserved, ZonePages, Overlapping

\* The invariant holds when memory::init has written its blank metadata.
LEMMA InitIInv == Init => IInv
<1>. SUFFICES ASSUME Init PROVE IInv
  OBVIOUS
<1>1. layout \in Layouts /\ phase = "zones" /\ zonesSize = 0 /\ held = {}
  BY DEF Init
<1>2. TypeOK
  <2>1. Len(layout.zones) \in Nat
    BY <1>1, LayoutFacts
  <2>2. NoReply \in Replies
    BY DEF NoReply, Replies, Areas
  <2>. QED  BY <2>1, <2>2 DEF Init, TypeOK
<1>3. Installing
  BY DEF Init, Installing
<1>. QED  BY <1>1, <1>2, <1>3
       DEF IInv, Initialised, PanicsOnlyOnOverlap, Bookkeeping, OwnersMarked,
           ExclusiveOwnership, MappedRunsAddressable, CompleteSearch

\* Installing the next zone keeps the invariant: the counters of the zones
\* installed so far are right, and a zone that meets an earlier one panics.
LEMMA InstallZoneStep == IInv /\ InstallZone => IInv'
<1>. SUFFICES ASSUME IInv, InstallZone PROVE IInv'
  OBVIOUS
<1>. DEFINE z == zonesSize + 1
<1>1. /\ phase = "zones" /\ zonesSize < Len(layout.zones) /\ layout' = layout
      /\ phase' = IF \A p \in ZonePages(z) : zoneOf[p] = 0 THEN "zones" ELSE "panic"
      /\ zonesSize' = z
      /\ freeCount' = [freeCount EXCEPT ![z] = Cardinality(ZonePages(z))]
      /\ zoneOf' = [p \in Pages |-> IF p \in ZonePages(z) THEN z ELSE zoneOf[p]]
      /\ used' = used \ ZonePages(z)
      /\ attr' = attr /\ refs' = refs /\ usingCount' = usingCount
      /\ refTotal' = refTotal /\ held' = held /\ reply' = reply
  BY DEF InstallZone, Require
<1>2. /\ Pages' = Pages /\ Zones' = Zones /\ Reserved' = Reserved
      /\ \A y : ZonePages(y)' = ZonePages(y)
      /\ Overlapping' = Overlapping
  BY <1>1, SameLayout
<1>3. TypeOK
  BY DEF IInv
<1>4. Len(layout.zones) \in Nat /\ zonesSize \in Nat /\ z \in Zones
  BY <1>1, <1>3, LayoutFacts DEF TypeOK, Zones
<1>5. Installing
  BY DEF IInv
<1>6. TypeOK'
  <2>1. Cardinality(ZonePages(z)) \in Nat /\ ZonePages(z) \subseteq Pages
    BY <1>3, <1>4, LayoutFacts DEF TypeOK
  <2>. HIDE DEF z
  <2>2. zonesSize' \in 0 .. Len(layout.zones)
    BY <1>1, <1>4 DEF z
  <2>3. /\ freeCount' \in [Zones -> Nat] /\ used' \in SUBSET Pages
        /\ zoneOf' \in [Pages -> {0} \cup Zones]
        /\ phase' \in {"zones", "panic"}
    BY <1>1, <1>3, <1>4, <2>1 DEF TypeOK
  <2>. QED  BY <1>1, <1>2, <1>3, <2>2, <2>3 DEF TypeOK
<1>7. PanicsOnlyOnOverlap'
  <2>. SUFFICES ASSUME phase' = "panic" PROVE Overlapping
    BY <1>2 DEF PanicsOnlyOnOverlap
  <2>1. PICK p \in ZonePages(z) : zoneOf[p] # 0
    BY <1>1
  <2>2. p \in Pages
    BY <1>3, <1>4, <2>1, LayoutFacts DEF TypeOK
  <2>3. zoneOf[p] \in Zones /\ zoneOf[p] <= zonesSize
    BY <1>1, <1>3, <1>5, <2>1, <2>2 DEF TypeOK, Installing
  <2>4. zoneOf[p] \in 1 .. zonesSize
    BY <1>4, <2>3 DEF Zones
  <2>5. p \in ZonePages(zoneOf[p])
    BY <1>1, <1>5, <2>2, <2>4 DEF Installing
  <2>6. zoneOf[p] # z
    BY <1>4, <2>4
  <2>. HIDE DEF z
  <2>. QED  BY <1>4, <2>1, <2>3, <2>5, <2>6 DEF Overlapping
<1>8. Installing'
  <2>. SUFFICES ASSUME phase' = "zones"
                PROVE  Installing'
    BY DEF Installing
  <2>1. \A p \in ZonePages(z) : zoneOf[p] = 0
    BY <1>1
  <2>2. held' = {} /\ reply' = NoReply
    BY <1>1, <1>5 DEF Installing
  <2>3. ASSUME NEW p \in Pages
        PROVE  /\ attr'[p] = {} /\ refs'[p] = 0
               /\ p \in used' <=> zoneOf'[p] = 0
               /\ zoneOf'[p] <= z
    <3>1. /\ attr[p] = {} /\ refs[p] = 0 /\ (p \in used <=> zoneOf[p] = 0)
          /\ zoneOf[p] <= zonesSize /\ zoneOf[p] \in Nat
      BY <1>1, <1>3, <1>5 DEF Installing, TypeOK, Zones
    <3>. QED  BY <1>1, <1>4, <3>1
  <2>4. ASSUME NEW p \in Pages, NEW y \in 1 .. z
        PROVE  zoneOf'[p] = y <=> p \in ZonePages(y)
    <3>1. y \in 1 .. zonesSize => (zoneOf[p] = y <=> p \in ZonePages(y))
      BY <1>1, <1>5 DEF Installing
    <3>2. zoneOf[p] <= zonesSize /\ zoneOf[p] \in Nat
      BY <1>1, <1>3, <1>5 DEF Installing, TypeOK, Zones
    <3>3. CASE y = z
      BY <1>1, <1>4, <3>2, <3>3
    <3>4. CASE y # z
      <4>1. y \in 1 .. zonesSize
        BY <1>4, <3>4
      <4>. QED  BY <1>1, <1>4, <2>1, <3>1, <3>4, <4>1
    <3>. QED  BY <3>3, <3>4
  <2>5. \A y \in Zones : usingCount'[y] = 0 /\ refTotal'[y] = 0
    BY <1>1, <1>5 DEF Installing
  <2>6. ASSUME NEW y \in 1 .. z
        PROVE  freeCount'[y] = Cardinality(ZonePages(y))
    <3>1. y \in Zones
      BY <1>1, <1>4 DEF Zones
    <3>2. y # z => y \in 1 .. zonesSize
      BY <1>4
    <3>. HIDE DEF z
    <3>. QED  BY <1>1, <1>3, <1>5, <3>1, <3>2 DEF Installing, TypeOK
  <2>. HIDE DEF z
  <2>. QED  BY <1>1, <1>2, <2>2, <2>3, <2>4, <2>5, <2>6 DEF Installing, NoReply
<1>9. ~Initialised' /\ phase' # "ready"
  BY <1>1 DEF Initialised
<1>. QED  BY <1>6, <1>7, <1>8, <1>9
       DEF IInv, Bookkeeping, OwnersMarked, ExclusiveOwnership,
           MappedRunsAddressable, CompleteSearch

\* Once init is past the zones, Bookkeeping gives the counters their meaning.
LEMMA AgreeWhenInitialised ==
    ASSUME IInv, Initialised PROVE CountersAgree
<1>1. TypeOK /\ Bookkeeping
  BY DEF IInv
<1>2. ASSUME NEW z \in Zones
      PROVE  OwnedBy(z) = ZonePages(z)
  <2>1. ZonePages(z) \subseteq Pages
    BY <1>1, LayoutFacts DEF TypeOK
  <2>2. \A p \in Pages : zoneOf[p] = z <=> p \in ZonePages(z)
    BY <1>1 DEF Bookkeeping
  <2>. QED  BY <2>1, <2>2 DEF OwnedBy
<1>. QED  BY <1>1, <1>2 DEF Bookkeeping, CountersAgree

\* Reserving the boot pages establishes Bookkeeping and ExclusiveOwnership
\* with no credential outstanding.
LEMMA ReservePagesStep == IInv /\ ReservePages => IInv'
<1>. SUFFICES ASSUME IInv, ReservePages PROVE IInv'
  OBVIOUS
<1>. DEFINE want == [p \in Reserved |-> ReserveFlags]
<1>1. /\ phase = "zones" /\ zonesSize = Len(layout.zones) /\ layout' = layout
      /\ phase' = IF CanInit(Reserved) THEN "check" ELSE "panic"
      /\ InitPages(Reserved, want)
      /\ zonesSize' = zonesSize /\ zoneOf' = zoneOf /\ held' = held /\ reply' = reply
  BY DEF ReservePages, Require
<1>2. /\ Pages' = Pages /\ Zones' = Zones /\ Reserved' = Reserved
      /\ \A y : ZonePages(y)' = ZonePages(y)
  BY <1>1, SameLayout
<1>3. TypeOK /\ Installing
  BY DEF IInv
<1>4. Reserved \subseteq Pages
  BY <1>3, LayoutFacts DEF TypeOK
<1>5. \A z \in Zones : \A p \in Pages : zoneOf[p] = z <=> p \in ZonePages(z)
  BY <1>1, <1>3 DEF Installing, Zones
<1>6. \A z \in Zones : ZonePages(z) \subseteq Pages /\ ZonePages(z) \cap used = {}
  <2>. TAKE z \in Zones
  <2>1. ZonePages(z) \subseteq Pages /\ z # 0
    BY <1>3, LayoutFacts DEF TypeOK, Zones
  <2>. QED  BY <1>1, <1>3, <1>5, <2>1 DEF Installing
<1>7. CountersAgree
  <2>. SUFFICES ASSUME NEW z \in Zones
                PROVE  /\ OwnedBy(z) = ZonePages(z)
                       /\ usingCount[z] = Cardinality(ZonePages(z) \cap used)
                       /\ freeCount[z] = Cardinality(ZonePages(z) \ used)
                       /\ refTotal[z] = usingCount[z]
    BY DEF CountersAgree
  <2>1. OwnedBy(z) = ZonePages(z)
    BY <1>5, <1>6 DEF OwnedBy
  <2>2. usingCount[z] = 0 /\ refTotal[z] = 0 /\ freeCount[z] = Cardinality(ZonePages(z))
    BY <1>1, <1>3 DEF Installing, Zones
  <2>3. Cardinality(ZonePages(z) \cap used) = 0
    BY <1>6, FS_EmptySet, Zenon
  <2>4. ZonePages(z) \ used = ZonePages(z)
    BY <1>6
  <2>5. Cardinality(ZonePages(z) \ used) = Cardinality(ZonePages(z))
    BY <2>4, Zenon
  <2>. QED  BY <2>1, <2>2, <2>3, <2>5
<1>8. /\ \A p \in Reserved : attr[p] = {}
      /\ \A z \in Zones : Reserved \cap ZonePages(z) \cap used = {}
  BY <1>1, <1>3, <1>4, <1>6 DEF Installing
<1>. HIDE DEF want
<1>9. /\ CanInit(Reserved)
      /\ attr' = [p \in Pages |-> IF p \in Reserved THEN want[p] ELSE attr[p]]
      /\ refs' = [p \in Pages |-> IF p \in Reserved THEN 1 ELSE refs[p]]
      /\ used' = used \cup Reserved
      /\ usingCount' \in [Zones -> Nat]
      /\ freeCount' \in [Zones -> Nat]
      /\ refTotal' \in [Zones -> Nat]
      /\ \A z \in Zones :
            /\ usingCount'[z] = Cardinality(ZonePages(z) \cap used')
            /\ freeCount'[z] = Cardinality(ZonePages(z) \ used')
            /\ refTotal'[z] = usingCount'[z]
  <2>1. /\ TypeOK /\ CountersAgree /\ Reserved \subseteq Pages
        /\ \A p \in Reserved : attr[p] = {}
        /\ \A z \in Zones : Reserved \cap ZonePages(z) \cap used = {}
    BY <1>3, <1>4, <1>7, <1>8
  <2>2. InitPages(Reserved, want)
    BY <1>1
  <2>3. CanInit(Reserved) /\ PagesTaken(Reserved, want)
    BY <2>1, <2>2, InitPagesEffect
  <2>. QED  BY <2>3 DEF PagesTaken, CountersFollow
<1>10. \A p \in Reserved : want[p] = ReserveFlags
  BY DEF want
<1>11. ReserveFlags \subseteq Flags /\ ReserveFlags # {} /\ "KERNEL_INIT" \in ReserveFlags
  BY DEF ReserveFlags, Flags
<1>12. phase' = "check"
  BY <1>1, <1>9
<1>13. TypeOK'
  <2>1. attr' \in [Pages -> SUBSET Flags] /\ refs' \in [Pages -> Nat]
    BY <1>3, <1>9, <1>10, <1>11 DEF TypeOK
  <2>. QED  BY <1>1, <1>2, <1>3, <1>4, <1>9, <1>12, <2>1 DEF TypeOK
<1>14. \A p \in Pages : /\ attr[p] = {} /\ refs[p] = 0
                        /\ p \in used <=> zoneOf[p] = 0
  BY <1>1, <1>3 DEF Installing
<1>15. held' = {} /\ reply' = NoReply
  BY <1>1, <1>3 DEF Installing
<1>16. Bookkeeping'
  <2>1. ASSUME NEW p \in Pages
        PROVE  /\ p \in used' <=> (zoneOf'[p] = 0 \/ attr'[p] # {})
               /\ refs'[p] = IF attr'[p] = {} THEN 0 ELSE 1
    BY <1>1, <1>9, <1>10, <1>11, <1>14
  <2>2. \A p \in Pages : \A z \in Zones : zoneOf'[p] = z <=> p \in ZonePages(z)
    BY <1>1, <1>5
  <2>. QED  BY <1>2, <1>9, <2>1, <2>2 DEF Bookkeeping
<1>17. OwnersMarked'
  BY <1>1, <1>2, <1>4, <1>9, <1>10, <1>11, <1>12, <1>15 DEF OwnersMarked, NoReply
<1>18. ExclusiveOwnership'
  <2>1. used' = {p \in Pages : zoneOf'[p] = 0} \cup Reserved
    BY <1>1, <1>3, <1>4, <1>9, <1>14 DEF TypeOK
  <2>. QED  BY <1>2, <1>15, <2>1 DEF ExclusiveOwnership
<1>. QED  BY <1>12, <1>13, <1>15, <1>16, <1>17, <1>18
       DEF IInv, Installing, PanicsOnlyOnOverlap, MappedRunsAddressable, CompleteSearch

\* What memory::init compares, and verify() after it, agrees once the pages are
\* reserved: each page in use has exactly one reference.
LEMMA AlwaysConsistent ==
    ASSUME IInv, Initialised, NEW z \in Zones
    PROVE  /\ Consistent(z) /\ References(z) = (ZonePages(z) \cap used) \X {1}
<1>0. TypeOK /\ Bookkeeping /\ Initialised
  BY DEF IInv
<1>1. /\ IsFiniteSet(ZonePages(z)) /\ ZonePages(z) \subseteq Pages /\ z # 0
  <2>1. layout \in Layouts
    BY <1>0 DEF TypeOK
  <2>2. z # 0
    BY DEF Zones
  <2>. QED  BY <2>1, <2>2, LayoutFacts
<1>2. \A p \in ZonePages(z) :
         /\ p \in used <=> attr[p] # {}
         /\ refs[p] = IF p \in used THEN 1 ELSE 0
  <2>1. ASSUME NEW p \in ZonePages(z)
        PROVE  /\ zoneOf[p] = z
               /\ p \in used <=> (zoneOf[p] = 0 \/ attr[p] # {})
               /\ refs[p] = IF attr[p] = {} THEN 0 ELSE 1
    BY <1>0, <1>1 DEF Bookkeeping
  <2>. QED  BY <1>1, <2>1
<1>3. /\ usingCount[z] = Cardinality(ZonePages(z) \cap used)
      /\ freeCount[z] = Cardinality(ZonePages(z) \ used)
      /\ refTotal[z] = usingCount[z]
  BY <1>0 DEF Bookkeeping
<1>4. usingCount[z] + freeCount[z] = Cardinality(ZonePages(z))
  <2>1. Cardinality(ZonePages(z) \ used)
          = Cardinality(ZonePages(z)) - Cardinality(ZonePages(z) \cap used)
    BY <1>1, FS_Difference
  <2>2. usingCount[z] \in Nat /\ freeCount[z] \in Nat /\ Cardinality(ZonePages(z)) \in Nat
    BY <1>0, <1>1, FS_CardinalityType DEF TypeOK
  <2>. QED  BY <1>3, <2>1, <2>2
<1>5. References(z) = (ZonePages(z) \cap used) \X {1}
  <2>1. \A p \in ZonePages(z) : \A k : k \in 1 .. refs[p] <=> (p \in used /\ k = 1)
    BY <1>2
  <2>2. \A e : e \in References(z) <=>
                 \E p \in ZonePages(z) : \E k \in 1 .. refs[p] : e = <<p, k>>
    <3>. TAKE e
    <3>1. e \in References(z) <=> \E p \in ZonePages(z) : e \in {p} \X (1 .. refs[p])
      BY DEF References
    <3>. QED  BY <3>1
  <2>3. \A e : e \in (ZonePages(z) \cap used) \X {1} <=>
                 \E p \in ZonePages(z) : p \in used /\ e = <<p, 1>>
    OBVIOUS
  <2>4. \A e : e \in References(z) <=> e \in (ZonePages(z) \cap used) \X {1}
    BY <2>1, <2>2, <2>3
  <2>. QED  BY <2>4
<1>6. Cardinality(References(z)) = Cardinality(ZonePages(z) \cap used)
  <2>. DEFINE A == ZonePages(z) \cap used
  <2>1. IsFiniteSet(A) /\ IsFiniteSet({1}) /\ Cardinality({1}) = 1
    BY <1>1, FS_Intersection, FS_Singleton
  <2>. HIDE DEF A
  <2>2. Cardinality(A \X {1}) = Cardinality(A) * 1 /\ Cardinality(A) \in Nat
    BY <2>1, FS_Product, FS_CardinalityType
  <2>3. Cardinality(A \X {1}) = Cardinality(A)
    BY <2>2
  <2>4. Cardinality(References(z)) = Cardinality(A \X {1})
    BY <1>5, Zenon DEF A
  <2>. QED  BY <2>3, <2>4 DEF A
<1>. QED  BY <1>2, <1>3, <1>4, <1>5, <1>6 DEF Consistent

\* The run-time check of memory::init can only succeed.
LEMMA CheckInvariantsStep == IInv /\ CheckInvariants => IInv'
<1>. SUFFICES ASSUME IInv, CheckInvariants PROVE IInv'
  OBVIOUS
<1>1. /\ phase = "check"
      /\ phase' = IF \A z \in Zones : Consistent(z) THEN "ready" ELSE "panic"
      /\ layout' = layout /\ zonesSize' = zonesSize /\ zoneOf' = zoneOf /\ used' = used
      /\ attr' = attr /\ refs' = refs /\ usingCount' = usingCount
      /\ freeCount' = freeCount /\ refTotal' = refTotal /\ held' = held /\ reply' = reply
  BY DEF CheckInvariants, Require, pageVars, zoneVars
<1>2. TypeOK /\ Bookkeeping /\ Initialised
  BY <1>1 DEF IInv, Initialised
<1>3. \A z \in Zones : Consistent(z)
  BY <1>2, AlwaysConsistent
<1>4. phase' = "ready"
  BY <1>1, <1>3
<1>5. /\ Pages' = Pages /\ Zones' = Zones /\ Reserved' = Reserved
      /\ \A y : ZonePages(y)' = ZonePages(y)
  BY <1>1, SameLayout
<1>6. \A r : RunPages(r)' = RunPages(r)
  BY DEF RunPages
<1>7. TypeOK'
  BY <1>1, <1>2, <1>4, <1>5 DEF TypeOK
<1>8. Bookkeeping'
  BY <1>1, <1>2, <1>4, <1>5 DEF Bookkeeping, Initialised
<1>9. OwnersMarked' /\ held' = {} /\ reply' = NoReply
  BY <1>1, <1>2, <1>4, <1>5 DEF IInv, OwnersMarked, Initialised
<1>10. ExclusiveOwnership'
  BY <1>1, <1>2, <1>4, <1>5, <1>6, <1>9 DEF IInv, ExclusiveOwnership, Initialised
<1>11. MappedRunsAddressable' /\ CompleteSearch'
  BY <1>9 DEF MappedRunsAddressable, CompleteSearch, NoReply
<1>. QED  BY <1>4, <1>7, <1>8, <1>9, <1>10, <1>11 DEF IInv, Installing, PanicsOnlyOnOverlap

\* A window lies inside its zone and is as large as the request.
LEMMA WindowFacts ==
    ASSUME TypeOK, NEW z \in Zones, NEW area, NEW count \in Nat, count > 0,
           NEW f \in Windows(z, area, count)
    PROVE  /\ f \in Nat
           /\ f .. f + count - 1 \subseteq ZonePages(z) \ used
           /\ Cardinality(f .. f + count - 1) = count
           /\ count <= Cardinality(ZonePages(z) \ used)
           /\ area = "Mapped" => f + count <= DirectEnd
<1>1. /\ layout.zones[z].start \in Nat /\ layout.zones[z].end \in Nat
      /\ IsFiniteSet(ZonePages(z))
  BY LayoutFacts DEF TypeOK
<1>2. /\ ScanEnd(z, area) \in Nat /\ ScanEnd(z, area) <= layout.zones[z].end
      /\ area = "Mapped" => ScanEnd(z, area) <= DirectEnd
  BY <1>1, BoundAssumption DEF ScanEnd
<1>3. /\ f \in Nat /\ layout.zones[z].start <= f /\ f + count <= ScanEnd(z, area)
      /\ \A p \in f .. f + count - 1 : p \notin used
  BY <1>1, <1>2 DEF Windows
<1>4. f .. f + count - 1 \subseteq ZonePages(z) \ used
  BY <1>1, <1>2, <1>3 DEF ZonePages
<1>5. Cardinality(f .. f + count - 1) = count
  <2>1. f \in Int /\ f + count - 1 \in Int /\ ~(f > f + count - 1)
        /\ (f + count - 1) - f + 1 = count
    BY <1>3
  <2>2. Cardinality(f .. f + count - 1)
          = IF f > f + count - 1 THEN 0 ELSE (f + count - 1) - f + 1
    BY <2>1, FS_Interval
  <2>. QED  BY <2>1, <2>2, Zenon
<1>6. count <= Cardinality(ZonePages(z) \ used)
  <2>1. IsFiniteSet(ZonePages(z) \ used)
    BY <1>1, FS_Difference
  <2>2. f .. f + count - 1 \in SUBSET (ZonePages(z) \ used)
    BY <1>4
  <2>. QED  BY <1>5, <2>1, <2>2, FS_Subset
<1>7. area = "Mapped" => f + count <= DirectEnd
  BY <1>2, <1>3, BoundAssumption
<1>. QED  BY <1>3, <1>4, <1>5, <1>6, <1>7

\* A failing allocate_pages changes only its reply, and the reply is true.
LEMMA AllocateFailsStep ==
    ASSUME IInv, NEW area \in Areas, NEW count \in Nat, AllocateFails(area, count)
    PROVE  IInv'
<1>1. /\ phase = "ready" /\ phase' = phase
      /\ layout' = layout /\ zonesSize' = zonesSize /\ zoneOf' = zoneOf /\ used' = used
      /\ attr' = attr /\ refs' = refs /\ usingCount' = usingCount
      /\ freeCount' = freeCount /\ refTotal' = refTotal /\ held' = held
  BY DEF AllocateFails, pageVars, zoneVars
<1>2. TypeOK /\ Bookkeeping /\ Initialised /\ OwnersMarked
  BY <1>1 DEF IInv, Initialised
<1>3. /\ Pages' = Pages /\ Zones' = Zones /\ Reserved' = Reserved
      /\ \A y : ZonePages(y)' = ZonePages(y)
  BY <1>1, SameLayout
<1>4. count \in Nat
  OBVIOUS
<1>5. TypeOK'
  <2>1. reply' \in Replies
    BY <1>4 DEF AllocateFails, Replies
  <2>. QED  BY <1>1, <1>2, <1>3, <2>1 DEF TypeOK
<1>6. /\ Installing' /\ PanicsOnlyOnOverlap' /\ Bookkeeping' /\ OwnersMarked'
  BY <1>1, <1>2, <1>3
     DEF IInv, Installing, PanicsOnlyOnOverlap, Bookkeeping, OwnersMarked,
         Initialised, RunPages
<1>7. ExclusiveOwnership' /\ MappedRunsAddressable'
  BY <1>1, <1>2, <1>3
     DEF IInv, ExclusiveOwnership, MappedRunsAddressable, Initialised, RunPages
<1>8. CompleteSearch'
  <2>. SUFFICES ASSUME reply'.result = "OutOfMemory", NEW z \in Zones
                PROVE  Windows(z, reply.area, reply.count)' = {}
    BY <1>3 DEF CompleteSearch
  <2>1. /\ count > 0 /\ Candidates(area, count) = {}
        /\ reply' = [area |-> area, count |-> count, result |-> "OutOfMemory"]
    BY DEF AllocateFails
  <2>2. Windows(z, area, count) = {}
    <3>. SUFFICES ASSUME NEW f \in Windows(z, area, count) PROVE FALSE
      OBVIOUS
    <3>1. z \in 1 .. zonesSize
      BY <1>2 DEF OwnersMarked, Zones
    <3>2. Skipped(z, area, count)
      BY <2>1, <3>1 DEF Candidates
    <3>3. count <= freeCount[z]
      <4>1. count <= Cardinality(ZonePages(z) \ used)
        BY <1>2, <1>4, <2>1, WindowFacts
      <4>2. freeCount[z] = Cardinality(ZonePages(z) \ used)
        BY <1>2 DEF Bookkeeping
      <4>. QED  BY <4>1, <4>2
    <3>4. freeCount[z] \in Nat /\ layout.zones[z].start \in Nat
          /\ layout.zones[z].end \in Nat
      BY <1>2, LayoutFacts DEF TypeOK
    <3>5. ScanEnd(z, area) \in Nat
      BY <3>4, BoundAssumption DEF ScanEnd
    <3>6. layout.zones[z].start + count <= ScanEnd(z, area)
      BY <1>4, <3>4, <3>5 DEF Windows
    <3>. QED  BY <1>4, <3>2, <3>3, <3>4, <3>5, <3>6 DEF Skipped
  <2>3. reply'.area = area /\ reply'.count = count
    BY <2>1
  <2>. QED  BY <1>1, <2>2, <2>3 DEF Windows, ScanEnd
<1>. QED  BY <1>5, <1>6, <1>7, <1>8 DEF IInv

\* A successful allocate_pages hands out pages nobody owns, moves the counters
\* with the bitmap and cannot fail the assert of init_page.
LEMMA AllocateSucceedsStep ==
    ASSUME IInv, NEW area \in Areas, NEW count \in Nat, AllocateSucceeds(area, count)
    PROVE  IInv'
<1>1. PICK z \in Candidates(area, count) : \E f \in Windows(z, area, count) :
        LET run == [area |-> area, first |-> f, count |-> count]
            S == RunPages(run)
        IN  /\ Require(CanInit(S), "ready")
            /\ InitPages(S, [p \in S |-> AllocFlags(p)])
            /\ held' = held \cup {run}
  BY DEF AllocateSucceeds
<1>2. PICK f \in Windows(z, area, count) :
        LET run == [area |-> area, first |-> f, count |-> count]
            S == RunPages(run)
        IN  /\ Require(CanInit(S), "ready")
            /\ InitPages(S, [p \in S |-> AllocFlags(p)])
            /\ held' = held \cup {run}
  BY <1>1
<1>. DEFINE run == [area |-> area, first |-> f, count |-> count]
            S == RunPages(run)
            want == [p \in S |-> AllocFlags(p)]
<1>3. /\ phase = "ready" /\ count > 0 /\ count \in Nat
      /\ phase' = IF CanInit(S) THEN "ready" ELSE "panic"
      /\ InitPages(S, want) /\ held' = held \cup {run}
      /\ reply' = [area |-> area, count |-> count, result |-> "Ok"]
      /\ layout' = layout /\ zonesSize' = zonesSize /\ zoneOf' = zoneOf
  BY <1>2, BoundAssumption DEF AllocateSucceeds, Require
<1>4. /\ TypeOK /\ Bookkeeping /\ Initialised /\ OwnersMarked
      /\ ExclusiveOwnership /\ MappedRunsAddressable /\ CountersAgree
  BY <1>3, AgreeWhenInitialised DEF IInv, Initialised
<1>5. /\ Pages' = Pages /\ Zones' = Zones /\ Reserved' = Reserved
      /\ \A y : ZonePages(y)' = ZonePages(y)
  BY <1>3, SameLayout
<1>6. z \in Zones
  BY <1>4 DEF Candidates, OwnersMarked, Zones
<1>7. /\ f \in Nat
      /\ f .. f + count - 1 \subseteq ZonePages(z) \ used
      /\ area = "Mapped" => f + count <= DirectEnd
  BY <1>3, <1>4, <1>6, WindowFacts
<1>8. S = f .. f + count - 1
  BY DEF RunPages
<1>9. /\ S \subseteq ZonePages(z) /\ S \cap used = {} /\ S \subseteq Pages
      /\ area = "Mapped" => \A p \in S : p < DirectEnd
  <2>1. ZonePages(z) \subseteq Pages
    BY <1>4, <1>6, LayoutFacts DEF TypeOK
  <2>. QED  BY <1>3, <1>7, <1>8, <2>1, BoundAssumption
<1>10. \A p \in S : attr[p] = {}
  BY <1>4, <1>9 DEF Bookkeeping
<1>11. run \in Runs /\ run.count > 0 /\ run.area = area
  BY <1>3, <1>7 DEF Runs
<1>12. \A r : RunPages(r)' = RunPages(r)
  BY DEF RunPages
<1>13. \A p \in S : want[p] = AllocFlags(p)
  OBVIOUS
<1>. HIDE DEF S, run, want
<1>14. CanInit(S) /\ PagesTaken(S, want)
  <2>1. /\ TypeOK /\ CountersAgree /\ S \subseteq Pages
        /\ \A p \in S : attr[p] = {}
        /\ \A y \in Zones : S \cap ZonePages(y) \cap used = {}
    BY <1>4, <1>9, <1>10
  <2>2. InitPages(S, want)
    BY <1>3
  <2>. QED  BY <2>1, <2>2, InitPagesEffect
<1>15. /\ attr' = [p \in Pages |-> IF p \in S THEN want[p] ELSE attr[p]]
       /\ refs' = [p \in Pages |-> IF p \in S THEN 1 ELSE refs[p]]
       /\ used' = used \cup S
       /\ CountersFollow
  BY <1>14 DEF PagesTaken
<1>16. phase' = "ready"
  BY <1>3, <1>14
<1>17. \A p \in S : /\ want[p] \in SUBSET Flags /\ want[p] # {}
                    /\ "KERNEL_INIT" \notin want[p]
                    /\ "PAGE_TABLE_MAPPED" \in want[p] <=> p < DirectEnd
  BY <1>13 DEF AllocFlags, Flags
<1>18. TypeOK'
  <2>1. attr' \in [Pages -> SUBSET Flags] /\ refs' \in [Pages -> Nat]
    BY <1>4, <1>15, <1>17 DEF TypeOK
  <2>2. reply' \in Replies /\ held' \in SUBSET Runs
    BY <1>3, <1>4, <1>11 DEF Replies, TypeOK
  <2>. QED  BY <1>3, <1>4, <1>5, <1>9, <1>15, <1>16, <2>1, <2>2 DEF TypeOK, CountersFollow
<1>19. Bookkeeping'
  <2>1. ASSUME NEW p \in Pages
        PROVE  /\ p \in used' <=> (zoneOf'[p] = 0 \/ attr'[p] # {})
               /\ refs'[p] = IF attr'[p] = {} THEN 0 ELSE 1
    BY <1>3, <1>4, <1>15, <1>17 DEF Bookkeeping
  <2>2. \A p \in Pages : \A y \in Zones : zoneOf'[p] = y <=> p \in ZonePages(y)
    BY <1>3, <1>4 DEF Bookkeeping
  <2>. QED  BY <1>5, <1>15, <2>1, <2>2 DEF Bookkeeping, CountersFollow
<1>20. S \cap Reserved = {} /\ \A r \in held : S \cap RunPages(r) = {}
  <2>1. Reserved \subseteq used /\ \A r \in held : RunPages(r) \subseteq used
    BY <1>4 DEF ExclusiveOwnership
  <2>. QED  BY <1>9, <2>1
<1>21. S = RunPages(run)
  BY DEF S
<1>22. Reserved \subseteq Pages
  BY <1>4, LayoutFacts DEF TypeOK
<1>23. \A r \in held : RunPages(r) \subseteq Pages
  BY <1>4 DEF ExclusiveOwnership, TypeOK
<1>24. OwnersMarked'
  <2>1. \A p \in Reserved : "KERNEL_INIT" \in attr'[p]
    BY <1>4, <1>15, <1>20, <1>22 DEF OwnersMarked
  <2>2. ASSUME NEW r \in held', NEW p \in RunPages(r)
        PROVE  "KERNEL_INIT" \notin attr'[p] /\ attr'[p] # {}
    <3>1. CASE r \in held
      BY <1>4, <1>15, <1>20, <1>23, <3>1 DEF OwnersMarked
    <3>2. CASE r = run
      BY <1>9, <1>15, <1>17, <1>21, <3>2
    <3>. QED  BY <1>3, <3>1, <3>2
  <2>. QED  BY <1>3, <1>4, <1>5, <1>12, <1>16, <2>1, <2>2 DEF OwnersMarked
<1>25. ExclusiveOwnership'
  <2>1. ASSUME NEW r \in held'
        PROVE  /\ r.count > 0
               /\ \E y \in Zones : RunPages(r) \subseteq ZonePages(y)
               /\ RunPages(r) \cap Reserved = {}
    <3>1. CASE r \in held
      BY <1>4, <3>1 DEF ExclusiveOwnership
    <3>2. CASE r = run
      BY <1>6, <1>9, <1>11, <1>20, <1>21, <3>2
    <3>. QED  BY <1>3, <3>1, <3>2
  <2>2. ASSUME NEW r \in held', NEW t \in held', r # t
        PROVE  RunPages(r) \cap RunPages(t) = {}
    <3>1. CASE r \in held /\ t \in held
      BY <1>4, <2>2, <3>1 DEF ExclusiveOwnership
    <3>2. CASE r = run /\ t \in held
      BY <1>20, <1>21, <3>2
    <3>3. CASE r \in held /\ t = run
      BY <1>20, <1>21, <3>3
    <3>. QED  BY <1>3, <2>2, <3>1, <3>2, <3>3
  <2>3. used' = {p \in Pages : zoneOf'[p] = 0} \cup Reserved
                   \cup UNION {RunPages(r) : r \in held'}
    <3>1. \A p : (\E r \in held' : p \in RunPages(r))
                   <=> (\E r \in held : p \in RunPages(r)) \/ p \in S
      BY <1>3, <1>21
    <3>2. \A p : p \in used <=> \/ p \in Pages /\ zoneOf[p] = 0
                               \/ p \in Reserved
                               \/ \E r \in held : p \in RunPages(r)
      BY <1>4 DEF ExclusiveOwnership
    <3>. QED  BY <1>3, <1>15, <3>1, <3>2
  <2>. QED  BY <1>5, <1>12, <2>1, <2>2, <2>3 DEF ExclusiveOwnership
<1>26. MappedRunsAddressable'
  <2>1. ASSUME NEW r \in held', NEW p \in RunPages(r)
        PROVE  /\ r.area = "Mapped" => p < DirectEnd
               /\ "PAGE_TABLE_MAPPED" \in attr'[p] <=> p < DirectEnd
    <3>1. CASE r \in held
      <4>1. p \in Pages /\ p \notin S
        BY <1>20, <1>23, <3>1
      <4>2. attr'[p] = attr[p]
        BY <1>15, <4>1
      <4>. QED  BY <1>4, <3>1, <4>2 DEF MappedRunsAddressable
    <3>2. CASE r = run
      BY <1>9, <1>11, <1>15, <1>17, <1>21, <3>2
    <3>. QED  BY <1>3, <3>1, <3>2
  <2>. QED  BY <1>12, <2>1 DEF MappedRunsAddressable
<1>27. CompleteSearch'
  BY <1>3 DEF CompleteSearch
<1>. QED  BY <1>16, <1>18, <1>19, <1>24, <1>25, <1>26, <1>27
       DEF IInv, Installing, PanicsOnlyOnOverlap

\* free_pages accepts an outstanding credential and undoes its allocation.
LEMMA ReleaseStep ==
    ASSUME IInv, NEW run \in held, Release(run)
    PROVE  IInv'
<1>. DEFINE S == RunPages(run)
<1>1. /\ phase = "ready"
      /\ phase' = IF Releasable(run) /\ CanClean(S) THEN "ready" ELSE "panic"
      /\ CleanPages(S) /\ held' = held \ {run} /\ reply' = NoReply
      /\ layout' = layout /\ zonesSize' = zonesSize /\ zoneOf' = zoneOf
  BY DEF Release, Require
<1>2. /\ TypeOK /\ Bookkeeping /\ Initialised /\ OwnersMarked
      /\ ExclusiveOwnership /\ MappedRunsAddressable /\ CountersAgree
  BY <1>1, AgreeWhenInitialised DEF IInv, Initialised
<1>3. /\ Pages' = Pages /\ Zones' = Zones /\ Reserved' = Reserved
      /\ \A y : ZonePages(y)' = ZonePages(y)
  BY <1>1, SameLayout
<1>4. \A r : RunPages(r)' = RunPages(r)
  BY DEF RunPages
<1>5. PICK z \in Zones : S \subseteq ZonePages(z)
  BY <1>2 DEF ExclusiveOwnership
<1>6. ZonePages(z) \subseteq Pages /\ z # 0
  <2>1. layout \in Layouts
    BY <1>2 DEF TypeOK
  <2>2. ZonePages(z) \subseteq Pages
    BY <1>5, <2>1, LayoutFacts
  <2>3. z # 0
    BY <1>5 DEF Zones
  <2>. QED  BY <2>2, <2>3
<1>7. \A r \in held : RunPages(r) \subseteq used /\ RunPages(r) \subseteq Pages
  BY <1>2 DEF ExclusiveOwnership, TypeOK
<1>8. \A p \in S : /\ zoneOf[p] = z /\ p \in used /\ attr[p] # {} /\ refs[p] = 1
                   /\ "KERNEL_INIT" \notin attr[p]
  <2>. TAKE p \in S
  <2>1. p \in Pages /\ p \in used /\ p \in ZonePages(z)
    BY <1>5, <1>6, <1>7
  <2>2. zoneOf[p] = z /\ refs[p] = IF attr[p] = {} THEN 0 ELSE 1
    BY <1>2, <2>1 DEF Bookkeeping
  <2>3. "KERNEL_INIT" \notin attr[p] /\ attr[p] # {}
    BY <1>2 DEF OwnersMarked
  <2>. QED  BY <2>1, <2>2, <2>3
<1>9. Releasable(run) /\ CanClean(S)
  <2>1. run.first \in Nat /\ run.count \in Nat /\ run.count > 0
    BY <1>2 DEF TypeOK, Runs, ExclusiveOwnership
  <2>2. run.first \in S /\ run.first + run.count - 1 \in S
    BY <2>1 DEF RunPages
  <2>3. run.first + run.count - 1 \in Pages
    BY <1>5, <1>6, <2>2
  <2>4. run.first + run.count <= layout.bits
    <3>1. layout.bits \in Nat
      BY <1>2, LayoutFacts DEF TypeOK
    <3>. QED  BY <2>1, <2>3, <3>1 DEF Pages
  <2>. QED  BY <1>6, <1>8, <2>1, <2>2, <2>4 DEF Releasable, CanClean
<1>10. phase' = "ready"
  BY <1>1, <1>9
<1>11. \A r \in held : r # run => RunPages(r) \cap S = {}
  BY <1>2 DEF ExclusiveOwnership
<1>12. S \cap Reserved = {}
  BY <1>2 DEF ExclusiveOwnership
<1>. HIDE DEF S
<1>13. PagesGiven(S)
  <2>1. S \subseteq used /\ \A p \in S : attr[p] # {} /\ refs[p] = 1
    BY <1>8
  <2>2. CleanPages(S)
    BY <1>1
  <2>. QED  BY <1>2, <2>1, <2>2, CleanPagesEffect
<1>14. /\ attr' = [p \in Pages |-> IF p \in S THEN {} ELSE attr[p]]
       /\ refs' = [p \in Pages |-> IF p \in S THEN 0 ELSE refs[p]]
       /\ used' = used \ S
       /\ CountersFollow
  BY <1>13 DEF PagesGiven
<1>15. TypeOK'
  <2>1. attr' \in [Pages -> SUBSET Flags] /\ refs' \in [Pages -> Nat]
    BY <1>2, <1>14 DEF TypeOK
  <2>2. reply' \in Replies /\ held' \in SUBSET Runs
    BY <1>1, <1>2 DEF Replies, NoReply, Areas, TypeOK
  <2>. QED  BY <1>1, <1>2, <1>3, <1>10, <1>14, <2>1, <2>2 DEF TypeOK, CountersFollow
<1>16. Bookkeeping'
  <2>1. ASSUME NEW p \in Pages
        PROVE  /\ p \in used' <=> (zoneOf'[p] = 0 \/ attr'[p] # {})
               /\ refs'[p] = IF attr'[p] = {} THEN 0 ELSE 1
    BY <1>1, <1>2, <1>6, <1>8, <1>14 DEF Bookkeeping
  <2>2. \A p \in Pages : \A y \in Zones : zoneOf'[p] = y <=> p \in ZonePages(y)
    BY <1>1, <1>2 DEF Bookkeeping
  <2>. QED  BY <1>3, <1>14, <2>1, <2>2 DEF Bookkeeping, CountersFollow
<1>17. \A r \in held' : r \in held /\ RunPages(r) \cap S = {}
  BY <1>1, <1>11
<1>18. \A r \in held' : \A p \in RunPages(r) : attr'[p] = attr[p]
  BY <1>7, <1>14, <1>17
<1>19. Reserved \subseteq Pages
  BY <1>2, LayoutFacts DEF TypeOK
<1>20. OwnersMarked'
  <2>1. \A p \in Reserved : "KERNEL_INIT" \in attr'[p]
    BY <1>2, <1>12, <1>14, <1>19 DEF OwnersMarked
  <2>2. \A r \in held' : \A p \in RunPages(r) :
           "KERNEL_INIT" \notin attr'[p] /\ attr'[p] # {}
    BY <1>2, <1>17, <1>18 DEF OwnersMarked
  <2>. QED  BY <1>1, <1>2, <1>3, <1>4, <1>10, <2>1, <2>2 DEF OwnersMarked
<1>21. ExclusiveOwnership'
  <2>1. \A r \in held' : /\ r.count > 0
                         /\ \E y \in Zones : RunPages(r) \subseteq ZonePages(y)
                         /\ RunPages(r) \cap Reserved = {}
    BY <1>2, <1>17 DEF ExclusiveOwnership
  <2>2. \A r, t \in held' : r # t => RunPages(r) \cap RunPages(t) = {}
    BY <1>2, <1>17 DEF ExclusiveOwnership
  <2>3. used' = {p \in Pages : zoneOf'[p] = 0} \cup Reserved
                   \cup UNION {RunPages(r) : r \in held'}
    <3>1. \A p : (\E r \in held' : p \in RunPages(r))
                   <=> (\E r \in held : p \in RunPages(r)) /\ p \notin S
      BY <1>1, <1>17 DEF S
    <3>2. \A p : p \in used <=> \/ p \in Pages /\ zoneOf[p] = 0
                               \/ p \in Reserved
                               \/ \E r \in held : p \in RunPages(r)
      BY <1>2 DEF ExclusiveOwnership
    <3>3. \A p \in S : zoneOf[p] # 0 /\ p \notin Reserved
      BY <1>6, <1>8, <1>12
    <3>4. \A p : p \in used' <=> p \in used /\ p \notin S
      BY <1>14
    <3>. QED  BY <1>1, <3>1, <3>2, <3>3, <3>4
  <2>. QED  BY <1>3, <1>4, <2>1, <2>2, <2>3 DEF ExclusiveOwnership
<1>22. MappedRunsAddressable'
  <2>1. \A r \in held' : \A p \in RunPages(r) :
           /\ r.area = "Mapped" => p < DirectEnd
           /\ "PAGE_TABLE_MAPPED" \in attr'[p] <=> p < DirectEnd
    BY <1>2, <1>17, <1>18 DEF MappedRunsAddressable
  <2>. QED  BY <1>4, <2>1 DEF MappedRunsAddressable
<1>23. CompleteSearch'
  BY <1>1 DEF CompleteSearch, NoReply
<1>. QED  BY <1>10, <1>15, <1>16, <1>20, <1>21, <1>22, <1>23
       DEF IInv, Installing, PanicsOnlyOnOverlap

\* A step that changes nothing keeps the invariant.
LEMMA StutterStep == IInv /\ UNCHANGED vars => IInv'
<1>. SUFFICES ASSUME IInv, UNCHANGED vars PROVE IInv'
  OBVIOUS
<1>1. /\ phase' = phase /\ layout' = layout /\ zonesSize' = zonesSize
      /\ zoneOf' = zoneOf /\ used' = used /\ attr' = attr /\ refs' = refs
      /\ usingCount' = usingCount /\ freeCount' = freeCount /\ refTotal' = refTotal
      /\ held' = held /\ reply' = reply
  BY DEF vars, pageVars, zoneVars
<1>2. /\ Pages' = Pages /\ Zones' = Zones /\ Reserved' = Reserved
      /\ \A y : ZonePages(y)' = ZonePages(y)
      /\ Overlapping' = Overlapping
  BY <1>1, SameLayout
<1>3. \A r : RunPages(r)' = RunPages(r)
  BY DEF RunPages
<1>4. TypeOK' /\ Installing' /\ PanicsOnlyOnOverlap' /\ Bookkeeping'
  BY <1>1, <1>2
     DEF IInv, TypeOK, Installing, PanicsOnlyOnOverlap, Bookkeeping, Initialised
<1>5. OwnersMarked' /\ ExclusiveOwnership' /\ MappedRunsAddressable'
  BY <1>1, <1>2, <1>3
     DEF IInv, OwnersMarked, ExclusiveOwnership, MappedRunsAddressable, Initialised
<1>6. CompleteSearch'
  BY <1>1, <1>2 DEF IInv, CompleteSearch, Windows, ScanEnd
<1>. QED  BY <1>4, <1>5, <1>6 DEF IInv

\* No operation on a page manager that is ready makes it panic: it has checked
\* that no zones overlap.
LEMMA ReadyStays ==
    ASSUME IInv, IInv', phase = "ready", phase' \in {"ready", "panic"}, layout' = layout
    PROVE  phase' = "ready"
<1>. SUFFICES ASSUME phase' = "panic" PROVE FALSE
  OBVIOUS
<1>1. PICK y \in Zones, z \in Zones : y # z /\ ZonePages(y) \cap ZonePages(z) # {}
  BY DEF IInv, PanicsOnlyOnOverlap, Overlapping, Zones, ZonePages
<1>2. PICK p : p \in ZonePages(y) /\ p \in ZonePages(z)
  BY <1>1
<1>3. p \in Pages
  BY <1>2, LayoutFacts DEF IInv, TypeOK
<1>4. zoneOf[p] = y /\ zoneOf[p] = z
  BY <1>2, <1>3 DEF IInv, Bookkeeping, Initialised
<1>. QED  BY <1>1, <1>4

\* Every step of the page manager keeps the invariant.
LEMMA NextIInv == IInv /\ [Next]_vars => IInv'
<1>. SUFFICES ASSUME IInv, [Next]_vars PROVE IInv'
  OBVIOUS
<1>1. CASE InstallZone
  BY <1>1, InstallZoneStep
<1>2. CASE ReservePages
  BY <1>2, ReservePagesStep
<1>3. CASE CheckInvariants
  BY <1>3, CheckInvariantsStep
<1>4. ASSUME NEW area \in Areas, NEW count \in Counts, AllocateFails(area, count)
      PROVE  IInv'
  BY <1>4, AllocateFailsStep, BoundAssumption
<1>5. ASSUME NEW area \in Areas, NEW count \in Counts, AllocateSucceeds(area, count)
      PROVE  IInv'
  BY <1>5, AllocateSucceedsStep, BoundAssumption
<1>6. ASSUME NEW run \in held, Release(run)
      PROVE  IInv'
  BY <1>6, ReleaseStep
<1>7. CASE UNCHANGED vars
  BY <1>7, StutterStep
<1>. QED  BY <1>1, <1>2, <1>3, <1>4, <1>5, <1>6, <1>7 DEF Next, Halted

\* The inductive invariant holds in every reachable state.
THEOREM Invariance == Spec => []IInv
BY InitIInv, NextIInv, PTL DEF Spec

-----------------------------------------------------------------------------
(***************************************************************************)
(* The results.                                                            *)
(***************************************************************************)
\* No counter of a Page or a Zone leaves its type: no subtraction in
\* init_page or clean_page wraps, for any memory map and any calls.
THEOREM TypeCorrect == Spec => []TypeOK
BY Invariance, PTL DEF IInv

\* Bitmap, descriptors and zone counters agree after every operation.
THEOREM BookkeepingHolds == Spec => []Bookkeeping
BY Invariance, PTL DEF IInv

\* Credentials are disjoint, spare the reserved pages and account for every
\* page in use.
THEOREM OwnershipHolds == Spec => []ExclusiveOwnership
BY Invariance, PTL DEF IInv

\* Only overlapping zones make memory::init or the allocator panic.
THEOREM NoOtherPanic == Spec => []PanicsOnlyOnOverlap
BY Invariance, PTL DEF IInv

\* The page manager never panics on a layout that the boot code accepted: no
\* assert of memory::init's metadata phase, of allocate or of release fails.
THEOREM NeverPanics ==
    (\A L \in Layouts : ZonesDisjoint(L)) => (Spec => []~(phase = "panic"))
<1>. SUFFICES ASSUME \A L \in Layouts : ZonesDisjoint(L)
              PROVE  Spec => []~(phase = "panic")
  OBVIOUS
<1>1. TypeOK => ~Overlapping
  <2>. SUFFICES ASSUME TypeOK, NEW y \in Zones, NEW z \in Zones, y # z
                PROVE  ZonePages(y) \cap ZonePages(z) = {}
    BY DEF Overlapping
  <2>1. layout \in Layouts
    BY DEF TypeOK
  <2>2. ZonesDisjoint(layout)
    BY <2>1
  <2>3. \/ layout.zones[y].end <= layout.zones[z].start
        \/ layout.zones[z].end <= layout.zones[y].start
    BY <2>2, Zenon DEF ZonesDisjoint, Zones
  <2>4. /\ layout.zones[y].start \in Nat /\ layout.zones[y].end \in Nat
        /\ layout.zones[z].start \in Nat /\ layout.zones[z].end \in Nat
    BY <2>1, LayoutFacts
  <2>. QED  BY <2>3, <2>4 DEF ZonePages
<1>2. TypeOK /\ PanicsOnlyOnOverlap => ~(phase = "panic")
  BY <1>1 DEF PanicsOnlyOnOverlap
<1>. QED  BY <1>2, TypeCorrect, NoOtherPanic, PTL

\* allocate reports OutOfMemory only when no zone has a large enough window.
THEOREM SearchIsComplete == Spec => []CompleteSearch
BY Invariance, PTL DEF IInv

\* A Mapped run lies in the direct map, and the attribute says so.
THEOREM MappedIsAddressable == Spec => []MappedRunsAddressable
BY Invariance, PTL DEF IInv

\* No operation changes the descriptor of a reserved page or of a page whose
\* credential stays outstanding.
THEOREM NoDisturbance == Spec => OthersUndisturbed
<1>. DEFINE Keeps(p) == /\ attr'[p] = attr[p]
                        /\ refs'[p] = refs[p]
                        /\ zoneOf'[p] = zoneOf[p]
                        /\ p \in used <=> p \in used'
            Owned(p) == p \in Reserved \/ \E r \in held \cap held' : p \in RunPages(r)
            Step == phase = "ready" => \A p \in Pages : Owned(p) => Keeps(p)
<1>1. ASSUME IInv, [Next]_vars PROVE Step
  <2>. SUFFICES ASSUME phase = "ready", NEW p \in Pages, Owned(p) PROVE Keeps(p)
    OBVIOUS
  <2>1. /\ TypeOK /\ Bookkeeping /\ ExclusiveOwnership /\ CountersAgree
        /\ OwnersMarked /\ Initialised
    BY <1>1, AgreeWhenInitialised DEF IInv, Initialised
  <2>2. p \in used
    BY <2>1 DEF ExclusiveOwnership
  <2>3. CASE zoneOf' = zoneOf /\ used' = used /\ attr' = attr /\ refs' = refs
    BY <2>3
  <2>4. ASSUME NEW area \in Areas, NEW count \in Counts, AllocateSucceeds(area, count)
        PROVE  Keeps(p)
    <3>1. PICK z \in Candidates(area, count) : \E f \in Windows(z, area, count) :
            LET run == [area |-> area, first |-> f, count |-> count]
                S == RunPages(run)
            IN  InitPages(S, [q \in S |-> AllocFlags(q)])
      BY <2>4 DEF AllocateSucceeds
    <3>2. PICK f \in Windows(z, area, count) :
            LET run == [area |-> area, first |-> f, count |-> count]
                S == RunPages(run)
            IN  InitPages(S, [q \in S |-> AllocFlags(q)])
      BY <3>1
    <3>. DEFINE S == RunPages([area |-> area, first |-> f, count |-> count])
    <3>3. count > 0 /\ count \in Nat /\ zoneOf' = zoneOf
      BY <2>4, BoundAssumption DEF AllocateSucceeds
    <3>4. z \in Zones
      BY <2>1 DEF Candidates, OwnersMarked, Zones
    <3>5. f .. f + count - 1 \subseteq ZonePages(z) \ used
      BY <2>1, <3>3, <3>4, WindowFacts
    <3>6. S = f .. f + count - 1
      BY DEF RunPages
    <3>7. p \notin S
      BY <2>2, <3>5, <3>6
    <3>8. /\ p \in used' <=> p \in used \/ p \in S
          /\ attr'[p] = attr[p] /\ refs'[p] = refs[p]
      <4>. HIDE DEF S
      <4>1. InitPages(S, [q \in S |-> AllocFlags(q)])
        BY <3>2 DEF S
      <4>2. p \notin Fresh(S) /\ p \notin Shared(S, [q \in S |-> AllocFlags(q)])
        BY <3>7 DEF Fresh, Shared
      <4>. QED  BY <3>7, <4>1, <4>2 DEF InitPages
    <3>. QED  BY <3>3, <3>7, <3>8
  <2>5. ASSUME NEW run \in held, Release(run)
        PROVE  Keeps(p)
    <3>1. held' = held \ {run} /\ CleanPages(RunPages(run)) /\ zoneOf' = zoneOf
      BY <2>5 DEF Release
    <3>2. p \notin RunPages(run)
      BY <2>1, <3>1 DEF ExclusiveOwnership
    <3>. QED  BY <3>1, <3>2 DEF CleanPages
  <2>6. CASE InstallZone \/ ReservePages \/ CheckInvariants \/ Halted
    BY <2>6 DEF InstallZone, ReservePages, CheckInvariants, Halted
  <2>7. ASSUME NEW area \in Areas, NEW count \in Counts, AllocateFails(area, count)
        PROVE  Keeps(p)
    BY <2>3, <2>7 DEF AllocateFails, pageVars
  <2>8. CASE UNCHANGED vars
    BY <2>3, <2>8 DEF vars, pageVars
  <2>. QED  BY <1>1, <2>4, <2>5, <2>6, <2>7, <2>8 DEF Next
<1>2. IInv /\ [Next]_vars => [Step]_vars
  BY <1>1
<1>3. Spec => [][Step]_vars
  BY <1>2, Invariance, PTL DEF Spec
<1>. QED  BY <1>3 DEF OthersUndisturbed

=============================================================================
