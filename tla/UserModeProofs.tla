--------------------------- MODULE UserModeProofs ----------------------------
(***************************************************************************)
(* Proofs about Tasks and UserMode, for every memory map and every user    *)
(* program.  Both use PageAllocator through allocate_pages and free_pages, *)
(* so its inductive invariant IInv holds of them as well.                  *)
(***************************************************************************)
EXTENDS UserMode, PageAllocatorProofs

-----------------------------------------------------------------------------
(***************************************************************************)
(* Where the two flows of Tasks stand.  The scheduler has no ready queue:  *)
(* that a switch finds its target Ready, that the frame popped is the one  *)
(* pushed last and that each flow finds its own values of progress and     *)
(* exit_code follows from the order of the labels alone, so the invariant  *)
(* goes through them.                                                      *)
(***************************************************************************)
Early == {"memory", "mapped", "physical", "write", "free physical", "free mapped", "adopt"}
FirstTurn == {"trampoline", "init", "yield"}
Between == {"resumed 1", "switch 2"}
Finished == {"resumed 2", "reclaim", "recycle", "compare", "return page", "user demo"}

\* RSP, the registers, CURRENT and TSS.RSP0 at a label of task t.
Executing(t, r) == on = t /\ regs = r /\ current = t /\ rsp0 = t /\ swap = NoSwap

\* What the two tasks look like to each other.
Task(t, s, f) == state[t] = s /\ saved[t] = f
Work(p, e) == progress = p /\ exitCode = e

\* switch_to has handed over from one task to the other, whose frame is popped
\* next.
Leaving(from, to, after) ==
    /\ on = from /\ regs = from /\ current = to /\ rsp0 = to
    /\ state[to] = "Running"
    /\ swap = [previous |-> from, next |-> to, after |-> after]

Frame(label, r) == [rip |-> label, regs |-> r]

Switched ==
    \/ /\ Leaving("boot", "child", "resumed 1")
       /\ state["boot"] = "Ready" /\ saved["child"] = Frame("trampoline", "zero") /\ Work(0, 0)
    \/ /\ Leaving("child", "boot", "init resumed")
       /\ state["child"] = "Ready" /\ saved["boot"] = Frame("resumed 1", "boot") /\ Work(1, 0)
    \/ /\ Leaving("boot", "child", "resumed 2")
       /\ state["boot"] = "Ready" /\ saved["child"] = Frame("init resumed", "child") /\ Work(1, 0)
    \/ /\ Leaving("child", "boot", "dead")
       /\ state["child"] = "Zombie" /\ saved["boot"] = Frame("resumed 2", "boot") /\ Work(2, 1)

Flows ==
    /\ rip \in Early =>
          /\ on = "boot" /\ regs = "boot" /\ current = "none" /\ rsp0 = "boot"
          /\ swap = NoSwap /\ saved["child"].rip = "none" /\ Work(0, 0)
    /\ rip \in {"create", "fill"} =>
          /\ Executing("boot", "boot") /\ state["boot"] = "Running"
          /\ saved["child"].rip = "none" /\ Work(0, 0)
    /\ rip = "switch 1" =>
          /\ Executing("boot", "boot") /\ state["boot"] = "Running"
          /\ Task("child", "Ready", Frame("trampoline", "zero")) /\ Work(0, 0)
    /\ rip = "swap" => Switched
    /\ rip \in FirstTurn =>
          /\ Executing("child", IF rip = "trampoline" THEN "zero" ELSE "child")
          /\ state["child"] = "Running" /\ Task("boot", "Ready", Frame("resumed 1", "boot"))
          /\ Work(IF rip = "yield" THEN 1 ELSE 0, 0)
    /\ rip \in Between =>
          /\ Executing("boot", "boot") /\ state["boot"] = "Running"
          /\ Task("child", "Ready", Frame("init resumed", "child")) /\ Work(1, 0)
    /\ rip = "init resumed" =>
          /\ Executing("child", "child") /\ state["child"] = "Running"
          /\ Task("boot", "Ready", Frame("resumed 2", "boot")) /\ Work(1, 0)
    /\ rip = "exit" =>
          /\ Executing("child", "child") /\ state["child"] = "Zombie"
          /\ Task("boot", "Ready", Frame("resumed 2", "boot")) /\ Work(2, 1)
    /\ rip \in Finished =>
          /\ Executing("boot", "boot") /\ state["boot"] = "Running"
          /\ state["child"] = "Zombie" /\ Work(2, 1)
    /\ rip # "dead"

FlowTypes ==
    /\ saved \in [Tasks -> Frames]
    /\ state \in [Tasks -> {"Ready", "Running", "Zombie"}]
    /\ cred \in [Owners -> Runs]
    /\ rip # "memory" => phase = "ready"

-----------------------------------------------------------------------------
(***************************************************************************)
(* Who holds what.  FirstPage names the page that a request for one mapped *)
(* page returns when nothing is handed out: a function of the memory map   *)
(* alone, whatever was allocated and freed before.                         *)
(***************************************************************************)
BootUsed == {p \in Pages : zoneOf[p] = 0} \cup Reserved
BootWindows(z) ==
    {f \in layout.zones[z].start .. ScanEnd(z, "Mapped") - 1 :
        \A p \in f .. f + 1 - 1 : p \notin BootUsed}
BootCandidates ==
    {z \in 1 .. zonesSize :
        /\ ~ \/ layout.zones[z].start + 1 > ScanEnd(z, "Mapped")
             \/ 1 > Cardinality(ZonePages(z) \ BootUsed)
        /\ BootWindows(z) # {}}
FirstPage(f) == \E z \in BootCandidates : First(z, BootCandidates) /\ First(f, BootWindows(z))

\* The labels between the allocation and the release of the thread's page.
ThreadLives == {"fill", "switch 1", "swap", "reclaim", "init resumed", "exit"}
                 \cup FirstTurn \cup Between \cup {"resumed 2"}

\* The labels between the allocation and the release of the user page.
UserOwns == {"load", "map", "arm", "enter", "ring3", "dispatch", "sysexit", "user return",
             "returned", "unmap", "flush", "user free"}

Holdings ==
    /\ rip \in {"memory", "mapped", "adopt", "create", "recycle", "user demo",
                "user page", "keyboard"} => held = {}
    /\ rip \in {"physical", "free mapped"} => held = {cred["mapped"]}
    /\ rip \in {"write", "free physical"} =>
          /\ held = {cred["mapped"], cred["physical"]}
          /\ cred["mapped"].first # cred["physical"].first
    /\ rip \in ThreadLives => held = {cred["thread"]} /\ FirstPage(cred["thread"].first)
    /\ rip \in {"recycle", "compare"} => FirstPage(physical)
    /\ rip = "compare" => FirstPage(cred["recycled"].first)
    /\ rip \in {"compare", "return page"} => held = {cred["recycled"]}
    /\ rip \in UserOwns => held = {cred["user"]}

TaskInv == FlowTypes /\ Flows /\ Holdings

\* In Tasks alone, where a failed expect leaves the boot task on its stack.
OutOfPages ==
    rip = "nomem" =>
        /\ on = "boot" /\ rsp0 = "boot" /\ current # "child"
        /\ saved["child"].rip = "none" \/ state["child"] = "Zombie"

-----------------------------------------------------------------------------
(***************************************************************************)
(* The user mode demonstration.                                            *)
(***************************************************************************)
Unentered == {"user page", "load", "map", "arm", "enter"}
Inside == {"ring3", "dispatch", "sysexit", "user return"}
After == {"returned", "unmap", "flush", "user free", "keyboard"}

\* The page is mapped, its contents are the program's, and nothing else is.
MappedAlone ==
    /\ root = "user" /\ pt = UserPage /\ pt \notin dirty
    /\ cred["user"] \in held /\ tlb \subseteq {UserPage}
Unmapped == root = "none" /\ tlb = {}

Mapping ==
    /\ rip \in UserLabels
    /\ rip \in (Labels \ {"memory", "assert"}) \cup {"cpu", "user page", "load", "map",
               "user free", "keyboard"} => Unmapped
    /\ rip = "map" => UserPage \notin dirty
    /\ rip \in {"arm", "enter", "returned", "unmap", "rejected", "exception"} \cup Inside => MappedAlone
    /\ rip = "flush" => root = "none" /\ cred["user"] \in held /\ tlb \subseteq {UserPage}
    /\ rip = "assert" => Unmapped \/ MappedAlone

\* Every entry leads to the return stack.
Armed ==
    /\ rsp0 = "return" /\ oldStack = "boot" /\ active
    /\ sysenter = [cs |-> 8, esp |-> "return"] /\ gate = "user_return_entry"
Disarmed == ~active /\ sysenter = NoSysenter /\ gate = "fatal" /\ rsp0 = "boot"

Entries ==
    /\ rip \in Labels \ {"assert"} => ~active /\ sysenter = NoSysenter /\ gate = "fatal" /\ cpl = 0
    /\ rip \in Unentered => cpl = 0 /\ on = "boot" /\ regs = "boot"
    /\ rip \in Unentered \ {"enter"} => Disarmed
    /\ rip \in {"enter", "returned"} \cup Inside => Armed
    /\ rip = "ring3" => cpl = 3 /\ on = "user" /\ regs \in {"zero", "user"}
    /\ rip \in Inside => suspended = Frame("returned", "boot")
    /\ rip \in {"dispatch", "sysexit", "user return"} => on = "return" /\ regs = "user"
    /\ rip \in After => cpl = 0 /\ on = "boot" /\ regs = "boot"
    /\ rip \in After \ {"returned"} => Disarmed
    /\ cpl \in {0, 3} /\ (cpl = 3 <=> rip = "ring3")

\* The request under way is the instruction at ip, and its answer is the one
\* of the contract.
Answers ==
    /\ program \in Programs /\ ip \in 1 .. Len(program)
    /\ rip \in {"dispatch", "sysexit"} => Insn.op = "request"
    /\ ServiceContract

-----------------------------------------------------------------------------
(***************************************************************************)
(* What a caller sees of the page manager.                                 *)
(***************************************************************************)
Steady ==
    layout' = layout /\ zoneOf' = zoneOf /\ zonesSize' = zonesSize /\ phase' = "ready"

\* The state after boot, in which nothing is handed out, determines the page a
\* request for one mapped page returns.
LEMMA FirstFitWhenIdle ==
    ASSUME IInv, phase = "ready", held = {}
    PROVE  /\ Candidates("Mapped", 1) = BootCandidates
           /\ \A z : Windows(z, "Mapped", 1) = BootWindows(z)
<1>1. used = BootUsed
  <2>1. UNION {RunPages(r) : r \in held} = {}
    OBVIOUS
  <2>. QED  BY <2>1 DEF IInv, ExclusiveOwnership, Initialised, BootUsed
<1>2. \A z : Windows(z, "Mapped", 1) = BootWindows(z)
  BY <1>1 DEF Windows, BootWindows
<1>3. \A z \in 1 .. zonesSize : freeCount[z] = Cardinality(ZonePages(z) \ BootUsed)
  BY <1>1 DEF IInv, OwnersMarked, Bookkeeping, Initialised, Zones
<1>4. \A z \in 1 .. zonesSize :
          Skipped(z, "Mapped", 1) <=> \/ layout.zones[z].start + 1 > ScanEnd(z, "Mapped")
                                      \/ 1 > Cardinality(ZonePages(z) \ BootUsed)
  BY <1>3 DEF Skipped
<1>. QED  BY <1>2, <1>4 DEF Candidates, BootCandidates

\* There is one such page at most.
LEMMA OneFirstPage ==
    ASSUME IInv, phase = "ready", NEW f, NEW g, FirstPage(f), FirstPage(g)
    PROVE  f = g
<1>1. PICK y \in BootCandidates : First(y, BootCandidates) /\ First(f, BootWindows(y))
  BY DEF FirstPage
<1>2. PICK z \in BootCandidates : First(z, BootCandidates) /\ First(g, BootWindows(z))
  BY DEF FirstPage
<1>3. zonesSize \in Nat /\ BootCandidates \subseteq Int
  BY LayoutFacts DEF IInv, TypeOK, BootCandidates
<1>4. y = z
  BY <1>1, <1>2, <1>3 DEF First
<1>5. f \in Int /\ g \in Int
  BY <1>1, <1>2 DEF First, BootWindows
<1>. QED  BY <1>1, <1>2, <1>4, <1>5 DEF First

\* It does not change once the memory map is installed.
LEMMA FirstPageKept ==
    ASSUME layout' = layout, zoneOf' = zoneOf, zonesSize' = zonesSize
    PROVE  BootCandidates' = BootCandidates /\ \A z : BootWindows(z)' = BootWindows(z)
<1>1. BootUsed' = BootUsed
  BY DEF BootUsed, Pages, Reserved
<1>2. \A z : BootWindows(z)' = BootWindows(z)
  BY <1>1 DEF BootWindows, ScanEnd
<1>. QED  BY <1>1, <1>2 DEF BootCandidates, ScanEnd, ZonePages

\* allocate_pages(area, 1).expect(...): the caller has a run that nobody held,
\* or the kernel stops.
LEMMA ObtainEffect ==
    ASSUME IInv, phase = "ready",
           NEW owner \in Owners, NEW area \in Areas, NEW label,
           Obtain(owner, area, label)
    PROVE  /\ [Next]_vars /\ IInv' /\ Steady
           /\ \/ rip' = "nomem" /\ held' = held /\ cred' = cred
              \/ /\ rip' = label
                 /\ \E run \in Runs :
                       /\ run \notin held /\ held' = held \cup {run}
                       /\ cred' = [cred EXCEPT ![owner] = run]
                       /\ area = "Mapped" /\ held = {} => FirstPage(run.first)
<1>1. CASE AllocateFails(area, 1) /\ UNCHANGED cred /\ rip' = "nomem"
  <2>1. Next
    BY <1>1, TaskAssumption DEF Next
  <2>2. IInv'
    BY <2>1, NextIInv
  <2>. QED  BY <1>1, <2>1, <2>2 DEF AllocateFails, pageVars, zoneVars, Steady
<1>2. CASE /\ AllocateSucceeds(area, 1)
           /\ \E run \in held' \ held : cred' = [cred EXCEPT ![owner] = run]
           /\ rip' = label
  <2>1. Next
    BY <1>2, TaskAssumption DEF Next
  <2>2. IInv'
    BY <2>1, NextIInv
  <2>3. PICK z \in Candidates(area, 1) : \E f \in Windows(z, area, 1) :
            /\ First(z, Candidates(area, 1)) /\ First(f, Windows(z, area, 1))
            /\ phase' \in {"ready", "panic"}
            /\ held' = held \cup {[area |-> area, first |-> f, count |-> 1]}
    BY <1>2 DEF AllocateSucceeds, Require
  <2>4. PICK f \in Windows(z, area, 1) :
            /\ First(z, Candidates(area, 1)) /\ First(f, Windows(z, area, 1))
            /\ phase' \in {"ready", "panic"}
            /\ held' = held \cup {[area |-> area, first |-> f, count |-> 1]}
    BY <2>3
  <2>5. layout' = layout /\ zoneOf' = zoneOf /\ zonesSize' = zonesSize
    BY <1>2 DEF AllocateSucceeds
  <2>6. Steady
    BY <2>2, <2>4, <2>5, ReadyStays DEF Steady
  <2>7. PICK run \in held' \ held : cred' = [cred EXCEPT ![owner] = run]
    BY <1>2
  <2>8. run = [area |-> area, first |-> f, count |-> 1]
    BY <2>4, <2>7
  <2>9. run \in Runs
    BY <2>2, <2>7 DEF IInv, TypeOK
  <2>10. area = "Mapped" /\ held = {} => FirstPage(run.first)
    BY <2>4, <2>8, FirstFitWhenIdle DEF FirstPage
  <2>. QED  BY <1>2, <2>1, <2>2, <2>4, <2>6, <2>7, <2>8, <2>9, <2>10
<1>. QED  BY <1>1, <1>2 DEF Obtain

\* free_pages(run) takes back exactly that run.
LEMMA GiveBackEffect ==
    ASSUME IInv, NEW owner \in Owners, NEW label, GiveBack(owner, label)
    PROVE  /\ [Next]_vars /\ IInv' /\ Steady
           /\ held' = held \ {cred[owner]}
           /\ cred' = [cred EXCEPT ![owner] = NoRun]
           /\ rip' = label
<1>1. /\ Release(cred[owner]) /\ cred[owner] \in held /\ phase = "ready"
      /\ layout' = layout /\ zoneOf' = zoneOf /\ zonesSize' = zonesSize
      /\ phase' \in {"ready", "panic"} /\ held' = held \ {cred[owner]}
  BY DEF GiveBack, Release, Require
<1>2. Next
  BY <1>1 DEF Next
<1>3. IInv'
  BY <1>2, NextIInv
<1>4. Steady
  BY <1>1, <1>3, ReadyStays DEF Steady
<1>. QED  BY <1>1, <1>2, <1>3, <1>4 DEF GiveBack

\* Two runs that are held after a call have different first pages.
LEMMA RunsApart ==
    ASSUME IInv', phase' = "ready", NEW r, NEW s, r \in held', s \in held', r # s
    PROVE  r.first # s.first
<1>1. r \in Runs /\ s \in Runs
  BY DEF IInv, TypeOK, Runs
<1>2. r.count > 0 /\ s.count > 0 /\ RunPages(r) \cap RunPages(s) = {}
  BY DEF IInv, ExclusiveOwnership, Initialised, RunPages
<1>3. r.first \in RunPages(r) /\ s.first \in RunPages(s)
  BY <1>1, <1>2 DEF RunPages, Runs
<1>. QED  BY <1>2, <1>3

-----------------------------------------------------------------------------
(***************************************************************************)
(* Every step of the two flows.                                            *)
(***************************************************************************)
\* What a step achieves: no assert fails, the invariant is kept, and the step
\* is one of PageAllocator or leaves it alone.
Achieved ==
    /\ [Next]_vars /\ IInv' /\ TaskInv'
    /\ rip' \in Labels \ {"assert"} /\ OutOfPages'

LEMMA InitMemoryStep == IInv /\ TaskInv /\ InitMemory => Achieved
<1>. SUFFICES ASSUME IInv, TaskInv, InitMemory PROVE Achieved
  OBVIOUS
<1>. USE DEF TaskInv, InitMemory
<1>1. Next /\ held' = held
  BY DEF Next, InstallZone, ReservePages, CheckInvariants
<1>2. IInv'
  BY <1>1, NextIInv
<1>3. FlowTypes'
  BY DEF FlowTypes, taskVars, ownerVars
<1>4. Flows'
  BY DEF Flows, Early, FirstTurn, Between, Finished, Work, taskVars
<1>5. Holdings'
  BY <1>1 DEF Holdings, ThreadLives, UserOwns, FirstTurn, Between
<1>. QED
  BY <1>1, <1>2, <1>3, <1>4, <1>5
  DEF Achieved, OutOfPages, Labels, BootLabels, ChildLabels, Stops

LEMMA WriteMappedStep == IInv /\ TaskInv /\ WriteMapped => Achieved
<1>. SUFFICES ASSUME IInv, TaskInv, WriteMapped PROVE Achieved
  OBVIOUS
<1>. USE DEF TaskInv, WriteMapped, Check
<1>1. [Next]_vars /\ IInv' /\ vars' = vars
  BY StutterStep
<1>2. rip' = "free physical"
  BY DEF Holdings
<1>3. FlowTypes'
  BY <1>1, <1>2 DEF FlowTypes, taskVars, vars
<1>4. Flows'
  BY <1>2 DEF Flows, Early, FirstTurn, Between, Finished, Work, taskVars
<1>5. Holdings'
  BY <1>1, <1>2 DEF Holdings, ThreadLives, UserOwns, FirstTurn, Between, vars
<1>. QED
  BY <1>1, <1>2, <1>3, <1>4, <1>5
  DEF Achieved, OutOfPages, Labels, BootLabels, ChildLabels, Stops

LEMMA AllocateBothStep == IInv /\ TaskInv /\ AllocateBoth => Achieved
<1>. SUFFICES ASSUME IInv, TaskInv, AllocateBoth PROVE Achieved
  OBVIOUS
<1>. USE DEF TaskInv
<1>1. phase = "ready"
  BY DEF AllocateBoth, FlowTypes
<1>2. CASE rip = "mapped" /\ Obtain("mapped", "Mapped", "physical")
  <2>1. /\ [Next]_vars /\ IInv' /\ Steady
        /\ \/ rip' = "nomem" /\ held' = held /\ cred' = cred
           \/ /\ rip' = "physical"
              /\ \E run \in Runs : /\ run \notin held /\ held' = held \cup {run}
                                   /\ cred' = [cred EXCEPT !["mapped"] = run]
    BY <1>1, <1>2, ObtainEffect DEF Owners, Areas
  <2>2. FlowTypes'
    BY <1>2, <2>1 DEF AllocateBoth, FlowTypes, Steady, taskVars
  <2>3. Flows'
    BY <1>2, <2>1
    DEF AllocateBoth, Flows, Early, FirstTurn, Between, Finished, Work, taskVars
  <2>4. Holdings'
    BY <1>2, <2>1
    DEF AllocateBoth, Holdings, ThreadLives, UserOwns, FirstTurn, Between, FlowTypes,
        Owners
  <2>5. OutOfPages'
    BY <1>2, <2>1 DEF AllocateBoth, OutOfPages, Flows, Early, taskVars
  <2>. QED
    BY <2>1, <2>2, <2>3, <2>4, <2>5 DEF Achieved, Labels, BootLabels, ChildLabels, Stops
<1>3. CASE rip = "physical" /\ Obtain("physical", "Any", "write")
  <2>1. /\ [Next]_vars /\ IInv' /\ Steady
        /\ \/ rip' = "nomem" /\ held' = held /\ cred' = cred
           \/ /\ rip' = "write"
              /\ \E run \in Runs : /\ run \notin held /\ held' = held \cup {run}
                                   /\ cred' = [cred EXCEPT !["physical"] = run]
    BY <1>1, <1>3, ObtainEffect DEF Owners, Areas
  <2>2. FlowTypes'
    BY <1>3, <2>1 DEF AllocateBoth, FlowTypes, Steady, taskVars
  <2>3. Flows'
    BY <1>3, <2>1
    DEF AllocateBoth, Flows, Early, FirstTurn, Between, Finished, Work, taskVars
  <2>4. rip' = "write" => /\ held' = {cred'["mapped"], cred'["physical"]}
                          /\ cred'["mapped"] # cred'["physical"]
    BY <1>3, <2>1 DEF Holdings, FlowTypes, Owners
  <2>5. rip' = "write" => cred'["mapped"].first # cred'["physical"].first
    BY <2>1, <2>4, RunsApart DEF Steady
  <2>6. Holdings'
    BY <2>1, <2>4, <2>5 DEF Holdings, ThreadLives, UserOwns, FirstTurn, Between
  <2>7. OutOfPages'
    BY <1>3, <2>1 DEF AllocateBoth, OutOfPages, Flows, Early, taskVars
  <2>. QED
    BY <2>1, <2>2, <2>3, <2>6, <2>7 DEF Achieved, Labels, BootLabels, ChildLabels, Stops
<1>. QED  BY <1>2, <1>3 DEF AllocateBoth

LEMMA FreeBothStep == IInv /\ TaskInv /\ FreeBoth => Achieved
<1>. SUFFICES ASSUME IInv, TaskInv, FreeBoth PROVE Achieved
  OBVIOUS
<1>. USE DEF TaskInv
<1>1. CASE rip = "free physical" /\ GiveBack("physical", "free mapped")
  <2>1. /\ [Next]_vars /\ IInv' /\ Steady
        /\ held' = held \ {cred["physical"]}
        /\ cred' = [cred EXCEPT !["physical"] = NoRun]
        /\ rip' = "free mapped"
    BY <1>1, GiveBackEffect DEF Owners
  <2>2. FlowTypes'
    BY <1>1, <2>1 DEF FreeBoth, FlowTypes, Steady, taskVars, Runs, Areas, NoRun
  <2>3. Flows'
    BY <1>1, <2>1
    DEF FreeBoth, Flows, Early, FirstTurn, Between, Finished, Work, taskVars
  <2>4. Holdings'
    BY <1>1, <2>1 DEF Holdings, ThreadLives, UserOwns, FirstTurn, Between, FlowTypes,
                      Owners
  <2>. QED
    BY <2>1, <2>2, <2>3, <2>4 DEF Achieved, OutOfPages, Labels, BootLabels, ChildLabels,
                                  Stops
<1>2. CASE rip = "free mapped" /\ GiveBack("mapped", "adopt")
  <2>1. /\ [Next]_vars /\ IInv' /\ Steady
        /\ held' = held \ {cred["mapped"]}
        /\ cred' = [cred EXCEPT !["mapped"] = NoRun]
        /\ rip' = "adopt"
    BY <1>2, GiveBackEffect DEF Owners
  <2>2. FlowTypes'
    BY <1>2, <2>1 DEF FreeBoth, FlowTypes, Steady, taskVars, Runs, Areas, NoRun
  <2>3. Flows'
    BY <1>2, <2>1
    DEF FreeBoth, Flows, Early, FirstTurn, Between, Finished, Work, taskVars
  <2>4. Holdings'
    BY <1>2, <2>1 DEF Holdings, ThreadLives, UserOwns, FirstTurn, Between
  <2>. QED
    BY <2>1, <2>2, <2>3, <2>4 DEF Achieved, OutOfPages, Labels, BootLabels, ChildLabels,
                                  Stops
<1>. QED  BY <1>1, <1>2 DEF FreeBoth

LEMMA AdoptStep == IInv /\ TaskInv /\ Adopt => Achieved
<1>. SUFFICES ASSUME IInv, TaskInv, Adopt PROVE Achieved
  OBVIOUS
<1>. USE DEF TaskInv, Adopt, Check
<1>1. [Next]_vars /\ IInv' /\ vars' = vars
  BY StutterStep
<1>2. rip' = "create"
  BY DEF Flows, Early
<1>3. FlowTypes'
  BY <1>1, <1>2 DEF FlowTypes, ownerVars, vars, Tasks
<1>4. Flows'
  BY <1>2
  DEF Flows, Early, FirstTurn, Between, Finished, Work, Executing, FlowTypes, Tasks
<1>5. Holdings'
  BY <1>1, <1>2 DEF Holdings, ThreadLives, UserOwns, FirstTurn, Between, vars
<1>. QED
  BY <1>1, <1>2, <1>3, <1>4, <1>5
  DEF Achieved, OutOfPages, Labels, BootLabels, ChildLabels, Stops

LEMMA CreateThreadStep == IInv /\ TaskInv /\ CreateThread => Achieved
<1>. SUFFICES ASSUME IInv, TaskInv, CreateThread PROVE Achieved
  OBVIOUS
<1>. USE DEF TaskInv, CreateThread
<1>1. phase = "ready" /\ held = {}
  BY DEF FlowTypes, Holdings
<1>2. /\ [Next]_vars /\ IInv' /\ Steady
      /\ \/ rip' = "nomem" /\ held' = held /\ cred' = cred
         \/ /\ rip' = "fill"
            /\ \E run \in Runs : /\ run \notin held /\ held' = held \cup {run}
                                 /\ cred' = [cred EXCEPT !["thread"] = run]
                                 /\ FirstPage(run.first)
  BY <1>1, ObtainEffect DEF Owners, Areas
<1>3. FlowTypes'
  BY <1>2 DEF FlowTypes, Steady, taskVars
<1>4. Flows'
  BY <1>2
  DEF Flows, Early, FirstTurn, Between, Finished, Work, Executing, taskVars
<1>5. rip' = "fill" => held' = {cred'["thread"]} /\ FirstPage(cred'["thread"].first)
  BY <1>1, <1>2 DEF FlowTypes, Owners
<1>6. Holdings'
  BY <1>1, <1>2, <1>5, FirstPageKept
  DEF Holdings, ThreadLives, UserOwns, FirstTurn, Between, FirstPage, Steady
<1>7. OutOfPages'
  BY DEF OutOfPages, Flows, Executing, taskVars
<1>. QED
  BY <1>2, <1>3, <1>4, <1>6, <1>7 DEF Achieved, Labels, BootLabels, ChildLabels, Stops

LEMMA FillThreadStep == IInv /\ TaskInv /\ FillThread => Achieved
<1>. SUFFICES ASSUME IInv, TaskInv, FillThread PROVE Achieved
  OBVIOUS
<1>. USE DEF TaskInv, FillThread
<1>1. [Next]_vars /\ IInv' /\ vars' = vars
  BY StutterStep
<1>2. layout' = layout /\ zoneOf' = zoneOf /\ zonesSize' = zonesSize
  BY DEF vars, pageVars, zoneVars
<1>3. FlowTypes'
  BY <1>1
  DEF FlowTypes, vars, Tasks, Frames, Labels, BootLabels, ChildLabels, Stops
<1>4. Flows'
  BY DEF Flows, Early, FirstTurn, Between, Finished, Work, Executing, Task, Frame,
         FlowTypes, Tasks
<1>5. Holdings'
  BY <1>1, <1>2, FirstPageKept
  DEF Holdings, ThreadLives, UserOwns, FirstTurn, Between, FirstPage, vars
<1>. QED
  BY <1>1, <1>3, <1>4, <1>5
  DEF Achieved, OutOfPages, Labels, BootLabels, ChildLabels, Stops

\* switch_to changes neither the page records nor who holds a page.
LEMMA HandoverEffect ==
    ASSUME IInv, FlowTypes, NEW previous \in Tasks, NEW next \in Tasks, NEW after,
           Handover(previous, next, after),
           previous = current, previous # next, state[next] = "Ready",
           state[previous] \in {"Running", "Zombie"}, rip # "memory"
    PROVE  /\ [Next]_vars /\ IInv' /\ FlowTypes' /\ Steady /\ held' = held /\ rip' = "swap"
           /\ on' = on /\ regs' = regs /\ current' = next /\ rsp0' = next
           /\ swap' = [previous |-> previous, next |-> next, after |-> after]
           /\ saved' = saved /\ progress' = progress /\ exitCode' = exitCode
           /\ cred' = cred /\ state'[next] = "Running"
           /\ state'[previous] = IF state[previous] = "Running" THEN "Ready" ELSE "Zombie"
<1>1. [Next]_vars /\ IInv' /\ vars' = vars
  BY StutterStep DEF Handover
<1>2. Steady /\ held' = held
  BY <1>1 DEF Steady, vars, pageVars, zoneVars, FlowTypes
<1>3. /\ state' = [state EXCEPT ![previous] = IF @ = "Running" THEN "Ready" ELSE @,
                                ![next] = "Running"]
      /\ rsp0' = next /\ current' = next /\ rip' = "swap"
      /\ swap' = [previous |-> previous, next |-> next, after |-> after]
      /\ on' = on /\ regs' = regs /\ saved' = saved /\ progress' = progress
      /\ exitCode' = exitCode /\ cred' = cred
  BY DEF Handover, ownerVars
<1>4. /\ state' \in [Tasks -> {"Ready", "Running", "Zombie"}]
      /\ state'[next] = "Running"
      /\ state'[previous] = IF state[previous] = "Running" THEN "Ready" ELSE "Zombie"
  BY <1>3 DEF FlowTypes
<1>5. FlowTypes'
  BY <1>2, <1>3, <1>4 DEF FlowTypes, Steady
<1>. QED  BY <1>1, <1>2, <1>3, <1>4, <1>5

LEMMA SwitchToChildStep == IInv /\ TaskInv /\ SwitchToChild => Achieved
<1>. SUFFICES ASSUME IInv, TaskInv, SwitchToChild PROVE Achieved
  OBVIOUS
<1>. USE DEF TaskInv
<1>1. PICK after : /\ Handover("boot", "child", after)
                   /\ \/ rip = "switch 1" /\ after = "resumed 1"
                      \/ rip = "switch 2" /\ after = "resumed 2"
  BY DEF SwitchToChild
<1>2. /\ current = "boot" /\ state["boot"] = "Running" /\ state["child"] = "Ready"
      /\ on = "boot" /\ regs = "boot"
      /\ rip = "switch 1" => saved["child"] = Frame("trampoline", "zero") /\ Work(0, 0)
      /\ rip = "switch 2" => saved["child"] = Frame("init resumed", "child") /\ Work(1, 0)
  BY <1>1 DEF Flows, Executing, Task, Between
<1>3. /\ [Next]_vars /\ IInv' /\ FlowTypes' /\ Steady /\ held' = held /\ rip' = "swap"
      /\ on' = on /\ regs' = regs /\ current' = "child" /\ rsp0' = "child"
      /\ swap' = [previous |-> "boot", next |-> "child", after |-> after]
      /\ saved' = saved /\ progress' = progress /\ exitCode' = exitCode
      /\ cred' = cred /\ state'["child"] = "Running" /\ state'["boot"] = "Ready"
  BY <1>1, <1>2, HandoverEffect DEF Tasks
<1>4. Flows'
  BY <1>1, <1>2, <1>3
  DEF Flows, Switched, Leaving, Work, Early, FirstTurn, Between, Finished
<1>5. Holdings'
  BY <1>1, <1>3, FirstPageKept
  DEF Holdings, ThreadLives, UserOwns, FirstTurn, Between, FirstPage, Steady
<1>. QED
  BY <1>3, <1>4, <1>5 DEF Achieved, OutOfPages, Labels, BootLabels, ChildLabels, Stops

LEMMA YieldStep == IInv /\ TaskInv /\ Yield => Achieved
<1>. SUFFICES ASSUME IInv, TaskInv, Yield PROVE Achieved
  OBVIOUS
<1>. USE DEF TaskInv
<1>1. rip = "yield" /\ Handover("child", "boot", "init resumed")
  BY DEF Yield
<1>2. /\ current = "child" /\ state["child"] = "Running" /\ state["boot"] = "Ready"
      /\ on = "child" /\ regs = "child" /\ saved["boot"] = Frame("resumed 1", "boot")
      /\ Work(1, 0)
  BY <1>1 DEF Flows, Executing, Task, FirstTurn
<1>3. /\ [Next]_vars /\ IInv' /\ FlowTypes' /\ Steady /\ held' = held /\ rip' = "swap"
      /\ on' = on /\ regs' = regs /\ current' = "boot" /\ rsp0' = "boot"
      /\ swap' = [previous |-> "child", next |-> "boot", after |-> "init resumed"]
      /\ saved' = saved /\ progress' = progress /\ exitCode' = exitCode
      /\ cred' = cred /\ state'["boot"] = "Running" /\ state'["child"] = "Ready"
  BY <1>1, <1>2, HandoverEffect DEF Tasks
<1>4. Flows'
  BY <1>2, <1>3
  DEF Flows, Switched, Leaving, Work, Early, FirstTurn, Between, Finished
<1>5. held = {cred["thread"]} /\ FirstPage(cred["thread"].first)
  BY <1>1 DEF Holdings, ThreadLives, UserOwns, FirstTurn
<1>6. held' = {cred'["thread"]} /\ FirstPage(cred["thread"].first)'
  BY <1>3, <1>5, FirstPageKept DEF FirstPage, Steady
<1>7. Holdings'
  BY <1>3, <1>6 DEF Holdings, ThreadLives, UserOwns, FirstTurn, Between
<1>. QED
  BY <1>3, <1>4, <1>7 DEF Achieved, OutOfPages, Labels, BootLabels, ChildLabels, Stops

LEMMA ExitStep == IInv /\ TaskInv /\ Exit => Achieved
<1>. SUFFICES ASSUME IInv, TaskInv, Exit PROVE Achieved
  OBVIOUS
<1>. USE DEF TaskInv
<1>1. rip = "exit" /\ Handover("child", "boot", "dead")
  BY DEF Exit
<1>2. /\ current = "child" /\ state["child"] = "Zombie" /\ state["boot"] = "Ready"
      /\ on = "child" /\ regs = "child" /\ saved["boot"] = Frame("resumed 2", "boot")
      /\ Work(2, 1)
  BY <1>1 DEF Flows, Executing, Task
<1>3. /\ [Next]_vars /\ IInv' /\ FlowTypes' /\ Steady /\ held' = held /\ rip' = "swap"
      /\ on' = on /\ regs' = regs /\ current' = "boot" /\ rsp0' = "boot"
      /\ swap' = [previous |-> "child", next |-> "boot", after |-> "dead"]
      /\ saved' = saved /\ progress' = progress /\ exitCode' = exitCode
      /\ cred' = cred /\ state'["boot"] = "Running" /\ state'["child"] = "Zombie"
  BY <1>1, <1>2, HandoverEffect DEF Tasks
<1>4. Flows'
  BY <1>2, <1>3
  DEF Flows, Switched, Leaving, Work, Early, FirstTurn, Between, Finished
<1>5. Holdings'
  BY <1>1, <1>3, FirstPageKept
  DEF Holdings, ThreadLives, UserOwns, FirstTurn, Between, FirstPage, Steady
<1>. QED
  BY <1>3, <1>4, <1>5 DEF Achieved, OutOfPages, Labels, BootLabels, ChildLabels, Stops

\* What one flow pushes leaves the frame of the other alone.
LEMMA PushFrame ==
    ASSUME FlowTypes, NEW from \in Tasks, NEW to \in Tasks, from # to, NEW f \in Frames,
           saved' = [saved EXCEPT ![from] = f]
    PROVE  saved' \in [Tasks -> Frames] /\ saved'[from] = f /\ saved'[to] = saved[to]
BY DEF FlowTypes

\* The frame popped is the one the other flow left, in each of the four
\* switches.
LEMMA ContextSwitchStep == IInv /\ TaskInv /\ ContextSwitch => Achieved
<1>. SUFFICES ASSUME IInv, TaskInv, ContextSwitch PROVE Achieved
  OBVIOUS
<1>. USE DEF TaskInv
<1>1. [Next]_vars /\ IInv' /\ vars' = vars
  BY StutterStep DEF ContextSwitch
<1>2. Steady /\ held' = held /\ cred' = cred
  BY <1>1 DEF Steady, vars, pageVars, zoneVars, FlowTypes, ContextSwitch, ownerVars
<1>3. /\ rip = "swap" /\ Switched
      /\ saved' = [saved EXCEPT ![swap.previous] = Frame(swap.after, regs)]
      /\ on' = swap.next /\ swap' = NoSwap
      /\ rip' = saved[swap.next].rip /\ regs' = saved[swap.next].regs
      /\ state' = state /\ current' = current /\ rsp0' = rsp0
      /\ progress' = progress /\ exitCode' = exitCode
  BY DEF ContextSwitch, Frame, Flows
<1>4. \A l, r : Frame(l, r).rip = l /\ Frame(l, r).regs = r
  BY DEF Frame
<1>5. \A l \in Labels, r \in {"boot", "child"} : Frame(l, r) \in Frames
  BY DEF Frame, Frames
<1>. DEFINE Popped(from, to, after, label, r) ==
                /\ on' = to /\ rip' = label /\ regs' = r
                /\ current' = to /\ rsp0' = to /\ swap' = NoSwap
                /\ state'[to] = "Running" /\ saved'[from] = Frame(after, from)
                /\ saved' \in [Tasks -> Frames]
<1>6. ASSUME NEW from \in Tasks, NEW to \in Tasks, from # to, NEW after \in Labels,
             Leaving(from, to, after), NEW label, NEW r, saved[to] = Frame(label, r)
      PROVE  Popped(from, to, after, label, r)
  <2>1. /\ on' = to /\ rip' = label /\ regs' = r
        /\ current' = to /\ rsp0' = to /\ swap' = NoSwap
        /\ state'[to] = "Running"
        /\ saved' = [saved EXCEPT ![from] = Frame(after, from)]
    BY <1>3, <1>4, <1>6 DEF Leaving
  <2>2. from \in {"boot", "child"}
    BY DEF Tasks
  <2>3. saved' \in [Tasks -> Frames] /\ saved'[from] = Frame(after, from)
    BY <1>5, <1>6, <2>1, <2>2, PushFrame
  <2>. QED  BY <2>1, <2>3
<1>7. /\ Flows' /\ saved' \in [Tasks -> Frames]
      /\ rip' \in {"trampoline", "resumed 1", "init resumed", "resumed 2"}
  <2>. USE DEF Labels, BootLabels, ChildLabels, Stops, Tasks
  <2>1. CASE /\ Leaving("boot", "child", "resumed 1")
             /\ state["boot"] = "Ready" /\ saved["child"] = Frame("trampoline", "zero")
             /\ Work(0, 0)
    <3>1. Popped("boot", "child", "resumed 1", "trampoline", "zero")
      BY <1>6, <2>1
    <3>. QED
      BY <1>3, <2>1, <3>1
      DEF Flows, Work, Executing, Task, Early, FirstTurn, Between, Finished
  <2>2. CASE /\ Leaving("child", "boot", "init resumed")
             /\ state["child"] = "Ready" /\ saved["boot"] = Frame("resumed 1", "boot")
             /\ Work(1, 0)
    <3>1. Popped("child", "boot", "init resumed", "resumed 1", "boot")
      BY <1>6, <2>2
    <3>. QED
      BY <1>3, <2>2, <3>1
      DEF Flows, Work, Executing, Task, Early, FirstTurn, Between, Finished
  <2>3. CASE /\ Leaving("boot", "child", "resumed 2")
             /\ state["boot"] = "Ready" /\ saved["child"] = Frame("init resumed", "child")
             /\ Work(1, 0)
    <3>1. Popped("boot", "child", "resumed 2", "init resumed", "child")
      BY <1>6, <2>3
    <3>. QED
      BY <1>3, <2>3, <3>1
      DEF Flows, Work, Executing, Task, Early, FirstTurn, Between, Finished
  <2>4. CASE /\ Leaving("child", "boot", "dead")
             /\ state["child"] = "Zombie" /\ saved["boot"] = Frame("resumed 2", "boot")
             /\ Work(2, 1)
    <3>1. Popped("child", "boot", "dead", "resumed 2", "boot")
      BY <1>6, <2>4
    <3>. QED
      BY <1>3, <2>4, <3>1
      DEF Flows, Work, Executing, Task, Early, FirstTurn, Between, Finished
  <2>. QED  BY <1>3, <2>1, <2>2, <2>3, <2>4 DEF Switched
<1>8. FlowTypes'
  BY <1>2, <1>3, <1>7 DEF FlowTypes, Steady
<1>9. held = {cred["thread"]} /\ FirstPage(cred["thread"].first)
  BY <1>3 DEF Holdings, ThreadLives
<1>10. Holdings'
  BY <1>2, <1>7, <1>9, FirstPageKept
  DEF Holdings, ThreadLives, UserOwns, FirstTurn, Between, FirstPage, Steady
<1>. QED
  BY <1>1, <1>7, <1>8, <1>10 DEF Achieved, OutOfPages, Labels, BootLabels, ChildLabels,
                                 Stops

LEMMA FirstReturnStep == IInv /\ TaskInv /\ FirstReturn => Achieved
<1>. SUFFICES ASSUME IInv, TaskInv, FirstReturn PROVE Achieved
  OBVIOUS
<1>. USE DEF TaskInv, FirstReturn, Check
<1>1. [Next]_vars /\ IInv' /\ vars' = vars
  BY StutterStep
<1>2. Steady /\ held' = held
  BY <1>1 DEF Steady, vars, pageVars, zoneVars, FlowTypes
<1>3. rip' = "switch 2"
  BY DEF Flows, Between, Executing, Task, Work, OnOwnStack
<1>4. FlowTypes'
  BY <1>2, <1>3 DEF FlowTypes, ownerVars, taskVars, Steady
<1>5. Flows'
  BY <1>3
  DEF Flows, Early, FirstTurn, Between, Finished, Work, Executing, Task, taskVars
<1>6. held = {cred["thread"]} /\ FirstPage(cred["thread"].first)
  BY DEF Holdings, ThreadLives, Between
<1>7. held' = {cred'["thread"]} /\ FirstPage(cred["thread"].first)'
  BY <1>2, <1>6, FirstPageKept DEF FirstPage, Steady, ownerVars
<1>8. Holdings'
  BY <1>3, <1>7 DEF Holdings, ThreadLives, UserOwns, FirstTurn, Between
<1>. QED
  BY <1>1, <1>3, <1>4, <1>5, <1>8
  DEF Achieved, OutOfPages, Labels, BootLabels, ChildLabels, Stops

LEMMA SecondReturnStep == IInv /\ TaskInv /\ SecondReturn => Achieved
<1>. SUFFICES ASSUME IInv, TaskInv, SecondReturn PROVE Achieved
  OBVIOUS
<1>. USE DEF TaskInv, SecondReturn, Check
<1>1. [Next]_vars /\ IInv' /\ vars' = vars
  BY StutterStep
<1>2. Steady /\ held' = held
  BY <1>1 DEF Steady, vars, pageVars, zoneVars, FlowTypes
<1>3. rip' = "reclaim"
  BY DEF Flows, Finished, Executing, Task, Work, OnOwnStack
<1>4. FlowTypes'
  BY <1>2, <1>3 DEF FlowTypes, ownerVars, taskVars, Steady
<1>5. Flows'
  BY <1>3
  DEF Flows, Early, FirstTurn, Between, Finished, Work, Executing, Task, taskVars
<1>6. held = {cred["thread"]} /\ FirstPage(cred["thread"].first)
  BY DEF Holdings, ThreadLives
<1>7. held' = {cred'["thread"]} /\ FirstPage(cred["thread"].first)'
  BY <1>2, <1>6, FirstPageKept DEF FirstPage, Steady, ownerVars
<1>8. Holdings'
  BY <1>3, <1>7 DEF Holdings, ThreadLives, UserOwns, FirstTurn, Between
<1>. QED
  BY <1>1, <1>3, <1>4, <1>5, <1>8
  DEF Achieved, OutOfPages, Labels, BootLabels, ChildLabels, Stops

\* The page of the finished thread: FirstPage, so the next one handed out.
LEMMA ReclaimStep == IInv /\ TaskInv /\ Reclaim => Achieved
<1>. SUFFICES ASSUME IInv, TaskInv, Reclaim PROVE Achieved
  OBVIOUS
<1>. USE DEF TaskInv, Reclaim
<1>1. /\ [Next]_vars /\ IInv' /\ Steady
      /\ held' = held \ {cred["thread"]}
      /\ cred' = [cred EXCEPT !["thread"] = NoRun]
      /\ rip' = "recycle"
  BY GiveBackEffect DEF Owners
<1>2. FlowTypes'
  BY <1>1 DEF FlowTypes, Steady, taskVars, Runs, Areas, NoRun
<1>3. Flows'
  BY <1>1
  DEF Flows, Early, FirstTurn, Between, Finished, Work, Executing, taskVars
<1>4. held = {cred["thread"]} /\ FirstPage(cred["thread"].first)
  BY DEF Holdings, ThreadLives
<1>5. held' = {} /\ FirstPage(physical)'
  BY <1>1, <1>4, FirstPageKept DEF FirstPage, Steady
<1>6. Holdings'
  BY <1>1, <1>5 DEF Holdings, ThreadLives, UserOwns, FirstTurn, Between
<1>. QED
  BY <1>1, <1>2, <1>3, <1>6
  DEF Achieved, OutOfPages, Labels, BootLabels, ChildLabels, Stops

LEMMA RecycleStep == IInv /\ TaskInv /\ Recycle => Achieved
<1>. SUFFICES ASSUME IInv, TaskInv, Recycle PROVE Achieved
  OBVIOUS
<1>. USE DEF TaskInv, Recycle
<1>1. phase = "ready" /\ held = {} /\ FirstPage(physical)
  BY DEF FlowTypes, Holdings
<1>2. /\ [Next]_vars /\ IInv' /\ Steady
      /\ \/ rip' = "nomem" /\ held' = held /\ cred' = cred
         \/ /\ rip' = "compare"
            /\ \E run \in Runs : /\ run \notin held /\ held' = held \cup {run}
                                 /\ cred' = [cred EXCEPT !["recycled"] = run]
                                 /\ FirstPage(run.first)
  BY <1>1, ObtainEffect DEF Owners, Areas
<1>3. FlowTypes'
  BY <1>2 DEF FlowTypes, Steady, taskVars
<1>4. Flows'
  BY <1>2
  DEF Flows, Early, FirstTurn, Between, Finished, Work, Executing, taskVars
<1>5. rip' = "compare" => held' = {cred'["recycled"]} /\ FirstPage(cred'["recycled"].first)
  BY <1>1, <1>2 DEF FlowTypes, Owners
<1>6. /\ rip' = "compare" => FirstPage(cred["recycled"].first)'
      /\ FirstPage(physical)'
  BY <1>1, <1>2, <1>5, FirstPageKept DEF FirstPage, Steady
<1>7. Holdings'
  BY <1>1, <1>2, <1>5, <1>6 DEF Holdings, ThreadLives, UserOwns, FirstTurn, Between
<1>8. OutOfPages'
  BY DEF OutOfPages, Flows, Executing, Finished, taskVars
<1>. QED
  BY <1>2, <1>3, <1>4, <1>7, <1>8 DEF Achieved, Labels, BootLabels, ChildLabels, Stops

\* assert_eq! on the two physical addresses.
LEMMA CompareStep == IInv /\ TaskInv /\ Compare => Achieved
<1>. SUFFICES ASSUME IInv, TaskInv, Compare PROVE Achieved
  OBVIOUS
<1>. USE DEF TaskInv, Compare, Check
<1>1. [Next]_vars /\ IInv' /\ vars' = vars
  BY StutterStep
<1>2. Steady /\ held' = held
  BY <1>1 DEF Steady, vars, pageVars, zoneVars, FlowTypes
<1>3. FirstPage(physical) /\ FirstPage(cred["recycled"].first) /\ phase = "ready"
  BY DEF Holdings, FlowTypes
<1>4. cred["recycled"].first = physical
  BY <1>3, OneFirstPage
<1>5. rip' = "return page"
  BY <1>4
<1>6. FlowTypes'
  BY <1>2, <1>5 DEF FlowTypes, ownerVars, taskVars, Steady
<1>7. Flows'
  BY <1>5
  DEF Flows, Early, FirstTurn, Between, Finished, Work, Executing, taskVars
<1>8. Holdings'
  BY <1>2, <1>5 DEF Holdings, ThreadLives, UserOwns, FirstTurn, Between, ownerVars
<1>. QED
  BY <1>1, <1>5, <1>6, <1>7, <1>8
  DEF Achieved, OutOfPages, Labels, BootLabels, ChildLabels, Stops

LEMMA ReturnPageStep == IInv /\ TaskInv /\ ReturnPage => Achieved
<1>. SUFFICES ASSUME IInv, TaskInv, ReturnPage PROVE Achieved
  OBVIOUS
<1>. USE DEF TaskInv, ReturnPage
<1>1. /\ [Next]_vars /\ IInv' /\ Steady
      /\ held' = held \ {cred["recycled"]}
      /\ cred' = [cred EXCEPT !["recycled"] = NoRun]
      /\ rip' = "user demo"
  BY GiveBackEffect DEF Owners
<1>2. FlowTypes'
  BY <1>1 DEF FlowTypes, Steady, taskVars, Runs, Areas, NoRun
<1>3. Flows'
  BY <1>1
  DEF Flows, Early, FirstTurn, Between, Finished, Work, Executing, taskVars
<1>4. Holdings'
  BY <1>1 DEF Holdings, ThreadLives, UserOwns, FirstTurn, Between
<1>. QED
  BY <1>1, <1>2, <1>3, <1>4
  DEF Achieved, OutOfPages, Labels, BootLabels, ChildLabels, Stops

LEMMA TrampolineStep == IInv /\ TaskInv /\ Trampoline => Achieved
<1>. SUFFICES ASSUME IInv, TaskInv, Trampoline PROVE Achieved
  OBVIOUS
<1>. USE DEF TaskInv, Trampoline, Check
<1>1. [Next]_vars /\ IInv' /\ vars' = vars
  BY StutterStep
<1>2. Steady /\ held' = held
  BY <1>1 DEF Steady, vars, pageVars, zoneVars, FlowTypes
<1>3. rip' = "init"
  BY DEF Flows, FirstTurn, Executing, OnOwnStack
<1>4. FlowTypes'
  BY <1>2, <1>3 DEF FlowTypes, ownerVars, taskVars, Steady
<1>5. Flows'
  BY <1>3
  DEF Flows, Early, FirstTurn, Between, Finished, Work, Executing, Task, taskVars
<1>6. held = {cred["thread"]} /\ FirstPage(cred["thread"].first)
  BY DEF Holdings, ThreadLives, UserOwns, FirstTurn
<1>7. held' = {cred'["thread"]} /\ FirstPage(cred["thread"].first)'
  BY <1>2, <1>6, FirstPageKept DEF FirstPage, Steady, ownerVars
<1>8. Holdings'
  BY <1>3, <1>7 DEF Holdings, ThreadLives, UserOwns, FirstTurn, Between
<1>. QED
  BY <1>1, <1>3, <1>4, <1>5, <1>8
  DEF Achieved, OutOfPages, Labels, BootLabels, ChildLabels, Stops

LEMMA InitRunsStep == IInv /\ TaskInv /\ InitRuns => Achieved
<1>. SUFFICES ASSUME IInv, TaskInv, InitRuns PROVE Achieved
  OBVIOUS
<1>. USE DEF TaskInv, InitRuns, Check
<1>1. [Next]_vars /\ IInv' /\ vars' = vars
  BY StutterStep
<1>2. Steady /\ held' = held
  BY <1>1 DEF Steady, vars, pageVars, zoneVars, FlowTypes
<1>3. rip' = "yield"
  BY DEF Flows, FirstTurn, Executing, OnOwnStack
<1>4. FlowTypes'
  BY <1>2, <1>3 DEF FlowTypes, ownerVars, Steady
<1>5. Flows'
  BY <1>3
  DEF Flows, Early, FirstTurn, Between, Finished, Work, Executing, Task
<1>6. held = {cred["thread"]} /\ FirstPage(cred["thread"].first)
  BY DEF Holdings, ThreadLives, UserOwns, FirstTurn
<1>7. held' = {cred'["thread"]} /\ FirstPage(cred["thread"].first)'
  BY <1>2, <1>6, FirstPageKept DEF FirstPage, Steady, ownerVars
<1>8. Holdings'
  BY <1>3, <1>7 DEF Holdings, ThreadLives, UserOwns, FirstTurn, Between
<1>. QED
  BY <1>1, <1>3, <1>4, <1>5, <1>8
  DEF Achieved, OutOfPages, Labels, BootLabels, ChildLabels, Stops

LEMMA InitReturnsStep == IInv /\ TaskInv /\ InitReturns => Achieved
<1>. SUFFICES ASSUME IInv, TaskInv, InitReturns PROVE Achieved
  OBVIOUS
<1>. USE DEF TaskInv, InitReturns, Check
<1>1. [Next]_vars /\ IInv' /\ vars' = vars
  BY StutterStep
<1>2. Steady /\ held' = held
  BY <1>1 DEF Steady, vars, pageVars, zoneVars, FlowTypes
<1>3. rip' = "exit"
  BY DEF Flows, Executing, OnOwnStack
<1>4. FlowTypes'
  BY <1>2, <1>3 DEF FlowTypes, ownerVars, Steady, Tasks
<1>5. Flows'
  BY <1>3
  DEF Flows, Early, FirstTurn, Between, Finished, Work, Executing, Task, FlowTypes,
      Tasks
<1>6. held = {cred["thread"]} /\ FirstPage(cred["thread"].first)
  BY DEF Holdings, ThreadLives
<1>7. held' = {cred'["thread"]} /\ FirstPage(cred["thread"].first)'
  BY <1>2, <1>6, FirstPageKept DEF FirstPage, Steady, ownerVars
<1>8. Holdings'
  BY <1>3, <1>7 DEF Holdings, ThreadLives, UserOwns, FirstTurn, Between
<1>. QED
  BY <1>1, <1>3, <1>4, <1>5, <1>8
  DEF Achieved, OutOfPages, Labels, BootLabels, ChildLabels, Stops

LEMMA TaskStepKeeps == IInv /\ TaskInv /\ TaskStep => Achieved
BY InitMemoryStep, AllocateBothStep, WriteMappedStep, FreeBothStep, AdoptStep,
   CreateThreadStep, FillThreadStep, SwitchToChildStep, FirstReturnStep,
   SecondReturnStep, ReclaimStep, RecycleStep, CompareStep, ReturnPageStep,
   TrampolineStep, InitRunsStep, YieldStep, InitReturnsStep, ExitStep,
   ContextSwitchStep
DEF TaskStep, BootFlow, ChildFlow

-----------------------------------------------------------------------------
(***************************************************************************)
(* What holds of Tasks.                                                    *)
(***************************************************************************)
TaskIInv == IInv /\ TaskInv /\ OutOfPages /\ rip \in Labels \ {"assert"}

LEMMA TaskInitInv == TaskInit => TaskIInv
<1>. SUFFICES ASSUME TaskInit PROVE TaskIInv
  OBVIOUS
<1>. USE DEF TaskInit
<1>1. IInv /\ held = {}
  BY InitIInv DEF Init
<1>2. FlowTypes
  BY DEF FlowTypes, Frames, NoFrame, Runs, Areas, NoRun
<1>3. Flows
  BY DEF Flows, Early, FirstTurn, Between, Finished, Work, Tasks, NoFrame
<1>4. Holdings
  BY <1>1 DEF Holdings, ThreadLives, UserOwns, FirstTurn, Between
<1>. QED
  BY <1>1, <1>2, <1>3, <1>4
  DEF TaskIInv, TaskInv, OutOfPages, Labels, BootLabels, ChildLabels, Stops

LEMMA TaskNextInv == TaskIInv /\ [TaskNext]_allTaskVars => TaskIInv' /\ [Next]_vars
<1>. SUFFICES ASSUME TaskIInv, [TaskNext]_allTaskVars PROVE TaskIInv' /\ [Next]_vars
  OBVIOUS
<1>1. CASE TaskStep
  BY <1>1, TaskStepKeeps DEF TaskIInv, Achieved
<1>2. CASE UNCHANGED allTaskVars
  <2>1. IInv' /\ vars' = vars
    BY <1>2, StutterStep DEF TaskIInv, allTaskVars
  <2>2. layout' = layout /\ zoneOf' = zoneOf /\ zonesSize' = zonesSize /\ held' = held
    BY <2>1 DEF vars, pageVars, zoneVars
  <2>3. FlowTypes'
    BY <1>2, <2>1
    DEF TaskIInv, TaskInv, FlowTypes, allTaskVars, cpu, taskVars, ownerVars, vars
  <2>4. Flows'
    BY <1>2
    DEF TaskIInv, TaskInv, Flows, Work, Executing, Task, Switched, Leaving, allTaskVars,
        cpu, taskVars
  <2>5. Holdings'
    BY <1>2, <2>2, FirstPageKept
    DEF TaskIInv, TaskInv, Holdings, FirstPage, allTaskVars, cpu, ownerVars
  <2>. QED
    BY <1>2, <2>1, <2>3, <2>4, <2>5
    DEF TaskIInv, TaskInv, OutOfPages, allTaskVars, cpu, taskVars
<1>. QED  BY <1>1, <1>2 DEF TaskNext, TaskEnd

THEOREM TaskInvariance == TaskSpec => []TaskIInv
BY TaskInitInv, TaskNextInv, PTL DEF TaskSpec

\* No assert of the two flows fails on any memory map: a switch finds its
\* target Ready, each flow finds the other where it left it, and the page of
\* the finished thread is the next one handed out.
THEOREM NoAssertOfTheFlows == TaskSpec => []NoTaskAssert
<1>1. TaskIInv => NoTaskAssert
  BY DEF TaskIInv, NoTaskAssert
<1>. QED  BY <1>1, TaskInvariance, PTL

\* Each flow is resumed with its own registers and code, and between switches
\* CURRENT, RSP and TSS.RSP0 agree.
THEOREM ContextsSurvive == TaskSpec => []ContextIntact
<1>1. TaskIInv => ContextIntact
  BY DEF TaskIInv, TaskInv, Flows, ContextIntact, Executing, Labels, BootLabels,
         ChildLabels, Stops, Early, FirstTurn, Between, Finished
<1>. QED  BY <1>1, TaskInvariance, PTL

\* The thread's descriptor and stack are owned as long as anything leads there.
THEOREM StackOutlivesThread == TaskSpec => []LiveStack
<1>. SUFFICES ASSUME TRUE PROVE TaskIInv => LiveStack
  BY TaskInvariance, PTL
<1>. SUFFICES ASSUME TaskIInv,
                     \/ on = "child" \/ rsp0 = "child" \/ current = "child"
                     \/ saved["child"].rip # "none" /\ state["child"] # "Zombie"
              PROVE  cred["thread"] \in held /\ RunPages(cred["thread"]) \subseteq used
  BY DEF LiveStack
<1>1. rip \in ThreadLives \ {"resumed 2", "reclaim"}
  BY DEF TaskIInv, TaskInv, Flows, OutOfPages, Executing, Labels, BootLabels,
         ChildLabels, Stops, Early, FirstTurn, Between, Finished, ThreadLives
<1>2. cred["thread"] \in held /\ phase = "ready"
  BY <1>1 DEF TaskIInv, TaskInv, FlowTypes, Holdings, ThreadLives, UserOwns, FirstTurn,
              Between
<1>3. RunPages(cred["thread"]) \subseteq used
  BY <1>2 DEF TaskIInv, IInv, ExclusiveOwnership, Initialised
<1>. QED  BY <1>2, <1>3

-----------------------------------------------------------------------------
(***************************************************************************)
(* The contract of write: readable and the bytes it stands for.            *)
(***************************************************************************)
\* A sum that does not wrap.
LEMMA BelowModulus ==
    ASSUME NEW x \in Nat, NEW n \in Nat, x < n
    PROVE  x % n = x
OBVIOUS

\* The code's comparison of the two ends of a range says the same as looking
\* at each of its bytes: there is a hole between the two pages.
LEMMA RangeIsReadable ==
    ASSUME NEW a \in Nat, NEW l \in Nat \ {0}
    PROVE  /\ readable(a, l) <=> \A k \in 0 .. l - 1 : a + k < Word /\ Leaf(a + k, "read")
           /\ readable(a, l) => \A b \in Bytes(a, l) : Leaf(b, "read")
<1>. USE UserAssumption DEF StackTop, InCode, InStack
<1>1. \A b : Leaf(b, "read") <=> InCode(b) \/ InStack(b)
  BY DEF Leaf
<1>2. ASSUME readable(a, l)
      PROVE  \A k \in 0 .. l - 1 : a + k < Word /\ Leaf(a + k, "read")
  BY <1>1, <1>2 DEF readable
<1>3. ASSUME \A k \in 0 .. l - 1 : a + k < Word /\ Leaf(a + k, "read")
      PROVE  readable(a, l)
  <2>1. InCode(a) \/ InStack(a)
    <3>1. 0 \in 0 .. l - 1 /\ a + 0 = a
      OBVIOUS
    <3>. QED  BY <1>1, <1>3, <3>1
  <2>2. InCode(a + (l - 1)) \/ InStack(a + (l - 1))
    <3>1. l - 1 \in 0 .. l - 1
      OBVIOUS
    <3>. QED  BY <1>1, <1>3, <3>1
  <2>3. CASE InStack(a)
    BY <2>2, <2>3 DEF readable
  <2>4. CASE InCode(a) /\ InCode(a + (l - 1))
    BY <2>4 DEF readable
  <2>5. CASE InCode(a) /\ InStack(a + (l - 1))
    <3>1. Code + Page - a \in 0 .. l - 1 /\ a + (Code + Page - a) = Code + Page
      BY <2>5
    <3>2. InCode(Code + Page) \/ InStack(Code + Page)
      BY <1>1, <1>3, <3>1
    <3>. QED  BY <3>2
  <2>. QED  BY <2>1, <2>2, <2>3, <2>4, <2>5
<1>4. ASSUME readable(a, l), NEW b \in Bytes(a, l)
      PROVE  Leaf(b, "read")
  <2>1. PICK k \in 0 .. l - 1 : b = (a + k) % Word
    BY <1>4 DEF Bytes
  <2>2. a + k < Word /\ Leaf(a + k, "read")
    BY <1>2, <1>4
  <2>3. b = a + k
    BY <2>1, <2>2, BelowModulus
  <2>. QED  BY <2>2, <2>3
<1>. QED  BY <1>2, <1>3, <1>4

\* The dispatcher answers every request as the contract says, and reads what
\* the program may read.
LEMMA DispatchAnswers ==
    ASSUME Insn \in Instructions
    PROVE  /\ Insn.number = WRITE => write_text = Contract(Insn)
           /\ Insn.number # WRITE => ENOSYS = Contract(Insn)
           /\ Copies => \A b \in Bytes(Insn.address, Insn.length) : Leaf(b, "read")
<1>. DEFINE c == Insn
<1>1. c.address \in Nat /\ c.length \in Nat
  BY UserAssumption DEF Instructions
<1>2. c.length # 0 => /\ readable(c.address, c.length) <=> Readable(c)
                      /\ readable(c.address, c.length) =>
                            \A b \in Bytes(c.address, c.length) : Leaf(b, "read")
  BY <1>1, RangeIsReadable DEF Readable
<1>3. c.length = 0 => Readable(c)
  BY DEF Readable
<1>. HIDE DEF c
<1>4. c.length > 0 <=> c.length # 0
  BY <1>1
<1>5. /\ c.number = WRITE =>
            (IF c.length > MaxWrite THEN EINVAL
             ELSE IF c.length = 0 THEN 0
             ELSE IF ~readable(c.address, c.length) THEN EFAULT
             ELSE IF ~c.utf8 THEN EINVAL
             ELSE c.length) = Contract(c)
      /\ c.number # WRITE => ENOSYS = Contract(c)
  BY <1>2, <1>3, <1>4 DEF Contract
<1>6. c.length \in 1 .. MaxWrite => c.length # 0
  BY <1>1, UserAssumption
<1>. QED  BY <1>2, <1>5, <1>6 DEF c, write_text, Copies

-----------------------------------------------------------------------------
(***************************************************************************)
(* Every step of the user mode demonstration.                              *)
(***************************************************************************)
UserIInv == IInv /\ TaskInv /\ Mapping /\ Entries /\ Answers

UserKept == [Next]_vars /\ UserIInv'

\* The steps between the allocation and the release of the page leave the
\* page manager and the two tasks alone.
LEMMA DemoKeeps ==
    ASSUME IInv, TaskInv, vars' = vars, saved' = saved, state' = state, cred' = cred,
           rip \in UserOwns, rip' \in UserOwns \cup UserStops
    PROVE  [Next]_vars /\ IInv' /\ TaskInv' /\ held' = held /\ held = {cred["user"]}
<1>. USE DEF TaskInv
<1>1. [Next]_vars /\ IInv'
  BY StutterStep
<1>2. held' = held /\ phase' = phase
  BY DEF vars
<1>3. held = {cred["user"]} /\ rip # "memory"
  BY DEF Holdings, UserOwns
<1>4. FlowTypes'
  BY <1>2, <1>3 DEF FlowTypes
<1>5. Flows'
  BY DEF Flows, Early, FirstTurn, Between, Finished, UserOwns, UserStops
<1>6. Holdings'
  BY <1>2, <1>3
  DEF Holdings, ThreadLives, UserOwns, UserStops, FirstTurn, Between
<1>. QED  BY <1>1, <1>2, <1>3, <1>4, <1>5, <1>6

\* The instruction under way, and what the program's shape says of it.
LEMMA InsnFacts ==
    ASSUME program \in Programs, ip \in 1 .. Len(program)
    PROVE  /\ Insn \in Instructions
           /\ Insn.op # "done" => ip + 1 \in 1 .. Len(program)
<1>1. program \in Seq(Instructions) /\ (Insn.op = "done" <=> ip = Len(program))
  BY UserAssumption DEF Insn
<1>2. Insn \in Instructions
  BY <1>1, ElementOfSeq DEF Insn
<1>. QED  BY <1>1, <1>2

LEMMA BeforeUserStep == UserIInv /\ BeforeUser => UserKept
<1>. SUFFICES ASSUME UserIInv, BeforeUser PROVE UserKept
  OBVIOUS
<1>. USE DEF UserIInv, BeforeUser
<1>1. [Next]_vars /\ IInv' /\ TaskInv' /\ rip' \in Labels \ {"assert"}
  BY TaskStepKeeps DEF Achieved
<1>2. rip \in Labels \ Stops
  BY DEF TaskStep, BootFlow, ChildFlow, InitMemory, AllocateBoth, WriteMapped, FreeBoth,
         Adopt, CreateThread, FillThread, SwitchToChild, FirstReturn, SecondReturn,
         Reclaim, Recycle, Compare, ReturnPage, Trampoline, InitRuns, Yield,
         InitReturns, Exit, ContextSwitch, Labels, BootLabels, ChildLabels, Stops
<1>3. rip = "memory" /\ rip' # "memory" => phase' = "ready"
  BY <1>1 DEF TaskInv, FlowTypes
<1>4. Mapping'
  <2>1. rip \in (Labels \ {"memory", "assert"}) => root = "none" /\ tlb = {}
    BY DEF UserLabels, UserStops, Mapping, Unmapped
  <2>2. rip' # "memory" => root' = "none" /\ tlb' = {}
    BY <1>2, <1>3, <2>1 DEF Stops
  <2>. QED
    BY <1>1, <2>2
    DEF UserLabels, UserStops, Mapping, Unmapped, Labels, BootLabels, ChildLabels,
        Stops, Inside
<1>5. Entries'
  BY <1>1, <1>2
  DEF Entries, Labels, BootLabels, ChildLabels, Stops, Inside, Unentered, After,
      entryVars
<1>6. Answers'
  BY <1>1
  DEF Answers, Labels, BootLabels, ChildLabels, Stops, ServiceContract, programVars
<1>. QED  BY <1>1, <1>4, <1>5, <1>6 DEF UserKept

\* What the page walker caches leads to the page the tables lead to.
LEMMA WalkStep == UserIInv /\ Walk => UserKept
<1>. SUFFICES ASSUME UserIInv, Walk PROVE UserKept
  OBVIOUS
<1>. USE DEF UserIInv, Walk
<1>1. [Next]_vars /\ IInv' /\ vars' = vars
  BY StutterStep DEF allTaskVars
<1>2. /\ layout' = layout /\ zoneOf' = zoneOf /\ zonesSize' = zonesSize
      /\ held' = held /\ phase' = phase
  BY <1>1 DEF vars, pageVars, zoneVars
<1>3. FlowTypes'
  BY <1>2 DEF TaskInv, FlowTypes, allTaskVars, cpu, taskVars, ownerVars
<1>4. Flows'
  BY DEF TaskInv, Flows, Work, Executing, Task, Switched, Leaving, allTaskVars, cpu,
         taskVars
<1>5. Holdings'
  BY <1>2, FirstPageKept
  DEF TaskInv, Holdings, FirstPage, allTaskVars, cpu, ownerVars
<1>6. rip' = rip /\ root' = root /\ pt' = pt /\ cred' = cred /\ held' = held /\ dirty' = dirty
  BY <1>2 DEF allTaskVars, cpu, ownerVars
<1>7. Mapping'
  <2>1. rip \notin UserStops /\ root # "none"
    OBVIOUS
  <2>2. MappedAlone => MappedAlone'
    BY <1>6 DEF MappedAlone, UserPage
  <2>. QED
    BY <1>6, <2>1, <2>2 DEF UserLabels, UserStops, Mapping, Unmapped, UserPage
<1>8. Entries'
  BY DEF Entries, Disarmed, Armed, allTaskVars, cpu, taskVars, entryVars
<1>9. Answers'
  BY DEF Answers, ServiceContract, Permitted, Insn, allTaskVars, cpu, programVars
<1>. QED  BY <1>1, <1>3, <1>4, <1>5, <1>7, <1>8, <1>9 DEF UserKept, TaskInv

LEMMA PrepareCpuStep == UserIInv /\ PrepareCpu => UserKept
<1>. SUFFICES ASSUME UserIInv, PrepareCpu PROVE UserKept
  OBVIOUS
<1>. USE DEF UserIInv, PrepareCpu, Check
<1>1. [Next]_vars /\ IInv' /\ vars' = vars
  BY StutterStep
<1>2. held' = held /\ phase' = phase
  BY <1>1 DEF vars
<1>3. rip' \in {"user page", "cpu"}
  BY DEF Entries, Labels, BootLabels
<1>4. FlowTypes'
  BY <1>2, <1>3 DEF TaskInv, FlowTypes, taskVars, ownerVars
<1>5. Flows'
  BY <1>3 DEF TaskInv, Flows, Early, FirstTurn, Between, Finished
<1>6. Holdings'
  BY <1>2, <1>3 DEF TaskInv, Holdings, ThreadLives, UserOwns, FirstTurn, Between
<1>7. Mapping'
  BY <1>3 DEF UserLabels, UserStops, Mapping, Unmapped, Labels, BootLabels, ChildLabels,
              Stops, Inside, userVars, tableVars
<1>8. /\ on = "boot" /\ regs = "boot" /\ rsp0 = "boot" /\ cpl = 0
      /\ ~active /\ sysenter = NoSysenter /\ gate = "fatal"
  BY DEF TaskInv, Flows, Finished, Executing, Entries, Labels, BootLabels
<1>9. Entries'
  BY <1>3, <1>8
  DEF Entries, Disarmed, Labels, BootLabels, ChildLabels, Stops, Inside, Unentered,
      After, userVars, entryVars, taskVars
<1>10. Answers'
  BY <1>3 DEF Answers, ServiceContract, userVars, programVars
<1>. QED  BY <1>1, <1>4, <1>5, <1>6, <1>7, <1>9, <1>10 DEF UserKept, TaskInv

LEMMA TakePageStep == UserIInv /\ TakePage => UserKept
<1>. SUFFICES ASSUME UserIInv, TakePage PROVE UserKept
  OBVIOUS
<1>. USE DEF UserIInv, TakePage
<1>1. phase = "ready" /\ held = {}
  BY DEF TaskInv, FlowTypes, Holdings
<1>2. /\ [Next]_vars /\ IInv' /\ Steady
      /\ \/ rip' = "nomem" /\ held' = held /\ cred' = cred
         \/ /\ rip' = "load"
            /\ \E run \in Runs : /\ run \notin held /\ held' = held \cup {run}
                                 /\ cred' = [cred EXCEPT !["user"] = run]
  BY <1>1, ObtainEffect DEF Owners, Areas
<1>3. FlowTypes'
  <2>1. /\ saved \in [Tasks -> Frames] /\ state \in [Tasks -> {"Ready", "Running", "Zombie"}]
        /\ cred \in [Owners -> Runs]
    BY DEF TaskInv, FlowTypes
  <2>2. cred' \in [Owners -> Runs]
    BY <1>2, <2>1
  <2>3. saved' = saved /\ state' = state /\ phase' = "ready"
    BY <1>2 DEF Steady, taskVars
  <2>. QED  BY <2>1, <2>2, <2>3, Zenon DEF FlowTypes
<1>4. Flows'
  BY <1>2 DEF TaskInv, Flows, Early, FirstTurn, Between, Finished
<1>5. rip' = "load" => held' = {cred'["user"]}
  BY <1>1, <1>2 DEF TaskInv, FlowTypes, Owners
<1>6. Holdings'
  BY <1>2, <1>5 DEF Holdings, ThreadLives, UserOwns, FirstTurn, Between
<1>7. Mapping'
  BY <1>2 DEF UserLabels, UserStops, Mapping, Unmapped, Labels, BootLabels, ChildLabels,
              Stops, Inside, userVars, tableVars
<1>8. Entries'
  BY <1>2
  DEF Entries, Disarmed, Labels, BootLabels, ChildLabels, Stops, Inside, Unentered,
      After, userVars, entryVars, taskVars
<1>9. Answers'
  BY <1>2 DEF Answers, ServiceContract, userVars, programVars
<1>. QED  BY <1>2, <1>3, <1>4, <1>6, <1>7, <1>8, <1>9 DEF UserKept, TaskInv

LEMMA FreePageStep == UserIInv /\ FreePage => UserKept
<1>. SUFFICES ASSUME UserIInv, FreePage PROVE UserKept
  OBVIOUS
<1>. USE DEF UserIInv, FreePage
<1>1. /\ [Next]_vars /\ IInv' /\ Steady
      /\ held' = held \ {cred["user"]}
      /\ cred' = [cred EXCEPT !["user"] = NoRun]
      /\ rip' = "keyboard"
  BY GiveBackEffect DEF Owners
<1>2. held' = {}
  BY <1>1 DEF TaskInv, Holdings, UserOwns
<1>3. FlowTypes'
  BY <1>1 DEF TaskInv, FlowTypes, Steady, taskVars, Runs, Areas, NoRun
<1>4. Flows'
  BY <1>1 DEF Flows, Early, FirstTurn, Between, Finished
<1>5. Holdings'
  BY <1>1, <1>2 DEF Holdings, ThreadLives, UserOwns, FirstTurn, Between
<1>6. Mapping'
  BY <1>1 DEF UserLabels, UserStops, Mapping, Unmapped, Labels, BootLabels, ChildLabels,
              Stops, Inside, userVars, tableVars
<1>7. Entries'
  BY <1>1
  DEF Entries, Disarmed, Labels, BootLabels, ChildLabels, Stops, Inside, Unentered,
      After, userVars, entryVars, taskVars
<1>8. Answers'
  BY <1>1 DEF Answers, ServiceContract, userVars, programVars
<1>. QED  BY <1>1, <1>3, <1>4, <1>5, <1>6, <1>7, <1>8 DEF UserKept, TaskInv

LEMMA LoadStep == UserIInv /\ Load => UserKept
<1>. SUFFICES ASSUME UserIInv, Load PROVE UserKept
  OBVIOUS
<1>. USE DEF UserIInv, Load
<1>1. [Next]_vars /\ IInv' /\ TaskInv' /\ held' = held /\ held = {cred["user"]}
  BY DemoKeeps DEF UserOwns, taskVars
<1>2. Mapping'
  BY DEF UserLabels, UserStops, Mapping, Unmapped, UserPage, Labels, BootLabels,
         ChildLabels, Stops, Inside, userVars, tableVars
<1>3. Entries'
  BY DEF Entries, Disarmed, Labels, BootLabels, ChildLabels, Stops, Inside, Unentered,
         After, userVars, entryVars, taskVars
<1>4. Answers'
  BY DEF Answers, ServiceContract, userVars, programVars
<1>. QED  BY <1>1, <1>2, <1>3, <1>4 DEF UserKept

LEMMA install_mappingStep == UserIInv /\ install_mapping => UserKept
<1>. SUFFICES ASSUME UserIInv, install_mapping PROVE UserKept
  OBVIOUS
<1>. USE DEF UserIInv, install_mapping, Check
<1>1. rip' = "arm"
  BY DEF Mapping, Unmapped
<1>2. [Next]_vars /\ IInv' /\ TaskInv' /\ held' = held /\ held = {cred["user"]}
  BY <1>1, DemoKeeps DEF UserOwns, taskVars, ownerVars
<1>3. Mapping'
  BY <1>1, <1>2
  DEF UserLabels, UserStops, Mapping, MappedAlone, UserPage, Labels, BootLabels,
      ChildLabels, Stops, Inside, ownerVars
<1>4. Entries'
  BY <1>1
  DEF Entries, Disarmed, Labels, BootLabels, ChildLabels, Stops, Inside, Unentered,
      After, entryVars, taskVars
<1>5. Answers'
  BY <1>1 DEF Answers, ServiceContract, programVars
<1>. QED  BY <1>2, <1>3, <1>4, <1>5 DEF UserKept

LEMMA ArmStep == UserIInv /\ Arm => UserKept
<1>. SUFFICES ASSUME UserIInv, Arm PROVE UserKept
  OBVIOUS
<1>. USE DEF UserIInv, Arm
<1>1. [Next]_vars /\ IInv' /\ TaskInv' /\ held' = held /\ held = {cred["user"]}
  BY DemoKeeps DEF UserOwns, ownerVars
<1>2. Mapping'
  BY <1>1
  DEF UserLabels, UserStops, Mapping, MappedAlone, UserPage, Labels, BootLabels,
      ChildLabels, Stops, Inside, ownerVars, tableVars
<1>3. Entries'
  BY DEF Entries, Armed, Disarmed, Labels, BootLabels, ChildLabels, Stops, Inside,
         Unentered, After
<1>4. Answers'
  BY DEF Answers, ServiceContract, programVars
<1>. QED  BY <1>1, <1>2, <1>3, <1>4 DEF UserKept

LEMMA user_enterStep == UserIInv /\ user_enter => UserKept
<1>. SUFFICES ASSUME UserIInv, user_enter PROVE UserKept
  OBVIOUS
<1>. USE DEF UserIInv, user_enter
<1>1. [Next]_vars /\ IInv' /\ TaskInv' /\ held' = held /\ held = {cred["user"]}
  BY DemoKeeps DEF UserOwns, ownerVars, taskVars
<1>2. Mapping'
  BY <1>1
  DEF UserLabels, UserStops, Mapping, MappedAlone, UserPage, Labels, BootLabels,
      ChildLabels, Stops, Inside, ownerVars, tableVars
<1>3. Entries'
  BY DEF Entries, Armed, Labels, BootLabels, ChildLabels, Stops, Inside, Frame,
         Unentered, After, entryVars, taskVars
<1>4. Answers'
  BY DEF Answers, ServiceContract, programVars
<1>. QED  BY <1>1, <1>2, <1>3, <1>4 DEF UserKept

\* What the program may do in ring 3: it goes on, or enters on the return or
\* on the exception stack.
LEMMA UserAccessStep == UserIInv /\ UserAccess => UserKept
<1>. SUFFICES ASSUME UserIInv, UserAccess PROVE UserKept
  OBVIOUS
<1>. USE DEF UserIInv, UserAccess, Running
<1>1. cpl = 3 /\ rip = "ring3"
  BY DEF Entries
<1>2. rip' \in {"ring3", "exception"}
  BY <1>1 DEF EnterKernel
<1>3. [Next]_vars /\ IInv' /\ TaskInv' /\ held' = held /\ held = {cred["user"]}
  BY <1>1, <1>2, DemoKeeps DEF UserOwns, UserStops, ownerVars, taskVars
<1>4. tlb' \subseteq tlb \cup {pt} /\ root' = root /\ pt' = pt
  OBVIOUS
<1>5. Mapping'
  BY <1>1, <1>2, <1>3, <1>4
  DEF UserLabels, UserStops, Mapping, MappedAlone, UserPage, Labels, BootLabels,
      ChildLabels, Stops, Inside, ownerVars
<1>6. suspended' = suspended
  BY DEF EnterKernel
<1>7. Entries'
  <2>1. Armed'
    BY <1>1 DEF Entries, Inside, Armed, entryVars, taskVars
  <2>2. rip' = "ring3" => cpl' = 3 /\ on' = on
    BY <1>1 DEF EnterKernel
  <2>3. cpl' \in {0, 3} /\ (cpl' = 3 <=> rip' = "ring3")
    BY <1>1 DEF EnterKernel
  <2>. QED
    BY <1>1, <1>2, <1>6, <2>1, <2>2, <2>3
    DEF Entries, Labels, BootLabels, ChildLabels, Stops, Inside, Unentered, After
<1>8. Answers'
  BY <1>2, InsnFacts DEF Answers, ServiceContract
<1>. QED  BY <1>3, <1>5, <1>7, <1>8 DEF UserKept

LEMMA SysenterStep == UserIInv /\ Sysenter => UserKept
<1>. SUFFICES ASSUME UserIInv, Sysenter PROVE UserKept
  OBVIOUS
<1>. USE DEF UserIInv, Sysenter, Running
<1>1. rip = "ring3" /\ Armed
  BY DEF Entries, Inside
<1>2. /\ rip' = "dispatch" /\ on' = "return" /\ cpl' = 0 /\ suspended' = suspended
      /\ regs' = "user"
  BY <1>1 DEF EnterKernel, Armed
<1>3. [Next]_vars /\ IInv' /\ TaskInv' /\ held' = held /\ held = {cred["user"]}
  BY <1>1, <1>2, DemoKeeps DEF UserOwns, ownerVars, taskVars
<1>4. Mapping'
  BY <1>1, <1>2, <1>3
  DEF UserLabels, UserStops, Mapping, MappedAlone, UserPage, Labels, BootLabels,
      ChildLabels, Stops, Inside, ownerVars, tableVars
<1>5. Entries'
  BY <1>1, <1>2
  DEF Entries, Armed, Labels, BootLabels, ChildLabels, Stops, Inside, Unentered, After,
      entryVars, taskVars
<1>6. Answers'
  BY <1>2 DEF Answers, ServiceContract, programVars, Insn
<1>. QED  BY <1>3, <1>4, <1>5, <1>6 DEF UserKept

\* Outside ring 3 the privilege level is 0.
LEMMA InKernel ==
    ASSUME cpl' = 0, rip' # "ring3"
    PROVE  cpl' \in {0, 3} /\ (cpl' = 3 <=> rip' = "ring3")
OBVIOUS

LEMMA Int80Step == UserIInv /\ Int80 => UserKept
<1>. SUFFICES ASSUME UserIInv, Int80 PROVE UserKept
  OBVIOUS
<1>. USE DEF UserIInv, Int80, Running
<1>1. rip = "ring3" /\ Armed
  BY DEF Entries, Inside
<1>2. /\ rip' = "user return" /\ on' = "return" /\ cpl' = 0 /\ suspended' = suspended
      /\ regs' = "user"
  BY <1>1 DEF EnterKernel, Armed
<1>3. [Next]_vars /\ IInv' /\ TaskInv' /\ held' = held /\ held = {cred["user"]}
  BY <1>1, <1>2, DemoKeeps DEF UserOwns, ownerVars, taskVars
<1>4. Mapping'
  BY <1>1, <1>2, <1>3
  DEF UserLabels, UserStops, Mapping, MappedAlone, UserPage, Labels, BootLabels,
      ChildLabels, Stops, Inside, ownerVars, tableVars
<1>5. Entries'
  <2>1. cpl' \in {0, 3} /\ (cpl' = 3 <=> rip' = "ring3")
    <3>1. cpl' = 0 /\ rip' # "ring3"
      BY <1>2
    <3>. QED  BY <3>1, InKernel
  <2>2. Armed'
    BY <1>1 DEF Armed, entryVars, taskVars
  <2>. QED
    BY <1>1, <1>2, <2>1, <2>2
    DEF Entries, Labels, BootLabels, ChildLabels, Stops, Inside, Unentered, After
<1>6. Answers'
  BY <1>2 DEF Answers, ServiceContract, programVars
<1>. QED  BY <1>3, <1>4, <1>5, <1>6 DEF UserKept

LEMMA system_call_dispatchStep == UserIInv /\ system_call_dispatch => UserKept
<1>. SUFFICES ASSUME UserIInv, system_call_dispatch PROVE UserKept
  OBVIOUS
<1>. USE DEF UserIInv, system_call_dispatch
<1>1. rip' \in {"rejected", "sysexit"}
  OBVIOUS
<1>2. [Next]_vars /\ IInv' /\ TaskInv' /\ held' = held /\ held = {cred["user"]}
  BY <1>1, DemoKeeps DEF UserOwns, UserStops, ownerVars, taskVars
<1>3. Mapping'
  BY <1>1, <1>2
  DEF UserLabels, UserStops, Mapping, MappedAlone, UserPage, Labels, BootLabels,
      ChildLabels, Stops, Inside, ownerVars, tableVars
<1>4. Entries'
  BY <1>1
  DEF Entries, Armed, Labels, BootLabels, ChildLabels, Stops, Inside, Unentered, After,
      entryVars, taskVars
<1>5. Insn' = Insn /\ program \in Programs /\ ip \in 1 .. Len(program) /\ Insn.op = "request"
  BY DEF Answers, Insn, programVars
<1>6. rip' = "sysexit" => result' = Contract(Insn)'
  <2>1. \/ Insn.number = WRITE /\ result' = write_text
        \/ Insn.number # WRITE /\ result' = ENOSYS
        \/ rip' = "rejected"
    <3>1. Insn.number = WRITE => Insn.number < Services
      BY UserAssumption
    <3>. QED  BY <3>1
  <2>2. Contract(Insn)' = Contract(Insn)
    BY <1>5 DEF Contract, Readable, Leaf, InCode, InStack
  <2>. QED  BY <1>5, <2>1, <2>2, InsnFacts, DispatchAnswers
<1>7. rip' = "sysexit" => \A a \in touched' : Permitted(a, "read")'
  <2>1. root' = "user"
    BY DEF Mapping, MappedAlone, Inside, tableVars
  <2>2. rip' = "sysexit" => touched' = {} \/ (Copies /\ touched' = Bytes(Insn.address, Insn.length))
    OBVIOUS
  <2>3. rip' = "sysexit" => \A a \in touched' : Leaf(a, "read")
    BY <1>5, <2>2, InsnFacts, DispatchAnswers
  <2>. QED  BY <2>1, <2>3 DEF Permitted, Leaf, InCode, InStack
<1>8. Answers'
  BY <1>5, <1>6, <1>7 DEF Answers, ServiceContract, programVars
<1>. QED  BY <1>2, <1>3, <1>4, <1>8 DEF UserKept

LEMMA SysExitStep == UserIInv /\ SysExit => UserKept
<1>. SUFFICES ASSUME UserIInv, SysExit PROVE UserKept
  OBVIOUS
<1>. USE DEF UserIInv, SysExit
<1>1. [Next]_vars /\ IInv' /\ TaskInv' /\ held' = held /\ held = {cred["user"]}
  BY DemoKeeps DEF UserOwns, ownerVars, taskVars
<1>2. Mapping'
  BY <1>1
  DEF UserLabels, UserStops, Mapping, MappedAlone, UserPage, Labels, BootLabels,
      ChildLabels, Stops, Inside, ownerVars, tableVars
<1>3. Entries'
  BY DEF Entries, Armed, Labels, BootLabels, ChildLabels, Stops, Inside, Unentered,
         After, entryVars, taskVars
<1>4. Answers'
  BY InsnFacts DEF Answers, ServiceContract
<1>. QED  BY <1>1, <1>2, <1>3, <1>4 DEF UserKept

LEMMA user_return_dispatchStep == UserIInv /\ user_return_dispatch => UserKept
<1>. SUFFICES ASSUME UserIInv, user_return_dispatch PROVE UserKept
  OBVIOUS
<1>. USE DEF UserIInv, user_return_dispatch
<1>1. cpl = 0 /\ cpl' = 0
  <2>1. rip # "ring3"
    OBVIOUS
  <2>. QED  BY <2>1 DEF Entries
<1>2. suspended = Frame("returned", "boot") /\ Armed
  BY DEF Entries, Inside
<1>3. \/ rip' = "returned" /\ regs' = "boot" /\ on' = "boot"
      \/ rip' = "assert"
  BY <1>2 DEF Frame
<1>4. [Next]_vars /\ IInv' /\ TaskInv' /\ held' = held /\ held = {cred["user"]}
  BY <1>3, DemoKeeps DEF UserOwns, UserStops, ownerVars, taskVars
<1>5. Mapping'
  BY <1>3, <1>4
  DEF UserLabels, UserStops, Mapping, MappedAlone, UserPage, Labels, BootLabels,
      ChildLabels, Stops, Inside, ownerVars, tableVars
<1>6. Entries'
  BY <1>1, <1>2, <1>3
  DEF Entries, Armed, Labels, BootLabels, ChildLabels, Stops, Inside, Unentered, After,
      entryVars, taskVars
<1>7. Answers'
  BY <1>3 DEF Answers, ServiceContract, programVars
<1>. QED  BY <1>4, <1>5, <1>6, <1>7 DEF UserKept

LEMMA DisarmStep == UserIInv /\ Disarm => UserKept
<1>. SUFFICES ASSUME UserIInv, Disarm PROVE UserKept
  OBVIOUS
<1>. USE DEF UserIInv, Disarm, Check
<1>1. rip' = "unmap" /\ oldStack = "boot"
  BY DEF Entries, After, Armed
<1>2. [Next]_vars /\ IInv' /\ TaskInv' /\ held' = held /\ held = {cred["user"]}
  BY <1>1, DemoKeeps DEF UserOwns, ownerVars
<1>3. Mapping'
  BY <1>1, <1>2
  DEF UserLabels, UserStops, Mapping, MappedAlone, UserPage, Labels, BootLabels,
      ChildLabels, Stops, Inside, ownerVars, tableVars
<1>4. Entries'
  BY <1>1
  DEF Entries, Disarmed, Labels, BootLabels, ChildLabels, Stops, Inside, Unentered,
      After
<1>5. Answers'
  BY <1>1 DEF Answers, ServiceContract, programVars
<1>. QED  BY <1>2, <1>3, <1>4, <1>5 DEF UserKept

LEMMA UnmapStep == UserIInv /\ Unmap => UserKept
<1>. SUFFICES ASSUME UserIInv, Unmap PROVE UserKept
  OBVIOUS
<1>. USE DEF UserIInv, Unmap
<1>1. [Next]_vars /\ IInv' /\ TaskInv' /\ held' = held /\ held = {cred["user"]}
  BY DemoKeeps DEF UserOwns, ownerVars, taskVars
<1>2. Mapping'
  BY <1>1
  DEF UserLabels, UserStops, Mapping, MappedAlone, UserPage, Labels, BootLabels,
      ChildLabels, Stops, Inside, ownerVars
<1>3. Entries'
  BY DEF Entries, Disarmed, Labels, BootLabels, ChildLabels, Stops, Inside, Unentered,
         After, entryVars, taskVars
<1>4. Answers'
  BY DEF Answers, ServiceContract, programVars
<1>. QED  BY <1>1, <1>2, <1>3, <1>4 DEF UserKept

LEMMA FlushTlbStep == UserIInv /\ FlushTlb => UserKept
<1>. SUFFICES ASSUME UserIInv, FlushTlb PROVE UserKept
  OBVIOUS
<1>. USE DEF UserIInv, FlushTlb, Check
<1>1. rip' = "user free" /\ root = "none"
  BY DEF Mapping
<1>2. [Next]_vars /\ IInv' /\ TaskInv' /\ held' = held /\ held = {cred["user"]}
  BY <1>1, DemoKeeps DEF UserOwns, ownerVars, taskVars
<1>3. Mapping'
  BY <1>1
  DEF UserLabels, UserStops, Mapping, Unmapped, Labels, BootLabels, ChildLabels, Stops,
      Inside
<1>4. Entries'
  BY <1>1
  DEF Entries, Disarmed, Labels, BootLabels, ChildLabels, Stops, Inside, Unentered,
      After, entryVars, taskVars
<1>5. Answers'
  BY <1>1 DEF Answers, ServiceContract, programVars
<1>. QED  BY <1>2, <1>3, <1>4, <1>5 DEF UserKept

LEMMA UserStutterStep == UserIInv /\ UNCHANGED allUserVars => UserKept
<1>. SUFFICES ASSUME UserIInv, UNCHANGED allUserVars PROVE UserKept
  OBVIOUS
<1>. USE DEF UserIInv, allUserVars
<1>1. [Next]_vars /\ IInv' /\ vars' = vars
  BY StutterStep DEF allTaskVars
<1>2. /\ layout' = layout /\ zoneOf' = zoneOf /\ zonesSize' = zonesSize
      /\ held' = held /\ phase' = phase
  BY <1>1 DEF vars, pageVars, zoneVars
<1>3. FlowTypes'
  BY <1>2 DEF TaskInv, FlowTypes, allTaskVars, cpu, taskVars, ownerVars
<1>4. Flows'
  BY DEF TaskInv, Flows, Work, Executing, Task, Switched, Leaving, allTaskVars, cpu,
         taskVars
<1>5. Holdings'
  BY <1>2, FirstPageKept
  DEF TaskInv, Holdings, FirstPage, allTaskVars, cpu, ownerVars
<1>6. Mapping'
  BY <1>2 DEF UserLabels, UserStops, Mapping, Unmapped, MappedAlone, UserPage,
              allTaskVars, cpu, ownerVars, userVars, tableVars
<1>7. Entries'
  BY DEF Entries, Disarmed, Armed, allTaskVars, cpu, taskVars, userVars, entryVars
<1>8. Answers'
  BY DEF Answers, ServiceContract, Permitted, Insn, Contract, Readable, Leaf, InCode,
         InStack, allTaskVars, cpu, userVars, programVars, tableVars
<1>. QED  BY <1>1, <1>3, <1>4, <1>5, <1>6, <1>7, <1>8 DEF UserKept, TaskInv

LEMMA UserInitInv == UserInit => UserIInv
<1>. SUFFICES ASSUME UserInit PROVE UserIInv
  OBVIOUS
<1>1. IInv /\ TaskInv /\ rip = "memory"
  BY TaskInitInv DEF UserInit, TaskInit, TaskIInv
<1>2. Mapping
  BY <1>1 DEF UserLabels, Stops, Mapping, Inside, Labels, BootLabels
<1>3. Entries
  BY <1>1 DEF UserInit, Entries, Inside, Unentered, After
<1>4. Answers
  <2>1. Len(program) >= 1 /\ Len(program) \in Nat
    BY UserAssumption, LenProperties DEF UserInit
  <2>. QED  BY <1>1, <2>1 DEF UserInit, Answers, ServiceContract
<1>. QED  BY <1>1, <1>2, <1>3, <1>4 DEF UserIInv

LEMMA UserNextInv == UserIInv /\ [UserNext]_allUserVars => UserKept
BY BeforeUserStep, WalkStep, PrepareCpuStep, TakePageStep, LoadStep, install_mappingStep,
   ArmStep, user_enterStep, UserAccessStep, SysenterStep, Int80Step,
   system_call_dispatchStep, SysExitStep, user_return_dispatchStep, DisarmStep, UnmapStep,
   FlushTlbStep, FreePageStep, UserStutterStep
DEF UserNext, UserStep, KernelPart, UserPart, UserEnd

-----------------------------------------------------------------------------
(***************************************************************************)
(* What holds of UserMode.                                                 *)
(***************************************************************************)
THEOREM UserInvariance == UserSpec => []UserIInv
<1>1. UserIInv /\ [UserNext]_allUserVars => UserIInv'
  BY UserNextInv DEF UserKept
<1>. QED  BY <1>1, UserInitInv, PTL DEF UserSpec

\* Once memory::init is over no low address leads to memory nobody holds, at
\* any moment the CPU may cache a translation.
THEOREM TranslationsCurrent == UserSpec => []NoStaleTranslation
<1>1. UserIInv => NoStaleTranslation
  BY DEF UserIInv, NoStaleTranslation, Mapping, Unmapped, MappedAlone, UserLabels,
         UserStops, Inside, Stops, Labels
<1>. QED  BY <1>1, UserInvariance, PTL

\* In ring 3 every way back leads to a stack other than the one on which the
\* kernel's call chain waits, and no register of the kernel is visible.
THEOREM WayBackStays == UserSpec => []WayBackIsSafe
<1>1. UserIInv => WayBackIsSafe
  <2>. SUFFICES ASSUME Entries PROVE WayBackIsSafe
    BY DEF UserIInv
  <2>1. cpl = 3 => rip = "ring3"
    BY DEF Entries
  <2>2. rip = "ring3" => on = "user" /\ regs \in {"zero", "user"} /\ Armed
    BY DEF Entries, Inside
  <2>3. rip \in Inside => suspended = Frame("returned", "boot")
    BY DEF Entries
  <2>4. cpl = 3 => /\ on = "user" /\ regs \in {"zero", "user"}
                   /\ rsp0 = "return" /\ sysenter.esp = "return"
    <3>1. Armed => rsp0 = "return" /\ sysenter.esp = "return"
      BY DEF Armed
    <3>. QED  BY <2>1, <2>2, <3>1
  <2>5. rip \in {"ring3", "dispatch", "sysexit", "user return"} =>
            suspended = [rip |-> "returned", regs |-> "boot"]
    BY <2>3 DEF Inside, Frame
  <2>. QED  BY <2>4, <2>5 DEF WayBackIsSafe
<1>. QED  BY <1>1, UserInvariance, PTL

\* For every address and length up to 2^64 - 1 a request is answered as the
\* contract of its service says.
THEOREM ContractHolds == UserSpec => []ServiceContract
<1>1. UserIInv => ServiceContract
  BY DEF UserIInv, Answers
<1>. QED  BY <1>1, UserInvariance, PTL

\* Whatever the program was, nothing of the demonstration is left when
\* keyboard::init starts.
THEOREM NothingLeft == UserSpec => []CleanExit
<1>1. UserIInv => CleanExit
  BY DEF UserIInv, TaskInv, Holdings, Mapping, Unmapped, Entries, After, Disarmed,
         CleanExit
<1>. QED  BY <1>1, UserInvariance, PTL

=============================================================================
