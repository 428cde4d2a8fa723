-------------------------------- MODULE Tasks --------------------------------
(***************************************************************************)
(* The boot task and the first kernel thread: src/kernel/task.rs and       *)
(* task_switch.S, with the allocator's callers in Start_Kernel before      *)
(* them.  One CPU, IF=0: the two flows interleave only where they call     *)
(* switch_to, but each of them resumes with whatever the other one left in *)
(* memory, in the TSS and in the page records.                             *)
(*                                                                         *)
(* The thread's descriptor and stack live in a page of PageAllocator, so   *)
(* freeing that page too early destroys the stack the CPU runs on.         *)
(***************************************************************************)
EXTENDS PageAllocator

\* The callers ask for single pages.
ASSUME TaskAssumption == 1 \in Counts

VARIABLES
    rip,       \* what the CPU executes next
    on,        \* the stack RSP points into
    regs,      \* whose values the callee-saved registers hold
    saved,     \* the frame at Context.rsp of each task
    state,     \* Task.state
    current,   \* CURRENT
    rsp0,      \* TSS.RSP0, by the stack whose top it is
    progress,  \* Task.progress of the thread
    exitCode,  \* Task.exit_code of the thread
    swap,      \* locals of a switch_to under way
    cred,      \* the PageRun each owner holds
    physical,  \* the local `physical` of demonstrate
    dirty      \* pages whose first bytes hold data of the kernel

cpu == <<rip, on, regs>>
taskVars == <<saved, state, current, rsp0, progress, exitCode, swap>>
ownerVars == <<cred, physical, dirty>>
allTaskVars == <<vars, cpu, taskVars, ownerVars>>

Tasks == {"boot", "child"}
Owners == {"mapped", "physical", "thread", "recycled", "user"}
NoRun == [area |-> "Any", first |-> 0, count |-> 0]
NoFrame == [rip |-> "none", regs |-> "none"]
NoSwap == [previous |-> "none", next |-> "none", after |-> "none"]

BootLabels ==
    {"memory", "mapped", "physical", "write", "free physical", "free mapped",
     "adopt", "create", "fill", "switch 1", "resumed 1", "switch 2",
     "resumed 2", "reclaim", "recycle", "compare", "return page", "user demo"}
ChildLabels == {"trampoline", "init", "yield", "init resumed", "exit", "dead"}
Stops == {"assert", "nomem"}
Labels == BootLabels \cup ChildLabels \cup Stops \cup {"swap"}

\* assert!(ok)
Check(ok, label) == rip' = IF ok THEN label ELSE "assert"

\* allocate_pages(area, 1).expect(...), the credential going to owner.
Obtain(owner, area, label) ==
    \/ /\ AllocateSucceeds(area, 1)
       /\ \E run \in held' \ held : cred' = [cred EXCEPT ![owner] = run]
       /\ rip' = label
    \/ /\ AllocateFails(area, 1)
       /\ UNCHANGED cred
       /\ rip' = "nomem"

\* free_pages(run): the credential is moved into the call.
GiveBack(owner, label) ==
    /\ Release(cred[owner])
    /\ cred' = [cred EXCEPT ![owner] = NoRun]
    /\ rip' = label

TaskInit ==
    /\ Init
    /\ rip = "memory" /\ on = "boot" /\ regs = "boot"
    /\ saved = [t \in Tasks |-> NoFrame]
    /\ state = [t \in Tasks |-> "Ready"]
    /\ current = "none" /\ rsp0 = "boot"
    /\ progress = 0 /\ exitCode = 0 /\ swap = NoSwap
    /\ cred = [o \in Owners |-> NoRun]
    /\ physical = 0 /\ dirty = {}

-----------------------------------------------------------------------------
(***************************************************************************)
(* Start_Kernel up to task::demonstrate.                                   *)
(***************************************************************************)
InitMemory ==
    /\ rip = "memory"
    /\ InstallZone \/ ReservePages \/ CheckInvariants
    /\ rip' = IF phase' = "ready" THEN "mapped" ELSE "memory"
    /\ UNCHANGED <<on, regs, taskVars, ownerVars>>

AllocateBoth ==
    /\ \/ rip = "mapped" /\ Obtain("mapped", "Mapped", "physical")
       \/ rip = "physical" /\ Obtain("physical", "Any", "write")
    /\ UNCHANGED <<on, regs, taskVars, physical, dirty>>

WriteMapped ==
    /\ rip = "write"
    /\ Check(cred["mapped"].first # cred["physical"].first, "free physical")
    /\ dirty' = dirty \cup {cred["mapped"].first}
    /\ UNCHANGED <<vars, on, regs, taskVars, cred, physical>>

FreeBoth ==
    /\ \/ rip = "free physical" /\ GiveBack("physical", "free mapped")
       \/ rip = "free mapped" /\ GiveBack("mapped", "adopt")
    /\ UNCHANGED <<on, regs, taskVars, physical, dirty>>

-----------------------------------------------------------------------------
(***************************************************************************)
(* Switching.                                                              *)
(***************************************************************************)
\* assert_current_stack, for a task t that is CURRENT.
OnOwnStack(t) == on = t /\ rsp0 = t /\ state[t] = "Running"

\* Mutant: a task that gives up the CPU stays Running.
BugHandover(previous, next, after) ==
    /\ IF previous = current /\ previous # next /\ state[next] = "Ready"
       THEN /\ state' = [state EXCEPT ![next] = "Running"]
            /\ rsp0' = next /\ current' = next
            /\ swap' = [previous |-> previous, next |-> next, after |-> after]
            /\ rip' = "swap"
       ELSE rip' = "assert" /\ UNCHANGED <<state, rsp0, current, swap>>
    /\ UNCHANGED <<vars, on, regs, saved, progress, exitCode, ownerVars>>

\* switch_to up to the call of task_context_switch; `after` is where the
\* caller goes on when it is switched back to.
Handover(previous, next, after) ==
    /\ IF /\ previous = current /\ previous # next
          /\ state[next] = "Ready" /\ state[previous] \in {"Running", "Zombie"}
       THEN /\ state' = [state EXCEPT ![previous] = IF @ = "Running" THEN "Ready" ELSE @,
                                      ![next] = "Running"]
            /\ rsp0' = next /\ current' = next
            /\ swap' = [previous |-> previous, next |-> next, after |-> after]
            /\ rip' = "swap"
       ELSE rip' = "assert" /\ UNCHANGED <<state, rsp0, current, swap>>
    /\ UNCHANGED <<vars, on, regs, saved, progress, exitCode, ownerVars>>

\* Mutant: the registers are popped before they are pushed.
BugContextSwitch ==
    /\ rip = "swap"
    /\ saved' = [saved EXCEPT ![swap.previous] =
                    [rip |-> swap.after, regs |-> saved[swap.next].regs]]
    /\ on' = swap.next
    /\ rip' = saved[swap.next].rip
    /\ regs' = saved[swap.next].regs
    /\ swap' = NoSwap
    /\ UNCHANGED <<vars, state, current, rsp0, progress, exitCode, ownerVars>>

\* Six pushes and the return address of the call on the old stack, the same
\* from the new one.
ContextSwitch ==
    /\ rip = "swap"
    /\ saved' = [saved EXCEPT ![swap.previous] = [rip |-> swap.after, regs |-> regs]]
    /\ on' = swap.next
    /\ rip' = saved[swap.next].rip
    /\ regs' = saved[swap.next].regs
    /\ swap' = NoSwap
    /\ UNCHANGED <<vars, state, current, rsp0, progress, exitCode, ownerVars>>

-----------------------------------------------------------------------------
(***************************************************************************)
(* The boot task: demonstrate.                                             *)
(***************************************************************************)
Adopt ==
    /\ rip = "adopt"
    /\ state' = [state EXCEPT !["boot"] = "Running"]
    /\ current' = "boot" /\ rsp0' = "boot"
    /\ Check(current = "none" /\ on = "boot", "create")
    /\ UNCHANGED <<vars, on, regs, saved, progress, exitCode, swap, ownerVars>>

CreateThread ==
    /\ rip = "create"
    /\ Obtain("thread", "Mapped", "fill")
    /\ UNCHANGED <<on, regs, taskVars, physical, dirty>>

\* Descriptor, canary and the synthetic first frame.
FillThread ==
    /\ rip = "fill"
    /\ state' = [state EXCEPT !["child"] = "Ready"]
    /\ saved' = [saved EXCEPT !["child"] = [rip |-> "trampoline", regs |-> "zero"]]
    /\ dirty' = dirty \cup {cred["thread"].first}
    /\ rip' = "switch 1"
    /\ UNCHANGED <<vars, on, regs, current, rsp0, progress, exitCode, swap, cred, physical>>

SwitchToChild ==
    \/ rip = "switch 1" /\ Handover("boot", "child", "resumed 1")
    \/ rip = "switch 2" /\ Handover("boot", "child", "resumed 2")

\* Mutant: the thread is taken for finished when it first yields.
BugFirstReturn ==
    /\ rip = "resumed 1"
    /\ Check(current = "boot" /\ OnOwnStack("boot"), "reclaim")
    /\ UNCHANGED <<vars, on, regs, taskVars, ownerVars>>

FirstReturn ==
    /\ rip = "resumed 1"
    /\ Check(/\ current = "boot" /\ OnOwnStack("boot")
             /\ state["child"] = "Ready" /\ progress = 1 /\ exitCode = 0, "switch 2")
    /\ UNCHANGED <<vars, on, regs, taskVars, ownerVars>>

SecondReturn ==
    /\ rip = "resumed 2"
    /\ Check(/\ current = "boot" /\ OnOwnStack("boot")
             /\ state["child"] = "Zombie" /\ progress = 2 /\ exitCode = 1, "reclaim")
    /\ UNCHANGED <<vars, on, regs, taskVars, ownerVars>>

Reclaim ==
    /\ rip = "reclaim"
    /\ physical' = cred["thread"].first
    /\ GiveBack("thread", "recycle")
    /\ UNCHANGED <<on, regs, taskVars, dirty>>

Recycle ==
    /\ rip = "recycle"
    /\ Obtain("recycled", "Mapped", "compare")
    /\ UNCHANGED <<on, regs, taskVars, physical, dirty>>

Compare ==
    /\ rip = "compare"
    /\ Check(cred["recycled"].first = physical, "return page")
    /\ UNCHANGED <<vars, on, regs, taskVars, ownerVars>>

\* Mutant: the recycled page is compared again and again.
BugReturnPage ==
    /\ rip = "return page"
    /\ GiveBack("recycled", "recycle")
    /\ UNCHANGED <<on, regs, taskVars, physical, dirty>>

ReturnPage ==
    /\ rip = "return page"
    /\ GiveBack("recycled", "user demo")
    /\ UNCHANGED <<on, regs, taskVars, physical, dirty>>

-----------------------------------------------------------------------------
(***************************************************************************)
(* The thread: task_trampoline and init.                                   *)
(***************************************************************************)
Trampoline ==
    /\ rip = "trampoline"
    /\ Check(current = "child" /\ OnOwnStack("child"), "init")
    /\ regs' = "child"
    /\ UNCHANGED <<vars, on, taskVars, ownerVars>>

InitRuns ==
    /\ rip = "init"
    /\ progress' = 1
    /\ Check(OnOwnStack("child"), "yield")
    /\ UNCHANGED <<vars, on, regs, saved, state, current, rsp0, exitCode, swap, ownerVars>>

Yield == rip = "yield" /\ Handover("child", "boot", "init resumed")

\* init returns 1 to the trampoline, which records it.
InitReturns ==
    /\ rip = "init resumed"
    /\ progress' = 2
    /\ exitCode' = 1
    /\ state' = [state EXCEPT !["child"] = "Zombie"]
    /\ Check(current = "child" /\ OnOwnStack("child") /\ regs = "child", "exit")
    /\ UNCHANGED <<vars, on, regs, saved, current, rsp0, swap, ownerVars>>

Exit == rip = "exit" /\ Handover("child", "boot", "dead")

-----------------------------------------------------------------------------
BootFlow ==
    \/ InitMemory \/ AllocateBoth \/ WriteMapped \/ FreeBoth
    \/ Adopt \/ CreateThread \/ FillThread \/ SwitchToChild
    \/ FirstReturn \/ SecondReturn \/ Reclaim \/ Recycle \/ Compare \/ ReturnPage

ChildFlow == Trampoline \/ InitRuns \/ Yield \/ InitReturns \/ Exit

TaskStep == BootFlow \/ ChildFlow \/ ContextSwitch

\* user::demonstrate follows; a failed expect halts.
TaskEnd == rip \in Stops \cup {"user demo"} /\ UNCHANGED allTaskVars

TaskNext == TaskStep \/ TaskEnd

\* The CPU never stops executing: IF=0 and no HLT in these flows.
TaskSpec == TaskInit /\ [][TaskNext]_allTaskVars /\ WF_allTaskVars(TaskStep)

-----------------------------------------------------------------------------
(***************************************************************************)
(* Properties.                                                             *)
(***************************************************************************)
Frames == [rip : Labels \cup {"none"}, regs : {"none", "zero", "boot", "child"}]

\* The variables of the two flows have their types; every RET lands on code.
TaskTypeOK ==
    /\ rip \in Labels
    /\ on \in Tasks
    /\ regs \in {"zero", "boot", "child"}
    /\ saved \in [Tasks -> Frames]
    /\ state \in [Tasks -> {"Ready", "Running", "Zombie"}]
    /\ current \in Tasks \cup {"none"}
    /\ rsp0 \in Tasks
    /\ progress \in 0 .. 2 /\ exitCode \in 0 .. 1
    /\ cred \in [Owners -> Runs]
    /\ physical \in Nat
    /\ dirty \subseteq Pages

\* No assert of the two flows fails on any memory map: in particular a freed
\* page is the next one handed out, and nobody is switched to who is not Ready.
NoTaskAssert == rip # "assert"

\* The page with the thread's descriptor and stack is owned as long as the CPU
\* runs on it, the TSS or CURRENT refers to it, or the thread can be resumed.
LiveStack ==
    (\/ on = "child" \/ rsp0 = "child" \/ current = "child"
     \/ saved["child"].rip # "none" /\ state["child"] # "Zombie") =>
        /\ cred["thread"] \in held
        /\ RunPages(cred["thread"]) \subseteq used

\* Each flow finds its own registers and its own code when it is resumed, and
\* between two switches CURRENT, TSS.RSP0 and RSP speak of the same task.
ContextIntact ==
    rip \notin Stops \cup {"swap"} =>
        /\ on = "boot" => rip \in BootLabels /\ regs = "boot"
        /\ on = "child" => /\ rip \in ChildLabels
                           /\ regs = IF rip = "trampoline" THEN "zero" ELSE "child"
        /\ current # "none" => current = on /\ rsp0 = on

\* The demonstration ends: with all pages returned, or for lack of a page.
TasksFinish == <>(rip = "nomem" \/ (rip = "user demo" /\ held = {}))

=============================================================================
