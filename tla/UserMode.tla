------------------------------ MODULE UserMode -------------------------------
(***************************************************************************)
(* The user mode demonstration: src/kernel/usermode.rs and usermode.S, the *)
(* system call path syscall.rs and syscall.S, and the removal of the       *)
(* identity map at the end of memory::init.  It follows Tasks and uses one *)
(* page of PageAllocator, which becomes the two user pages.                *)
(*                                                                         *)
(* The program is a sequence of instructions, from a set Programs: the     *)
(* user_demo of the repository is one of them.  The CPU may load any       *)
(* translation the tables allow into its TLB at any time.                  *)
(*                                                                         *)
(* Addresses are integers below Word (2^64); PT maps two pages of Page     *)
(* bytes, the code page at Code and the stack page at Stack.               *)
(***************************************************************************)
EXTENDS Tasks

CONSTANTS
    Word,       \* 2^64
    Page,       \* PAGE
    Code,       \* CODE
    CodeSize,   \* user_code_size()
    Stack,      \* STACK
    MaxWrite,   \* MAX_WRITE
    Services,   \* the length of SERVICES
    Programs    \* the user programs

WRITE == 1
ENOSYS == -38
EFAULT == -14
EINVAL == -22
StackTop == Stack + Page

(***************************************************************************)
(* An instruction is a memory access (read, write, exec), HLT, a request,  *)
(* or the INT 0x80 that ends the program.  rip and rsp are what the program passes in RDX and *)
(* RCX, or what the CPU saves for INT; the program notes a failure when a  *)
(* request does not return expect.                                         *)
(***************************************************************************)
Instructions ==
    [op : {"read", "write", "exec", "hlt", "request", "done"},
     address : 0 .. Word - 1, number : 0 .. Word - 1, length : 0 .. Word - 1,
     utf8 : BOOLEAN, rip : 0 .. Word - 1, rsp : 0 .. Word - 1, expect : Int]

ASSUME UserAssumption ==
    /\ Page \in Nat \ {0} /\ Code \in Nat /\ Stack \in Nat /\ Word \in Nat
    /\ CodeSize \in 1 .. Page
    /\ Code + Page < Stack /\ Stack + Page < Word
    /\ MaxWrite \in Nat /\ Services \in Nat /\ WRITE < Services
    /\ \A p \in Programs :
          /\ p \in Seq(Instructions) /\ p # <<>>
          /\ \A k \in 1 .. Len(p) : p[k].op = "done" <=> k = Len(p)

VARIABLES
    cpl,        \* the privilege level
    root,       \* what PML4[0] leads to: "identity", "user" or "none"
    pt,         \* the page the leaves of PT refer to
    tlb,        \* what cached low translations refer to
    sysenter,   \* IA32_SYSENTER_CS and _ESP
    gate,       \* the handler of vector 0x80
    active,     \* ACTIVE
    suspended,  \* the call chain at user_kernel_rsp
    oldStack,   \* the local old_stack
    program,    \* the user program
    ip,         \* its next instruction
    failures,   \* its register of failures
    result,     \* RAX of the request under way
    touched     \* history: the addresses that request read

tableVars == <<root, pt, tlb>>
entryVars == <<sysenter, gate, active, oldStack>>
programVars == <<program, ip, failures>>
userVars == <<cpl, tableVars, entryVars, suspended, programVars, result, touched>>
allUserVars == <<allTaskVars, userVars>>

Identity == -1   \* memory as a whole, not a page of a caller
NoSysenter == [cs |-> 0, esp |-> "none"]
UserStops == {"assert", "nomem", "cpu", "rejected", "exception"}

UserInit ==
    /\ TaskInit
    /\ cpl = 0
    /\ root = "identity" /\ pt = 0 /\ tlb = {}
    /\ sysenter = NoSysenter /\ gate = "fatal" /\ active = FALSE
    /\ suspended = NoFrame /\ oldStack = "none"
    /\ program \in Programs /\ ip = 1 /\ failures = FALSE
    /\ result = 0 /\ touched = {}

\* Everything up to usermode::demonstrate; memory::init ends by clearing
\* PML4[0] and flushing the TLB.
BeforeUser ==
    /\ TaskStep
    /\ IF rip = "memory" /\ phase' = "ready"
       THEN root' = "none" /\ tlb' = {}
       ELSE UNCHANGED <<root, tlb>>
    /\ UNCHANGED <<cpl, pt, entryVars, suspended, programVars, result, touched>>

\* The page walker loads what the tables allow (external).
Walk ==
    /\ rip \notin UserStops
    /\ root # "none"
    /\ tlb' = tlb \cup {IF root = "user" THEN pt ELSE Identity}
    /\ UNCHANGED <<allTaskVars, cpl, root, pt, entryVars, suspended, programVars,
                   result, touched>>

-----------------------------------------------------------------------------
(***************************************************************************)
(* demonstrate, up to user_enter.                                          *)
(***************************************************************************)
UserPage == cred["user"].first

\* prepare_cpu: the CPU has what the demonstration needs, or the kernel stops.
PrepareCpu ==
    /\ rip = "user demo"
    /\ \/ Check(~active, "user page")
       \/ rip' = "cpu"
    /\ UNCHANGED <<vars, on, regs, taskVars, ownerVars, userVars>>

TakePage ==
    /\ rip = "user page"
    /\ Obtain("user", "Mapped", "load")
    /\ UNCHANGED <<on, regs, taskVars, physical, dirty, userVars>>

\* Two pages of zeros, then the program.
Load ==
    /\ rip = "load"
    /\ dirty' = dirty \ {UserPage}
    /\ rip' = "map"
    /\ UNCHANGED <<vars, on, regs, taskVars, cred, physical, userVars>>

install_mapping ==
    /\ rip = "map"
    /\ Check(root = "none", "arm")
    /\ pt' = UserPage /\ root' = "user" /\ tlb' = {}
    /\ UNCHANGED <<vars, on, regs, taskVars, ownerVars, cpl, entryVars, suspended,
                   programVars, result, touched>>

\* Mutant: the traps from user mode come in on the boot stack.
BugArm ==
    /\ rip = "arm"
    /\ oldStack' = rsp0
    /\ sysenter' = [cs |-> 8, esp |-> rsp0]
    /\ gate' = "user_return_entry" /\ active' = TRUE
    /\ rip' = "enter"
    /\ UNCHANGED <<vars, on, regs, taskVars, ownerVars, cpl, tableVars, suspended,
                   programVars, result, touched>>

\* set_kernel_stack, syscall::enable, set_user_return_gate, ACTIVE.
Arm ==
    /\ rip = "arm"
    /\ oldStack' = rsp0 /\ rsp0' = "return"
    /\ sysenter' = [cs |-> 8, esp |-> "return"]
    /\ gate' = "user_return_entry" /\ active' = TRUE
    /\ rip' = "enter"
    /\ UNCHANGED <<vars, on, regs, saved, state, current, progress, exitCode, swap,
                   ownerVars, cpl, tableVars, suspended, programVars, result, touched>>

\* The call chain stays on the boot stack; no kernel register goes to ring 3.
user_enter ==
    /\ rip = "enter"
    /\ suspended' = [rip |-> "returned", regs |-> regs]
    /\ regs' = "zero" /\ on' = "user" /\ cpl' = 3
    /\ rip' = "ring3"
    /\ UNCHANGED <<vars, taskVars, ownerVars, tableVars, entryVars, programVars,
                   result, touched>>

-----------------------------------------------------------------------------
(***************************************************************************)
(* CPL 3.  The CPU enters the kernel on a stack it was given before; what  *)
(* it pushes there destroys what lies at the top of that stack.            *)
(***************************************************************************)
Insn == program[ip]
Running(ops) == cpl = 3 /\ Insn.op \in ops

InCode(a) == a \in Code .. Code + Page - 1
InStack(a) == a \in Stack .. StackTop - 1

\* The leaves of PT: code is read-only, the stack may not be executed.
Leaf(a, op) ==
    \/ InCode(a) /\ op \in {"read", "exec"}
    \/ InStack(a) /\ op \in {"read", "write"}

Permitted(a, op) == root = "user" /\ Leaf(a, op)

EnterKernel(stack, label) ==
    /\ cpl' = 0 /\ on' = stack /\ rip' = label
    /\ suspended' = IF stack = "boot" THEN NoFrame ELSE suspended

UserAccess ==
    /\ Running({"read", "write", "exec", "hlt"})
    /\ IF Permitted(Insn.address, Insn.op)
       THEN /\ tlb' = tlb \cup {pt}
            /\ ip' = ip + 1
            /\ UNCHANGED <<rip, on, cpl, suspended>>
       ELSE /\ EnterKernel("exception", "exception")
            /\ UNCHANGED <<tlb, ip>>
    /\ UNCHANGED <<vars, regs, taskVars, ownerVars, root, pt, entryVars, program,
                   failures, result, touched>>

Sysenter ==
    /\ Running({"request"})
    /\ IF sysenter.cs # 0
       THEN EnterKernel(sysenter.esp, "dispatch")
       ELSE EnterKernel("exception", "exception")
    /\ regs' = "user"
    /\ UNCHANGED <<vars, taskVars, ownerVars, tableVars, entryVars, programVars,
                   result, touched>>

Int80 ==
    /\ Running({"done"})
    /\ IF gate = "user_return_entry"
       THEN EnterKernel(rsp0, "user return")
       ELSE EnterKernel("exception", "exception")
    /\ regs' = "user"
    /\ UNCHANGED <<vars, taskVars, ownerVars, tableVars, entryVars, programVars,
                   result, touched>>

-----------------------------------------------------------------------------
(***************************************************************************)
(* system_call_dispatch and its services.                                  *)
(***************************************************************************)
\* Mutant: RCX and RDX are swapped.
BugValidSyscall ==
    /\ active /\ rsp0 = "return" /\ on = "return"
    /\ Insn.rsp \in Code .. Code + CodeSize - 1
    /\ InStack(Insn.rip)

valid_syscall ==
    /\ active /\ rsp0 = "return" /\ on = "return"
    /\ Insn.rip \in Code .. Code + CodeSize - 1
    /\ InStack(Insn.rsp)

\* Mutant: the end of the range wraps.
BugReadable(address, length) ==
    LET end == (address + length) % Word
    IN  \/ Code <= address /\ end <= Code + Page
        \/ Stack <= address /\ end <= StackTop

readable(address, length) ==
    LET end == address + length
    IN  /\ end < Word
        /\ \/ Code <= address /\ end <= Code + Page
           \/ Stack <= address /\ end <= StackTop

Bytes(address, length) == {(address + k) % Word : k \in 0 .. length - 1}

\* What write_text reads, and what it returns.
Copies == /\ Insn.length \in 1 .. MaxWrite
          /\ readable(Insn.address, Insn.length)

write_text ==
    IF Insn.length > MaxWrite THEN EINVAL
    ELSE IF Insn.length = 0 THEN 0
    ELSE IF ~readable(Insn.address, Insn.length) THEN EFAULT
    ELSE IF ~Insn.utf8 THEN EINVAL
    ELSE Insn.length

system_call_dispatch ==
    /\ rip = "dispatch"
    /\ IF ~valid_syscall
       THEN rip' = "rejected" /\ UNCHANGED <<result, touched>>
       ELSE /\ rip' = "sysexit"
            /\ IF Insn.number < Services /\ Insn.number = WRITE
               THEN /\ result' = write_text
                    /\ touched' = IF Copies THEN Bytes(Insn.address, Insn.length) ELSE {}
               ELSE result' = ENOSYS /\ touched' = {}
    /\ UNCHANGED <<vars, on, regs, taskVars, ownerVars, cpl, tableVars, entryVars,
                   suspended, programVars>>

\* RESTORE_REGISTERS, SYSEXIT; the program looks at what came back.
SysExit ==
    /\ rip = "sysexit"
    /\ cpl' = 3 /\ on' = "user" /\ rip' = "ring3"
    /\ failures' = (failures \/ result # Insn.expect)
    /\ ip' = ip + 1
    /\ result' = 0 /\ touched' = {}
    /\ UNCHANGED <<vars, regs, taskVars, ownerVars, tableVars, entryVars, suspended,
                   program>>

-----------------------------------------------------------------------------
(***************************************************************************)
(* user_return_dispatch and the rest of demonstrate.                       *)
(***************************************************************************)
user_return_dispatch ==
    /\ rip = "user return"
    /\ IF /\ active /\ on = "return" /\ rsp0 = "return"
          /\ InCode(Insn.rip) /\ InStack(Insn.rsp)
          /\ ~failures
       THEN /\ rip' = suspended.rip /\ regs' = suspended.regs
            /\ on' = "boot" /\ suspended' = NoFrame
       ELSE rip' = "assert" /\ UNCHANGED <<regs, on, suspended>>
    /\ UNCHANGED <<vars, taskVars, ownerVars, cpl, tableVars, entryVars, programVars,
                   result, touched>>

\* Mutant: RSP0 stays on the return stack.
BugDisarm ==
    /\ rip = "returned"
    /\ Check(cpl = 0 /\ on = "boot", "unmap")
    /\ active' = FALSE /\ sysenter' = NoSysenter /\ gate' = "fatal"
    /\ UNCHANGED <<vars, on, regs, taskVars, ownerVars, cpl, tableVars, oldStack,
                   suspended, programVars, result, touched>>

Disarm ==
    /\ rip = "returned"
    /\ Check(cpl = 0 /\ on = "boot", "unmap")
    /\ active' = FALSE /\ sysenter' = NoSysenter /\ gate' = "fatal"
    /\ rsp0' = oldStack
    /\ UNCHANGED <<vars, on, regs, saved, state, current, progress, exitCode, swap,
                   ownerVars, cpl, tableVars, oldStack, suspended, programVars,
                   result, touched>>

\* Mutant: the page goes back before the TLB is flushed.
BugUnmap ==
    /\ rip = "unmap"
    /\ root' = "none"
    /\ rip' = "user free"
    /\ UNCHANGED <<vars, on, regs, taskVars, ownerVars, cpl, pt, tlb, entryVars,
                   suspended, programVars, result, touched>>

Unmap ==
    /\ rip = "unmap"
    /\ root' = "none"
    /\ rip' = "flush"
    /\ UNCHANGED <<vars, on, regs, taskVars, ownerVars, cpl, pt, tlb, entryVars,
                   suspended, programVars, result, touched>>

FlushTlb ==
    /\ rip = "flush"
    /\ tlb' = {}
    /\ Check(root = "none", "user free")
    /\ UNCHANGED <<vars, on, regs, taskVars, ownerVars, cpl, root, pt, entryVars,
                   suspended, programVars, result, touched>>

FreePage ==
    /\ rip = "user free"
    /\ GiveBack("user", "keyboard")
    /\ UNCHANGED <<on, regs, taskVars, physical, dirty, userVars>>

-----------------------------------------------------------------------------
KernelPart ==
    \/ PrepareCpu \/ TakePage \/ Load \/ install_mapping \/ Arm \/ user_enter
    \/ system_call_dispatch \/ SysExit \/ user_return_dispatch
    \/ Disarm \/ Unmap \/ FlushTlb \/ FreePage
UserPart == UserAccess \/ Sysenter \/ Int80
UserStep == BeforeUser \/ KernelPart \/ UserPart

\* keyboard::init follows; the other ends halt.
UserEnd == rip \in UserStops \cup {"keyboard"} /\ UNCHANGED allUserVars

UserNext == UserStep \/ Walk \/ UserEnd

\* The CPU never stops executing.
UserSpec == UserInit /\ [][UserNext]_allUserVars /\ WF_allUserVars(UserStep)

-----------------------------------------------------------------------------
(***************************************************************************)
(* Properties.                                                             *)
(***************************************************************************)
UserLabels ==
    (Labels \ Stops) \cup UserStops
       \cup {"user page", "load", "map", "arm", "enter", "ring3", "dispatch",
             "sysexit", "user return", "returned", "unmap", "flush", "user free",
             "keyboard"}

\* The variables have their types.
UserTypeOK ==
    /\ rip \in UserLabels
    /\ on \in Tasks \cup {"user", "return", "exception"}
    /\ regs \in {"zero", "boot", "child", "user"}
    /\ rsp0 \in Tasks \cup {"return"}
    /\ cpl \in {0, 3}
    /\ root \in {"identity", "user", "none"}
    /\ pt \in Nat
    /\ sysenter \in [cs : {0, 8}, esp : Tasks \cup {"none", "return"}]
    /\ gate \in {"fatal", "user_return_entry"} /\ active \in BOOLEAN
    /\ program \in Programs /\ ip \in 1 .. Len(program) /\ failures \in BOOLEAN
    /\ touched \subseteq 0 .. Word - 1

\* Once memory::init is over, no low address leads to memory nobody holds for
\* the demonstration: neither the tables nor a translation cached at any moment
\* outlives the ownership of the page, and the identity map is gone.  While the
\* page is mapped the program finds its own code and zeros there: it was the
\* kernel thread's stack a moment ago.
NoStaleTranslation ==
    rip # "memory" =>
        /\ root \in {"none", "user"}
        /\ root = "user" => cred["user"] \in held /\ pt = UserPage /\ pt \notin dirty
        /\ tlb # {} => cred["user"] \in held /\ tlb = {UserPage}

\* In ring 3 the kernel's call chain waits on the boot stack, every way back
\* into the kernel starts on another stack, and no register of the kernel is
\* visible.
WayBackIsSafe ==
    /\ cpl = 3 => /\ on = "user" /\ regs \in {"zero", "user"}
                  /\ rsp0 = "return" /\ sysenter.esp = "return"
    /\ rip \in {"ring3", "dispatch", "sysexit", "user return"} =>
          suspended = [rip |-> "returned", regs |-> "boot"]

\* What the service promises a caller: the text is written if and only if
\* every byte of it is memory the program itself may read, and the kernel
\* reads no other byte, for every address and length up to 2^64 - 1.
Readable(c) ==
    \A k \in 0 .. c.length - 1 :
        c.address + k < Word /\ Leaf(c.address + k, "read")

Contract(c) ==
    IF c.number # WRITE THEN ENOSYS
    ELSE IF c.length > MaxWrite THEN EINVAL
    ELSE IF ~Readable(c) THEN EFAULT
    ELSE IF c.length > 0 /\ ~c.utf8 THEN EINVAL
    ELSE c.length

\* A request is answered as the contract says, and what was read for it lies
\* in pages the program may read.
ServiceContract ==
    rip = "sysexit" =>
        /\ result = Contract(Insn)
        /\ \A a \in touched : Permitted(a, "read")

\* Nothing of the demonstration is left when keyboard::init starts: no entry
\* into the kernel, no mapping, no page, and the boot task runs as before.
CleanExit ==
    rip = "keyboard" =>
        /\ cpl = 0 /\ on = "boot" /\ regs = "boot" /\ rsp0 = "boot"
        /\ ~active /\ sysenter = NoSysenter /\ gate = "fatal"
        /\ root = "none" /\ tlb = {} /\ held = {}

\* A program that stays within its pages, has the kernel return where it may
\* and expects what the contract says; user_demo is one.
WellBehaved ==
    \A k \in 1 .. Len(program) :
        LET i == program[k]
        IN  CASE i.op = "request" -> i.expect = Contract(i)
                                       /\ i.rip \in Code .. Code + CodeSize - 1
                                       /\ InStack(i.rsp)
              [] i.op = "done" -> InCode(i.rip) /\ InStack(i.rsp)
              [] OTHER -> Leaf(i.address, i.op)

\* The kernel runs such a program to its end and gets its page back, unless
\* the machine lacks a page or a feature.
DemoCompletes == WellBehaved => <>(rip \in {"keyboard", "nomem", "cpu"})

=============================================================================
