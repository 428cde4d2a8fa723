----------------------------- MODULE Interrupts ------------------------------
(***************************************************************************)
(* From a device to the main loop: the PIT and the 8042 controller, the    *)
(* PIC, the CPU's interrupt flag and HLT, the handler irq_dispatch, and    *)
(* the main program that programs the devices, sleeps and consumes.        *)
(* Sources: interrupt.rs, irq.S, arch.rs (wait_for_interrupt, halt),       *)
(* keyboard.rs (init, on_interrupt, run), Start_Kernel's order of calls.   *)
(*                                                                         *)
(* One CPU, so the interleaving is between the program (main or handler)   *)
(* and the devices, at every port access and every instruction of          *)
(* STI;HLT;CLI.  The task and user mode demonstrations between the timer   *)
(* and the keyboard run with IF=0 and touch nothing modelled here.         *)
(***************************************************************************)
EXTENDS ByteQueue, Pic

CONSTANTS
    MaxBytes,    \* bound: bytes the user types
    MaxNoise     \* bound: spurious vectors

ACK == 250       \* 0xfa
RESEND == 254    \* 0xfe
Commands == <<245, 240, 2, 244>>   \* F5 stop scanning, F0 02 set 2, F4 scan
F5 == 1
F4 == 4
Attempts == 3

ASSUME InterruptAssumption == MaxBytes \in 1 .. 200 /\ MaxNoise \in Nat

VARIABLES
    \* CPU
    pc,          \* where the main program is
    resume,      \* where wait_for_interrupt returns to
    intFlag,     \* RFLAGS.IF
    shadow,      \* the instruction after STI has not completed
    frames,      \* interrupt frames on IST3: handlers under way, newest last
    \* 8042 and keyboard
    obf,         \* the output buffer; Empty or a byte with its status bits
    cfgIrq,      \* bit 0 of the configuration byte: OBF raises IRQ1
    scanning,    \* the keyboard sends what is typed
    owed,        \* the command the controller or keyboard has yet to answer
    typed,       \* the user's last byte; the n-th byte has value n
    noise,       \* spurious vectors so far
    \* kernel
    timerIrqs,   \* TIMER_IRQS
    cmd,         \* which of Commands keyboard::init is at
    tries,       \* attempts left in keyboard_command, or bytes left to drain
    \* history
    printed,     \* bytes the main loop printed
    reported,    \* losses it reported
    serviced     \* IRQ1s the handler completed

cpuVars == <<intFlag, shadow, frames>>
mainVars == <<pc, resume>>
deviceVars == <<obf, cfgIrq, scanning, owed, typed, noise>>
initVars == <<cmd, tries>>
history == <<printed, reported, serviced>>
vars == <<cpuVars, mainVars, deviceVars, picVars, queueVars, timerIrqs,
          initVars, history>>

Empty == [value |-> 0, bad |-> FALSE, full |-> FALSE]
\* bad: the status shows AUXILIARY or BAD_DATA.
Byte8042(v, b) == [value |-> v, bad |-> b, full |-> TRUE]
Nothing == 0
ReadConfig == 32

\* main at `here`, no handler on top of it.
At(here) == frames = <<>> /\ pc = here
Goto(ok, next) == pc' = IF ok THEN next ELSE "assert"
Stopped == pc \in {"assert", "device"}

\* The 8042's interrupt line; a new buffer or configuration may move it.
Level == obf.full /\ cfgIrq
Controller(buffer, irqBit) ==
    /\ obf' = buffer /\ cfgIrq' = irqBit
    /\ irr' \in Latched(KeyboardLine, Level, buffer.full /\ irqBit)

Init ==
    /\ QueueInit
    /\ irr = {} /\ isr = {} /\ imr = Lines
    /\ pc = "pic" /\ resume = "timer"
    /\ intFlag = FALSE /\ shadow = FALSE /\ frames = <<>>
    /\ obf = Empty /\ cfgIrq = TRUE /\ scanning = TRUE
    /\ owed = Nothing /\ typed = 0 /\ noise = 0
    /\ timerIrqs = 0 /\ cmd = 0 /\ tries = 0
    /\ printed = <<>> /\ reported = 0 /\ serviced = 0

-----------------------------------------------------------------------------
(***************************************************************************)
(* Devices (external).                                                     *)
(***************************************************************************)
PitEdge ==
    /\ ~Stopped
    /\ TimerLine \notin irr
    /\ irr' = irr \cup {TimerLine}
    /\ UNCHANGED <<isr, imr, cpuVars, mainVars, deviceVars, queueVars,
                   timerIrqs, initVars, history>>

\* A byte is typed.  0xad and 0xa7 close the ports, but a byte already on its
\* way may still arrive.
ScanByte ==
    /\ ~Stopped
    /\ scanning /\ ~obf.full /\ typed < MaxBytes
    /\ typed' = typed + 1
    /\ \E b \in BOOLEAN : Controller(Byte8042(typed + 1, b), cfgIrq)
    /\ UNCHANGED <<isr, imr, cpuVars, mainVars, scanning, owed, noise,
                   queueVars, timerIrqs, initVars, history>>

\* The answer to the pending command.  The keyboard obeys what it does not
\* ask to have resent.
Answer ==
    /\ ~Stopped
    /\ owed # Nothing /\ ~obf.full
    /\ owed' = Nothing
    /\ \E v \in (IF owed = ReadConfig THEN {101} ELSE {ACK, RESEND}), b \in BOOLEAN :
          /\ Controller(Byte8042(v, b), cfgIrq)
          /\ scanning' = CASE owed = Commands[F5] /\ v = ACK -> FALSE
                           [] owed = Commands[F4] /\ v = ACK -> TRUE
                           [] OTHER -> scanning
    /\ UNCHANGED <<isr, imr, cpuVars, mainVars, typed, noise,
                   queueVars, timerIrqs, initVars, history>>

-----------------------------------------------------------------------------
(***************************************************************************)
(* The CPU takes an interrupt: IF is set, the instruction after STI has    *)
(* completed.  Every IRQ gate is an interrupt gate (0x8e) on IST3.         *)
(***************************************************************************)
Deliver(irq) ==
    /\ intFlag /\ ~shadow /\ ~Stopped
    /\ frames' = Append(frames, [irq |-> irq, step |-> "entry",
                                 saved |-> intFlag, full |-> FALSE])
    /\ intFlag' = FALSE
    /\ pc' = IF pc = "halted" THEN "cli" ELSE pc
    /\ UNCHANGED <<resume, shadow>>

Accept ==
    /\ \E l \in Requests :
          /\ \A m \in Requests : l <= m
          /\ Deliver(l)
          /\ Acknowledge(l)
    /\ UNCHANGED <<deviceVars, queueVars, timerIrqs, initVars, history>>

AcceptSpurious ==
    /\ noise < MaxNoise
    /\ Deliver(SpuriousLine)
    /\ noise' = noise + 1
    /\ UNCHANGED <<picVars, obf, cfgIrq, scanning, owed, typed, queueVars,
                   timerIrqs, initVars, history>>

-----------------------------------------------------------------------------
(***************************************************************************)
(* irq_dispatch, from the entry in irq.S to IRETQ.                         *)
(***************************************************************************)
Top == frames[Len(frames)]
InHandler(step) == ~Stopped /\ frames # <<>> /\ Top.step = step
Advance(frame) == frames' = [frames EXCEPT ![Len(frames)] = frame]
KeepFlags == UNCHANGED <<intFlag, shadow, resume>>

Dispatch ==
    /\ InHandler("entry")
    /\ Goto(~intFlag /\ (is_spurious(Top.irq) \/ Top.irq \in isr \cap (0 .. 1)), pc)
    /\ Advance([Top EXCEPT !.step = CASE is_spurious(Top.irq) -> "iret"
                                      [] Top.irq = TimerLine -> "timer"
                                      [] OTHER -> "status"])
    /\ KeepFlags
    /\ UNCHANGED <<picVars, deviceVars, queueVars, timerIrqs, initVars, history>>

\* Mutant: the handler leaves masking IRQ0 to the main program.
BugTimerTick ==
    /\ InHandler("timer")
    /\ timerIrqs' = timerIrqs + 1
    /\ Goto(timerIrqs + 1 <= 2, pc)
    /\ Advance([Top EXCEPT !.step = "eoi"])
    /\ KeepFlags
    /\ UNCHANGED <<picVars, deviceVars, queueVars, initVars, history>>

TimerTick ==
    /\ InHandler("timer")
    /\ timerIrqs' = timerIrqs + 1
    /\ Goto(timerIrqs + 1 <= 2, pc)
    /\ IF timerIrqs + 1 = 2 THEN mask_all ELSE UNCHANGED imr
    /\ Advance([Top EXCEPT !.step = "eoi"])
    /\ KeepFlags
    /\ UNCHANGED <<irr, isr, deviceVars, queueVars, initVars, history>>

\* on_interrupt: the status register, then the data register.
ReadStatus ==
    /\ InHandler("status")
    /\ Advance([Top EXCEPT !.step = "data", !.full = obf.full])
    /\ KeepFlags
    /\ UNCHANGED <<pc, picVars, deviceVars, queueVars, timerIrqs, initVars, history>>

\* Mutant: a byte with error bits is counted and left in the device.
BugReadData ==
    /\ InHandler("data")
    /\ IF Top.full /\ ~obf.bad
       THEN Controller(Empty, cfgIrq) /\ Push(obf.value)
       ELSE CountError /\ UNCHANGED <<obf, cfgIrq, irr>>
    /\ serviced' = serviced + 1
    /\ Advance([Top EXCEPT !.step = "eoi"])
    /\ KeepFlags
    /\ UNCHANGED <<pc, isr, imr, scanning, owed, typed, noise, timerIrqs,
                   initVars, printed, reported>>

ReadData ==
    /\ InHandler("data")
    /\ \/ ~Top.full /\ CountError /\ UNCHANGED <<obf, cfgIrq, irr>>
       \/ /\ Top.full
          /\ Controller(Empty, cfgIrq)
          /\ IF obf.bad THEN CountError ELSE Push(obf.value)
    /\ serviced' = serviced + 1
    /\ Advance([Top EXCEPT !.step = "eoi"])
    /\ KeepFlags
    /\ UNCHANGED <<pc, isr, imr, scanning, owed, typed, noise, timerIrqs,
                   initVars, printed, reported>>

EndService ==
    /\ InHandler("eoi")
    /\ end_of_interrupt(Top.irq)
    /\ Goto(Top.irq \notin isr', pc)
    /\ Advance([Top EXCEPT !.step = "iret"])
    /\ KeepFlags
    /\ UNCHANGED <<irr, imr, deviceVars, queueVars, timerIrqs, initVars, history>>

Iretq ==
    /\ InHandler("iret")
    /\ frames' = SubSeq(frames, 1, Len(frames) - 1)
    /\ intFlag' = Top.saved
    /\ UNCHANGED <<shadow, mainVars, picVars, deviceVars, queueVars, timerIrqs,
                   initVars, history>>

Handler == Dispatch \/ TimerTick \/ ReadStatus \/ ReadData \/ EndService \/ Iretq

-----------------------------------------------------------------------------
(***************************************************************************)
(* wait_for_interrupt, instruction by instruction.                         *)
(***************************************************************************)
\* Mutant: an instruction between STI and HLT uses up the shadow.
BugSti ==
    /\ At("sti")
    /\ intFlag' = TRUE
    /\ pc' = "hlt"
    /\ UNCHANGED <<shadow, frames, resume, picVars, deviceVars, queueVars,
                   timerIrqs, initVars, history>>

Sti ==
    /\ At("sti")
    /\ intFlag' = TRUE /\ shadow' = ~intFlag
    /\ pc' = "hlt"
    /\ UNCHANGED <<frames, resume, picVars, deviceVars, queueVars, timerIrqs,
                   initVars, history>>

Hlt ==
    /\ At("hlt")
    /\ shadow' = FALSE
    /\ pc' = "halted"
    /\ UNCHANGED <<intFlag, frames, resume, picVars, deviceVars, queueVars,
                   timerIrqs, initVars, history>>

Cli ==
    /\ At("cli")
    /\ intFlag' = FALSE
    /\ pc' = resume
    /\ UNCHANGED <<shadow, frames, resume, picVars, deviceVars, queueVars,
                   timerIrqs, initVars, history>>

(***************************************************************************)
(* interrupt::init and demonstrate_timer.                                  *)
(***************************************************************************)
InitPic ==
    /\ At("pic")
    /\ pic_init
    /\ Goto(~intFlag, "program")
    /\ UNCHANGED <<cpuVars, resume, deviceVars, queueVars, timerIrqs, initVars, history>>

ProgramTimer ==
    /\ At("program")
    /\ unmask_timer
    /\ Goto(~intFlag /\ timerIrqs = 0, "timer")
    /\ UNCHANGED <<cpuVars, resume, irr, isr, deviceVars, queueVars, timerIrqs,
                   initVars, history>>

TimerLoop ==
    /\ At("timer")
    /\ \/ /\ timerIrqs < 2
          /\ pc' = "sti" /\ resume' = "timer"
          /\ UNCHANGED imr
       \/ /\ timerIrqs >= 2
          /\ mask_all
          /\ Goto(isr = {} /\ ~intFlag, "disable")
          /\ UNCHANGED resume
    /\ UNCHANGED <<cpuVars, irr, isr, deviceVars, queueVars, timerIrqs, initVars, history>>

-----------------------------------------------------------------------------
(***************************************************************************)
(* keyboard::init.  Every wait for the controller has a budget; when it is *)
(* spent the kernel stops (Timeout).                                       *)
(***************************************************************************)
Disable ==
    /\ At("disable")
    /\ Goto(~intFlag, "drain")
    /\ tries' = Capacity
    /\ UNCHANGED <<cpuVars, resume, picVars, deviceVars, queueVars, timerIrqs,
                   cmd, history>>

Drain ==
    /\ At("drain")
    /\ \/ /\ obf.full /\ tries > 0
          /\ Controller(Empty, cfgIrq)
          /\ tries' = tries - 1
          /\ UNCHANGED pc
       \/ /\ ~obf.full \/ tries = 0
          /\ pc' = IF obf.full THEN "device" ELSE "config"
          /\ UNCHANGED <<obf, cfgIrq, irr, tries>>
    /\ UNCHANGED <<cpuVars, resume, isr, imr, scanning, owed, typed, noise,
                   queueVars, timerIrqs, cmd, history>>

AskConfig ==
    /\ At("config")
    /\ owed' = ReadConfig
    /\ pc' = "configReply"
    /\ UNCHANGED <<cpuVars, resume, picVars, obf, cfgIrq, scanning, typed, noise,
                   queueVars, timerIrqs, initVars, history>>

\* read_reply took the byte; the configuration is forced to 0x60 in the bits
\* that matter, so its value decides nothing.
ReadConfigReply ==
    /\ At("configReply") /\ obf.full
    /\ Controller(Empty, cfgIrq)
    /\ pc' = IF obf.bad THEN "device" ELSE "quiet"
    /\ UNCHANGED <<cpuVars, resume, isr, imr, scanning, owed, typed, noise,
                   queueVars, timerIrqs, initVars, history>>

\* 0x60 with both interrupt bits clear, then 0xae.
WriteQuietConfig ==
    /\ At("quiet")
    /\ Controller(obf, FALSE)
    /\ pc' = "send" /\ cmd' = 1 /\ tries' = Attempts
    /\ UNCHANGED <<cpuVars, resume, isr, imr, scanning, owed, typed, noise,
                   queueVars, timerIrqs, history>>

\* Mutants: the next command is sent without waiting for the answer; the
\* attempts are not counted.
BugSendBlindly ==
    /\ At("send")
    /\ owed' = Commands[cmd]
    /\ IF cmd < Len(Commands) THEN pc' = "send" /\ cmd' = cmd + 1
                              ELSE pc' = "irqOn" /\ UNCHANGED cmd
    /\ UNCHANGED <<cpuVars, resume, picVars, obf, cfgIrq, scanning, typed, noise,
                   queueVars, timerIrqs, tries, history>>

BugSendForever ==
    /\ At("send")
    /\ owed' = Commands[cmd]
    /\ pc' = "reply"
    /\ UNCHANGED <<cpuVars, resume, picVars, obf, cfgIrq, scanning, typed, noise,
                   queueVars, timerIrqs, initVars, history>>

\* keyboard_command: send, then read_reply.
Send ==
    /\ At("send")
    /\ owed' = Commands[cmd]
    /\ tries' = tries - 1
    /\ pc' = "reply"
    /\ UNCHANGED <<cpuVars, resume, picVars, obf, cfgIrq, scanning, typed, noise,
                   queueVars, timerIrqs, cmd, history>>

Reply ==
    /\ At("reply") /\ obf.full
    /\ Controller(Empty, cfgIrq)
    /\ CASE ~obf.bad /\ obf.value = ACK /\ cmd < Len(Commands) ->
              pc' = "send" /\ cmd' = cmd + 1 /\ tries' = Attempts
         [] ~obf.bad /\ obf.value = ACK /\ cmd = Len(Commands) ->
              pc' = "irqOn" /\ UNCHANGED initVars
         [] ~obf.bad /\ obf.value = RESEND /\ tries > 0 ->
              pc' = "send" /\ UNCHANGED initVars
         [] OTHER -> pc' = "device" /\ UNCHANGED initVars
    /\ UNCHANGED <<cpuVars, resume, isr, imr, scanning, owed, typed, noise,
                   queueVars, timerIrqs, history>>

\* configuration | 1: the controller may raise IRQ1, at once if a byte waits.
EnableIrq ==
    /\ At("irqOn")
    /\ Controller(obf, TRUE)
    /\ pc' = "unmask"
    /\ UNCHANGED <<cpuVars, resume, isr, imr, scanning, owed, typed, noise,
                   queueVars, timerIrqs, initVars, history>>

enable_keyboard ==
    /\ At("unmask")
    /\ unmask_keyboard
    /\ Goto(~intFlag, "pop")
    /\ UNCHANGED <<cpuVars, resume, irr, isr, deviceVars, queueVars, timerIrqs,
                   initVars, history>>

\* wait_for_input_empty at a write, read_reply while no byte has come.
Timeout ==
    /\ frames = <<>>
    /\ \/ pc \in {"disable", "config", "quiet", "send", "irqOn"}
       \/ pc \in {"configReply", "reply"} /\ ~obf.full
    /\ pc' = "device"
    /\ UNCHANGED <<cpuVars, resume, picVars, deviceVars, queueVars, timerIrqs,
                   initVars, history>>

-----------------------------------------------------------------------------
(***************************************************************************)
(* keyboard::run.                                                          *)
(***************************************************************************)
PopAndPrint ==
    /\ At("pop")
    /\ Pop
    /\ pc' = IF length = 0 THEN "report" ELSE "pop"
    /\ printed' = IF length = 0 THEN printed ELSE Append(printed, popped')
    /\ UNCHANGED <<cpuVars, resume, picVars, deviceVars, timerIrqs, initVars,
                   reported, serviced>>

\* Mutant: the loop polls the queue without sleeping.
BugReportLoss ==
    /\ At("report")
    /\ \/ Report /\ reported' = reported + dropped + errors
       \/ dropped = 0 /\ errors = 0 /\ UNCHANGED <<queueVars, reported>>
    /\ pc' = "pop"
    /\ UNCHANGED <<cpuVars, resume, picVars, deviceVars, timerIrqs, initVars, printed,
                   serviced>>

ReportLoss ==
    /\ At("report")
    /\ \/ Report /\ reported' = reported + dropped + errors
       \/ dropped = 0 /\ errors = 0 /\ UNCHANGED <<queueVars, reported>>
    /\ pc' = "sti" /\ resume' = "pop"
    /\ UNCHANGED <<cpuVars, picVars, deviceVars, timerIrqs, initVars, printed, serviced>>

Main ==
    \/ InitPic \/ ProgramTimer \/ TimerLoop
    \/ Sti \/ Hlt \/ Cli
    \/ Disable \/ Drain \/ AskConfig \/ ReadConfigReply \/ WriteQuietConfig
    \/ Send \/ Reply \/ EnableIrq \/ enable_keyboard \/ Timeout
    \/ PopAndPrint \/ ReportLoss

\* panic prints and halts with IF=0; the main loop may sleep for ever when
\* nothing more is typed.
Halt == Stopped /\ UNCHANGED vars
Asleep == At("halted") /\ resume = "pop" /\ UNCHANGED vars

Next ==
    \/ PitEdge \/ ScanByte \/ Answer
    \/ Accept \/ AcceptSpurious
    \/ Handler \/ Main
    \/ Halt \/ Asleep

(***************************************************************************)
(* The CPU executes instructions and takes a pending interrupt; the PIT    *)
(* keeps counting.  Nothing is assumed of the keyboard.                    *)
(***************************************************************************)
Spec ==
    /\ Init /\ [][Next]_vars
    /\ WF_vars(Main) /\ WF_vars(Handler) /\ WF_vars(Accept) /\ WF_vars(PitEdge)

-----------------------------------------------------------------------------
(***************************************************************************)
(* Properties.                                                             *)
(***************************************************************************)
MainSteps ==
    {"pic", "program", "timer", "sti", "hlt", "halted", "cli", "disable",
     "drain", "config", "configReply", "quiet", "send", "reply", "irqOn",
     "unmask", "pop", "report", "assert", "device"}
HandlerSteps == {"entry", "timer", "status", "data", "eoi", "iret"}
Buffers == [value : Byte, bad : BOOLEAN, full : BOOLEAN]

\* The variables have their types: the queue fields stay in range while the
\* handler and the main loop share them, and no IRQ is in service that the
\* kernel has no driver for.
IrqTypeOK ==
    /\ QueueTypeOK
    /\ pc \in MainSteps /\ resume \in {"timer", "pop"}
    /\ intFlag \in BOOLEAN /\ shadow \in BOOLEAN
    /\ frames \in Seq([irq : Lines, step : HandlerSteps, saved : BOOLEAN, full : BOOLEAN])
    /\ irr \in SUBSET Lines /\ imr \in SUBSET Lines
    /\ isr \in SUBSET {TimerLine, KeyboardLine}
    /\ obf \in Buffers /\ cfgIrq \in BOOLEAN /\ scanning \in BOOLEAN
    /\ owed \in Byte /\ typed \in 0 .. MaxBytes /\ noise \in 0 .. MaxNoise
    /\ timerIrqs \in Nat /\ cmd \in 0 .. Len(Commands) /\ tries \in Nat
    /\ printed \in Seq(Byte) /\ reported \in Nat /\ serviced \in Nat

\* "IRQ handler must not nest": at most one frame is ever on the IST3 stack,
\* whose top every IRQ gate reuses, and IF is clear while it is there.
NeverNests == frames # <<>> => Len(frames) = 1 /\ ~intFlag

\* The CPU never sleeps on work: halted with no handler under way, the timer
\* loop still waits for a tick and the keyboard loop has an empty queue and
\* nothing to report.  An interrupt between the last look and HLT wakes it.
NoLostWakeup ==
    At("halted") =>
        IF resume = "timer" THEN timerIrqs < 2
        ELSE length = 0 /\ dropped = 0 /\ errors = 0

\* Edge triggering loses nothing: while IRQ1 is open and the 8042 holds a
\* byte, an interrupt is latched or a handler that will read it is under way.
\* With neither, the buffer would stay full and the keyboard be dead.
NoStuckByte ==
    (Level /\ KeyboardLine \notin imr /\ ~Stopped) =>
        \/ KeyboardLine \in irr
        \/ frames # <<>> /\ \/ Top.irq = KeyboardLine /\ Top.step \in {"entry", "status"}
                            \/ Top.step = "data" /\ Top.full

\* The main program looks at the queue only with interrupts off, so the ring
\* needs no lock.
QueueExclusive == pc \in {"pop", "report"} => ~intFlag /\ frames = <<>>

\* No assertion of interrupt.rs, pic.rs or keyboard.rs about the kernel's own
\* state fails, in whatever order edges arrive: a third timer interrupt is
\* never delivered, each IRQ handled is in service, nothing stays in service
\* after the demonstration, and IF is clear wherever the code requires it.
\* And what those assertions are for holds between them, too: handlers do not
\* nest, and the main loop has the ring for itself while it looks at it.
NoAssertFails == pc # "assert" /\ NeverNests /\ QueueExclusive

\* Everything the handler takes is accounted for: each keyboard interrupt is
\* a printed byte, a waiting byte, or one of the losses counted or reported.
Accounted == serviced = Len(printed) + length + dropped + errors + reported

\* What reaches the screen is what was typed, in that order and each byte at
\* most once: no answer to a command of keyboard::init, and no stale byte,
\* ever enters the queue.
TypedOrder ==
    LET flow == printed \o Contents
    IN  /\ \A i \in 1 .. Len(flow) : flow[i] \in 1 .. typed
        /\ \A i, j \in 1 .. Len(flow) : i < j => flow[i] < flow[j]

\* Boot ends: two timer interrupts arrive, and keyboard::init reaches the
\* main loop or stops with a device error, since every wait has a budget.
BootEnds == <>(pc \in {"pop", "device"})

\* Input comes to rest: a byte that raised IRQ1 in the main loop is read, and
\* everything taken is then printed or reported.
InputSurfaces ==
    (Level /\ KeyboardLine \notin imr) ~>
        (~obf.full /\ serviced = Len(printed) + reported)
=============================================================================
