-------------------------- MODULE InterruptsProofs ---------------------------
(***************************************************************************)
(* For every queue capacity: the ring of ByteQueue keeps its types and     *)
(* implements BoundedFifo.  For any number of typed bytes (up to the       *)
(* module's bound on values), spurious vectors and ticks: no assertion of  *)
(* the interrupt path fails, no wakeup and no byte is lost, everything     *)
(* taken is accounted for, and what is printed was typed in that order.    *)
(***************************************************************************)
EXTENDS Interrupts, SequenceTheorems, TLAPS

-----------------------------------------------------------------------------
(***************************************************************************)
(* The ring.  The only arithmetic is what % does to an index that has run  *)
(* past the end of the array at most once.                                 *)
(***************************************************************************)
\* An index below twice the capacity is reduced by at most one capacity.
LEMMA WrapOnce ==
    \A x \in 0 .. 2 * Capacity - 1 :
        /\ x % Capacity \in 0 .. Capacity - 1
        /\ x < Capacity => x % Capacity = x
        /\ x >= Capacity => x % Capacity = x - Capacity
  BY QueueAssumption

\* The fields keep their types under every operation of the queue, whatever
\* byte is pushed.
LEMMA QueueTypeOps ==
    ASSUME QueueTypeOK,
           \/ \E byte \in Byte : Push(byte)
           \/ Pop \/ CountError \/ Report \/ UNCHANGED queueVars
    PROVE  QueueTypeOK'
  <1> USE QueueAssumption
  <1>1. ASSUME NEW byte \in Byte, Push(byte) PROVE QueueTypeOK'
    <2>1. (head + length) % Capacity \in 0 .. Capacity - 1
      BY WrapOnce DEF QueueTypeOK
    <2> QED
      BY <1>1, <2>1 DEF Push, QueueTypeOK
  <1>2. CASE Pop
    <2>1. (head + 1) % Capacity \in 0 .. Capacity - 1
      BY WrapOnce DEF QueueTypeOK
    <2> QED
      BY <1>2, <2>1 DEF Pop, QueueTypeOK
  <1>3. CASE CountError
    BY <1>3 DEF CountError, QueueTypeOK
  <1>4. CASE Report
    BY <1>4 DEF Report, QueueTypeOK
  <1>5. CASE UNCHANGED queueVars
    BY <1>5 DEF queueVars, QueueTypeOK
  <1> QED
    BY <1>1, <1>2, <1>3, <1>4, <1>5

LEMMA QueueTypeStep == QueueTypeOK /\ [QueueNext]_queueVars => QueueTypeOK'
  BY QueueTypeOps, QueueAssumption DEF QueueNext

\* QueueTypeOK holds in every reachable state: `length` never passes
\* QUEUE_CAPACITY and `head` never leaves the array, for every capacity.
THEOREM QueueTypeCorrect == QueueSpec => []QueueTypeOK
  <1>1. QueueInit => QueueTypeOK
    BY QueueAssumption DEF QueueInit, QueueTypeOK, Byte, None
  <1> QED
    BY <1>1, QueueTypeStep, PTL DEF QueueSpec

\* Contents is a sequence of `length` bytes.
LEMMA ContentsSeq ==
    ASSUME QueueTypeOK
    PROVE  /\ Contents \in Seq(Byte)
           /\ Len(Contents) = length
           /\ \A i \in 1 .. length : Contents[i] = bytes[(head + i - 1) % Capacity]
  <1> USE QueueAssumption
  <1>1. ASSUME NEW i \in 1 .. length PROVE (head + i - 1) % Capacity \in 0 .. Capacity - 1
    BY WrapOnce DEF QueueTypeOK
  <1>2. \A i \in 1 .. length : bytes[(head + i - 1) % Capacity] \in Byte
    BY <1>1 DEF QueueTypeOK
  <1>3. length \in Nat
    BY DEF QueueTypeOK
  <1> QED
    BY <1>2, <1>3 DEF Contents

\* push on a queue with room appends: the slot written holds no waiting byte.
LEMMA PushAppends ==
    ASSUME QueueTypeOK, QueueTypeOK', NEW byte \in Byte, length # Capacity,
           bytes' = [bytes EXCEPT ![(head + length) % Capacity] = byte],
           length' = length + 1, head' = head
    PROVE  Contents' = Append(Contents, byte)
  <1> USE QueueAssumption
  <1>1. ASSUME NEW i \in 1 .. length
        PROVE  Contents'[i] = Contents[i]
    <2>0. /\ head + i - 1 \in 0 .. 2 * Capacity - 1
          /\ head + length \in 0 .. 2 * Capacity - 1
          /\ head + i - 1 < head + length
          /\ head + length < head + i - 1 + Capacity
      BY DEF QueueTypeOK
    <2>1. (head + i - 1) % Capacity # (head + length) % Capacity
      BY <2>0, WrapOnce
    <2>2. (head + i - 1) % Capacity \in 0 .. Capacity - 1
      BY <2>0, WrapOnce
    <2>3. i \in 1 .. length'
      BY DEF QueueTypeOK
    <2> QED
      BY <2>1, <2>2, <2>3 DEF Contents, QueueTypeOK
  <1>2. Contents'[length + 1] = byte
    <2>1. (head + length) % Capacity \in 0 .. Capacity - 1
      BY WrapOnce DEF QueueTypeOK
    <2>2. length + 1 \in 1 .. length' /\ head' + (length + 1) - 1 = head + length
      BY DEF QueueTypeOK
    <2> QED
      BY <2>1, <2>2 DEF Contents, QueueTypeOK
  <1>3. Contents \in Seq(Byte) /\ Len(Contents) = length
    BY ContentsSeq
  <1>4. Contents' = [i \in 1 .. length + 1 |-> Contents'[i]]
    BY DEF Contents
  <1> DEFINE longer == Append(Contents, byte)
  <1>5. /\ longer \in Seq(Byte) /\ Len(longer) = length + 1
        /\ \A i \in 1 .. length : longer[i] = Contents[i]
        /\ longer[length + 1] = byte
    BY <1>3, AppendProperties
  <1> HIDE DEF longer
  <1>6. longer = [i \in 1 .. length + 1 |-> longer[i]]
    BY <1>5
  <1>7. \A i \in 1 .. length + 1 : Contents'[i] = longer[i]
    BY <1>1, <1>2, <1>5 DEF QueueTypeOK
  <1> QED
    BY <1>4, <1>6, <1>7 DEF longer

\* pop on a queue that is not empty removes the oldest byte.
LEMMA PopTakesHead ==
    ASSUME QueueTypeOK, QueueTypeOK', length # 0,
           bytes' = bytes, head' = (head + 1) % Capacity, length' = length - 1
    PROVE  /\ Contents # <<>>
           /\ Head(Contents) = bytes[head]
           /\ Contents' = Tail(Contents)
  <1> USE QueueAssumption
  <1>1. ASSUME NEW i \in 1 .. length - 1
        PROVE  Contents'[i] = Contents[i + 1]
    <2>1. (((head + 1) % Capacity) + i - 1) % Capacity = (head + (i + 1) - 1) % Capacity
      <3>1. CASE head + 1 < Capacity
        <4>1. (head + 1) % Capacity = head + 1
          <5>1. head + 1 \in 0 .. 2 * Capacity - 1
            BY <3>1 DEF QueueTypeOK
          <5> QED
            BY <3>1, <5>1, WrapOnce
        <4> QED
          BY <4>1 DEF QueueTypeOK
      <3>2. CASE head + 1 >= Capacity
        <4>1. (head + 1) % Capacity = 0 /\ head = Capacity - 1
          <5>1. head + 1 \in 0 .. 2 * Capacity - 1 /\ head + 1 = Capacity
            BY <3>2 DEF QueueTypeOK
          <5>2. (head + 1) % Capacity = (head + 1) - Capacity
            BY <3>2, <5>1, WrapOnce
          <5> QED
            BY <5>1, <5>2 DEF QueueTypeOK
        <4>2. i - 1 \in 0 .. 2 * Capacity - 1 /\ i - 1 < Capacity
          BY DEF QueueTypeOK
        <4>3. (i - 1) % Capacity = i - 1
          BY <4>2, WrapOnce
        <4>4. /\ Capacity + i - 1 \in 0 .. 2 * Capacity - 1
              /\ Capacity + i - 1 >= Capacity
              /\ (Capacity + i - 1) - Capacity = i - 1
          BY DEF QueueTypeOK
        <4>5. (Capacity + i - 1) % Capacity = i - 1
          BY <4>4, WrapOnce
        <4>6. ((head + 1) % Capacity) + i - 1 = i - 1 /\ head + (i + 1) - 1 = Capacity + i - 1
          BY <4>1 DEF QueueTypeOK
        <4> QED
          BY <4>3, <4>5, <4>6
      <3> QED
        BY <3>1, <3>2 DEF QueueTypeOK
    <2>2. i \in 1 .. length' /\ i + 1 \in 1 .. length
      BY DEF QueueTypeOK
    <2> QED
      BY <2>1, <2>2 DEF Contents
  <1>2. Contents \in Seq(Byte) /\ Len(Contents) = length
    BY ContentsSeq
  <1>3. Contents[1] = bytes[head]
    <2>0. head \in 0 .. 2 * Capacity - 1 /\ head < Capacity
      BY DEF QueueTypeOK
    <2>1. head % Capacity = head
      BY <2>0, WrapOnce
    <2>2. 1 \in 1 .. length /\ head + 1 - 1 = head
      BY DEF QueueTypeOK
    <2> QED
      BY <2>1, <2>2 DEF Contents
  <1>4. Contents # <<>> /\ Head(Contents) = bytes[head]
    BY <1>2, <1>3 DEF QueueTypeOK
  <1>5. Contents' = [i \in 1 .. length - 1 |-> Contents'[i]]
    BY DEF Contents
  <1>6. Tail(Contents) = [i \in 1 .. length - 1 |-> Contents[i + 1]]
    <2>1. /\ Tail(Contents) \in Seq(Byte)
          /\ Len(Tail(Contents)) = length - 1
          /\ \A i \in 1 .. length - 1 : Tail(Contents)[i] = Contents[i + 1]
      BY <1>2, <1>4, HeadTailProperties
    <2> DEFINE rest == Tail(Contents)
    <2>2. rest \in Seq(Byte) /\ Len(rest) = length - 1
      BY <2>1
    <2> HIDE DEF rest
    <2>3. rest = [i \in 1 .. length - 1 |-> rest[i]]
      BY <2>2
    <2> QED
      BY <2>1, <2>3 DEF rest
  <1> QED
    BY <1>1, <1>4, <1>5, <1>6

\* Fields that keep their values keep the contents.
LEMMA SameContents ==
    ASSUME bytes' = bytes, head' = head, length' = length PROVE Contents' = Contents
  BY DEF Contents

\* Every step of the ring is a step of the bounded FIFO.
LEMMA RingStep ==
    ASSUME QueueTypeOK, QueueTypeOK', [QueueNext]_queueVars
    PROVE  [Fifo!Next]_<<Contents, dropped, errors, popped>>
  <1> USE QueueAssumption
  <1>0. Len(Contents) = length /\ Contents \in Seq(Byte)
    BY ContentsSeq
  <1>1. ASSUME NEW byte \in Inputs, dropped < MaxLost, Push(byte)
        PROVE  Fifo!Put(byte)
    <2>1. CASE length = Capacity
      BY <1>0, <1>1, <2>1, SameContents DEF Push, Fifo!Put
    <2>2. CASE length # Capacity
      <3>1. Contents' = Append(Contents, byte)
        BY <1>1, <2>2, PushAppends, QueueAssumption DEF Push
      <3> QED
        BY <1>0, <1>1, <2>2, <3>1 DEF Push, Fifo!Put, QueueTypeOK
    <2> QED
      BY <2>1, <2>2
  <1>2. CASE Pop
    <2>1. CASE length = 0
      <3>1. Contents = <<>>
        BY <1>0, <2>1
      <3>2. Contents' = Contents
        BY <1>2, <2>1, SameContents DEF Pop
      <3>3. Fifo!Take
        BY <1>2, <2>1, <3>1, <3>2 DEF Pop, Fifo!Take, None, Fifo!None
      <3> QED
        BY <3>3 DEF Fifo!Next
    <2>2. CASE length # 0
      <3>1. /\ Contents # <<>> /\ Head(Contents) = bytes[head]
            /\ Contents' = Tail(Contents)
        BY <1>2, <2>2, PopTakesHead DEF Pop
      <3>2. Fifo!Take
        BY <1>2, <2>2, <3>1 DEF Pop, Fifo!Take
      <3> QED
        BY <3>2 DEF Fifo!Next
    <2> QED
      BY <1>2, <2>1, <2>2 DEF Fifo!Next
  <1>3. CASE errors < MaxLost /\ CountError
    BY <1>3, SameContents DEF CountError, Fifo!Fault, Fifo!Next
  <1>4. CASE Report
    BY <1>4, SameContents DEF Report, Fifo!Report, Fifo!Next
  <1>5. CASE UNCHANGED queueVars
    BY <1>5, SameContents DEF queueVars
  <1> QED
    BY <1>1, <1>2, <1>3, <1>4, <1>5 DEF QueueNext, Fifo!Next

\* For every capacity the ring of keyboard.rs implements a bounded FIFO that
\* drops the newest byte: push never overwrites an unread byte, pop returns
\* the oldest one.
THEOREM RingImplementsFifo == QueueSpec => RingIsFifo
  <1>1. QueueInit => Fifo!Init
    <2> SUFFICES ASSUME QueueInit PROVE Fifo!Init
      OBVIOUS
    <2>1. Contents = <<>>
      BY DEF QueueInit, Contents
    <2> QED
      BY <2>1 DEF QueueInit, Fifo!Init, None, Fifo!None
  <1> QED
    BY <1>1, QueueTypeCorrect, RingStep, PTL DEF QueueSpec, RingIsFifo, Fifo!Spec

-----------------------------------------------------------------------------
(***************************************************************************)
(* The interrupt path.                                                     *)
(***************************************************************************)
HandlerFrames == [irq : Lines, step : HandlerSteps, saved : BOOLEAN, full : BOOLEAN]

\* wait_for_interrupt, keyboard::init, and who called the former.
Waiting == {"sti", "hlt", "halted", "cli"}
Setup == {"disable", "drain", "config", "configReply", "quiet", "send", "reply",
          "irqOn", "unmask"}
TimerPhase == pc = "timer" \/ (pc \in Waiting /\ resume = "timer")
KeyPhase == pc \in {"pop", "report"} \/ (pc \in Waiting /\ resume = "pop")
Late == pc \in {"irqOn", "unmask"} \/ KeyPhase

\* IF is set from STI on, but in its shadow nothing is delivered: the only
\* place a handler lies on top of is the instruction after HLT.
Flags ==
    /\ pc # "assert"
    /\ Len(frames) \in {0, 1}
    /\ frames # <<>> => pc = "cli" /\ ~intFlag
    /\ shadow => pc = "hlt"
    /\ intFlag => pc \in {"hlt", "halted", "cli"}
    /\ pc = "hlt" => intFlag /\ shadow

\* How far the handler is, and what the PIC has in service for it.
InService ==
    /\ frames = <<>> => isr = {}
    /\ frames # <<>> =>
          /\ frames[1].step = "entry" =>
                frames[1].irq \in {TimerLine, KeyboardLine, SpuriousLine}
          /\ frames[1].step = "entry" => isr = {frames[1].irq} \ {SpuriousLine}
          /\ frames[1].step = "timer" => frames[1].irq = TimerLine
          /\ frames[1].step \in {"status", "data"} => frames[1].irq = KeyboardLine
          /\ frames[1].step \in {"timer", "status", "data", "eoi"} => isr = {frames[1].irq}
          /\ frames[1].step = "iret" => isr = {}
          /\ frames[1].step \in {"entry", "timer"} /\ frames[1].irq = TimerLine =>
                TimerPhase /\ timerIrqs < 2
          /\ frames[1].irq = KeyboardLine => KeyPhase
          /\ frames[1].step = "data" /\ frames[1].full => obf.full

\* One line is open at a time, and the timer's only for two ticks.
Masks ==
    /\ irr \subseteq {TimerLine, KeyboardLine}
    /\ timerIrqs \in 0 .. 2
    /\ pc \in {"pic", "program"} => imr = Lines /\ timerIrqs = 0
    /\ TimerPhase => imr = IF timerIrqs < 2 THEN Lines \ {TimerLine} ELSE Lines
    /\ pc \in Setup => imr = Lines
    /\ KeyPhase => imr = Lines \ {KeyboardLine}

\* A byte that looks like an answer is one, and when it has been taken nothing
\* is owed: after keyboard::init the buffer only ever holds the last typed byte.
Protocol ==
    /\ pc \in {"send", "reply"} => cmd \in 1 .. 4
    /\ pc = "send" => tries > 0
    /\ pc \in {"send", "reply", "irqOn"} => ~cfgIrq
    /\ pc \notin {"reply", "device"} =>
          /\ owed \in {Nothing, ReadConfig}
          /\ obf.full => obf.value \notin {ACK, RESEND}
    /\ pc = "reply" /\ obf.full /\ obf.value \in {ACK, RESEND} => owed = Nothing
    /\ Late => owed = Nothing /\ (obf.full => obf.value = typed /\ typed > 0)

\* NoStuckByte, from the step before the line is unmasked.
Edges ==
    (pc = "unmask" \/ KeyPhase) /\ Level /\ KeyboardLine \notin irr =>
        /\ frames # <<>> /\ frames[1].irq = KeyboardLine
        /\ \/ frames[1].step \in {"entry", "status"}
           \/ frames[1].step = "data" /\ frames[1].full

\* NoLostWakeup, from the last look at the work on.
LastLook ==
    /\ pc \in {"sti", "hlt", "halted"} /\ resume = "timer" => timerIrqs < 2
    /\ pc = "report" => length = 0
    /\ pc \in {"sti", "hlt", "halted"} /\ resume = "pop" =>
          length = 0 /\ dropped = 0 /\ errors = 0

Control == Flags /\ InService /\ Masks /\ Protocol /\ Edges /\ LastLook

-----------------------------------------------------------------------------
(***************************************************************************)
(* The interrupt frame.                                                    *)
(***************************************************************************)
LEMMA FrameStep ==
    ASSUME NEW f \in HandlerFrames, NEW s \in HandlerSteps
    PROVE  /\ [f EXCEPT !.step = s] \in HandlerFrames
           /\ [f EXCEPT !.step = s].irq = f.irq
           /\ [f EXCEPT !.step = s].step = s
           /\ [f EXCEPT !.step = s].saved = f.saved
           /\ [f EXCEPT !.step = s].full = f.full
  BY DEF HandlerFrames

LEMMA FrameFull ==
    ASSUME NEW f \in HandlerFrames, NEW b \in BOOLEAN
    PROVE  /\ [f EXCEPT !.full = b] \in HandlerFrames
           /\ [f EXCEPT !.full = b].irq = f.irq
           /\ [f EXCEPT !.full = b].step = f.step
           /\ [f EXCEPT !.full = b].full = b
  BY DEF HandlerFrames

\* A handler under way is the only one: it is frames[1].
LEMMA OneFrame ==
    ASSUME frames \in Seq(HandlerFrames), Flags, frames # <<>>
    PROVE  Len(frames) = 1 /\ Top = frames[1] /\ frames[1] \in HandlerFrames
  <1>1. Len(frames) # 0
    OBVIOUS
  <1>2. Len(frames) = 1
    BY <1>1 DEF Flags
  <1> QED
    BY <1>2, ElementOfSeq DEF Top

LEMMA AdvanceFrame ==
    ASSUME frames \in Seq(HandlerFrames), Len(frames) = 1, NEW g \in HandlerFrames, Advance(g)
    PROVE  /\ frames' \in Seq(HandlerFrames) /\ Len(frames') = 1
           /\ frames' # <<>> /\ frames'[1] = g
  <1> DEFINE n == Len(frames)
  <1>1. n = 1 /\ frames \in [1 .. n -> HandlerFrames]
    BY LenProperties
  <1>2. frames' = [frames EXCEPT ![n] = g]
    BY DEF Advance
  <1>3. /\ frames' \in Seq(HandlerFrames)
        /\ Len(frames') = n
    BY <1>1, <1>2, ExceptSeq
  <1>4. frames'[n] = g
    BY <1>1, <1>2
  <1> QED
    BY <1>1, <1>3, <1>4

LEMMA DeliverFrame ==
    ASSUME frames = <<>>, NEW irq \in Lines, intFlag \in BOOLEAN, Deliver(irq)
    PROVE  /\ frames' \in Seq(HandlerFrames) /\ Len(frames') = 1 /\ frames' # <<>>
           /\ frames'[1] \in HandlerFrames
           /\ frames'[1].irq = irq /\ frames'[1].step = "entry"
  <1> DEFINE g == [irq |-> irq, step |-> "entry", saved |-> intFlag, full |-> FALSE]
  <1>1. g \in HandlerFrames /\ g.irq = irq /\ g.step = "entry"
    BY DEF HandlerFrames, HandlerSteps
  <1>2. frames' = Append(frames, g) /\ frames \in Seq(HandlerFrames) /\ Len(frames) = 0
    BY EmptySeq DEF Deliver
  <1> HIDE DEF g
  <1> QED
    BY <1>1, <1>2, AppendProperties

LEMMA ReturnFrame ==
    ASSUME frames \in Seq(HandlerFrames), Len(frames) = 1, Iretq
    PROVE  frames' = <<>> /\ frames' \in Seq(HandlerFrames) /\ Len(frames') = 0
  <1>1. frames' = SubSeq(frames, 1, 0)
    BY DEF Iretq
  <1>2. frames' = <<>>
    BY <1>1, SubSeqEmpty
  <1> QED
    BY <1>2, EmptySeq

\* The 8042: what a move of its buffer may do to the latch.
LEMMA LatchFacts ==
    ASSUME NEW buffer, NEW irqBit, Controller(buffer, irqBit), irr \subseteq Lines
    PROVE  /\ obf' = buffer /\ cfgIrq' = irqBit
           /\ irr' \subseteq irr \cup {KeyboardLine} /\ irr \ {KeyboardLine} \subseteq irr'
           /\ Level' = (buffer.full /\ irqBit)
           /\ buffer.full /\ irqBit => KeyboardLine \in irr' \/ (Level /\ irr' = irr)
  BY DEF Controller, Latched, Level

-----------------------------------------------------------------------------
(***************************************************************************)
(* Control, action by action.                                              *)
(***************************************************************************)
\* The main program and the devices leave the handler's frame alone.
LEMMA MainStep == IrqTypeOK /\ Control /\ (Main \/ PitEdge \/ ScanByte \/ Answer) => Control'
  <1> SUFFICES ASSUME IrqTypeOK, Control, Main \/ PitEdge \/ ScanByte \/ Answer PROVE Control'
    OBVIOUS
  <1> USE InterruptAssumption
      DEF IrqTypeOK, QueueTypeOK, Control, TimerPhase, KeyPhase, Late, Waiting, Setup,
          At, Goto, Stopped, MainSteps, cpuVars, mainVars, deviceVars, picVars, initVars,
          history, queueVars, Controller, Latched, Level, Empty, Byte8042, Buffers,
          pic_init, mask_all, unmask_timer, unmask_keyboard,
          Lines, TimerLine, KeyboardLine, SpuriousLine
  <1>1. CASE InitPic
    BY <1>1 DEF InitPic, Flags, InService, Masks, Protocol, Edges, LastLook
  <1>2. CASE ProgramTimer
    BY <1>2 DEF ProgramTimer, Flags, InService, Masks, Protocol, Edges, LastLook
  <1>3. CASE TimerLoop
    BY <1>3 DEF TimerLoop, Flags, InService, Masks, Protocol, Edges, LastLook
  <1>4. CASE Sti
    BY <1>4 DEF Sti, Flags, InService, Masks, Protocol, Edges, LastLook
  <1>5. CASE Hlt
    BY <1>5 DEF Hlt, Flags, InService, Masks, Protocol, Edges, LastLook
  <1>6. CASE Cli
    BY <1>6 DEF Cli, Flags, InService, Masks, Protocol, Edges, LastLook
  <1>7. CASE Disable
    BY <1>7 DEF Disable, Flags, InService, Masks, Protocol, Edges, LastLook
  <1>8. CASE Drain
    <2>1. Flags'
      BY <1>8 DEF Drain, Flags
    <2>2. InService'
      BY <1>8 DEF Drain, Flags, InService
    <2>3. Masks'
      BY <1>8 DEF Drain, Flags, Masks
    <2>4. Protocol'
      BY <1>8 DEF Drain, Protocol, Nothing, ReadConfig, ACK, RESEND, Commands, Attempts, F5, F4
    <2>5. Edges'
      BY <1>8 DEF Drain, Flags, Masks, Protocol, Edges
    <2>6. LastLook'
      BY <1>8 DEF Drain, Flags, LastLook
    <2> QED
      BY <2>1, <2>2, <2>3, <2>4, <2>5, <2>6
  <1>9. CASE AskConfig
    BY <1>9 DEF AskConfig, Flags, InService, Masks, Protocol, Edges, LastLook
  <1>10. CASE ReadConfigReply
    BY <1>10 DEF ReadConfigReply, Flags, InService, Masks, Protocol, Edges, LastLook
  <1>11. CASE WriteQuietConfig
    <2>1. Flags'
      BY <1>11 DEF WriteQuietConfig, Flags
    <2>2. InService'
      BY <1>11 DEF WriteQuietConfig, Flags, InService
    <2>3. Masks'
      BY <1>11 DEF WriteQuietConfig, Flags, Masks
    <2>4. Protocol'
      BY <1>11 DEF WriteQuietConfig, Protocol, Nothing, ReadConfig, ACK, RESEND, Commands, Attempts, F5, F4
    <2>5. Edges'
      BY <1>11 DEF WriteQuietConfig, Flags, Masks, Protocol, Edges
    <2>6. LastLook'
      BY <1>11 DEF WriteQuietConfig, Flags, LastLook
    <2> QED
      BY <2>1, <2>2, <2>3, <2>4, <2>5, <2>6
  <1>12. CASE Send
    BY <1>12 DEF Send, Flags, InService, Masks, Protocol, Edges, LastLook
  <1>13. CASE Reply
    <2>a. /\ \/ pc' = "send" /\ cmd' = cmd + 1 /\ cmd < 4 /\ tries' = Attempts
             \/ pc' = "irqOn" /\ cmd' = cmd /\ tries' = tries
             \/ pc' = "send" /\ cmd' = cmd /\ tries' = tries /\ tries > 0
             \/ pc' = "device" /\ cmd' = cmd /\ tries' = tries
          /\ pc' # "device" => obf.value \in {ACK, RESEND}
      <3>1. Len(Commands) = 4
        BY DEF Commands
      <3>2. CASE ~obf.bad /\ obf.value = ACK /\ cmd < Len(Commands)
        BY <1>13, <3>1, <3>2 DEF Reply
      <3>3. CASE ~obf.bad /\ obf.value = ACK /\ cmd = Len(Commands)
        BY <1>13, <3>1, <3>3 DEF Reply
      <3>4. CASE ~(~obf.bad /\ obf.value = ACK /\ cmd < Len(Commands)) /\ ~(~obf.bad /\ obf.value = ACK /\ cmd = Len(Commands))
        BY <1>13, <3>4 DEF Reply
      <3> QED
        BY <3>2, <3>3, <3>4
    <2>b. /\ pc = "reply" /\ frames = <<>> /\ obf.full /\ Controller(Empty, cfgIrq)
          /\ UNCHANGED <<cpuVars, resume, isr, imr, scanning, owed, typed, noise,
                         queueVars, timerIrqs, history>>
      BY <1>13 DEF Reply
    <2>1. Flags'
      BY <2>a, <2>b DEF Flags
    <2>2. InService'
      BY <2>a, <2>b DEF Flags, InService
    <2>3. Masks'
      BY <2>a, <2>b DEF Flags, Masks
    <2>4. Protocol'
      BY <2>a, <2>b DEF Protocol, Nothing, ReadConfig, ACK, RESEND, Commands, Attempts, F5, F4
    <2>5. Edges'
      BY <2>a, <2>b DEF Flags, Masks, Protocol, Edges
    <2>6. LastLook'
      BY <2>a, <2>b DEF Flags, LastLook
    <2> QED
      BY <2>1, <2>2, <2>3, <2>4, <2>5, <2>6
  <1>14. CASE EnableIrq
    BY <1>14 DEF EnableIrq, Flags, InService, Masks, Protocol, Edges, LastLook
  <1>15. CASE enable_keyboard
    BY <1>15 DEF enable_keyboard, Flags, InService, Masks, Protocol, Edges, LastLook
  <1>16. CASE Timeout
    BY <1>16 DEF Timeout, Flags, InService, Masks, Protocol, Edges, LastLook
  <1>17. CASE PopAndPrint
    BY <1>17 DEF PopAndPrint, Pop, Flags, InService, Masks, Protocol, Edges, LastLook
  <1>18. CASE ReportLoss
    BY <1>18 DEF ReportLoss, Report, Flags, InService, Masks, Protocol, Edges, LastLook
  <1>19. CASE PitEdge
    BY <1>19 DEF PitEdge, Flags, InService, Masks, Protocol, Edges, LastLook
  <1>20. CASE ScanByte
    <2>1. Flags'
      BY <1>20 DEF ScanByte, Flags
    <2>2. InService'
      BY <1>20 DEF ScanByte, Flags, InService
    <2>3. Masks'
      BY <1>20 DEF ScanByte, Flags, Masks
    <2>4. Protocol'
      BY <1>20 DEF ScanByte, Protocol, Nothing, ReadConfig, ACK, RESEND, Commands, Attempts, F5, F4
    <2>5. Edges'
      BY <1>20 DEF ScanByte, Flags, Masks, Protocol, Edges
    <2>6. LastLook'
      BY <1>20 DEF ScanByte, Flags, LastLook
    <2> QED
      BY <2>1, <2>2, <2>3, <2>4, <2>5, <2>6
  <1>21. CASE Answer
    <2>1. Flags'
      BY <1>21 DEF Answer, Flags
    <2>2. InService'
      BY <1>21 DEF Answer, Flags, InService
    <2>3. Masks'
      BY <1>21, SMTT(30) DEF Answer, Flags, Masks
    <2>4. Protocol'
      BY <1>21, SMTT(30) DEF Answer, Protocol, Nothing, ReadConfig, ACK, RESEND, Commands, Attempts, F5, F4
    <2>5. Edges'
      BY <1>21 DEF Answer, Flags, Masks, Protocol, Edges
    <2>6. LastLook'
      BY <1>21 DEF Answer, Flags, LastLook
    <2> QED
      BY <2>1, <2>2, <2>3, <2>4, <2>5, <2>6
  <1> QED
    BY <1>1, <1>2, <1>3, <1>4, <1>5, <1>6, <1>7, <1>8, <1>9, <1>10, <1>11, <1>12, <1>13, <1>14, <1>15, <1>16, <1>17, <1>18, <1>19, <1>20, <1>21 DEF Main

\* A handler under way and the frame it leaves behind.
LEMMA InHandlerFacts ==
    ASSUME IrqTypeOK, Control, NEW step, InHandler(step)
    PROVE  /\ frames # <<>> /\ Len(frames) = 1 /\ frames \in Seq(HandlerFrames)
           /\ Top = frames[1] /\ Top \in HandlerFrames /\ Top.step = step
           /\ pc = "cli" /\ ~intFlag /\ ~shadow
           /\ resume = "pop" => KeyPhase
           /\ resume = "timer" => TimerPhase
  <1>1. frames # <<>> /\ Top.step = step
    BY DEF InHandler
  <1>2. frames \in Seq(HandlerFrames)
    BY DEF IrqTypeOK, HandlerFrames
  <1> QED
    BY <1>1, <1>2, OneFrame DEF Control, Flags, KeyPhase, TimerPhase, Waiting

\* irq_dispatch moves the frame, the PIC, the device and the queue, but the
\* main program stays where it is.
LEMMA HandlerStep ==
    ASSUME IrqTypeOK, Control, Handler \/ Accept \/ AcceptSpurious
    PROVE  Control' /\ frames' \in Seq(HandlerFrames)
  <1> USE DEF TimerPhase, KeyPhase, Late, Waiting, Setup, cpuVars, mainVars, deviceVars,
              picVars, initVars, history, queueVars, Lines, TimerLine, KeyboardLine,
              SpuriousLine, KeepFlags
  <1>t. /\ frames \in Seq(HandlerFrames) /\ intFlag \in BOOLEAN /\ irr \subseteq Lines
        /\ timerIrqs \in Nat
    BY DEF IrqTypeOK, HandlerFrames
  <1>g. ASSUME NEW g \in HandlerFrames, Advance(g), frames # <<>>
        PROVE  /\ Len(frames') = 1 /\ frames' # <<>> /\ frames'[1] = g
               /\ frames' \in Seq(HandlerFrames)
    BY <1>g, <1>t, OneFrame, AdvanceFrame DEF Control
  <1>1. CASE Dispatch
    <2>1. /\ InHandler("entry")
          /\ ~intFlag /\ (is_spurious(Top.irq) \/ Top.irq \in isr \cap (0 .. 1)) => pc' = pc
          /\ UNCHANGED <<intFlag, shadow, resume, picVars, deviceVars, queueVars, timerIrqs>>
      BY <1>1 DEF Dispatch, Goto, KeepFlags
    <2>2. /\ frames # <<>> /\ Top = frames[1] /\ Top \in HandlerFrames /\ Top.step = "entry"
          /\ pc = "cli" /\ ~intFlag /\ ~shadow /\ Len(frames) = 1
      BY <2>1, InHandlerFacts
    <2> DEFINE s == CASE is_spurious(Top.irq) -> "iret"
                      [] Top.irq = TimerLine -> "timer"
                      [] OTHER -> "status"
               g == [Top EXCEPT !.step = s]
    <2>3. /\ Top.irq \in {TimerLine, KeyboardLine, SpuriousLine}
          /\ isr = {Top.irq} \ {SpuriousLine}
      BY <2>2 DEF Control, InService
    <2>4. /\ s \in HandlerSteps
          /\ Top.irq = SpuriousLine => s = "iret"
          /\ Top.irq = TimerLine => s = "timer"
          /\ Top.irq = KeyboardLine => s = "status"
          /\ pc' = pc
      BY <2>1, <2>2, <2>3 DEF is_spurious, HandlerSteps
    <2>5. Advance(g)
      BY <1>1 DEF Dispatch
    <2> HIDE DEF s
    <2>6. g \in HandlerFrames /\ g.irq = Top.irq /\ g.step = s
      BY <2>2, <2>4, FrameStep
    <2> HIDE DEF g
    <2>7. Len(frames') = 1 /\ frames' # <<>> /\ frames'[1] = g /\ frames' \in Seq(HandlerFrames)
      BY <1>g, <2>2, <2>5, <2>6
    <2> QED
      BY <2>1, <2>2, <2>3, <2>4, <2>6, <2>7
         DEF Control, Flags, InService, Masks, Protocol, Edges, LastLook, Level
  <1>2. CASE TimerTick
    <2>1. /\ InHandler("timer") /\ timerIrqs' = timerIrqs + 1
          /\ timerIrqs + 1 <= 2 => pc' = pc
          /\ imr' = IF timerIrqs + 1 = 2 THEN Lines ELSE imr
          /\ UNCHANGED <<intFlag, shadow, resume, irr, isr, deviceVars, queueVars>>
      BY <1>2 DEF TimerTick, Goto, KeepFlags, mask_all
    <2>2. /\ frames # <<>> /\ Top = frames[1] /\ Top \in HandlerFrames /\ Top.step = "timer"
          /\ pc = "cli" /\ ~intFlag /\ ~shadow /\ Len(frames) = 1
      BY <2>1, InHandlerFacts
    <2>3. Top.irq = TimerLine /\ isr = {Top.irq} /\ TimerPhase /\ timerIrqs < 2
      BY <2>2 DEF Control, InService
    <2> DEFINE g == [Top EXCEPT !.step = "eoi"]
    <2>4. Advance(g)
      BY <1>2 DEF TimerTick
    <2>5. g \in HandlerFrames /\ g.irq = Top.irq /\ g.step = "eoi"
      BY <2>2, FrameStep DEF HandlerSteps
    <2> HIDE DEF g
    <2>6. Len(frames') = 1 /\ frames' # <<>> /\ frames'[1] = g /\ frames' \in Seq(HandlerFrames)
      BY <1>g, <2>2, <2>4, <2>5
    <2>7. timerIrqs' \in 1 .. 2 /\ pc' = pc /\ (timerIrqs' = 2 <=> timerIrqs + 1 = 2)
      BY <1>t, <2>1, <2>3
    <2>8. Flags'
      BY <1>t, <2>1, <2>2, <2>3, <2>5, <2>6, <2>7 DEF Control, Flags
    <2>9. InService'
      BY <1>t, <2>1, <2>2, <2>3, <2>5, <2>6, <2>7 DEF Control, Flags, InService
    <2>10. Masks'
      <3>1. resume = "timer" /\ pc = "cli" /\ pc' = "cli" /\ resume' = "timer"
        BY <2>1, <2>2, <2>3, <2>7
      <3>2. imr = Lines \ {TimerLine} /\ imr' = IF timerIrqs' < 2 THEN imr ELSE Lines
        BY <1>t, <2>1, <2>3, <2>7 DEF Control, Masks
      <3>3. irr' \subseteq {TimerLine, KeyboardLine} /\ timerIrqs' \in 0 .. 2
        BY <2>1, <2>7 DEF Control, Masks
      <3> QED
        BY <3>1, <3>2, <3>3 DEF Masks
    <2>11. Protocol'
      BY <1>t, <2>1, <2>2, <2>3, <2>5, <2>6, <2>7 DEF Control, Flags, Protocol
    <2>12. Edges'
      BY <1>t, <2>1, <2>2, <2>3, <2>5, <2>6, <2>7 DEF Control, Flags, Edges, Level
    <2>13. LastLook'
      BY <1>t, <2>1, <2>2, <2>3, <2>5, <2>6, <2>7 DEF Control, Flags, LastLook
    <2> QED
      BY <2>3, <2>6, <2>8, <2>9, <2>10, <2>11, <2>12, <2>13 DEF Control
  <1>3. CASE ReadStatus
    <2>1. /\ InHandler("status")
          /\ UNCHANGED <<pc, intFlag, shadow, resume, picVars, deviceVars, queueVars, timerIrqs>>
      BY <1>3 DEF ReadStatus, KeepFlags
    <2>2. /\ frames # <<>> /\ Top = frames[1] /\ Top \in HandlerFrames /\ Top.step = "status"
          /\ pc = "cli" /\ ~intFlag /\ ~shadow /\ Len(frames) = 1
      BY <2>1, InHandlerFacts
    <2>3. Top.irq = KeyboardLine /\ isr = {Top.irq} /\ KeyPhase
      BY <2>2 DEF Control, InService
    <2> DEFINE f == [Top EXCEPT !.step = "data"]
               g == [f EXCEPT !.full = obf.full]
    <2>4. Advance(g)
      BY <1>3 DEF ReadStatus
    <2>5. f \in HandlerFrames /\ f.irq = Top.irq /\ f.step = "data" /\ obf.full \in BOOLEAN
      BY <2>2, FrameStep DEF HandlerSteps, IrqTypeOK, Buffers
    <2> HIDE DEF f
    <2>6. g \in HandlerFrames /\ g.irq = Top.irq /\ g.step = "data" /\ g.full = obf.full
      BY <2>5, FrameFull
    <2> HIDE DEF g
    <2>7. Len(frames') = 1 /\ frames' # <<>> /\ frames'[1] = g /\ frames' \in Seq(HandlerFrames)
      BY <1>g, <2>2, <2>4, <2>6
    <2> QED
      BY <2>1, <2>2, <2>3, <2>6, <2>7
         DEF Control, Flags, InService, Masks, Protocol, Edges, LastLook, Level
  <1>4. CASE ReadData
    <2>1. /\ InHandler("data")
          /\ \/ ~Top.full /\ UNCHANGED <<obf, cfgIrq, irr>>
             \/ Top.full /\ Controller(Empty, cfgIrq)
          /\ UNCHANGED <<pc, intFlag, shadow, resume, isr, imr, scanning, owed, typed, timerIrqs,
                         cmd, tries>>
      BY <1>4 DEF ReadData, KeepFlags
    <2>2. /\ frames # <<>> /\ Top = frames[1] /\ Top \in HandlerFrames /\ Top.step = "data"
          /\ pc = "cli" /\ ~intFlag /\ ~shadow /\ Len(frames) = 1
      BY <2>1, InHandlerFacts
    <2>3. /\ Top.irq = KeyboardLine /\ isr = {Top.irq} /\ KeyPhase
          /\ Top.full => obf.full
      BY <2>2 DEF Control, InService
    <2> DEFINE g == [Top EXCEPT !.step = "eoi"]
    <2>4. Advance(g)
      BY <1>4 DEF ReadData
    <2>5. g \in HandlerFrames /\ g.irq = Top.irq /\ g.step = "eoi"
      BY <2>2, FrameStep DEF HandlerSteps
    <2> HIDE DEF g
    <2>6. Len(frames') = 1 /\ frames' # <<>> /\ frames'[1] = g /\ frames' \in Seq(HandlerFrames)
      BY <1>g, <2>2, <2>4, <2>5
    <2>7. Level' => Level /\ irr' = irr /\ ~Top.full /\ obf' = obf
      BY <2>1 DEF Controller, Level, Empty
    <2>8. irr' \subseteq irr /\ cfgIrq' = cfgIrq /\ (obf'.full => obf' = obf)
      BY <2>1, LatchFacts DEF Controller, Latched, Level, Empty
    <2> QED
      BY <2>1, <2>2, <2>3, <2>5, <2>6, <2>7, <2>8
         DEF Control, Flags, InService, Masks, Protocol, Edges, LastLook
  <1>5. CASE EndService
    <2>1. /\ InHandler("eoi") /\ isr' = isr \ {Top.irq}
          /\ Top.irq \notin isr' => pc' = pc
          /\ UNCHANGED <<intFlag, shadow, resume, irr, imr, deviceVars, queueVars, timerIrqs>>
      BY <1>5 DEF EndService, Goto, KeepFlags, end_of_interrupt
    <2>2. /\ frames # <<>> /\ Top = frames[1] /\ Top \in HandlerFrames /\ Top.step = "eoi"
          /\ pc = "cli" /\ ~intFlag /\ ~shadow /\ Len(frames) = 1
      BY <2>1, InHandlerFacts
    <2>3. isr' = {} /\ pc' = pc
      BY <2>1, <2>2 DEF Control, InService
    <2> DEFINE g == [Top EXCEPT !.step = "iret"]
    <2>4. Advance(g)
      BY <1>5 DEF EndService
    <2>5. g \in HandlerFrames /\ g.irq = Top.irq /\ g.step = "iret"
      BY <2>2, FrameStep DEF HandlerSteps
    <2> HIDE DEF g
    <2>6. Len(frames') = 1 /\ frames' # <<>> /\ frames'[1] = g /\ frames' \in Seq(HandlerFrames)
      BY <1>g, <2>2, <2>4, <2>5
    <2> QED
      BY <2>1, <2>2, <2>3, <2>5, <2>6
         DEF Control, Flags, InService, Masks, Protocol, Edges, LastLook, Level
  <1>6. CASE Iretq
    <2>1. /\ InHandler("iret")
          /\ UNCHANGED <<pc, resume, shadow, picVars, deviceVars, queueVars, timerIrqs, cmd, tries>>
      BY <1>6 DEF Iretq
    <2>2. /\ frames # <<>> /\ Top = frames[1] /\ Top.step = "iret" /\ pc = "cli" /\ ~shadow
          /\ frames' = <<>> /\ Len(frames') = 0 /\ frames' \in Seq(HandlerFrames)
      BY <1>6, <2>1, InHandlerFacts, ReturnFrame, EmptySeq
    <2>3. isr = {}
      BY <2>2 DEF Control, InService
    <2> QED
      BY <2>1, <2>2, <2>3
         DEF Control, Flags, InService, Masks, Protocol, Edges, LastLook, Level
  <1>7. ASSUME NEW irq \in {TimerLine, KeyboardLine, SpuriousLine}, Deliver(irq),
               UNCHANGED <<imr, obf, cfgIrq, owed, typed, queueVars, timerIrqs, cmd, tries>>,
               \/ irq = SpuriousLine /\ UNCHANGED <<irr, isr>>
               \/ irq \in irr \ imr /\ irr' = irr \ {irq} /\ isr' = isr \cup {irq}
        PROVE  Control' /\ frames' \in Seq(HandlerFrames)
    <2>1. intFlag /\ ~shadow /\ frames = <<>> /\ pc \in {"halted", "cli"}
      BY <1>7 DEF Deliver, Stopped, Control, Flags
    <2>2. pc' = "cli" /\ ~intFlag' /\ resume' = resume /\ shadow' = shadow
      BY <1>7, <2>1 DEF Deliver
    <2>3. /\ Len(frames') = 1 /\ frames' # <<>> /\ frames' \in Seq(HandlerFrames)
          /\ frames'[1].irq = irq /\ frames'[1].step = "entry"
      BY <1>t, <1>7, <2>1, DeliverFrame
    <2>4. /\ irq = TimerLine => TimerPhase /\ timerIrqs < 2
          /\ irq = KeyboardLine => KeyPhase
          /\ isr = {}
      BY <1>7, <2>1 DEF Control, Masks, InService, IrqTypeOK
    <2>5. (TimerPhase => TimerPhase') /\ (KeyPhase => KeyPhase')
      BY <2>1, <2>2
    <2> HIDE DEF TimerPhase, KeyPhase
    <2>6. TimerPhase \/ KeyPhase
      BY <2>1 DEF TimerPhase, KeyPhase, IrqTypeOK
    <2>7. ~(TimerPhase' /\ KeyPhase')
      BY <2>2 DEF TimerPhase, KeyPhase
    <2>8. Flags'
      BY <1>7, <2>1, <2>2, <2>3, <2>4, <2>5, <2>6, <2>7 DEF Control, Flags
    <2>9. InService'
      BY <1>7, <2>1, <2>2, <2>3, <2>4, <2>5, <2>6, <2>7 DEF Control, Flags, InService, Masks
    <2>10. Masks'
      BY <1>7, <2>1, <2>2, <2>3, <2>4, <2>5, <2>6, <2>7 DEF Control, Flags, Masks
    <2>11. Protocol'
      BY <1>7, <2>1, <2>2, <2>3, <2>4, <2>5, <2>6, <2>7 DEF Control, Flags, Protocol
    <2>12. Edges'
      BY <1>7, <2>1, <2>2, <2>3, <2>4, <2>5, <2>6, <2>7 DEF Control, Flags, Edges, Level, Masks
    <2>13. LastLook'
      BY <1>7, <2>1, <2>2, <2>3, <2>4, <2>5, <2>6, <2>7 DEF Control, Flags, LastLook
    <2> QED
      BY <2>3, <2>6, <2>8, <2>9, <2>10, <2>11, <2>12, <2>13 DEF Control
  <1>8. CASE Accept
    <2>1. PICK l \in Requests : Deliver(l) /\ Acknowledge(l)
      BY <1>8 DEF Accept
    <2>2. l \in irr \ imr /\ l \in {TimerLine, KeyboardLine}
      BY <2>1 DEF Requests, Control, Masks
    <2> QED
      BY <1>7, <1>8, <2>1, <2>2 DEF Accept, Acknowledge
  <1>9. CASE AcceptSpurious
    BY <1>7, <1>9 DEF AcceptSpurious
  <1> QED
    BY <1>1, <1>2, <1>3, <1>4, <1>5, <1>6, <1>8, <1>9 DEF Handler

\* Every step keeps the frame and the rest of the control state together.
LEMMA ControlStep ==
    ASSUME IrqTypeOK, Control, [Next]_vars
    PROVE  Control' /\ frames' \in Seq(HandlerFrames)
  <1>1. CASE Main \/ PitEdge \/ ScanByte \/ Answer
    <2>1. Control'
      BY <1>1, MainStep
    <2>2. frames' = frames
      BY <1>1 DEF Main, PitEdge, ScanByte, Answer, InitPic, ProgramTimer, TimerLoop, Sti, Hlt, Cli,
                  Disable, Drain, AskConfig, ReadConfigReply, WriteQuietConfig, Send, Reply,
                  EnableIrq, enable_keyboard, Timeout, PopAndPrint, ReportLoss, cpuVars
    <2> QED
      BY <2>1, <2>2 DEF IrqTypeOK, HandlerFrames
  <1>2. CASE Handler \/ Accept \/ AcceptSpurious
    BY <1>2, HandlerStep
  <1>3. CASE UNCHANGED vars
    <2>1. Control'
      BY <1>3 DEF vars, cpuVars, mainVars, deviceVars, picVars, initVars, history, queueVars,
                  Control, Flags, InService, Masks, Protocol, Edges, LastLook, TimerPhase,
                  KeyPhase, Late, Level
    <2> QED
      BY <1>3, <2>1 DEF IrqTypeOK, HandlerFrames, vars, cpuVars
  <1> QED
    BY <1>1, <1>2, <1>3 DEF Next, Halt, Asleep

\* What a step may do to the queue: one of its operations, on a byte of the 8042.
LEMMA QueueOps ==
    ASSUME IrqTypeOK, [Next]_vars
    PROVE  \/ Push(obf.value) \/ Pop \/ CountError \/ Report \/ UNCHANGED queueVars
  <1>1. CASE Main \/ PitEdge \/ ScanByte \/ Answer
    BY <1>1 DEF Main, PitEdge, ScanByte, Answer, InitPic, ProgramTimer, TimerLoop, Sti, Hlt, Cli,
                Disable, Drain, AskConfig, ReadConfigReply, WriteQuietConfig, Send, Reply,
                EnableIrq, enable_keyboard, Timeout, PopAndPrint, ReportLoss
  <1>2. CASE Handler \/ Accept \/ AcceptSpurious
    BY <1>2 DEF Handler, Dispatch, TimerTick, ReadStatus, ReadData, EndService, Iretq, Accept,
                AcceptSpurious
  <1>3. CASE UNCHANGED vars
    BY <1>3 DEF vars
  <1> QED
    BY <1>1, <1>2, <1>3 DEF Next, Halt, Asleep

\* Every variable keeps its type.
LEMMA TypeStep ==
    ASSUME IrqTypeOK, Control, [Next]_vars
    PROVE  IrqTypeOK'
  <1>1. QueueTypeOK'
    <2>1. QueueTypeOK /\ obf.value \in Byte
      BY DEF IrqTypeOK, Buffers
    <2> QED
      BY <2>1, QueueOps, QueueTypeOps
  <1>2. frames' \in Seq(HandlerFrames)
    BY ControlStep
  <1> DEFINE Rest == /\ pc \in MainSteps /\ resume \in {"timer", "pop"}
                     /\ intFlag \in BOOLEAN /\ shadow \in BOOLEAN
                     /\ irr \in SUBSET Lines /\ imr \in SUBSET Lines
                     /\ isr \in SUBSET {TimerLine, KeyboardLine}
                     /\ obf \in Buffers /\ cfgIrq \in BOOLEAN /\ scanning \in BOOLEAN
                     /\ owed \in Byte /\ typed \in 0 .. MaxBytes /\ noise \in 0 .. MaxNoise
                     /\ timerIrqs \in Nat /\ cmd \in 0 .. 4 /\ tries \in Nat
                     /\ reported \in Nat /\ serviced \in Nat
  <1>c. Len(Commands) = 4 /\ \A i \in 1 .. 4 : Commands[i] \in Byte
    BY DEF Commands, Byte
  <1>r. Rest /\ dropped \in Nat /\ errors \in Nat /\ length \in Nat
    BY <1>c DEF IrqTypeOK, QueueTypeOK
  <1>p. pc = "send" => cmd \in 1 .. 4 /\ tries > 0
    BY DEF Control, Protocol
  <1>b. /\ Empty \in Buffers
        /\ \A v \in Byte, b \in BOOLEAN : Byte8042(v, b) \in Buffers
    BY DEF Byte8042, Empty, Buffers, Byte
  <1>l. ASSUME NEW buffer \in Buffers, NEW irqBit \in BOOLEAN, Controller(buffer, irqBit)
        PROVE  obf' \in Buffers /\ cfgIrq' \in BOOLEAN /\ irr' \in SUBSET Lines
    BY <1>l, <1>r DEF Controller, Latched, Lines, KeyboardLine
  <1>3. Rest'
    <2> USE <1>r, <1>c
        DEF At, Goto, MainSteps, cpuVars, mainVars, deviceVars, picVars, initVars, history, queueVars,
            Lines, TimerLine, KeyboardLine, SpuriousLine, KeepFlags
    <2>1. CASE Main
      <3> USE <2>1
      <3> DEFINE Small == InitPic \/ ProgramTimer \/ TimerLoop \/ Sti \/ Hlt \/ Cli \/ Disable
      <3>1. CASE InitPic \/ ProgramTimer \/ TimerLoop
        BY <3>1 DEF InitPic, ProgramTimer, TimerLoop, pic_init, mask_all, unmask_timer
      <3>2. CASE Sti \/ Hlt \/ Cli \/ Timeout
        BY <3>2 DEF Sti, Hlt, Cli, Timeout
      <3>3. CASE Disable
        BY <3>3, QueueAssumption DEF Disable
      <3>4. CASE Drain
        <4>1. obf' \in Buffers /\ cfgIrq' \in BOOLEAN /\ irr' \in SUBSET Lines
          BY <3>4, <1>b, <1>l DEF Drain
        <4>2. tries' \in Nat /\ pc' \in MainSteps
          BY <3>4 DEF Drain
        <4> QED
          BY <3>4, <4>1, <4>2 DEF Drain
      <3>5. CASE AskConfig
        BY <3>5 DEF AskConfig, ReadConfig, Byte
      <3>6. CASE ReadConfigReply
        BY <3>6, <1>b, <1>l DEF ReadConfigReply
      <3>7. CASE WriteQuietConfig
        <4>1. obf' \in Buffers /\ cfgIrq' \in BOOLEAN /\ irr' \in SUBSET Lines
          BY <3>7, <1>l DEF WriteQuietConfig
        <4> QED
          BY <3>7, <4>1 DEF WriteQuietConfig, Attempts
      <3>12. CASE EnableIrq
        BY <3>12, <1>l DEF EnableIrq
      <3>8. CASE Send
        BY <3>8, <1>p DEF Send
      <3>9. CASE Reply
        BY <3>9, <1>b, <1>l DEF Reply, Attempts
      <3>10. CASE enable_keyboard
        BY <3>10 DEF enable_keyboard, unmask_keyboard
      <3>11. CASE PopAndPrint
        BY <3>11 DEF PopAndPrint
      <3>13. CASE ReportLoss
        <4>1. reported' \in Nat
          BY <3>13 DEF ReportLoss
        <4> QED
          BY <3>13, <4>1 DEF ReportLoss
      <3> QED
        BY <3>1, <3>2, <3>3, <3>4, <3>5, <3>6, <3>7, <3>8, <3>9, <3>10, <3>11, <3>12, <3>13 DEF Main
    <2>2. CASE PitEdge
      BY <2>2 DEF PitEdge
    <2>3. CASE ScanByte
      <3>1. typed + 1 \in Byte /\ typed + 1 \in 0 .. MaxBytes
        BY <2>3, InterruptAssumption DEF ScanByte, Byte
      <3>2. PICK b \in BOOLEAN : Controller(Byte8042(typed + 1, b), cfgIrq)
        BY <2>3 DEF ScanByte
      <3> QED
        BY <2>3, <3>1, <3>2, <1>b, <1>l DEF ScanByte
    <2>4. CASE Answer
      <3>1. PICK v \in {101, ACK, RESEND}, b \in BOOLEAN : Controller(Byte8042(v, b), cfgIrq)
        BY <2>4 DEF Answer
      <3>2. v \in Byte
        BY DEF Byte, ACK, RESEND
      <3>3. scanning' \in BOOLEAN /\ owed' \in Byte
        <4>1. owed' = 0
          BY <2>4 DEF Answer, Nothing
        <4>2. PICK w : scanning' = CASE owed = Commands[F5] /\ w = ACK -> FALSE
                                     [] owed = Commands[F4] /\ w = ACK -> TRUE
                                     [] OTHER -> scanning
          BY <2>4 DEF Answer
        <4>3. CASE owed = Commands[F5] /\ w = ACK
          <5>1. ~(owed = Commands[F4] /\ w = ACK)
            BY <4>3 DEF Commands, F5, F4
          <5> QED
            BY <4>1, <4>2, <4>3, <5>1 DEF Byte
        <4>4. CASE owed = Commands[F4] /\ w = ACK
          <5>1. ~(owed = Commands[F5] /\ w = ACK)
            BY <4>4 DEF Commands, F5, F4
          <5> QED
            BY <4>1, <4>2, <4>4, <5>1 DEF Byte
        <4>5. CASE ~(owed = Commands[F5] /\ w = ACK) /\ ~(owed = Commands[F4] /\ w = ACK)
          <5>1. scanning' = scanning
            BY <4>2, <4>5
          <5> QED
            BY <4>1, <5>1 DEF Byte
        <4> QED
          BY <4>3, <4>4, <4>5
      <3> QED
        BY <2>4, <3>1, <3>2, <3>3, <1>b, <1>l DEF Answer
    <2>5. CASE Accept
      <3>1. PICK l \in Requests : Deliver(l) /\ Acknowledge(l)
        BY <2>5 DEF Accept
      <3>2. l \in {TimerLine, KeyboardLine}
        BY <3>1 DEF Requests, Control, Masks
      <3> QED
        BY <2>5, <3>1, <3>2 DEF Accept, Deliver, Acknowledge
    <2>6. CASE AcceptSpurious
      <3>1. noise' \in 0 .. MaxNoise
        BY <2>6, InterruptAssumption DEF AcceptSpurious
      <3> QED
        BY <2>6, <3>1 DEF AcceptSpurious, Deliver
    <2>7. CASE Handler
      <3>1. CASE Dispatch \/ TimerTick
        BY <3>1 DEF Dispatch, TimerTick, mask_all
      <3>2. CASE ReadStatus
        BY <3>2 DEF ReadStatus
      <3>3. CASE ReadData
        BY <3>3, <1>b, <1>l DEF ReadData
      <3>4. CASE EndService
        BY <3>4 DEF EndService, end_of_interrupt
      <3>5. CASE Iretq
        <4>1. Top \in HandlerFrames
          BY <3>5, InHandlerFacts DEF Iretq
        <4> QED
          BY <3>5, <4>1 DEF Iretq, HandlerFrames
      <3> QED
        BY <2>7, <3>1, <3>2, <3>3, <3>4, <3>5 DEF Handler
    <2>8. CASE UNCHANGED vars
      BY <2>8 DEF vars
    <2> QED
      BY <2>1, <2>2, <2>3, <2>4, <2>5, <2>6, <2>7, <2>8 DEF Next, Halt, Asleep
  <1>4. printed' \in Seq(Byte)
    <2>1. CASE PopAndPrint
      <3>1. length # 0 => popped' \in Byte
        BY <2>1 DEF PopAndPrint, Pop, IrqTypeOK, QueueTypeOK
      <3>2. printed \in Seq(Byte)
        BY DEF IrqTypeOK
      <3> QED
        BY <2>1, <3>1, <3>2, AppendProperties DEF PopAndPrint
    <2>2. CASE ~PopAndPrint
      <3>1. printed' = printed
        BY <2>2 DEF Next, Halt, Asleep, vars, Main, PitEdge, ScanByte, Answer, InitPic, ProgramTimer,
                TimerLoop, Sti, Hlt, Cli, Disable, Drain, AskConfig, ReadConfigReply,
                WriteQuietConfig, Send, Reply, EnableIrq, enable_keyboard, Timeout, ReportLoss,
                Handler, Dispatch, TimerTick, ReadStatus, ReadData, EndService, Iretq, Accept,
                AcceptSpurious, history
      <3> QED
        BY <3>1 DEF IrqTypeOK
    <2> QED
      BY <2>1, <2>2
  <1> QED
    BY <1>1, <1>2, <1>3, <1>4, <1>c DEF IrqTypeOK, HandlerFrames

-----------------------------------------------------------------------------
(***************************************************************************)
(* What was taken, and in which order.                                     *)
(***************************************************************************)
\* The two places that touch the queue or the history.
LEMMA ElsewhereSame ==
    ASSUME [Next]_vars, ~ReadData, ~PopAndPrint, ~ReportLoss
    PROVE  UNCHANGED <<queueVars, printed, reported, serviced>>
  BY DEF Next, Halt, Asleep, vars, Main, PitEdge, ScanByte, Answer, InitPic, ProgramTimer,
         TimerLoop, Sti, Hlt, Cli, Disable, Drain, AskConfig, ReadConfigReply, WriteQuietConfig,
         Send, Reply, EnableIrq, enable_keyboard, Timeout, Handler, Dispatch, TimerTick,
         ReadStatus, EndService, Iretq, Accept, AcceptSpurious, history

LEMMA AccountedStep ==
    ASSUME IrqTypeOK, Accounted, [Next]_vars
    PROVE  Accounted'
  <1> USE DEF Accounted, IrqTypeOK, QueueTypeOK
  <1>1. Len(printed) \in Nat
    BY LenProperties
  <1>2. CASE ReadData
    <2>1. /\ UNCHANGED <<printed, reported>> /\ serviced' = serviced + 1
          /\ CountError \/ Push(obf.value)
      BY <1>2 DEF ReadData
    <2>2. CASE CountError
      BY <1>1, <2>1, <2>2 DEF CountError
    <2>3. CASE Push(obf.value)
      <3>1. \/ dropped' = dropped + 1 /\ UNCHANGED <<length, errors>>
            \/ length' = length + 1 /\ UNCHANGED <<dropped, errors>>
        BY <2>3 DEF Push
      <3> QED
        BY <1>1, <2>1, <3>1, SMTT(30)
    <2> QED
      BY <2>1, <2>2, <2>3
  <1>3. CASE PopAndPrint
    <2>1. CASE length = 0
      BY <1>3, <2>1 DEF PopAndPrint, Pop
    <2>2. CASE length # 0
      <3>1. /\ popped' \in Byte /\ length' = length - 1 /\ printed' = Append(printed, popped')
            /\ UNCHANGED <<dropped, errors, reported, serviced>>
        BY <1>3, <2>2 DEF PopAndPrint, Pop
      <3>2. Len(printed') = Len(printed) + 1
        BY <3>1, AppendProperties
      <3> QED
        BY <1>1, <3>1, <3>2
    <2> QED
      BY <2>1, <2>2
  <1>4. CASE ReportLoss
    BY <1>1, <1>4 DEF ReportLoss, Report, queueVars
  <1>5. CASE ~ReadData /\ ~PopAndPrint /\ ~ReportLoss
    BY <1>5, ElsewhereSame DEF queueVars
  <1> QED
    BY <1>2, <1>3, <1>4, <1>5

\* Printed, then waiting: strictly increasing, and below what the 8042 holds.
Flow == printed \o Contents
Order ==
    /\ \A i \in 1 .. Len(Flow) : Flow[i] \in 1 .. typed
    /\ \A i, j \in 1 .. Len(Flow) : i < j => Flow[i] < Flow[j]
    /\ ~KeyPhase => printed = <<>> /\ length = 0
    /\ KeyPhase /\ obf.full => \A i \in 1 .. Len(Flow) : Flow[i] < typed

LEMMA FlowType ==
    ASSUME IrqTypeOK
    PROVE  /\ printed \in Seq(Byte) /\ Contents \in Seq(Byte) /\ Len(Contents) = length
           /\ Flow \in Seq(Byte) /\ Len(Flow) = Len(printed) + length
           /\ Len(Flow) \in Nat
           /\ \A i \in 1 .. Len(Flow) :
                 Flow[i] = IF i <= Len(printed) THEN printed[i] ELSE Contents[i - Len(printed)]
  <1>1. printed \in Seq(Byte) /\ Contents \in Seq(Byte) /\ Len(Contents) = length
    BY ContentsSeq DEF IrqTypeOK
  <1> QED
    BY <1>1, ConcatProperties, LenProperties DEF Flow

\* A step that moves no byte in or out of the flow.
LEMMA SameFlowStep ==
    ASSUME IrqTypeOK, Order,
           bytes' = bytes, head' = head, length' = length, printed' = printed,
           typed' \in {typed, typed + 1},
           KeyPhase => KeyPhase',
           ~KeyPhase' \/ ~obf'.full \/ ~KeyPhase \/ typed' = typed + 1 \/ obf.full
    PROVE  Order'
  <1>1. Flow' = Flow
    BY SameContents DEF Flow
  <1>2. Len(Flow) \in Nat /\ typed \in Nat /\ \A i \in 1 .. Len(Flow) : Flow[i] \in Byte
    BY FlowType, ElementOfSeq DEF IrqTypeOK
  <1>3. typed' \in Nat /\ typed <= typed'
    BY <1>2
  <1>4. length = 0 /\ printed = <<>> => Len(Flow) = 0
    BY FlowType, EmptySeq
  <1> HIDE DEF Flow
  <1>5. (\A i \in 1 .. Len(Flow) : Flow[i] \in 1 .. typed)'
    BY <1>1, <1>2, <1>3 DEF Order, Byte
  <1>6. (\A i, j \in 1 .. Len(Flow) : i < j => Flow[i] < Flow[j])'
    BY <1>1 DEF Order
  <1>7. (~KeyPhase => printed = <<>> /\ length = 0)'
    BY DEF Order
  <1>8. (KeyPhase /\ obf.full => \A i \in 1 .. Len(Flow) : Flow[i] < typed)'
    BY <1>1, <1>2, <1>3, <1>4 DEF Order, Byte
  <1> QED
    BY <1>5, <1>6, <1>7, <1>8 DEF Order

\* push of the byte typed last.
LEMMA PushFlowStep ==
    ASSUME IrqTypeOK, IrqTypeOK', Order, KeyPhase, KeyPhase', obf.full, ~obf'.full,
           typed' = typed, typed > 0, printed' = printed, Push(typed)
    PROVE  Order'
  <1>0. typed \in Byte /\ QueueTypeOK /\ QueueTypeOK' /\ typed \in Nat
    BY InterruptAssumption DEF IrqTypeOK, Byte
  <1>1. CASE length = Capacity
    <2>1. bytes' = bytes /\ head' = head /\ length' = length
      BY <1>1 DEF Push
    <2> QED
      BY <2>1, SameFlowStep
  <1>2. CASE length # Capacity
    <2>1. Contents' = Append(Contents, typed)
      BY <1>0, <1>2, PushAppends DEF Push
    <2>2. /\ printed \in Seq(Byte) /\ Contents \in Seq(Byte)
          /\ Flow \in Seq(Byte) /\ Len(Flow) \in Nat
      BY FlowType
    <2>3. Flow' = Append(Flow, typed)
      <3>1. Contents' = Contents \o <<typed>> /\ <<typed>> \in Seq(Byte)
        BY <1>0, <2>1, <2>2, AppendIsConcat
      <3>2. printed \o (Contents \o <<typed>>) = (printed \o Contents) \o <<typed>>
        BY <2>2, <3>1, ConcatAssociative
      <3> QED
        BY <1>0, <2>2, <3>1, <3>2, AppendIsConcat DEF Flow
    <2> DEFINE n == Len(Flow)
    <2>4. /\ Len(Flow') = n + 1 /\ Flow'[n + 1] = typed
          /\ \A i \in 1 .. n : Flow'[i] = Flow[i]
      BY <1>0, <2>2, <2>3, AppendProperties
    <2>5. \A i \in 1 .. n : Flow[i] \in 1 .. typed /\ Flow[i] < typed
      BY DEF Order
    <2>6. n \in Nat
      BY <2>2
    <2>7. \A i, j \in 1 .. n : i < j => Flow[i] < Flow[j]
      BY DEF Order
    <2> HIDE DEF n, Flow
    <2>8. (\A i \in 1 .. Len(Flow) : Flow[i] \in 1 .. typed)'
      BY <1>0, <2>4, <2>5, <2>6
    <2>9. (\A i, j \in 1 .. Len(Flow) : i < j => Flow[i] < Flow[j])'
      BY <1>0, <2>4, <2>5, <2>6, <2>7
    <2> QED
      BY <2>8, <2>9 DEF Order
  <1> QED
    BY <1>1, <1>2

\* pop moves the oldest byte from the queue to the screen.
LEMMA PopFlowStep ==
    ASSUME IrqTypeOK, IrqTypeOK', Order, PopAndPrint, KeyPhase, KeyPhase'
    PROVE  Order'
  <1>1. CASE length = 0
    <2>1. /\ bytes' = bytes /\ head' = head /\ length' = length /\ printed' = printed
          /\ typed' = typed /\ obf' = obf
      BY <1>1 DEF PopAndPrint, Pop, deviceVars
    <2> QED
      BY <2>1, SameFlowStep
  <1>2. CASE length # 0
    <2>1. /\ printed \in Seq(Byte) /\ Contents \in Seq(Byte) /\ Len(Contents) = length
          /\ Flow \in Seq(Byte) /\ Len(Flow) \in Nat
      BY FlowType
    <2>2. /\ Contents # <<>> /\ Head(Contents) = bytes[head] /\ Contents' = Tail(Contents)
      BY <1>2, PopTakesHead DEF PopAndPrint, Pop, IrqTypeOK
    <2>3. printed' = Append(printed, Head(Contents))
      BY <1>2, <2>2 DEF PopAndPrint, Pop
    <2>4. Flow' = Flow
      <3> DEFINE h == Head(Contents)
                 rest == Tail(Contents)
      <3>1. h \in Byte /\ rest \in Seq(Byte) /\ <<h>> \in Seq(Byte)
        BY <2>1, <2>2, HeadTailProperties
      <3>2. Contents = <<h>> \o rest
        BY <2>1, <2>2
      <3>3. printed' = printed \o <<h>>
        BY <2>1, <2>3, <3>1, AppendIsConcat
      <3> HIDE DEF h, rest
      <3>4. (printed \o <<h>>) \o rest = printed \o (<<h>> \o rest)
        BY <2>1, <3>1, ConcatAssociative
      <3> QED
        BY <2>2, <3>2, <3>3, <3>4 DEF Flow, rest
    <2>5. typed' = typed /\ obf' = obf
      BY DEF PopAndPrint, deviceVars
    <2> QED
      BY <2>4, <2>5 DEF Order
  <1> QED
    BY <1>1, <1>2

\* What the other steps do to the flow's surroundings: the 8042 fills only
\* with a new byte, and the main loop is never left.
LEMMA ElsewhereQuiet ==
    ASSUME IrqTypeOK, Control, Control', [Next]_vars, ~ReadData, ~PopAndPrint, ~ReportLoss
    PROVE  /\ typed' \in {typed, typed + 1}
           /\ KeyPhase => KeyPhase'
           /\ ~KeyPhase' \/ ~obf'.full \/ ~KeyPhase \/ typed' = typed + 1 \/ obf.full
  <1> USE DEF KeyPhase, Waiting, cpuVars, mainVars, deviceVars, picVars, initVars, history
  <1>a. pc' # "assert" /\ pc # "assert"
    BY DEF Control, Flags
  <1>e. ~Empty.full
    BY DEF Empty
  <1>1. CASE InitPic \/ ProgramTimer \/ TimerLoop \/ Disable \/ Drain \/ AskConfig \/ ReadConfigReply
             \/ WriteQuietConfig \/ Send \/ Reply
    BY <1>1, <1>e DEF InitPic, ProgramTimer, TimerLoop, Disable, Drain, AskConfig, ReadConfigReply,
                WriteQuietConfig, Send, Reply, At, Controller
  <1>2. CASE EnableIrq \/ enable_keyboard \/ Timeout
    BY <1>2 DEF EnableIrq, enable_keyboard, Timeout, At, Controller
  <1>3. CASE Sti \/ Hlt \/ Cli
    BY <1>3 DEF Sti, Hlt, Cli, At, IrqTypeOK
  <1>4. CASE PitEdge
    BY <1>4 DEF PitEdge
  <1>5. CASE ScanByte
    BY <1>5 DEF ScanByte
  <1>6. CASE Answer
    <2>1. ~KeyPhase
      BY <1>6 DEF Answer, Control, Protocol, Late
    <2> QED
      BY <1>6, <2>1 DEF Answer
  <1>7. CASE Accept \/ AcceptSpurious
    BY <1>7 DEF Accept, AcceptSpurious, Deliver
  <1>8. CASE Dispatch \/ TimerTick \/ EndService
    BY <1>8, <1>a DEF Dispatch, TimerTick, EndService, Goto, KeepFlags
  <1>9. CASE ReadStatus \/ Iretq
    BY <1>9 DEF ReadStatus, Iretq, KeepFlags
  <1>10. CASE UNCHANGED vars
    BY <1>10 DEF vars
  <1> QED
    BY <1>1, <1>2, <1>3, <1>4, <1>5, <1>6, <1>7, <1>8, <1>9, <1>10
       DEF Next, Halt, Asleep, Main, Handler

LEMMA OrderStep ==
    ASSUME IrqTypeOK, IrqTypeOK', Control, Control', Order, [Next]_vars
    PROVE  Order'
  <1>1. CASE ReadData
    <2>1. /\ InHandler("data") /\ pc' = pc /\ resume' = resume /\ typed' = typed
          /\ printed' = printed
      BY <1>1 DEF ReadData, KeepFlags
    <2>2. /\ Top = frames[1] /\ frames # <<>> /\ Top.step = "data"
      BY <2>1, InHandlerFacts
    <2>3. KeyPhase /\ (Top.full => obf.full)
      BY <2>2 DEF Control, InService
    <2>4. KeyPhase'
      BY <2>1, <2>3 DEF KeyPhase
    <2>5. obf.full => obf.value = typed /\ typed > 0
      BY <2>3 DEF Control, Protocol, Late
    <2>6. CASE CountError
      <3>1. bytes' = bytes /\ head' = head /\ length' = length /\ (obf' = obf \/ obf' = Empty)
        BY <1>1, <2>6 DEF CountError, ReadData, Controller
      <3>2. ~obf'.full \/ obf.full
        BY <3>1 DEF Empty
      <3> QED
        BY <2>1, <2>3, <2>4, <3>1, <3>2, SameFlowStep
    <2>7. CASE Top.full /\ obf' = Empty /\ Push(obf.value)
      <3>1. ~obf'.full /\ obf.full /\ Push(typed) /\ typed > 0
        BY <2>3, <2>5, <2>7 DEF Empty
      <3> QED
        BY <2>1, <2>3, <2>4, <3>1, PushFlowStep
    <2> QED
      BY <1>1, <2>6, <2>7 DEF ReadData, Controller
  <1>2. CASE PopAndPrint
    <2>1. KeyPhase /\ KeyPhase'
      BY <1>2 DEF PopAndPrint, At, KeyPhase
    <2> QED
      BY <1>2, <2>1, PopFlowStep
  <1>3. CASE ReportLoss
    <2>1. KeyPhase /\ KeyPhase'
      BY <1>3 DEF ReportLoss, At, KeyPhase, Waiting
    <2>2. /\ bytes' = bytes /\ head' = head /\ length' = length /\ printed' = printed
          /\ typed' = typed /\ obf' = obf
      BY <1>3 DEF ReportLoss, Report, queueVars, deviceVars
    <2> QED
      BY <2>1, <2>2, SameFlowStep
  <1>4. CASE ~ReadData /\ ~PopAndPrint /\ ~ReportLoss
    <2>1. bytes' = bytes /\ head' = head /\ length' = length /\ printed' = printed
      BY <1>4, ElsewhereSame DEF queueVars
    <2> QED
      BY <1>4, <2>1, ElsewhereQuiet, SameFlowStep
  <1> QED
    BY <1>1, <1>2, <1>3, <1>4

-----------------------------------------------------------------------------
(***************************************************************************)
(* The invariant, and what follows from it.                                *)
(***************************************************************************)
IInv == IrqTypeOK /\ Control /\ Accounted /\ Order

LEMMA InitIInv == Init => IInv
  <1> SUFFICES ASSUME Init PROVE IInv
    OBVIOUS
  <1> USE InterruptAssumption, QueueAssumption DEF Init, QueueInit
  <1>1. QueueTypeOK
    BY DEF QueueTypeOK, Byte, None
  <1>2. frames \in Seq(HandlerFrames) /\ Len(frames) = 0 /\ printed \in Seq(Byte) /\ Len(printed) = 0
    BY EmptySeq
  <1>3. IrqTypeOK
    <2>1. 0 \in 0 .. Len(Commands)
      BY DEF Commands
    <2>2. Empty \in Buffers
      BY DEF Empty, Buffers, Byte
    <2>3. /\ irr \in SUBSET Lines /\ imr \in SUBSET Lines /\ isr \in SUBSET {TimerLine, KeyboardLine}
          /\ owed \in Byte /\ typed \in 0 .. MaxBytes /\ noise \in 0 .. MaxNoise
          /\ pc \in MainSteps
      BY DEF Lines, Nothing, Byte, MainSteps
    <2>4. frames \in Seq([irq : Lines, step : HandlerSteps, saved : BOOLEAN, full : BOOLEAN])
      BY <1>2 DEF HandlerFrames
    <2> QED
      BY <1>1, <1>2, <2>1, <2>2, <2>3, <2>4 DEF IrqTypeOK
  <1>4. Control
    BY <1>2 DEF Control, Flags, InService, Masks, Protocol, Edges, LastLook, TimerPhase, KeyPhase,
                Late, Waiting, Setup, Lines, Nothing, Empty, TimerLine, KeyboardLine
  <1>5. Accounted
    BY <1>2 DEF Accounted
  <1>6. Order
    <2>1. Len(Flow) = 0
      BY <1>2, <1>3, FlowType
    <2> QED
      BY <2>1, <1>2 DEF Order, KeyPhase, Waiting
  <1> QED
    BY <1>3, <1>4, <1>5, <1>6 DEF IInv

LEMMA NextIInv == IInv /\ [Next]_vars => IInv'
  BY ControlStep, TypeStep, AccountedStep, OrderStep DEF IInv

LEMMA Invariance == Spec => []IInv
  BY InitIInv, NextIInv, PTL DEF Spec

\* The type invariant: in particular the queue keeps its types although the
\* handler and the main loop share it, and only IRQ0 and IRQ1 are in service.
THEOREM TypeCorrect == Spec => []IrqTypeOK
  BY Invariance, PTL DEF IInv

\* NoAssertFails: no assertion of interrupt.rs, pic.rs or keyboard.rs about
\* the kernel's own state fails, handlers never nest on IST3, and the main
\* loop has the ring for itself while it looks at it.
THEOREM AssertionsHold == Spec => []NoAssertFails
  <1>1. IInv => NoAssertFails
    <2> SUFFICES ASSUME IInv PROVE NoAssertFails
      OBVIOUS
    <2>1. frames # <<>> => Len(frames) = 1
      BY OneFrame DEF IInv, Control, IrqTypeOK, HandlerFrames
    <2> QED
      BY <2>1 DEF IInv, Control, Flags, NoAssertFails, NeverNests, QueueExclusive
  <1> QED
    BY <1>1, Invariance, PTL

\* NoLostWakeup: an interrupt between the main program's last look at the
\* work and HLT is still pending at HLT, so the CPU never sleeps on work.
THEOREM WakeupNeverLost == Spec => []NoLostWakeup
  <1>1. IInv => NoLostWakeup
    BY DEF IInv, IrqTypeOK, Control, LastLook, NoLostWakeup, At
  <1> QED
    BY <1>1, Invariance, PTL

\* NoStuckByte: with IRQ1 open and a byte in the 8042, an edge is latched or
\* the handler that will read the byte is under way.
THEOREM ByteNeverStuck == Spec => []NoStuckByte
  <1>1. IInv => NoStuckByte
    <2> SUFFICES ASSUME IInv, Level, KeyboardLine \notin imr, ~Stopped PROVE NoStuckByte
      BY DEF NoStuckByte
    <2>1. KeyPhase
      BY DEF IInv, Control, Masks, IrqTypeOK, Stopped, TimerPhase, KeyPhase, Waiting, Setup,
             MainSteps, Lines, TimerLine, KeyboardLine
    <2>2. CASE KeyboardLine \in irr
      BY <2>2 DEF NoStuckByte
    <2>3. CASE KeyboardLine \notin irr
      <3>1. frames # <<>> /\ Top = frames[1]
        BY <2>1, <2>3, OneFrame DEF IInv, Control, Edges, IrqTypeOK, HandlerFrames
      <3> QED
        BY <2>1, <2>3, <3>1 DEF IInv, Control, Edges, NoStuckByte
    <2> QED
      BY <2>2, <2>3
  <1> QED
    BY <1>1, Invariance, PTL

\* Accounted: each keyboard interrupt serviced is a byte printed, a byte
\* waiting, or a loss counted or reported.
THEOREM EverythingAccounted == Spec => []Accounted
  BY Invariance, PTL DEF IInv

\* TypedOrder: what is printed was typed, in that order and at most once; no
\* answer to keyboard::init and no stale byte enters the queue.
THEOREM PrintedAsTyped == Spec => []TypedOrder
  <1>1. IInv => TypedOrder
    BY DEF IInv, Order, Flow, TypedOrder
  <1> QED
    BY <1>1, Invariance, PTL
=============================================================================
