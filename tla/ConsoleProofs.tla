---------------------------- MODULE ConsoleProofs ----------------------------
(***************************************************************************)
(* For any number of traps, IRQs and bytes and for every screen: a single  *)
(* drawer, no interrupted frame lost that is returned to, no store outside *)
(* the visible, mapped screen, and on the screen what the terminal shows.  *)
(***************************************************************************)
EXTENDS Console, FiniteSetTheorems, SequenceTheorems, TLAPS

-----------------------------------------------------------------------------
(***************************************************************************)
(* The stack of contexts.                                                  *)
(***************************************************************************)
Exceptions == {"fault", "df", "nmi", "store"}
Whos == {"main", "irq"} \cup Exceptions
Places == {"init", "run", "wait", "entry", "port", "lock", "draw", "halt"}
Contexts == [who : Whos, stack : 0 .. 3, open : BOOLEAN, pc : Places, left : Int,
             lines : Int, fatal : BOOLEAN, intact : BOOLEAN, reported : BOOLEAN]

StackType == contexts \in Seq(Contexts) /\ Len(contexts) > 0

\* Who is where on the stack.  An IRQ lies on a context that was open, which
\* is open still since nothing runs in it meanwhile; it only returns or dies.
Nesting ==
    \A i \in 1 .. Len(contexts) :
        /\ contexts[i].who = "main" <=> i = 1
        /\ contexts[i].who = "irq" =>
              /\ i > 1 /\ contexts[i - 1].open /\ ~contexts[i].open
              /\ contexts[i].fatal \/ contexts[i].pc = "run"
        /\ contexts[i].who \in Exceptions => contexts[i].fatal
        /\ contexts[i].stack = IrqStack <=> contexts[i].who = "irq"
        /\ contexts[i].fatal => contexts[i].pc \in {"entry", "port", "lock", "draw", "halt"}

\* IF is set while main waits and in the first instruction of an exception,
\* and then it was set in everything below too.
Openness ==
    \A i \in 1 .. Len(contexts) :
        contexts[i].open => /\ contexts[i].pc \in {"wait", "entry"}
                            /\ \A j \in 1 .. i : contexts[j].open

Drawing(i) == i \in 1 .. Len(contexts) /\ contexts[i].pc = "draw"
OneHolder ==
    /\ \A i, j \in 1 .. Len(contexts) : Drawing(i) /\ Drawing(j) => i = j
    /\ busy <=> \E i \in 1 .. Len(contexts) : Drawing(i)

Frames ==
    \A i \in 1 .. Len(contexts) :
        (\A j \in i + 1 .. Len(contexts) : ~contexts[j].fatal) => contexts[i].intact

StackInv == StackType /\ Nesting /\ Openness /\ OneHolder /\ Frames

\* What the running context may go on as.
Continues(c) ==
    /\ c \in Contexts
    /\ c.who = Top.who /\ c.stack = Top.stack /\ c.intact = Top.intact
    /\ Top.fatal => c.fatal
    /\ c.who = "irq" => c.fatal /\ ~c.open
    /\ c.fatal => c.pc \in {"entry", "port", "lock", "draw", "halt"}
    /\ c.open => c.pc \in {"wait", "entry"} /\ (Top.open \/ c.who = "main")

LEMMA BecomeStep ==
    ASSUME StackInv, NEW c, Become(c), Continues(c),
           busy' <=> \/ c.pc = "draw"
                     \/ \E i \in 1 .. Len(contexts) - 1 : Drawing(i),
           c.pc = "draw" => Top.pc = "draw" \/ ~busy
    PROVE  StackInv'
  <1> DEFINE n == Len(contexts)
  <1>1. /\ n \in Nat \ {0}
        /\ contexts \in [1 .. n -> Contexts]
    BY DEF StackInv, StackType
  <1>2. /\ contexts' = [contexts EXCEPT ![n] = c]
        /\ contexts' \in Seq(Contexts)
        /\ Len(contexts') = n
    <2>1. /\ contexts \in Seq(Contexts) /\ n \in 1 .. Len(contexts) /\ n = Len(contexts)
          /\ c \in Contexts
      BY <1>1 DEF StackInv, StackType, Continues
    <2>2. contexts' = [contexts EXCEPT ![n] = c]
      BY DEF Become
    <2> HIDE DEF n
    <2>3. /\ [contexts EXCEPT ![n] = c] \in Seq(Contexts)
          /\ Len([contexts EXCEPT ![n] = c]) = Len(contexts)
      BY <2>1, ExceptSeq, SMTT(30)
    <2> QED
      BY <2>1, <2>2, <2>3, Zenon
  <1>3. /\ contexts'[n] = c
        /\ \A i \in 1 .. n : i # n => contexts'[i] = contexts[i]
        /\ Top = contexts[n]
    <2>1. n \in 1 .. n
      BY <1>1
    <2> QED
      BY <1>1, <1>2, <2>1 DEF Top
  <1> HIDE DEF n
  <1>4. StackType'
    BY <1>1, <1>2 DEF StackType
  <1>5. Nesting'
    BY <1>1, <1>2, <1>3 DEF StackInv, Nesting, Continues
  <1>6. Openness'
    BY <1>1, <1>2, <1>3 DEF StackInv, Openness, Nesting, Continues
  <1>7. OneHolder'
    BY <1>1, <1>2, <1>3 DEF StackInv, OneHolder, Drawing
  <1>8. Frames'
    BY <1>1, <1>2, <1>3 DEF StackInv, Frames, Continues
  <1> QED
    BY <1>4, <1>5, <1>6, <1>7, <1>8 DEF StackInv

\* A context enters above the running one.  Only an exception, which does not
\* return, can start on a slot in use: an IRQ finds no IRQ below it.
LEMMA EnterStep ==
    ASSUME StackInv, NEW c \in Contexts, Enter(c), busy' = busy,
           c.pc # "draw", c.intact,
           c.open => c.pc = "entry" /\ Top.open,
           \/ c.who \in Exceptions /\ c.fatal /\ c.stack # IrqStack /\ c.pc = "entry"
           \/ /\ c.who = "irq" /\ c.stack = IrqStack /\ c.pc = "run"
              /\ Top.open /\ ~c.open /\ ~c.fatal
    PROVE  StackInv'
  <1> DEFINE n == Len(contexts)
             under == [i \in DOMAIN contexts |->
                         [contexts[i] EXCEPT !.intact = @ /\ contexts[i].stack # c.stack]]
  <1>1. /\ n \in Nat \ {0}
        /\ contexts \in [1 .. n -> Contexts]
    BY DEF StackInv, StackType
  <1>2. \A i \in 1 .. n : /\ under[i] \in Contexts
                          /\ under[i].who = contexts[i].who
                          /\ under[i].open = contexts[i].open
                          /\ under[i].pc = contexts[i].pc
                          /\ under[i].fatal = contexts[i].fatal
                          /\ under[i].stack = contexts[i].stack
                          /\ under[i].intact = (contexts[i].intact /\ contexts[i].stack # c.stack)
    BY <1>1 DEF Contexts
  <1>3. under \in Seq(Contexts) /\ Len(under) = n
    <2>1. under \in [1 .. n -> Contexts]
      BY <1>1, <1>2
    <2> QED
      BY <2>1, <1>1, IsASeq, LenProperties
  <1>4. contexts' = Append(under, c)
    BY DEF Enter
  <1>5. Top = contexts[n]
    BY DEF Top
  <1> HIDE DEF n, under
  <1>6. /\ contexts' \in Seq(Contexts) /\ Len(contexts') = n + 1
        /\ contexts'[n + 1] = c
        /\ \A i \in 1 .. n : contexts'[i] = under[i]
    BY <1>3, <1>4, AppendProperties
  <1> HIDE DEF Enter
  <1>7. StackType'
    BY <1>1, <1>6 DEF StackType
  <1>8. Nesting'
    BY <1>1, <1>2, <1>5, <1>6 DEF StackInv, Nesting, Exceptions, n
  <1>9. Openness'
    BY <1>1, <1>2, <1>5, <1>6 DEF StackInv, Openness, n
  <1>10. OneHolder'
    BY <1>1, <1>2, <1>6 DEF StackInv, OneHolder, Drawing, n
  <1>11. ASSUME NEW i \in 1 .. n, \A j \in i + 1 .. n + 1 : ~contexts'[j].fatal
         PROVE  contexts'[i].intact
    <2>1. c.who = "irq" /\ c.stack = IrqStack /\ Top.open
      BY <1>1, <1>6, <1>11
    <2>2. contexts[i].open
      BY <2>1, <1>1, <1>5 DEF StackInv, Openness, n
    <2>3. contexts[i].stack # c.stack
      BY <2>1, <2>2 DEF StackInv, Nesting, n
    <2>4. \A j \in i + 1 .. n : ~contexts[j].fatal
      BY <1>1, <1>2, <1>6, <1>11
    <2> QED
      BY <2>3, <2>4, <1>2, <1>6 DEF StackInv, Frames, n
  <1>12. Frames'
    BY <1>1, <1>6, <1>11 DEF Frames
  <1> QED
    BY <1>7, <1>8, <1>9, <1>10, <1>12 DEF StackInv

\* IRETQ of an IRQ handler: what it returns to is open, so nobody draws.
LEMMA ReturnStep == StackInv /\ IrqReturn => StackInv'
  <1> SUFFICES ASSUME StackInv, IrqReturn PROVE StackInv'
    OBVIOUS
  <1> DEFINE n == Len(contexts)
  <1>1. /\ n \in Nat \ {0}
        /\ contexts \in [1 .. n -> Contexts]
        /\ Top = contexts[n] /\ Top.who = "irq" /\ Top.pc = "run" /\ busy' = busy
    BY DEF StackInv, StackType, Top, IrqReturn, Under
  <1>2. n > 1 /\ n - 1 \in Nat \ {0}
    BY <1>1 DEF StackInv, Nesting
  <1>3. /\ contexts' \in Seq(Contexts) /\ Len(contexts') = n - 1
        /\ \A i \in 1 .. n - 1 : contexts'[i] = contexts[i]
    <2>1. contexts' = SubSeq(contexts, 1, n - 1) /\ contexts \in Seq(Contexts)
      BY DEF IrqReturn, StackInv, StackType
    <2> QED
      BY <1>2, <2>1, SubSeqProperties
  <1>4. ~Top.fatal
    <2>1. n \in 1 .. n
      BY <1>1
    <2> QED
      BY <1>1, <2>1 DEF StackInv, Nesting
  <1> HIDE DEF n
  <1>5. StackType'
    BY <1>1, <1>2, <1>3 DEF StackType
  <1>6. Nesting'
    BY <1>1, <1>2, <1>3 DEF StackInv, Nesting, n
  <1>7. Openness'
    BY <1>1, <1>2, <1>3 DEF StackInv, Openness, n
  <1>8. OneHolder'
    BY <1>1, <1>2, <1>3 DEF StackInv, OneHolder, Drawing, n
  <1>9. Frames'
    BY <1>1, <1>2, <1>3, <1>4 DEF StackInv, Frames, n
  <1> QED
    BY <1>5, <1>6, <1>7, <1>8, <1>9 DEF StackInv

\* A context of which a step changed only its place and its counts.
Kept(c, d) ==
    /\ d \in Contexts
    /\ d.who = c.who /\ d.stack = c.stack /\ d.intact = c.intact
    /\ d.fatal = c.fatal /\ d.open = c.open

LEMMA EditPlace ==
    ASSUME NEW c \in Contexts, NEW p \in Places
    PROVE  Kept(c, [c EXCEPT !.pc = p]) /\ [c EXCEPT !.pc = p].pc = p
  BY DEF Contexts, Kept

LEMMA EditLines ==
    ASSUME NEW c \in Contexts, NEW k \in Int
    PROVE  /\ Kept(c, [c EXCEPT !.lines = k]) /\ [c EXCEPT !.lines = k].pc = c.pc
           /\ [c EXCEPT !.lines = k].lines = k
  BY DEF Contexts, Kept

LEMMA EditLeft ==
    ASSUME NEW c \in Contexts, NEW k \in Int
    PROVE  Kept(c, [c EXCEPT !.left = k]) /\ [c EXCEPT !.left = k].pc = c.pc
  BY DEF Contexts, Kept

LEMMA EditReported ==
    ASSUME NEW c \in Contexts
    PROVE  Kept(c, [c EXCEPT !.reported = TRUE]) /\ [c EXCEPT !.reported = TRUE].pc = c.pc
  BY DEF Contexts, Kept

\* What panic and exception_dispatch make of a context.
LEMMA DyingFields ==
    ASSUME NEW c \in Contexts, NEW k \in Int
    PROVE  /\ Dying(c, k) \in Contexts
           /\ Dying(c, k).pc = "port" /\ Dying(c, k).fatal
           /\ Dying(c, k).who = c.who /\ Dying(c, k).stack = c.stack
           /\ Dying(c, k).intact = c.intact /\ Dying(c, k).open = c.open
  BY DEF Contexts, Places, Dying

\* The end of a line: back to the caller, to the next line, or to halt.
LEMMA PrintedFields ==
    ASSUME NEW c \in Contexts
    PROVE  /\ Printed(c) \in Contexts
           /\ Printed(c).pc \in {"port", "halt", "run"}
           /\ c.fatal => Printed(c).pc \in {"port", "halt"}
           /\ Printed(c).who = c.who /\ Printed(c).stack = c.stack
           /\ Printed(c).fatal = c.fatal
           /\ Printed(c).intact = c.intact /\ Printed(c).open = c.open
  <1> DEFINE rest == [c EXCEPT !.lines = @ - 1, !.left = 0]
             pc == IF rest.lines > 0 THEN "port" ELSE IF c.fatal THEN "halt" ELSE "run"
  <1>1. Kept(c, rest)
    <2> DEFINE less == [c EXCEPT !.lines = c.lines - 1]
    <2>1. c.lines - 1 \in Int
      BY DEF Contexts
    <2>2. Kept(c, less)
      BY <2>1, EditLines
    <2>3. rest = [less EXCEPT !.left = 0]
      OBVIOUS
    <2> HIDE DEF less, rest
    <2> QED
      BY <2>2, <2>3, EditLeft DEF Kept
  <1>2. Printed(c) = [rest EXCEPT !.pc = pc]
    BY DEF Printed
  <1>3. pc \in {"port", "halt", "run"} /\ (c.fatal => pc \in {"port", "halt"})
    OBVIOUS
  <1>4. pc \in Places
    BY <1>3 DEF Places
  <1> HIDE DEF rest, pc
  <1>5. Kept(rest, Printed(c)) /\ Printed(c).pc = pc
    BY <1>1, <1>2, <1>4, EditPlace DEF Kept
  <1> QED
    BY <1>1, <1>3, <1>5 DEF Kept

\* An exception on one of its two slots.
LEMMA RaiseStep ==
    ASSUME StackInv, NEW who \in Exceptions, Raise(who), UNCHANGED busy
    PROVE  StackInv'
  <1>1. PICK k \in 1 .. 3 :
           Enter([Context(who, IF who = "df" THEN 2 ELSE 1, Top.open /\ who # "nmi", "entry")
                     EXCEPT !.fatal = TRUE, !.lines = k])
    BY DEF Raise
  <1> DEFINE c == [Context(who, IF who = "df" THEN 2 ELSE 1, Top.open /\ who # "nmi", "entry")
                      EXCEPT !.fatal = TRUE, !.lines = k]
  <1>2. /\ c \in Contexts /\ c.pc = "entry" /\ c.intact /\ c.fatal /\ c.who = who
        /\ c.stack # 3 /\ (c.open => Top.open)
    <2> DEFINE new == Context(who, IF who = "df" THEN 2 ELSE 1, Top.open /\ who # "nmi", "entry")
               slot == IF who = "df" THEN 2 ELSE 1
               if == Top.open /\ who # "nmi"
    <2>1. if \in BOOLEAN /\ slot \in {1, 2} /\ (if => Top.open)
      OBVIOUS
    <2>2. new = [who |-> who, stack |-> slot, open |-> if, pc |-> "entry", left |-> 0,
                 lines |-> 0, fatal |-> FALSE, intact |-> TRUE, reported |-> FALSE]
      BY DEF Context
    <2> HIDE DEF slot, if, new
    <2>3. /\ new \in Contexts /\ new.pc = "entry" /\ new.intact /\ new.who = who
          /\ new.stack = slot /\ new.open = if
      BY <2>1, <2>2 DEF Contexts, Places, Whos
    <2> DEFINE armed == [new EXCEPT !.fatal = TRUE]
    <2>4. /\ armed \in Contexts /\ armed.pc = "entry" /\ armed.intact /\ armed.who = who
          /\ armed.stack = slot /\ armed.open = if /\ armed.fatal
      BY <2>3 DEF Contexts
    <2>5. c = [armed EXCEPT !.lines = k]
      BY DEF new
    <2> HIDE DEF armed, c
    <2> QED
      BY <2>1, <2>4, <2>5, EditLines DEF Kept
  <1>3. Enter(c)
    BY <1>1
  <1> HIDE DEF c
  <1> QED
    BY <1>2, <1>3, EnterStep DEF IrqStack

\* Every step of Next, one per action: what it makes of the running context.
LEMMA StackStep == StackInv /\ [Next]_vars => StackInv'
  <1> SUFFICES ASSUME StackInv, [Next]_vars PROVE StackInv'
    OBVIOUS
  <1> DEFINE n == Len(contexts)
  <1>t. /\ n \in Nat \ {0}
        /\ contexts \in [1 .. n -> Contexts]
        /\ Top = contexts[n] /\ Top \in Contexts
        /\ n \in 1 .. n
    BY DEF StackInv, StackType, Top
  <1>n. /\ Top.who = "irq" => ~Top.open /\ (Top.fatal \/ Top.pc = "run")
        /\ Top.who \in Exceptions => Top.fatal
        /\ Top.fatal => Top.pc \in {"entry", "port", "lock", "draw", "halt"}
        /\ Top.open => Top.pc \in {"wait", "entry"}
    BY <1>t DEF StackInv, Nesting, Openness
  <1>d. busy <=> Top.pc = "draw" \/ \E i \in 1 .. Len(contexts) - 1 : Drawing(i)
    BY <1>t DEF StackInv, OneHolder, Drawing
  <1>e. Top.pc = "draw" => ~\E i \in 1 .. Len(contexts) - 1 : Drawing(i)
    BY <1>t DEF StackInv, OneHolder, Drawing
  <1> HIDE DEF n
  <1>q. ASSUME NEW c, Become(c), Continues(c), Top.pc # "draw", c.pc # "draw", UNCHANGED busy
        PROVE  StackInv'
    BY <1>d, <1>q, BecomeStep
  <1>u. ASSUME UNCHANGED <<contexts, busy>> PROVE StackInv'
    BY <1>u DEF StackInv, StackType, Nesting, Openness, OneHolder, Drawing, Frames
  <1>1. CASE InitConsole
    <2>1. Continues([Top EXCEPT !.pc = "run"])
      BY <1>1, <1>t, <1>n DEF InitConsole, Under, Continues, Contexts, Places
    <2>2. Continues(Dying(Top, 1))
      BY <1>1, <1>t, <1>n, DyingFields DEF InitConsole, Under, Continues
    <2> QED
      BY <1>1, <1>t, <1>q, <2>1, <2>2 DEF InitConsole, Under, Contexts, Dying
  <1>2. CASE LoadTables
    BY <1>2, <1>u DEF LoadTables
  <1>3. CASE OpenWindow
    <2>1. Continues([Top EXCEPT !.pc = "wait", !.open = TRUE])
      BY <1>3, <1>t, <1>n DEF OpenWindow, Under, Continues, Contexts, Places
    <2> QED
      BY <1>3, <1>t, <1>q, <2>1 DEF OpenWindow, Under, Contexts
  <1>4. CASE CloseWindow
    <2>1. Continues([Top EXCEPT !.pc = "run", !.open = FALSE])
      BY <1>4, <1>t, <1>n DEF CloseWindow, Under, Continues, Contexts, Places
    <2> QED
      BY <1>4, <1>t, <1>q, <2>1 DEF CloseWindow, Under, Contexts
  <1>5. CASE BeginPrint
    <2> DEFINE c == [Top EXCEPT !.pc = "port", !.lines = 1]
    <2>1. Kept(Top, c) /\ c.pc = "port"
      <3> DEFINE d == [Top EXCEPT !.pc = "port"]
      <3>1. Kept(Top, d) /\ d.pc = "port"
        BY <1>t, EditPlace DEF Places
      <3>2. c = [d EXCEPT !.lines = 1]
        OBVIOUS
      <3> HIDE DEF c, d
      <3> QED
        BY <3>1, <3>2, EditLines DEF Kept
    <2>2. Become(c) /\ Top.who = "main" /\ Top.pc = "run" /\ UNCHANGED busy
      BY <1>5 DEF BeginPrint, Under
    <2> HIDE DEF c
    <2>3. Continues(c)
      BY <2>1, <2>2, <1>n DEF Continues, Kept
    <2> QED
      BY <1>q, <2>1, <2>2, <2>3 DEF Kept
  <1>6. CASE Panic
    <2>1. Continues(Dying(Top, 1)) /\ Dying(Top, 1).pc = "port"
      BY <1>6, <1>t, <1>n, DyingFields DEF Panic, Under, Continues
    <2> QED
      BY <1>6, <1>q, <2>1 DEF Panic, Under
  <1>7. CASE WritePort
    <2>1. PICK k \in Int : Become([Top EXCEPT !.pc = "lock", !.left = k, !.reported = TRUE])
      <3>1. PICK k \in IF Top.fatal THEN {2} ELSE 1 .. MaxLine :
               Become([Top EXCEPT !.pc = "lock", !.left = k, !.reported = TRUE])
        BY <1>7 DEF WritePort
      <3>2. k \in Int
        BY <3>1
      <3> QED
        BY <3>1, <3>2
    <2> DEFINE c == [Top EXCEPT !.pc = "lock", !.left = k, !.reported = TRUE]
    <2>2. Kept(Top, c) /\ c.pc = "lock"
      <3> DEFINE d == [Top EXCEPT !.pc = "lock"]
                 e == [d EXCEPT !.left = k]
      <3>1. Kept(Top, d) /\ d.pc = "lock"
        BY <1>t, EditPlace DEF Places
      <3>2. c = [e EXCEPT !.reported = TRUE]
        OBVIOUS
      <3> HIDE DEF d
      <3>3. Kept(Top, e) /\ e.pc = "lock"
        BY <3>1, EditLeft DEF Kept
      <3> HIDE DEF c, e
      <3> QED
        BY <3>2, <3>3, EditReported DEF Kept
    <2>3. Become(c) /\ Top.pc = "port" /\ UNCHANGED busy
      BY <1>7, <2>1 DEF WritePort, Under
    <2> HIDE DEF c
    <2>4. Continues(c)
      BY <2>2, <2>3, <1>n DEF Continues, Kept
    <2> QED
      BY <1>q, <2>2, <2>3, <2>4 DEF Kept
  <1>8. CASE Lock
    <2>1. CASE ~busy /\ busy' = TRUE /\ Become([Top EXCEPT !.pc = "draw"])
      <3>1. Continues([Top EXCEPT !.pc = "draw"])
        BY <1>8, <1>t, <1>n DEF Lock, Under, Continues, Contexts, Places
      <3>2. [Top EXCEPT !.pc = "draw"].pc = "draw"
        BY <1>t DEF Contexts
      <3> QED
        BY <2>1, <3>1, <3>2, BecomeStep
    <2>2. CASE Become(Printed(Top)) /\ UNCHANGED busy
      <3>1. Continues(Printed(Top)) /\ Printed(Top).pc # "draw"
        BY <1>8, <1>t, <1>n, PrintedFields DEF Lock, Under, Continues
      <3> QED
        BY <1>8, <1>q, <2>2, <3>1 DEF Lock, Under
    <2> QED
      BY <1>8, <2>1, <2>2 DEF Lock
  <1>9. CASE TakeByte
    <2>1. PICK k \in Int : Become([Top EXCEPT !.left = k])
      <3>1. Top.left - 1 \in Int
        BY <1>t DEF Contexts
      <3>2. Become([Top EXCEPT !.left = IF Top.fatal \/ drawn' < MaxBytes THEN Top.left - 1 ELSE 0])
        BY <1>9 DEF TakeByte
      <3> QED
        BY <3>1, <3>2
    <2>2. Continues([Top EXCEPT !.left = k]) /\ [Top EXCEPT !.left = k].pc = "draw"
      BY <1>9, <1>t, <1>n DEF TakeByte, Under, Continues, Contexts, Places
    <2> QED
      BY <1>9, <1>d, <2>1, <2>2, BecomeStep DEF TakeByte, Under
  <1>10. CASE Unlock
    <2>1. Continues(Printed(Top)) /\ Printed(Top).pc # "draw"
      BY <1>10, <1>t, <1>n, PrintedFields DEF Unlock, Under, Continues
    <2> QED
      BY <1>10, <1>e, <2>1, BecomeStep DEF Unlock, Under
  <1>11. CASE StoreFault
    BY <1>11, RaiseStep DEF StoreFault, Exceptions
  <1>12. CASE Cli
    <2>1. Continues([Top EXCEPT !.pc = "port", !.open = FALSE])
      BY <1>12, <1>t, <1>n DEF Cli, Under, Continues, Contexts, Places
    <2> QED
      BY <1>12, <1>t, <1>q, <2>1 DEF Cli, Under, Contexts
  <1>13. CASE IrqReturn
    BY <1>13, ReturnStep
  <1>14. CASE Irq
    <2> DEFINE c == Context("irq", IrqStack, FALSE, "run")
    <2>1. /\ c \in Contexts /\ c.who = "irq" /\ c.stack = IrqStack /\ c.pc = "run"
          /\ ~c.open /\ ~c.fatal /\ c.intact
      BY DEF Context, Contexts, Places, Whos, IrqStack
    <2>2. Enter(c) /\ Top.open /\ UNCHANGED busy
      BY <1>14 DEF Irq
    <2> HIDE DEF c
    <2> QED
      BY <2>1, <2>2, EnterStep
  <1>15. ASSUME NEW who \in {"fault", "df", "nmi"}, Trap(who) PROVE StackInv'
    BY <1>15, RaiseStep DEF Trap, Exceptions
  <1>16. CASE UNCHANGED vars
    BY <1>16, <1>u DEF vars
  <1>17. CASE Store \/ GlyphDone
    BY <1>17, <1>u DEF Store, GlyphDone
  <1> QED
    BY <1>1, <1>2, <1>3, <1>4, <1>5, <1>6, <1>7, <1>8, <1>9, <1>10, <1>11, <1>12,
       <1>13, <1>14, <1>15, <1>16, <1>17 DEF Next, Code, Stopped

LEMMA StackInvariance == Spec => []StackInv
  <1>1. Init => StackInv
    <2> SUFFICES ASSUME Init PROVE StackInv
      OBVIOUS
    <2> DEFINE c == Context("main", 0, FALSE, "init")
    <2>1. /\ c \in Contexts /\ c.who = "main" /\ c.stack = 0 /\ c.pc = "init"
          /\ ~c.open /\ ~c.fatal /\ c.intact
      BY DEF Context, Contexts, Places, Whos
    <2>2. contexts = <<c>> /\ ~busy
      BY DEF Init
    <2> HIDE DEF c
    <2>3. /\ contexts \in Seq(Contexts) /\ Len(contexts) = 1 /\ contexts[1] = c
      BY <2>1, <2>2
    <2> QED
      BY <2>1, <2>2, <2>3 DEF StackInv, StackType, Nesting, Openness, OneHolder, Drawing,
                             Frames, Exceptions, IrqStack
  <1> QED
    BY <1>1, StackStep, PTL DEF Spec

-----------------------------------------------------------------------------
\* OneDrawer: BUSY is held by exactly the print that is drawing, at most one
\* on the whole stack of contexts, and IF is clear while it is held.
THEOREM OneDrawerAtATime == Spec => []OneDrawer
  <1>1. StackInv => OneDrawer
    <2> SUFFICES ASSUME StackInv PROVE OneDrawer
      OBVIOUS
    <2> DEFINE drawers == {i \in DOMAIN contexts : contexts[i].pc = "draw"}
    <2>1. DOMAIN contexts = 1 .. Len(contexts) /\ Len(contexts) \in 1 .. Len(contexts)
      BY DEF StackInv, StackType
    <2>2. CASE busy
      <3>1. PICK i : drawers = {i}
        BY <2>1, <2>2 DEF StackInv, OneHolder, Drawing
      <3> QED
        BY <2>1, <2>2, <3>1, FS_Singleton DEF OneDrawer, Top, StackInv, OneHolder, Drawing, Openness
    <2>3. CASE ~busy
      <3>1. drawers = {}
        BY <2>1, <2>3 DEF StackInv, OneHolder, Drawing
      <3> QED
        BY <2>3, <3>1, FS_EmptySet DEF OneDrawer
    <2> QED
      BY <2>2, <2>3 DEF StackInv, OneHolder
  <1> QED
    BY <1>1, StackInvariance, PTL

\* ResumableFrames: the IST slots start over at the same top for every entry,
\* yet no frame is lost that something still returns to, however exceptions,
\* IRQs and prints are nested.
THEOREM FramesSurvive == Spec => []ResumableFrames
  <1>1. StackInv => ResumableFrames
    <2> SUFFICES ASSUME StackInv PROVE ResumableFrames
      OBVIOUS
    <2>1. DOMAIN contexts = 1 .. Len(contexts)
      BY DEF StackInv, StackType
    <2> QED
      BY <2>1 DEF StackInv, Frames, ResumableFrames
  <1> QED
    BY <1>1, StackInvariance, PTL

-----------------------------------------------------------------------------
(***************************************************************************)
(* The cursor.  Whatever byte is drawn, it stays on the grid of cells that *)
(* the mode leaves room for.                                               *)
(***************************************************************************)
HasFields(s) == s = [x |-> s.x, y |-> s.y, pixels |-> s.pixels]
OnScreen(s) == HasFields(s) /\ s.x \in 0 .. Cols - 1 /\ s.y \in 0 .. Rows - 1

Chars == {"m", "E", Blank}
Jobs == [char : Chars, glyphs : Nat, put : BOOLEAN, todo : SUBSET Cell]

WindowInv ==
    /\ mode \in Modes
    /\ HasFields(screen)
    /\ ~buffer => screen.x = 0 /\ screen.y = 0
    /\ buffer => ModeFits /\ OnScreen(screen)
    /\ job \in Jobs
    /\ job.glyphs = 0 => job.todo = {}
    /\ job.glyphs > 0 => buffer

\* The quotient of a division and its remainder.
LEMMA DivBounds ==
    ASSUME NEW a \in Nat, NEW k \in Nat \ {0}
    PROVE  /\ a \div k \in Nat
           /\ k * (a \div k) <= a
           /\ a < k * (a \div k) + k
  OBVIOUS

LEMMA MulMono ==
    ASSUME NEW a \in Nat, NEW b \in Nat, NEW k \in Nat, a <= b
    PROVE  k * a <= k * b /\ k * a \in Nat /\ k * b \in Nat
  OBVIOUS

\* Row and column of an index are unique.
LEMMA DivUnique ==
    ASSUME NEW q \in Nat, NEW r \in Nat, NEW k \in Nat, r < k
    PROVE  (q * k + r) \div k = q /\ (q * k + r) % k = r
  OBVIOUS

\* The grid: at least one cell, and all of it visible.
LEMMA GridFacts ==
    ASSUME mode \in Modes, ModeFits
    PROVE  /\ Cols \in Nat \ {0} /\ GW * Cols <= mode.width
           /\ Rows \in Nat \ {0} /\ GH * Rows <= mode.height
           /\ Stride \in Nat \ {0} /\ mode.width <= Stride /\ mode.pitch = 4 * Stride
           /\ GW * Cols \in Nat /\ GH * Rows \in Nat
  <1>1. /\ mode.width \in Nat /\ mode.height \in Nat /\ mode.pitch \in Nat /\ mode.base \in Nat
        /\ GW \in Nat \ {0} /\ GH \in Nat \ {0}
    BY ConsoleAssumption
  <1>2. /\ mode.width >= GW /\ mode.height >= GH
        /\ mode.pitch >= mode.width * 4 /\ mode.pitch % 4 = 0
    BY DEF ModeFits
  <1>3. Cols \in Nat /\ GW * Cols <= mode.width /\ mode.width < GW * Cols + GW
    BY <1>1, DivBounds DEF Cols
  <1>4. Rows \in Nat /\ GH * Rows <= mode.height /\ mode.height < GH * Rows + GH
    BY <1>1, DivBounds DEF Rows
  <1>5. Cols # 0 /\ Rows # 0
    BY <1>1, <1>2, <1>3, <1>4
  <1>6. mode.pitch = 4 * Stride /\ Stride \in Nat
    BY <1>1, <1>2 DEF Stride
  <1>7. mode.width <= Stride /\ Stride # 0
    BY <1>1, <1>2, <1>6
  <1>8. GW * Cols \in Nat /\ GH * Rows \in Nat
    BY <1>1, <1>3, <1>4
  <1> QED
    BY <1>3, <1>4, <1>5, <1>6, <1>7, <1>8

\* A store does not move the cursor.
Stored(s, i, v) == [s EXCEPT !.pixels[i] = v]

LEMMA StoreFields ==
    ASSUME NEW s, HasFields(s), NEW i, NEW v, NEW t, t = Stored(s, i, v)
    PROVE  /\ HasFields(t) /\ t.x = s.x /\ t.y = s.y
           /\ DOMAIN t.pixels = DOMAIN s.pixels
           /\ i \in DOMAIN s.pixels => t.pixels[i] = v
           /\ \A k \in DOMAIN s.pixels : k # i => t.pixels[k] = s.pixels[k]
  <1> DEFINE new == [s.pixels EXCEPT ![i] = v]
  <1>1. t = [s EXCEPT !.pixels = new]
    BY DEF Stored
  <1> HIDE DEF new
  <1>2. [s EXCEPT !.pixels = new] = [x |-> s.x, y |-> s.y, pixels |-> new]
    BY DEF HasFields
  <1>3. DOMAIN new = DOMAIN s.pixels
    BY DEF new
  <1>4. /\ i \in DOMAIN s.pixels => new[i] = v
        /\ \A k \in DOMAIN s.pixels : k # i => new[k] = s.pixels[k]
    BY DEF new
  <1> QED
    BY <1>1, <1>2, <1>3, <1>4 DEF HasFields

LEMMA MoveX ==
    ASSUME NEW s, HasFields(s), NEW k
    PROVE  /\ HasFields([s EXCEPT !.x = k])
           /\ [s EXCEPT !.x = k].x = k /\ [s EXCEPT !.x = k].y = s.y
  BY DEF HasFields

MovedTo(s, k, l) == [s EXCEPT !.x = k, !.y = l]

LEMMA MoveXY ==
    ASSUME NEW s, HasFields(s), NEW k, NEW l
    PROVE  HasFields(MovedTo(s, k, l)) /\ MovedTo(s, k, l).x = k /\ MovedTo(s, k, l).y = l
  <1> DEFINE moved == [s EXCEPT !.x = k]
  <1>1. HasFields(moved) /\ moved.x = k
    BY MoveX
  <1>2. MovedTo(s, k, l) = [moved EXCEPT !.y = l]
    BY DEF MovedTo
  <1> HIDE DEF moved
  <1>3. [moved EXCEPT !.y = l] = [x |-> moved.x, y |-> l, pixels |-> moved.pixels]
    BY <1>1 DEF HasFields
  <1> QED
    BY <1>1, <1>2, <1>3 DEF HasFields

LEMMA NewLineStep ==
    ASSUME NEW s, HasFields(s), s.y \in 0 .. Rows - 1, Cols \in Nat \ {0}, Rows \in Nat \ {0}
    PROVE  OnScreen(NewLine(s))
  <1>1. (s.y + 1) % Rows \in 0 .. Rows - 1
    OBVIOUS
  <1>2. NewLine(s) = MovedTo(s, 0, (s.y + 1) % Rows)
    BY DEF NewLine, MovedTo
  <1> DEFINE down == (s.y + 1) % Rows
  <1> HIDE DEF down
  <1>3. /\ HasFields(NewLine(s)) /\ NewLine(s).x = 0 /\ NewLine(s).y = down
    BY <1>2, MoveXY DEF down
  <1>4. down \in 0 .. Rows - 1 /\ 0 \in 0 .. Cols - 1
    BY <1>1 DEF down
  <1> QED
    BY <1>3, <1>4 DEF OnScreen

LEMMA ForwardStep ==
    ASSUME NEW s, OnScreen(s), Cols \in Nat \ {0}, Rows \in Nat \ {0}
    PROVE  OnScreen(Forward(s))
  <1>1. CASE s.x + 1 >= Cols
    <2>1. Forward(s) = NewLine(s)
      BY <1>1 DEF Forward
    <2> QED
      BY <2>1, NewLineStep DEF OnScreen
  <1>2. CASE ~(s.x + 1 >= Cols)
    <2> DEFINE right == s.x + 1
    <2>1. Forward(s) = [s EXCEPT !.x = right]
      BY <1>2 DEF Forward
    <2>2. right \in 0 .. Cols - 1 /\ HasFields(s) /\ s.y \in 0 .. Rows - 1
      BY <1>2 DEF OnScreen
    <2> HIDE DEF right
    <2>3. HasFields(Forward(s)) /\ Forward(s).x = right /\ Forward(s).y = s.y
      BY <2>1, <2>2, MoveX
    <2> QED
      BY <2>2, <2>3 DEF OnScreen
  <1> QED
    BY <1>1, <1>2

LEMMA BackStep ==
    ASSUME NEW s, OnScreen(s), Cols \in Nat \ {0}, Rows \in Nat \ {0}
    PROVE  OnScreen(Back(s))
  <1>1. CASE s.x > 0
    <2>1. Back(s) = [s EXCEPT !.x = s.x - 1]
      BY <1>1 DEF Back
    <2> QED
      BY <1>1, <2>1, MoveX DEF OnScreen
  <1>2. CASE s.x = 0 /\ s.y > 0
    <2>1. Back(s) = MovedTo(s, Cols - 1, s.y - 1)
      BY <1>2 DEF Back, MovedTo
    <2> QED
      BY <1>2, <2>1, MoveXY DEF OnScreen
  <1>3. CASE ~(s.x > 0) /\ ~(s.x = 0 /\ s.y > 0)
    BY <1>3 DEF Back
  <1> QED
    BY <1>1, <1>2, <1>3

\* Console::byte before its first store, and the glyphs it sets out to draw.
LEMMA MovedStep ==
    ASSUME NEW s, OnScreen(s), NEW b, Cols \in Nat \ {0}, Rows \in Nat \ {0}
    PROVE  OnScreen(Moved(s, b))
  <1>1. CASE b = "LF"
    BY <1>1, NewLineStep DEF Moved, OnScreen
  <1>2. CASE b = "CR"
    <2>1. Moved(s, b) = [s EXCEPT !.x = 0]
      BY <1>2 DEF Moved
    <2> QED
      BY <2>1, MoveX DEF OnScreen
  <1>3. CASE b = "BS"
    BY <1>3, BackStep DEF Moved
  <1>4. CASE b \notin {"LF", "CR", "BS"}
    BY <1>4 DEF Moved
  <1> QED
    BY <1>1, <1>2, <1>3, <1>4

LEMMA JobFields ==
    ASSUME NEW c \in Chars, NEW n \in Nat, NEW put \in BOOLEAN
    PROVE  /\ Job(c, n, put) \in Jobs
           /\ Job(c, n, put).char = c /\ Job(c, n, put).glyphs = n /\ Job(c, n, put).put = put
           /\ Job(c, n, put).todo = IF n > 0 THEN Cell ELSE {}
  <1> DEFINE dots == IF n > 0 THEN Cell ELSE {}
  <1>1. Job(c, n, put) = [char |-> c, glyphs |-> n, put |-> put, todo |-> dots]
    BY DEF Job
  <1>2. dots \in SUBSET Cell
    OBVIOUS
  <1> HIDE DEF dots
  <1> QED
    BY <1>1, <1>2 DEF Jobs, dots

LEMMA NoJobFields == NoJob \in Jobs /\ NoJob.glyphs = 0 /\ ~NoJob.put /\ NoJob.todo = {}
  <1>1. Blank \in Chars
    BY DEF Chars
  <1>2. NoJob = Job(Blank, 0, FALSE)
    BY DEF NoJob
  <1> DEFINE none == 0
             keep == FALSE
  <1>3. none \in Nat /\ ~(none > 0) /\ keep \in BOOLEAN
    OBVIOUS
  <1> HIDE DEF none, keep
  <1>4. /\ Job(Blank, none, keep) \in Jobs /\ Job(Blank, none, keep).glyphs = none
        /\ Job(Blank, none, keep).put = keep
        /\ Job(Blank, none, keep).todo = IF none > 0 THEN Cell ELSE {}
    BY <1>1, <1>3, JobFields
  <1> QED
    BY <1>2, <1>3, <1>4 DEF none, keep

\* The glyphs each byte has: those of a tab are counted from the cursor.
LEMMA StartFields ==
    ASSUME NEW s, s.x \in Nat, NEW b \in Controls \cup {"m", "E"}, b \notin {"LF", "CR"}
    PROVE  /\ Start(s, b) \in Jobs /\ Start(s, b).glyphs > 0 /\ Start(s, b).todo = Cell
           /\ b = "HT" => /\ Start(s, b).char = Blank /\ Start(s, b).put
                          /\ Start(s, b).glyphs = Tab - (s.x % Tab)
           /\ b = "BS" => Start(s, b).char = Blank /\ ~Start(s, b).put /\ Start(s, b).glyphs = 1
           /\ b \in {"m", "E"} => Start(s, b).char = b /\ Start(s, b).put /\ Start(s, b).glyphs = 1
  <1>1. Blank \in Chars /\ "m" \in Chars /\ "E" \in Chars
    BY DEF Chars
  <1> DEFINE j == Start(s, b)
             one == 1
  <1>0. ASSUME NEW c \in Chars, NEW n \in Nat \ {0}, NEW put \in BOOLEAN, j = Job(c, n, put)
        PROVE  /\ j \in Jobs /\ j.glyphs > 0 /\ j.todo = Cell
               /\ j.char = c /\ j.glyphs = n /\ j.put = put
    <2>1. n \in Nat /\ n > 0
      OBVIOUS
    <2>2. /\ j \in Jobs /\ j.char = c /\ j.glyphs = n /\ j.put = put
          /\ j.todo = IF n > 0 THEN Cell ELSE {}
      BY <1>0, <2>1, JobFields
    <2> QED
      BY <2>1, <2>2
  <1>2. CASE b = "HT"
    <2> DEFINE n == Tab - (s.x % Tab)
    <2>1. n \in Nat \ {0}
      BY ConsoleAssumption
    <2>2. j = Job(Blank, n, TRUE)
      BY <1>2 DEF Start
    <2> HIDE DEF n, j
    <2>3. /\ j \in Jobs /\ j.glyphs > 0 /\ j.todo = Cell
          /\ j.char = Blank /\ j.glyphs = n /\ j.put = TRUE
      BY <1>0, <1>1, <2>1, <2>2
    <2> QED
      BY <1>2, <2>3 DEF n, j
  <1>5. one \in Nat \ {0}
    OBVIOUS
  <1>3. CASE b = "BS"
    <2>1. j = Job(Blank, one, FALSE)
      BY <1>3 DEF Start
    <2> HIDE DEF j, one
    <2>2. /\ j \in Jobs /\ j.glyphs > 0 /\ j.todo = Cell
          /\ j.char = Blank /\ j.glyphs = one /\ j.put = FALSE
      BY <1>0, <1>1, <1>5, <2>1
    <2> QED
      BY <1>3, <2>2 DEF j, one
  <1>4. CASE b \in {"m", "E"}
    <2>1. j = Job(b, one, TRUE) /\ b \in Chars
      BY <1>1, <1>4 DEF Start
    <2> HIDE DEF j, one
    <2>2. /\ j \in Jobs /\ j.glyphs > 0 /\ j.todo = Cell
          /\ j.char = b /\ j.glyphs = one /\ j.put = TRUE
      BY <1>0, <1>5, <2>1
    <2> QED
      BY <1>4, <2>2 DEF j, one
  <1> QED
    BY <1>2, <1>3, <1>4 DEF Controls

\* What each of the three steps of a drawing print does to screen and job.
LEMMA TakeByteFacts ==
    ASSUME WindowInv, TakeByte
    PROVE  \E b \in Controls \cup {"m", "E"} :
              /\ screen' = IF buffer THEN Moved(screen, b) ELSE screen
              /\ job' = IF buffer /\ b \notin {"LF", "CR"} THEN Start(screen, b) ELSE job
              /\ mode' = mode /\ buffer' = buffer /\ job.glyphs = 0 /\ screen.x \in Nat
  <1>1. PICK b \in Bytes(Top) :
              /\ screen' = IF buffer THEN Moved(screen, b) ELSE screen
              /\ job' = IF buffer /\ b \notin {"LF", "CR"} THEN Start(screen, b) ELSE job
    BY DEF TakeByte
  <1>2. b \in Controls \cup {"m", "E"}
    BY DEF Bytes, Controls
  <1>3. mode' = mode /\ buffer' = buffer /\ job.glyphs = 0
    BY DEF TakeByte
  <1>4. screen.x \in Nat
    BY GridFacts DEF WindowInv, OnScreen
  <1> QED
    BY <1>1, <1>2, <1>3, <1>4

LEMMA StoreFacts ==
    ASSUME WindowInv, Store
    PROVE  /\ mode' = mode /\ buffer' = buffer /\ job.glyphs > 0
           /\ job' \in Jobs /\ job'.glyphs = job.glyphs
           /\ job'.char = job.char /\ job'.put = job.put
           /\ \E dot \in job.todo : /\ screen' = Stored(screen, Pixel(screen, dot), <<job.char, dot>>)
                                    /\ job'.todo = job.todo \ {dot}
  <1>1. PICK dot \in job.todo :
           /\ screen' = [screen EXCEPT !.pixels[Pixel(screen, dot)] = <<job.char, dot>>]
           /\ job' = [job EXCEPT !.todo = job.todo \ {dot}]
    BY DEF Store
  <1>2. job \in Jobs /\ job.todo # {}
    BY DEF WindowInv
  <1>3. job.glyphs \in Nat /\ job.glyphs # 0
    BY <1>2 DEF WindowInv, Jobs
  <1>4. screen' = Stored(screen, Pixel(screen, dot), <<job.char, dot>>)
    BY <1>1 DEF Stored
  <1>5. /\ job' \in Jobs /\ job'.glyphs = job.glyphs
        /\ job'.char = job.char /\ job'.put = job.put /\ job'.todo = job.todo \ {dot}
    BY <1>1, <1>2 DEF Jobs
  <1>6. mode' = mode /\ buffer' = buffer
    BY DEF Store
  <1> QED
    BY <1>3, <1>4, <1>5, <1>6

LEMMA GlyphDoneFacts ==
    ASSUME WindowInv, GlyphDone
    PROVE  /\ mode' = mode /\ buffer' = buffer /\ buffer /\ job.glyphs > 0 /\ job.todo = {}
           /\ screen' = IF job.put THEN Forward(screen) ELSE screen
           /\ job' \in Jobs /\ job'.glyphs = job.glyphs - 1
           /\ job'.glyphs = 0 => ~job'.put /\ job'.todo = {}
           /\ job'.glyphs > 0 => /\ job'.char = job.char /\ job'.put = job.put
                                 /\ job'.todo = Cell
  <1>1. /\ mode' = mode /\ buffer' = buffer /\ job.glyphs > 0 /\ job.todo = {}
        /\ screen' = IF job.put THEN Forward(screen) ELSE screen
        /\ job' = IF job.glyphs > 1 THEN Job(job.char, job.glyphs - 1, job.put) ELSE NoJob
    BY DEF GlyphDone
  <1>2. buffer /\ job.char \in Chars /\ job.glyphs \in Nat /\ job.put \in BOOLEAN
    BY <1>1 DEF WindowInv, Jobs
  <1>3. CASE job.glyphs > 1
    <2>1. job.glyphs - 1 \in Nat /\ job.glyphs - 1 > 0
      BY <1>2, <1>3
    <2> QED
      BY <1>1, <1>2, <1>3, <2>1, JobFields
  <1>4. CASE ~(job.glyphs > 1)
    <2>1. job.glyphs - 1 = 0
      BY <1>1, <1>2, <1>4
    <2> QED
      BY <1>1, <1>2, <1>4, <2>1, NoJobFields
  <1> QED
    BY <1>3, <1>4

\* Only these three steps, and console::init, concern them.
LEMMA OtherSteps ==
    ASSUME WindowInv, [Next]_vars, ~TakeByte, ~Store, ~GlyphDone
    PROVE  /\ UNCHANGED <<mode, screen, job>>
           /\ buffer' = buffer \/ (~buffer /\ ModeFits)
  <1>1. CASE InitConsole /\ ModeFits /\ ~buffer
    BY <1>1 DEF InitConsole
  <1>2. CASE InitConsole /\ ~(ModeFits /\ ~buffer)
    BY <1>2 DEF InitConsole, WindowInv
  <1>3. CASE ~InitConsole
    BY <1>3 DEF Next, Code, vars, LoadTables, OpenWindow, CloseWindow, BeginPrint, WritePort,
                Lock, Unlock, StoreFault, Cli, IrqReturn, Panic, Trap, Irq, Stopped
  <1> QED
    BY <1>1, <1>2, <1>3

LEMMA WindowStep == WindowInv /\ [Next]_vars => WindowInv'
  <1> SUFFICES ASSUME WindowInv, [Next]_vars PROVE WindowInv'
    OBVIOUS
  <1>1. ASSUME mode' = mode, buffer' = buffer, HasFields(screen'),
               buffer => OnScreen(screen'),
               ~buffer => screen'.x = 0 /\ screen'.y = 0,
               job' \in Jobs, job'.glyphs = 0 => job'.todo = {}, job'.glyphs > 0 => buffer
        PROVE  WindowInv'
    <2>1. Cols' = Cols /\ Rows' = Rows /\ (ModeFits' <=> ModeFits)
      BY <1>1 DEF ModeFits, Cols, Rows, Offset
    <2>2. HasFields(screen)' /\ (OnScreen(screen)' <=> OnScreen(screen'))
      BY <1>1, <2>1 DEF HasFields, OnScreen
    <2>3. Jobs' = Jobs
      BY DEF Jobs
    <2> QED
      BY <1>1, <2>1, <2>2, <2>3 DEF WindowInv
  <1>2. CASE TakeByte
    <2>1. PICK b \in Controls \cup {"m", "E"} :
              /\ screen' = IF buffer THEN Moved(screen, b) ELSE screen
              /\ job' = IF buffer /\ b \notin {"LF", "CR"} THEN Start(screen, b) ELSE job
              /\ mode' = mode /\ buffer' = buffer /\ job.glyphs = 0 /\ screen.x \in Nat
      BY <1>2, TakeByteFacts
    <2>2. buffer => OnScreen(Moved(screen, b))
      BY GridFacts, MovedStep DEF WindowInv
    <2>3. job' \in Jobs /\ (job'.glyphs = 0 => job'.todo = {}) /\ (job'.glyphs > 0 => buffer)
      <3>1. CASE buffer /\ b \notin {"LF", "CR"}
        BY <2>1, <3>1, StartFields
      <3>2. CASE ~(buffer /\ b \notin {"LF", "CR"})
        BY <2>1, <3>2 DEF WindowInv
      <3> QED
        BY <3>1, <3>2
    <2> QED
      BY <1>1, <2>1, <2>2, <2>3 DEF WindowInv, OnScreen
  <1>3. CASE Store
    <2>1. PICK dot \in job.todo : screen' = Stored(screen, Pixel(screen, dot), <<job.char, dot>>)
      BY <1>3, StoreFacts
    <2>2. ASSUME NEW i, NEW v, screen' = Stored(screen, i, v)
          PROVE  HasFields(screen') /\ screen'.x = screen.x /\ screen'.y = screen.y
      BY <2>2, StoreFields DEF WindowInv
    <2>3. HasFields(screen') /\ screen'.x = screen.x /\ screen'.y = screen.y
      BY <2>1, <2>2
    <2> QED
      BY <1>1, <1>3, <2>3, StoreFacts DEF WindowInv, OnScreen
  <1>4. CASE GlyphDone
    <2>1. OnScreen(Forward(screen)) /\ OnScreen(screen) /\ buffer
      BY <1>4, GlyphDoneFacts, GridFacts, ForwardStep DEF WindowInv
    <2> QED
      BY <1>1, <1>4, <2>1, GlyphDoneFacts DEF OnScreen
  <1>5. CASE UNCHANGED <<mode, screen, job>> /\ (buffer' = buffer \/ (~buffer /\ ModeFits))
    <2>1. ModeFits => Cols \in Nat \ {0} /\ Rows \in Nat \ {0}
      BY GridFacts DEF WindowInv
    <2>2. /\ Cols' = Cols /\ Rows' = Rows /\ (ModeFits' <=> ModeFits)
          /\ HasFields(screen)' /\ (OnScreen(screen)' <=> OnScreen(screen)) /\ Jobs' = Jobs
      BY <1>5 DEF ModeFits, Cols, Rows, Offset, HasFields, OnScreen, Jobs, WindowInv
    <2>3. ~buffer /\ ModeFits => OnScreen(screen)
      BY <2>1 DEF WindowInv, OnScreen
    <2> QED
      BY <1>5, <2>2, <2>3 DEF WindowInv
  <1> QED
    BY <1>2, <1>3, <1>4, <1>5, OtherSteps

\* Where the dots of a cell of the grid lie: on the visible screen, row by row.
LEMMA PixelPlace ==
    ASSUME mode \in Modes, ModeFits,
           NEW s, s.x \in 0 .. Cols - 1, s.y \in 0 .. Rows - 1, NEW dot \in Cell
    PROVE  /\ Pixel(s, dot) \in Nat
           /\ Pixel(s, dot) % Stride = s.x * GW + dot[2]
           /\ Pixel(s, dot) \div Stride = s.y * GH + dot[1]
           /\ s.x * GW + dot[2] < mode.width /\ s.y * GH + dot[1] < mode.height
           /\ Stride * mode.height \in Nat /\ Pixel(s, dot) + 1 <= Stride * mode.height
  <1> DEFINE x == s.x
             y == s.y
             col == x * GW + dot[2]
             row == y * GH + dot[1]
  <1>1. /\ x \in 0 .. Cols - 1 /\ y \in 0 .. Rows - 1
        /\ dot[1] \in 0 .. GH - 1 /\ dot[2] \in 0 .. GW - 1
        /\ GW \in Nat \ {0} /\ GH \in Nat \ {0}
    BY ConsoleAssumption DEF Cell
  <1>2. mode.width \in Nat /\ mode.height \in Nat
    BY ConsoleAssumption
  <1>3. /\ Cols \in Nat \ {0} /\ GW * Cols <= mode.width
        /\ Rows \in Nat \ {0} /\ GH * Rows <= mode.height
        /\ Stride \in Nat \ {0} /\ mode.width <= Stride
    BY GridFacts
  <1>4. col \in Nat /\ col < mode.width
    <2>1. GW * (x + 1) <= GW * Cols
      BY <1>1, <1>3, MulMono
    <2>2. col < GW * (x + 1)
      BY <1>1
    <2> QED
      BY <1>1, <1>2, <1>3, <2>1, <2>2
  <1>5. row \in Nat /\ row + 1 <= mode.height
    <2>1. GH * (y + 1) <= GH * Rows
      BY <1>1, <1>3, MulMono
    <2>2. row < GH * (y + 1)
      BY <1>1
    <2> QED
      BY <1>1, <1>2, <1>3, <2>1, <2>2
  <1>6. Pixel(s, dot) = row * Stride + col
    <2>1. Pixel(s, dot) = row * Stride + x * GW + dot[2]
      BY DEF Pixel
    <2>2. row * Stride \in Int /\ x * GW \in Int /\ dot[2] \in Int
      BY <1>1, <1>3, <1>5
    <2> QED
      BY <2>1, <2>2
  <1> HIDE DEF row, col
  <1>7. Pixel(s, dot) % Stride = col /\ Pixel(s, dot) \div Stride = row
    <2>1. col < Stride
      BY <1>2, <1>3, <1>4
    <2>2. row \in Nat /\ col \in Nat /\ Stride \in Nat
      BY <1>3, <1>4, <1>5
    <2>3. (row * Stride + col) \div Stride = row /\ (row * Stride + col) % Stride = col
      BY <2>1, <2>2, DivUnique
    <2> QED
      BY <1>6, <2>3, Zenon
  <1>8. /\ Pixel(s, dot) \in Nat /\ Stride * mode.height \in Nat
        /\ Pixel(s, dot) + 1 <= Stride * mode.height
    <2>1. Stride * (row + 1) <= Stride * mode.height
      BY <1>2, <1>3, <1>5, MulMono
    <2>2. row * Stride + col + 1 <= Stride * (row + 1)
      BY <1>2, <1>3, <1>4, <1>5
    <2> QED
      BY <1>2, <1>3, <1>4, <1>5, <1>6, <2>1, <2>2
  <1> QED
    BY <1>2, <1>4, <1>5, <1>7, <1>8 DEF row, col

\* No two cells share a dot.
LEMMA PixelUnique ==
    ASSUME mode \in Modes, ModeFits,
           NEW s, s.x \in 0 .. Cols - 1, s.y \in 0 .. Rows - 1, NEW d \in Cell,
           NEW t, t.x \in 0 .. Cols - 1, t.y \in 0 .. Rows - 1, NEW e \in Cell,
           Pixel(s, d) = Pixel(t, e)
    PROVE  s.x = t.x /\ s.y = t.y /\ d = e
  <1>1. s.x * GW + d[2] = t.x * GW + e[2] /\ s.y * GH + d[1] = t.y * GH + e[1]
    BY PixelPlace
  <1>2. /\ d[1] \in 0 .. GH - 1 /\ d[2] \in 0 .. GW - 1 /\ d = <<d[1], d[2]>>
        /\ e[1] \in 0 .. GH - 1 /\ e[2] \in 0 .. GW - 1 /\ e = <<e[1], e[2]>>
        /\ GW \in Nat \ {0} /\ GH \in Nat \ {0}
    BY ConsoleAssumption DEF Cell
  <1>3. s.x \in Nat /\ s.y \in Nat /\ t.x \in Nat /\ t.y \in Nat
    BY GridFacts
  <1>4. s.x = t.x /\ d[2] = e[2]
    <2>1. (s.x * GW + d[2]) \div GW = s.x /\ (s.x * GW + d[2]) % GW = d[2]
      BY <1>2, <1>3, DivUnique
    <2>2. (t.x * GW + e[2]) \div GW = t.x /\ (t.x * GW + e[2]) % GW = e[2]
      BY <1>2, <1>3, DivUnique
    <2> QED
      BY <1>1, <2>1, <2>2
  <1>5. s.y = t.y /\ d[1] = e[1]
    <2>1. (s.y * GH + d[1]) \div GH = s.y /\ (s.y * GH + d[1]) % GH = d[1]
      BY <1>2, <1>3, DivUnique
    <2>2. (t.y * GH + e[1]) \div GH = t.y /\ (t.y * GH + e[1]) % GH = e[1]
      BY <1>2, <1>3, DivUnique
    <2> QED
      BY <1>1, <2>1, <2>2
  <1> QED
    BY <1>2, <1>4, <1>5

\* PixelsInWindow: for every mode Console::init accepts and every sequence of
\* bytes, the unchecked store of glyph stays on the visible screen and inside
\* the large pages head.S maps to the framebuffer.
THEOREM StoresStayOnScreen == Spec => []PixelsInWindow
  <1>1. Init => WindowInv
    BY NoJobFields DEF Init, WindowInv, HasFields
  <1>2. WindowInv => PixelsInWindow
    <2> SUFFICES ASSUME WindowInv, buffer, NEW dot \in Cell
                 PROVE  /\ Pixel(screen, dot) % Stride < mode.width
                        /\ Pixel(screen, dot) \div Stride < mode.height
                        /\ Offset + 4 * Pixel(screen, dot) + 3 < Pdes * Big
      BY DEF PixelsInWindow
    <2>1. /\ mode.height \in Nat /\ mode.pitch \in Nat /\ mode.base \in Nat
          /\ Big \in Nat \ {0} /\ Pdes \in Nat
      BY ConsoleAssumption DEF WindowInv
    <2>2. mode \in Modes /\ ModeFits /\ OnScreen(screen)
      BY DEF WindowInv
    <2>3. mode.pitch = 4 * Stride /\ Stride \in Nat
      BY <2>2, GridFacts
    <2> DEFINE p == Pixel(screen, dot)
               area == Stride * mode.height
    <2>4. /\ p \in Nat /\ p % Stride < mode.width /\ p \div Stride < mode.height
          /\ area \in Nat /\ p + 1 <= area
      BY <2>2, PixelPlace DEF OnScreen
    <2>5. Offset \in Nat /\ Offset + mode.pitch * mode.height <= Pdes * Big
      BY <2>1, <2>2 DEF ModeFits, Offset
    <2>6. mode.pitch * mode.height = 4 * area /\ Pdes * Big \in Nat
      BY <2>1, <2>3
    <2> HIDE DEF p, area
    <2>7. Offset + 4 * p + 3 < Pdes * Big
      BY <2>4, <2>5, <2>6
    <2> QED
      BY <2>4, <2>7 DEF p
  <1> QED
    BY <1>1, <1>2, WindowStep, PTL DEF Spec

-----------------------------------------------------------------------------
(***************************************************************************)
(* What the screen shows.  Every cell is blank since the start or shows    *)
(* one whole character, except the one at the cursor while a glyph is      *)
(* under way: of that the dots stored so far are the glyph's.              *)
(***************************************************************************)
Spots == 0 .. Cols * Rows - 1
CellAt(q) == [x |-> q % Cols, y |-> q \div Cols]
At(s) == s.y * Cols + s.x

Bare(px, q) == \A dot \in Cell : px[Pixel(CellAt(q), dot)] = <<Unpainted>>
Shows(px, q, c) == \A dot \in Cell : px[Pixel(CellAt(q), dot)] = <<c, dot>>
Whole(px, q) == Bare(px, q) \/ \E c \in Chars : Shows(px, q, c)
Begun(px, q, j) == \A dot \in Cell \ j.todo : px[Pixel(CellAt(q), dot)] = <<j.char, dot>>

Spanned(px) == DOMAIN px = 0 .. (mode.pitch * mode.height) \div 4 - 1
Painted(s, j) ==
    /\ Spanned(s.pixels)
    /\ \A q \in Spots : Whole(s.pixels, q) \/ (j.glyphs > 0 /\ q = At(s))
    /\ j.glyphs > 0 => Begun(s.pixels, At(s), j)

PaintInv == WindowInv /\ (ModeFits => Painted(screen, job))

\* What Shown reads off the pixels px: the dots of the cell decide.
Picture(px, q) == [dot \in Cell |-> px[Pixel(CellAt(q), dot)]]
Read(f) ==
    IF \A dot \in Cell : f[dot] = <<Unpainted>> THEN Unpainted
    ELSE IF \E c \in Chars : \A dot \in Cell : f[dot] = <<c, dot>>
         THEN CHOOSE c \in Chars : \A dot \in Cell : f[dot] = <<c, dot>>
    ELSE "garbled"

View(px, q) == Read(Picture(px, q))

\* The cells the byte under way has still to finish, and where it will leave
\* the cursor; what the cells show once it has.
Ring == Cols * Rows
Pending(s, j) ==
    {IF j.put THEN (At(s) + k) % Ring ELSE At(s) : k \in 0 .. j.glyphs - 1}
Place(s, j) == IF j.put THEN (At(s) + j.glyphs) % Ring ELSE At(s)
Cells(s, j) == [q \in Spots |-> IF q \in Pending(s, j) THEN j.char ELSE View(s.pixels, q)]

\* The cells as one line: cursor positions and cell numbers correspond.
LEMMA SpotOf ==
    ASSUME mode \in Modes, ModeFits, NEW x \in 0 .. Cols - 1, NEW y \in 0 .. Rows - 1
    PROVE  /\ y * Cols + x \in Spots
           /\ (y * Cols + x) % Cols = x /\ (y * Cols + x) \div Cols = y
  <1>1. Cols \in Nat \ {0} /\ Rows \in Nat \ {0}
    BY GridFacts
  <1>2. x \in Nat /\ y \in Nat /\ x < Cols /\ y + 1 <= Rows
    BY <1>1
  <1>3. (y * Cols + x) % Cols = x /\ (y * Cols + x) \div Cols = y
    BY <1>1, <1>2, DivUnique
  <1>4. Cols * (y + 1) <= Cols * Rows
    BY <1>1, <1>2, MulMono
  <1>5. y * Cols + x + 1 <= Cols * (y + 1) /\ y * Cols + x \in Nat /\ Cols * Rows \in Nat
    BY <1>1, <1>2
  <1>6. Cols * (y + 1) \in Nat
    BY <1>1, <1>2
  <1>7. y * Cols + x \in Spots
    <2> DEFINE k == y * Cols + x
               m == Cols * (y + 1)
               n == Cols * Rows
    <2>1. k \in Nat /\ m \in Nat /\ n \in Nat /\ k + 1 <= m /\ m <= n
      BY <1>4, <1>5, <1>6
    <2> HIDE DEF k, m, n
    <2>2. k \in 0 .. n - 1
      BY <2>1
    <2> QED
      BY <2>2 DEF k, n, Spots
  <1> QED
    BY <1>3, <1>7

LEMMA CellOf ==
    ASSUME mode \in Modes, ModeFits, NEW q \in Spots
    PROVE  /\ CellAt(q).x \in 0 .. Cols - 1 /\ CellAt(q).y \in 0 .. Rows - 1
           /\ At(CellAt(q)) = q
  <1>1. Cols \in Nat \ {0} /\ Rows \in Nat \ {0} /\ q \in Nat /\ q < Cols * Rows
    BY GridFacts DEF Spots
  <1>2. CellAt(q).x = q % Cols /\ CellAt(q).y = q \div Cols
    BY DEF CellAt
  <1>3. /\ q \div Cols \in Nat /\ Cols * (q \div Cols) <= q
        /\ q % Cols \in 0 .. Cols - 1 /\ q = Cols * (q \div Cols) + (q % Cols)
    BY <1>1, DivBounds
  <1>4. q \div Cols < Rows
    <2> DEFINE d == q \div Cols
    <2>1. ASSUME Rows <= d PROVE FALSE
      <3>1. Cols * Rows <= Cols * d
        BY <1>1, <1>3, <2>1, MulMono
      <3> DEFINE n == Cols * Rows
                 m == Cols * d
      <3>2. n \in Int /\ m \in Int /\ q \in Int
        BY <1>1, <1>3
      <3>3. q < n
        BY <1>1
      <3>4. n <= m /\ m <= q
        BY <1>3, <3>1
      <3> HIDE DEF n, m
      <3> QED
        BY <3>2, <3>3, <3>4
    <2>2. d \in Nat /\ Rows \in Nat
      BY <1>1, <1>3
    <2> HIDE DEF d
    <2>3. d < Rows
      BY <2>1, <2>2
    <2> QED
      BY <2>3 DEF d
  <1>5. (q \div Cols) * Cols + (q % Cols) = q
    BY <1>1, <1>3
  <1> QED
    BY <1>1, <1>2, <1>3, <1>4, <1>5 DEF At

\* A cell shows one thing.
LEMMA ViewFacts ==
    ASSUME NEW px, NEW q
    PROVE  /\ Bare(px, q) => View(px, q) = Unpainted
           /\ \A c \in Chars : Shows(px, q, c) => View(px, q) = c
  <1>1. PICK dot : dot \in Cell
    <2>1. <<0, 0>> \in Cell
      BY ConsoleAssumption DEF Cell
    <2> QED
      BY <2>1
  <1>2. \A c, d : <<c, dot>> = <<d, dot>> => c = d
    OBVIOUS
  <1>3. \A c, d : <<c, dot>> # <<d>>
    OBVIOUS
  <1> DEFINE f == Picture(px, q)
  <1>4. /\ Bare(px, q) <=> \A d \in Cell : f[d] = <<Unpainted>>
        /\ \A c : Shows(px, q, c) <=> \A d \in Cell : f[d] = <<c, d>>
    BY DEF Picture, Bare, Shows
  <1> HIDE DEF f
  <1>5. Bare(px, q) => Read(f) = Unpainted
    BY <1>4 DEF Read
  <1>6. ASSUME NEW c \in Chars, Shows(px, q, c) PROVE Read(f) = c
    <2>1. f[dot] = <<c, dot>>
      BY <1>1, <1>4, <1>6
    <2>2. ~\A d \in Cell : f[d] = <<Unpainted>>
      BY <1>1, <1>3, <2>1
    <2>3. \A e \in Chars : (\A d \in Cell : f[d] = <<e, d>>) => e = c
      BY <1>1, <1>2, <2>1
    <2>4. (CHOOSE e \in Chars : \A d \in Cell : f[d] = <<e, d>>) = c
      BY <1>4, <1>6, <2>3
    <2> QED
      BY <1>4, <1>6, <2>2, <2>4 DEF Read
  <1> QED
    BY <1>5, <1>6 DEF View, f

\* Pixels of the grid are pixels of the framebuffer.
LEMMA PixelInside ==
    ASSUME mode \in Modes, ModeFits, NEW dot \in Cell,
           NEW t, t.x \in 0 .. Cols - 1, t.y \in 0 .. Rows - 1
    PROVE  Pixel(t, dot) \in 0 .. (mode.pitch * mode.height) \div 4 - 1
  <1> DEFINE area == Stride * mode.height
             p == Pixel(t, dot)
  <1>1. p \in Nat /\ area \in Nat /\ p + 1 <= area
    BY PixelPlace
  <1>2. mode.pitch * mode.height = 4 * area
    <2>1. mode.pitch = 4 * Stride /\ Stride \in Nat /\ mode.height \in Nat
      BY GridFacts, ConsoleAssumption
    <2> QED
      BY <2>1
  <1> HIDE DEF area, p
  <1>3. (4 * area) \div 4 = area
    BY <1>1
  <1>4. p \in 0 .. area - 1
    BY <1>1
  <1> QED
    BY <1>2, <1>3, <1>4 DEF p

\* One store of Console::glyph: that dot of the cell at the cursor, no other.
LEMMA StoreDot ==
    ASSUME mode \in Modes, ModeFits, NEW s, OnScreen(s), Spanned(s.pixels),
           NEW d \in Cell, NEW c, NEW t, t = Stored(s, Pixel(s, d), <<c, d>>)
    PROVE  /\ OnScreen(t) /\ At(t) = At(s) /\ At(s) \in Spots /\ Spanned(t.pixels)
           /\ t.pixels[Pixel(CellAt(At(s)), d)] = <<c, d>>
           /\ \A q \in Spots, e \in Cell : q # At(s) \/ e # d =>
                 t.pixels[Pixel(CellAt(q), e)] = s.pixels[Pixel(CellAt(q), e)]
  <1>1. s.x \in 0 .. Cols - 1 /\ s.y \in 0 .. Rows - 1 /\ HasFields(s)
    BY DEF OnScreen
  <1>2. ASSUME NEW i, NEW v, t = Stored(s, i, v)
        PROVE  /\ HasFields(t) /\ t.x = s.x /\ t.y = s.y
               /\ DOMAIN t.pixels = DOMAIN s.pixels
               /\ i \in DOMAIN s.pixels => t.pixels[i] = v
               /\ \A k \in DOMAIN s.pixels : k # i => t.pixels[k] = s.pixels[k]
    <2>1. HasFields(t) /\ t.x = s.x /\ t.y = s.y
      BY <1>1, <1>2, StoreFields
    <2>2. DOMAIN t.pixels = DOMAIN s.pixels
      BY <1>1, <1>2, StoreFields
    <2>3. i \in DOMAIN s.pixels => t.pixels[i] = v
      BY <1>1, <1>2, StoreFields
    <2>4. \A k \in DOMAIN s.pixels : k # i => t.pixels[k] = s.pixels[k]
      BY <1>1, <1>2, StoreFields
    <2> QED
      BY <2>1, <2>2, <2>3, <2>4
  <1>3. /\ HasFields(t) /\ t.x = s.x /\ t.y = s.y
        /\ DOMAIN t.pixels = DOMAIN s.pixels
        /\ Pixel(s, d) \in DOMAIN s.pixels => t.pixels[Pixel(s, d)] = <<c, d>>
        /\ \A k \in DOMAIN s.pixels : k # Pixel(s, d) => t.pixels[k] = s.pixels[k]
    BY <1>2
  <1>4. OnScreen(t) /\ At(t) = At(s) /\ Spanned(t.pixels)
    BY <1>1, <1>3 DEF OnScreen, At, Spanned
  <1>5. At(s) \in Spots /\ CellAt(At(s)).x = s.x /\ CellAt(At(s)).y = s.y
    BY <1>1, SpotOf DEF At, CellAt
  <1>6. t.pixels[Pixel(CellAt(At(s)), d)] = <<c, d>>
    <2>1. Pixel(CellAt(At(s)), d) = Pixel(s, d)
      BY <1>5 DEF Pixel
    <2>2. Pixel(s, d) \in DOMAIN s.pixels
      BY <1>1, PixelInside DEF Spanned
    <2> QED
      BY <1>3, <2>1, <2>2
  <1>7. ASSUME NEW q \in Spots, NEW e \in Cell, q # At(s) \/ e # d
        PROVE  t.pixels[Pixel(CellAt(q), e)] = s.pixels[Pixel(CellAt(q), e)]
    <2>1. CellAt(q).x \in 0 .. Cols - 1 /\ CellAt(q).y \in 0 .. Rows - 1 /\ At(CellAt(q)) = q
      BY CellOf
    <2>2. Pixel(CellAt(q), e) \in DOMAIN s.pixels
      BY <2>1, PixelInside DEF Spanned
    <2>3. Pixel(CellAt(q), e) # Pixel(s, d)
      <3> SUFFICES ASSUME Pixel(s, d) = Pixel(CellAt(q), e) PROVE FALSE
        OBVIOUS
      <3>1. s.x = CellAt(q).x /\ s.y = CellAt(q).y /\ d = e
        BY <1>1, <2>1, PixelUnique
      <3> QED
        BY <1>7, <2>1, <3>1 DEF At
    <2> QED
      BY <1>3, <2>2, <2>3
  <1> QED
    BY <1>4, <1>5, <1>6, <1>7

-----------------------------------------------------------------------------
(***************************************************************************)
(* The cursor on the ring of cells.                                        *)
(***************************************************************************)
LEMMA ModSmall ==
    ASSUME NEW n \in Nat, NEW a \in 0 .. n - 1
    PROVE  a % n = a
  OBVIOUS

\* One step on a ring after others.
LEMMA ModSucc ==
    ASSUME NEW a \in Nat, NEW n \in Nat \ {0}
    PROVE  ((a % n) + 1) % n = (a + 1) % n
  <1> DEFINE d == a \div n
             r == a % n
  <1>1. d \in Nat /\ r \in 0 .. n - 1 /\ a = d * n + r
    OBVIOUS
  <1> HIDE DEF d, r
  <1>2. CASE r + 1 < n
    <2>1. (d * n + (r + 1)) % n = r + 1
      BY <1>1, <1>2, DivUnique
    <2>2. a + 1 = d * n + (r + 1)
      BY <1>1
    <2>3. (r + 1) % n = r + 1
      BY <1>1, <1>2, ModSmall
    <2> QED
      BY <2>1, <2>2, <2>3 DEF r
  <1>3. CASE ~(r + 1 < n)
    <2>1. r + 1 = n
      BY <1>1, <1>3
    <2>2. ((d + 1) * n + 0) % n = 0
      <3>1. d + 1 \in Nat /\ 0 \in Nat /\ n \in Nat /\ 0 < n
        BY <1>1
      <3> QED
        BY <3>1, DivUnique
    <2>3. a + 1 = (d + 1) * n + 0
      BY <1>1, <2>1
    <2>4. n % n = 0
      OBVIOUS
    <2> QED
      BY <2>1, <2>2, <2>3, <2>4 DEF r
  <1> QED
    BY <1>2, <1>3

\* Any number of steps after one.
LEMMA ModAfterOne ==
    ASSUME NEW a \in Nat, NEW n \in Nat \ {0}, NEW k \in Nat
    PROVE  (((a + 1) % n) + k) % n = (a + (k + 1)) % n
  <1> DEFINE b == a + 1
             d == b \div n
             r == b % n
  <1>1. b \in Nat /\ d \in Nat /\ r \in 0 .. n - 1 /\ b = d * n + r
    OBVIOUS
  <1>2. a + (k + 1) = b + k
    OBVIOUS
  <1> HIDE DEF d, r, b
  <1> DEFINE e == (r + k) \div n
             f == (r + k) % n
  <1>3. e \in Nat /\ f \in 0 .. n - 1 /\ r + k = e * n + f
    BY <1>1
  <1> HIDE DEF e, f
  <1>4. b + k = (d + e) * n + f
    <2>1. (d + e) * n = d * n + e * n
      BY <1>1, <1>3
    <2> DEFINE dn == d * n
               en == e * n
    <2>2. dn \in Int /\ en \in Int
      BY <1>1, <1>3
    <2>3. b = dn + r /\ r + k = en + f /\ (d + e) * n = dn + en
      BY <1>1, <1>3, <2>1
    <2> HIDE DEF dn, en
    <2>4. b + k = (dn + en) + f
      BY <1>1, <1>3, <2>2, <2>3
    <2> QED
      BY <2>3, <2>4
  <1>5. ((d + e) * n + f) % n = f
    <2>1. d + e \in Nat /\ f \in Nat /\ n \in Nat /\ f < n
      BY <1>1, <1>3
    <2> QED
      BY <2>1, DivUnique
  <1> QED
    BY <1>2, <1>4, <1>5 DEF b, r, f

\* The first cell of the row after y.
LEMMA RowAfter ==
    ASSUME mode \in Modes, ModeFits, NEW y \in 0 .. Rows - 1
    PROVE  ((y + 1) % Rows) * Cols = (y * Cols + Cols) % Ring
  <1>1. Cols \in Nat \ {0} /\ Rows \in Nat \ {0} /\ y \in Nat
    BY GridFacts
  <1>2. CASE y + 1 < Rows
    <2>1. (y + 1) % Rows = y + 1
      BY <1>1, <1>2, ModSmall
    <2>2. (y + 1) * Cols + 0 \in Spots
      <3>1. y + 1 \in 0 .. Rows - 1 /\ 0 \in 0 .. Cols - 1
        BY <1>1, <1>2
      <3> QED
        BY <3>1, SpotOf
    <2>3. (y + 1) * Cols + 0 = y * Cols + Cols /\ (y + 1) * Cols = y * Cols + Cols
      BY <1>1
    <2>4. Ring \in Nat /\ y * Cols + Cols \in 0 .. Ring - 1
      BY <1>1, <2>2, <2>3 DEF Spots, Ring
    <2>5. (y * Cols + Cols) % Ring = y * Cols + Cols
      BY <2>4, ModSmall
    <2> QED
      BY <2>1, <2>3, <2>5
  <1>3. CASE ~(y + 1 < Rows)
    <2>1. y + 1 = Rows
      BY <1>1, <1>3
    <2>2. (y + 1) % Rows = 0
      BY <1>1, <2>1
    <2>3. y * Cols + Cols = Ring /\ Ring \in Nat /\ Ring > 0
      <3>1. (y + 1) * Cols = Ring /\ (y + 1) * Cols = y * Cols + Cols
        BY <1>1, <2>1 DEF Ring
      <3>2. y * Cols \in Nat /\ Cols \in Nat /\ Cols > 0
        BY <1>1
      <3> QED
        BY <3>1, <3>2
    <2>4. Ring % Ring = 0
      BY <2>3
    <2>5. 0 * Cols = 0
      BY <1>1
    <2> QED
      BY <2>2, <2>3, <2>4, <2>5
  <1> QED
    BY <1>2, <1>3

\* Moving the cursor paints nothing.
LEMMA MovedPixels ==
    ASSUME NEW s, HasFields(s), NEW k, NEW l
    PROVE  /\ MovedTo(s, k, l).pixels = s.pixels
           /\ [s EXCEPT !.x = k].pixels = s.pixels
  <1> DEFINE moved == [s EXCEPT !.x = k]
  <1>1. HasFields(moved) /\ moved.pixels = s.pixels
    BY DEF HasFields
  <1>2. MovedTo(s, k, l) = [moved EXCEPT !.y = l]
    BY DEF MovedTo
  <1> HIDE DEF moved
  <1>3. [moved EXCEPT !.y = l] = [x |-> moved.x, y |-> l, pixels |-> moved.pixels]
    BY <1>1 DEF HasFields
  <1> QED
    BY <1>1, <1>2, <1>3 DEF moved

\* Console::newline goes to the first cell of the next row, around the ring.
LEMMA NewLineMoves ==
    ASSUME mode \in Modes, ModeFits, NEW s, HasFields(s), s.y \in 0 .. Rows - 1
    PROVE  /\ At(NewLine(s)) = (s.y * Cols + Cols) % Ring
           /\ NewLine(s).pixels = s.pixels
  <1>1. NewLine(s) = MovedTo(s, 0, (s.y + 1) % Rows)
    BY DEF NewLine, MovedTo
  <1> DEFINE down == (s.y + 1) % Rows
  <1>2. down * Cols = (s.y * Cols + Cols) % Ring
    BY RowAfter
  <1>3. down \in Nat /\ Cols \in Nat
    BY GridFacts
  <1> HIDE DEF down
  <1>4. NewLine(s).x = 0 /\ NewLine(s).y = down /\ NewLine(s).pixels = s.pixels
    BY <1>1, MoveXY, MovedPixels DEF down
  <1>5. down * Cols + 0 = down * Cols
    BY <1>3
  <1> QED
    BY <1>2, <1>4, <1>5 DEF At

\* The step of the cursor behind a glyph.
LEMMA ForwardMoves ==
    ASSUME mode \in Modes, ModeFits, NEW s, OnScreen(s)
    PROVE  /\ At(Forward(s)) = (At(s) + 1) % Ring
           /\ Forward(s).pixels = s.pixels
  <1>1. /\ Cols \in Nat \ {0} /\ Rows \in Nat \ {0}
        /\ s.x \in 0 .. Cols - 1 /\ s.y \in 0 .. Rows - 1 /\ HasFields(s)
    BY GridFacts DEF OnScreen
  <1>2. CASE s.x + 1 >= Cols
    <2>1. At(NewLine(s)) = (s.y * Cols + Cols) % Ring /\ NewLine(s).pixels = s.pixels
      BY <1>1, NewLineMoves
    <2>2. At(s) + 1 = s.y * Cols + Cols
      <3>1. s.x + 1 = Cols
        BY <1>1, <1>2
      <3>2. s.y * Cols \in Int /\ s.x \in Int
        BY <1>1
      <3> QED
        BY <3>1, <3>2 DEF At
    <2>3. Forward(s) = NewLine(s)
      BY <1>2 DEF Forward
    <2> QED
      BY <2>1, <2>2, <2>3
  <1>3. CASE ~(s.x + 1 >= Cols)
    <2> DEFINE right == s.x + 1
    <2>1. right \in 0 .. Cols - 1
      BY <1>1, <1>3
    <2>2. Forward(s) = [s EXCEPT !.x = right]
      BY <1>3 DEF Forward
    <2>3. At(s) + 1 = s.y * Cols + right
      <3>1. s.y * Cols \in Int /\ s.x \in Int
        BY <1>1
      <3> QED
        BY <3>1 DEF At
    <2> HIDE DEF right
    <2>4. Forward(s).x = right /\ Forward(s).y = s.y /\ Forward(s).pixels = s.pixels
      BY <1>1, <2>2, MoveX, MovedPixels
    <2>5. s.y * Cols + right \in Spots
      BY <1>1, <2>1, SpotOf
    <2>6. Ring \in Nat
      BY <1>1 DEF Ring
    <2>7. (At(s) + 1) % Ring = At(s) + 1
      BY <2>3, <2>5, <2>6, ModSmall DEF Spots, Ring
    <2> QED
      BY <2>3, <2>4, <2>7 DEF At
  <1> QED
    BY <1>2, <1>3

\* BS: one cell back, at the first cell not at all.
LEMMA BackMoves ==
    ASSUME mode \in Modes, ModeFits, NEW s, OnScreen(s)
    PROVE  /\ Back(s).pixels = s.pixels
           /\ At(Back(s)) = IF At(s) = 0 THEN 0 ELSE At(s) - 1
  <1>1. /\ Cols \in Nat \ {0} /\ Rows \in Nat \ {0}
        /\ s.x \in 0 .. Cols - 1 /\ s.y \in 0 .. Rows - 1 /\ HasFields(s)
    BY GridFacts DEF OnScreen
  <1>2. s.y * Cols \in Nat
    BY <1>1
  <1>3. CASE s.x > 0
    <2>1. Back(s) = [s EXCEPT !.x = s.x - 1]
      BY <1>3 DEF Back
    <2>2. Back(s).x = s.x - 1 /\ Back(s).y = s.y /\ Back(s).pixels = s.pixels
      BY <1>1, <2>1, MoveX, MovedPixels
    <2>3. At(Back(s)) = At(s) - 1 /\ At(s) # 0
      BY <1>1, <1>2, <1>3, <2>2 DEF At
    <2> QED
      BY <2>2, <2>3
  <1>4. CASE s.x = 0 /\ s.y > 0
    <2>1. Back(s) = MovedTo(s, Cols - 1, s.y - 1)
      BY <1>4 DEF Back, MovedTo
    <2>2. Back(s).x = Cols - 1 /\ Back(s).y = s.y - 1 /\ Back(s).pixels = s.pixels
      BY <1>1, <2>1, MoveXY, MovedPixels
    <2>3. /\ (s.y - 1) * Cols = s.y * Cols - Cols
          /\ s.y * Cols > 0
      <3>1. Cols * 1 <= Cols * s.y /\ Cols * 1 = Cols /\ Cols * s.y = s.y * Cols
        BY <1>1, <1>4, MulMono
      <3> QED
        BY <1>1, <1>2, <3>1
    <2>4. At(Back(s)) = At(s) - 1 /\ At(s) # 0
      BY <1>1, <1>2, <1>4, <2>2, <2>3 DEF At
    <2> QED
      BY <2>2, <2>4
  <1>5. CASE s.x = 0 /\ s.y = 0
    <2>1. Back(s) = s
      BY <1>5 DEF Back
    <2>2. At(s) = 0
      BY <1>1, <1>5 DEF At
    <2> QED
      BY <2>1, <2>2
  <1> QED
    BY <1>1, <1>3, <1>4, <1>5

-----------------------------------------------------------------------------
(***************************************************************************)
(* The three steps of a drawing print, on pixels and on what they show.    *)
(***************************************************************************)
\* A cell none of whose dots changed shows what it showed.
LEMMA SameDots ==
    ASSUME NEW px, NEW py, NEW q,
           \A e \in Cell : py[Pixel(CellAt(q), e)] = px[Pixel(CellAt(q), e)]
    PROVE  (Whole(px, q) => Whole(py, q)) /\ View(py, q) = View(px, q)
  <1>1. Picture(py, q) = Picture(px, q)
    BY DEF Picture
  <1>2. Bare(px, q) => Bare(py, q)
    BY DEF Bare
  <1>3. \A c : Shows(px, q, c) => Shows(py, q, c)
    BY DEF Shows
  <1> QED
    BY <1>1, <1>2, <1>3 DEF View, Whole

\* The cell at the cursor is the first of those pending.
LEMMA PendingCursor ==
    ASSUME mode \in Modes, ModeFits, NEW s, OnScreen(s), NEW j \in Jobs
    PROVE  /\ At(s) \in Spots /\ At(s) \in Nat /\ Ring \in Nat \ {0} /\ Tab \in Nat \ {0}
           /\ (At(s) + 0) % Ring = At(s)
           /\ j.glyphs = 0 => Pending(s, j) = {} /\ Place(s, j) = At(s)
           /\ j.glyphs > 0 => At(s) \in Pending(s, j)
  <1>1. At(s) \in Spots
    BY SpotOf DEF At, OnScreen
  <1>2. Ring \in Nat \ {0}
    BY GridFacts DEF Ring
  <1>3. At(s) \in Nat /\ At(s) \in 0 .. Ring - 1
    BY <1>1, <1>2 DEF Spots, Ring
  <1>4. (At(s) + 0) % Ring = At(s)
    BY <1>2, <1>3, ModSmall
  <1>5. ASSUME j.glyphs = 0 PROVE Pending(s, j) = {} /\ Place(s, j) = At(s)
    <2>1. 0 .. j.glyphs - 1 = {}
      BY <1>5
    <2> QED
      BY <1>4, <1>5, <2>1 DEF Pending, Place
  <1>6. ASSUME j.glyphs > 0 PROVE At(s) \in Pending(s, j)
    <2>1. 0 \in 0 .. j.glyphs - 1
      BY <1>6 DEF Jobs
    <2> QED
      BY <1>4, <2>1 DEF Pending
  <1>7. Tab \in Nat \ {0}
    BY ConsoleAssumption
  <1> QED
    BY <1>1, <1>2, <1>3, <1>4, <1>5, <1>6, <1>7

\* A store shows the reader nothing new: its cell was pending and still is.
LEMMA StorePaints ==
    ASSUME mode \in Modes, ModeFits, NEW s, OnScreen(s),
           NEW j \in Jobs, j.glyphs > 0, Painted(s, j), NEW d \in j.todo,
           NEW t, t = Stored(s, Pixel(s, d), <<j.char, d>>),
           NEW l \in Jobs, l.glyphs = j.glyphs, l.char = j.char, l.put = j.put,
           l.todo = j.todo \ {d}
    PROVE  Painted(t, l) /\ Place(t, l) = Place(s, j) /\ Cells(t, l) = Cells(s, j)
  <1>1. d \in Cell /\ Spanned(s.pixels)
    BY DEF Jobs, Painted
  <1>2. ASSUME NEW c, t = Stored(s, Pixel(s, d), <<c, d>>)
        PROVE  /\ At(t) = At(s) /\ Spanned(t.pixels)
               /\ t.pixels[Pixel(CellAt(At(s)), d)] = <<c, d>>
               /\ \A q \in Spots, e \in Cell : q # At(s) \/ e # d =>
                     t.pixels[Pixel(CellAt(q), e)] = s.pixels[Pixel(CellAt(q), e)]
    BY <1>1, <1>2, StoreDot
  <1>3. /\ At(t) = At(s) /\ Spanned(t.pixels)
        /\ t.pixels[Pixel(CellAt(At(s)), d)] = <<j.char, d>>
        /\ \A q \in Spots, e \in Cell : q # At(s) \/ e # d =>
              t.pixels[Pixel(CellAt(q), e)] = s.pixels[Pixel(CellAt(q), e)]
    BY <1>2
  <1>4. At(s) \in Spots /\ At(s) \in Pending(s, j)
    BY PendingCursor
  <1>5. ASSUME NEW q \in Spots, q # At(s)
        PROVE  (Whole(s.pixels, q) => Whole(t.pixels, q)) /\ View(t.pixels, q) = View(s.pixels, q)
    <2>1. \A e \in Cell : t.pixels[Pixel(CellAt(q), e)] = s.pixels[Pixel(CellAt(q), e)]
      BY <1>3, <1>5
    <2> QED
      BY <2>1, SameDots
  <1>6. Begun(t.pixels, At(t), l)
    <2> SUFFICES ASSUME NEW dot \in Cell \ l.todo
                 PROVE  t.pixels[Pixel(CellAt(At(s)), dot)] = <<l.char, dot>>
      BY <1>3 DEF Begun
    <2>1. CASE dot = d
      BY <1>3, <2>1
    <2>2. CASE dot # d
      <3>1. t.pixels[Pixel(CellAt(At(s)), dot)] = s.pixels[Pixel(CellAt(At(s)), dot)]
        BY <1>3, <1>4, <2>2
      <3>2. dot \in Cell \ j.todo
        BY <2>2
      <3>3. s.pixels[Pixel(CellAt(At(s)), dot)] = <<j.char, dot>>
        BY <3>2 DEF Painted, Begun
      <3> QED
        BY <3>1, <3>3
    <2> QED
      BY <2>1, <2>2
  <1>7. Painted(t, l)
    BY <1>3, <1>5, <1>6 DEF Painted
  <1>8. Pending(t, l) = Pending(s, j) /\ Place(t, l) = Place(s, j)
    BY <1>3 DEF Pending, Place
  <1>9. Cells(t, l) = Cells(s, j)
    BY <1>4, <1>5, <1>8 DEF Cells
  <1> QED
    BY <1>7, <1>8, <1>9

\* A glyph that is whole is taken off those pending, and shows as it did.
LEMMA GlyphPaints ==
    ASSUME mode \in Modes, ModeFits, NEW s, OnScreen(s),
           NEW j \in Jobs, j.glyphs > 0, j.todo = {}, Painted(s, j),
           NEW t, t = IF j.put THEN Forward(s) ELSE s,
           NEW l \in Jobs, l.glyphs = j.glyphs - 1,
           l.glyphs = 0 => ~l.put,
           l.glyphs > 0 => l.char = j.char /\ l.put = j.put /\ l.todo = Cell
    PROVE  Painted(t, l) /\ Place(t, l) = Place(s, j) /\ Cells(t, l) = Cells(s, j)
  <1> DEFINE n == j.glyphs
             a == At(s)
  <1>0. /\ a \in Spots /\ a \in Nat /\ Ring \in Nat \ {0} /\ a \in Pending(s, j)
        /\ (a + 0) % Ring = a
    BY PendingCursor
  <1>1. n \in Nat /\ n - 1 \in Nat /\ l.glyphs = n - 1 /\ j.put \in BOOLEAN /\ j.char \in Chars
    BY DEF Jobs
  <1>2. t.pixels = s.pixels /\ At(t) = IF j.put THEN (a + 1) % Ring ELSE a
    BY ForwardMoves
  <1>3. Shows(s.pixels, a, j.char)
    BY DEF Painted, Begun, Shows
  <1>4. Painted(t, l)
    <2>1. \A q \in Spots : Whole(t.pixels, q)
      BY <1>1, <1>2, <1>3 DEF Painted, Whole
    <2>2. l.glyphs > 0 => Begun(t.pixels, At(t), l)
      BY DEF Begun
    <2> QED
      BY <1>2, <2>1, <2>2 DEF Painted
  <1>5. /\ Place(t, l) = Place(s, j)
        /\ Pending(t, l) \subseteq Pending(s, j)
        /\ Pending(s, j) \subseteq Pending(t, l) \cup {a}
    <2>1. CASE j.put
      <3>1. \A k \in Nat : (((a + 1) % Ring) + k) % Ring = (a + (k + 1)) % Ring
        BY <1>0, ModAfterOne
      <3>2. Pending(s, j) = {(a + k) % Ring : k \in 0 .. n - 1} /\ Place(s, j) = (a + n) % Ring
        BY <2>1 DEF Pending, Place
      <3>3. CASE n - 1 = 0
        <4>1. Pending(t, l) = {} /\ Place(t, l) = At(t)
          <5>1. 0 .. l.glyphs - 1 = {}
            BY <1>1, <3>3
          <5> QED
            BY <1>1, <3>3, <5>1 DEF Pending, Place
        <4>2. n = 1 /\ 0 .. n - 1 = {0}
          BY <1>1, <3>3
        <4>3. Pending(s, j) = {a} /\ Place(s, j) = (a + 1) % Ring
          BY <1>0, <3>2, <4>2
        <4> QED
          BY <1>2, <2>1, <4>1, <4>3
      <3>4. CASE n - 1 > 0
        <4>1. l.put /\ At(t) = (a + 1) % Ring
          BY <1>1, <1>2, <2>1, <3>4
        <4>2. Pending(t, l) = {(((a + 1) % Ring) + k) % Ring : k \in 0 .. (n - 1) - 1}
          BY <1>1, <4>1 DEF Pending
        <4>3. Pending(t, l) = {(a + (k + 1)) % Ring : k \in 0 .. (n - 1) - 1}
          BY <1>1, <3>1, <4>2
        <4>4. Place(t, l) = (a + n) % Ring
          <5>1. Place(t, l) = (((a + 1) % Ring) + (n - 1)) % Ring
            BY <1>1, <4>1 DEF Place
          <5>2. (n - 1) + 1 = n
            BY <1>1
          <5> QED
            BY <1>1, <3>1, <5>1, <5>2
        <4>5. ASSUME NEW k \in 0 .. (n - 1) - 1 PROVE k + 1 \in 0 .. n - 1
          BY <1>1
        <4>6. ASSUME NEW k \in 0 .. n - 1, k # 0
              PROVE  k - 1 \in 0 .. (n - 1) - 1 /\ (k - 1) + 1 = k
          BY <1>1, <4>6
        <4>7. Pending(t, l) \subseteq Pending(s, j)
          BY <3>2, <4>3, <4>5
        <4>8. ASSUME NEW k \in 0 .. n - 1 PROVE (a + k) % Ring \in Pending(t, l) \cup {a}
          <5>1. CASE k = 0
            BY <1>0, <5>1
          <5>2. CASE k # 0
            <6>1. (a + ((k - 1) + 1)) % Ring \in Pending(t, l)
              BY <4>3, <4>6, <5>2
            <6> QED
              BY <4>6, <5>2, <6>1
          <5> QED
            BY <5>1, <5>2
        <4> QED
          BY <3>2, <4>4, <4>7, <4>8
      <3> QED
        BY <1>1, <3>3, <3>4
    <2>2. CASE ~j.put
      <3>1. Pending(s, j) = {a} /\ Place(s, j) = a /\ At(t) = a
        <4>1. \A p \in Pending(s, j) : p = a
          BY <2>2 DEF Pending
        <4> QED
          BY <1>0, <1>2, <2>2, <4>1 DEF Place
      <3>2. ~l.put
        BY <1>1, <2>2
      <3>3. Place(t, l) = a /\ \A p \in Pending(t, l) : p = a
        BY <3>1, <3>2 DEF Pending, Place
      <3> QED
        BY <3>1, <3>3
    <2> QED
      BY <1>1, <2>1, <2>2
  <1>6. Pending(t, l) # {} => l.char = j.char
    <2>1. CASE n - 1 = 0
      <3>1. 0 .. l.glyphs - 1 = {}
        BY <1>1, <2>1
      <3> QED
        BY <3>1 DEF Pending
    <2>2. CASE n - 1 > 0
      BY <1>1, <2>2
    <2> QED
      BY <1>1, <2>1, <2>2
  <1>7. View(s.pixels, a) = j.char
    BY <1>1, <1>3, ViewFacts
  <1>8. Cells(t, l) = Cells(s, j)
    <2> SUFFICES ASSUME NEW q \in Spots
                 PROVE  (IF q \in Pending(t, l) THEN l.char ELSE View(t.pixels, q)) =
                        (IF q \in Pending(s, j) THEN j.char ELSE View(s.pixels, q))
      BY Zenon DEF Cells
    <2> QED
      BY <1>2, <1>5, <1>6, <1>7
  <1> QED
    BY <1>4, <1>5, <1>8

\* What one byte does to the terminal the screen shows, once drawn.
Wrote(s, j, t, l, n, c) ==
    /\ Cells(t, l) = [q \in Spots |->
                         IF \E k \in 0 .. n - 1 : q = (Place(s, j) + k) % Ring
                         THEN c ELSE Cells(s, j)[q]]
    /\ Place(t, l) = (Place(s, j) + n) % Ring

Shift(s, j, t, l) ==
    \/ \E c \in {"m", "E"} : Wrote(s, j, t, l, 1, c)
    \/ Wrote(s, j, t, l, Tab - (s.x % Tab), Blank)
    \/ Place(t, l) = (Place(s, j) - s.x + Cols) % Ring /\ Cells(t, l) = Cells(s, j)
    \/ Place(t, l) = Place(s, j) - s.x /\ Cells(t, l) = Cells(s, j)
    \/ /\ Place(t, l) = IF Place(s, j) = 0 THEN 0 ELSE Place(s, j) - 1
       /\ Cells(t, l) = [Cells(s, j) EXCEPT ![Place(t, l)] = Blank]

\* Glyphs to be written on from the cursor, none of them begun.
LEMMA BegunWrites ==
    ASSUME mode \in Modes, ModeFits, NEW s, OnScreen(s), NEW j \in Jobs, j.glyphs = 0,
           NEW l \in Jobs, l.put, l.glyphs > 0
    PROVE  Wrote(s, j, s, l, l.glyphs, l.char)
  <1>1. Pending(s, j) = {} /\ Place(s, j) = At(s)
    BY PendingCursor
  <1>2. \A q \in Spots : Cells(s, j)[q] = View(s.pixels, q)
    BY <1>1 DEF Cells
  <1>3. Place(s, l) = (At(s) + l.glyphs) % Ring
    BY DEF Place
  <1>4. \A q : q \in Pending(s, l) <=> \E k \in 0 .. l.glyphs - 1 : q = (At(s) + k) % Ring
    BY DEF Pending
  <1>5. Cells(s, l) = [q \in Spots |->
                          IF \E k \in 0 .. l.glyphs - 1 : q = (At(s) + k) % Ring
                          THEN l.char ELSE Cells(s, j)[q]]
    BY <1>2, <1>4 DEF Cells
  <1> QED
    BY <1>1, <1>3, <1>5 DEF Wrote

\* Console::byte: whatever the byte, what is pending when it is taken makes
\* the screen show what the terminal shows after it.
LEMMA BytePaints ==
    ASSUME mode \in Modes, ModeFits, NEW s, OnScreen(s),
           NEW j \in Jobs, j.glyphs = 0, Painted(s, j),
           NEW b \in Controls \cup {"m", "E"}, NEW t, t = Moved(s, b),
           NEW l, l = IF b \notin {"LF", "CR"} THEN Start(s, b) ELSE j
    PROVE  Painted(t, l) /\ Shift(s, j, t, l)
  <1>1. /\ Cols \in Nat \ {0} /\ Rows \in Nat \ {0}
        /\ s.x \in 0 .. Cols - 1 /\ s.y \in 0 .. Rows - 1 /\ HasFields(s)
    BY GridFacts DEF OnScreen
  <1>2. /\ s.y * Cols \in Nat /\ At(s) - s.x = s.y * Cols
        /\ Pending(s, j) = {} /\ Place(s, j) = At(s)
    BY <1>1, PendingCursor DEF At
  <1>3. Spanned(s.pixels) /\ \A q \in Spots : Whole(s.pixels, q)
    BY DEF Painted
  <1>4. ASSUME t.pixels = s.pixels, l = j, OnScreen(t)
        PROVE  Painted(t, l) /\ Cells(t, l) = Cells(s, j) /\ Place(t, l) = At(t)
    <2>1. Pending(t, j) = {} /\ Place(t, j) = At(t)
      BY <1>4, PendingCursor
    <2> QED
      BY <1>2, <1>3, <1>4, <2>1 DEF Painted, Cells
  <1>5. ASSUME t.pixels = s.pixels, l.todo = Cell PROVE Painted(t, l)
    BY <1>3, <1>5 DEF Painted, Begun
  <1>6. OnScreen(t)
    BY <1>1, MovedStep
  <1>7. CASE b = "LF"
    <2>1. t = NewLine(s) /\ l = j
      BY <1>7 DEF Moved
    <2>2. At(NewLine(s)) = (s.y * Cols + Cols) % Ring /\ NewLine(s).pixels = s.pixels
      BY <1>1, NewLineMoves
    <2>3. Painted(t, l) /\ Cells(t, l) = Cells(s, j) /\ Place(t, l) = At(t)
      BY <1>4, <1>6, <2>1, <2>2
    <2>4. Place(t, l) = (Place(s, j) - s.x + Cols) % Ring
      BY <1>2, <2>1, <2>2, <2>3
    <2> QED
      BY <2>3, <2>4 DEF Shift
  <1>8. CASE b = "CR"
    <2>1. t = [s EXCEPT !.x = 0] /\ l = j
      BY <1>8 DEF Moved
    <2>2. t.x = 0 /\ t.y = s.y /\ t.pixels = s.pixels
      <3> DEFINE u == [s EXCEPT !.x = 0]
      <3>1. u.x = 0 /\ u.y = s.y /\ u.pixels = s.pixels
        BY <1>1, MoveX, MovedPixels
      <3> HIDE DEF u
      <3>2. t = u
        BY <2>1 DEF u
      <3> QED
        BY <3>1, <3>2
    <2>3. Painted(t, l) /\ Cells(t, l) = Cells(s, j) /\ Place(t, l) = At(t)
      BY <1>4, <1>6, <2>1, <2>2
    <2>4. Place(t, l) = Place(s, j) - s.x
      BY <1>2, <2>2, <2>3 DEF At
    <2> QED
      BY <2>3, <2>4 DEF Shift
  <1>9. CASE b = "HT"
    <2>1. t = s /\ l = Start(s, b) /\ s.x \in Nat
      BY <1>1, <1>9 DEF Moved
    <2>2. /\ l \in Jobs /\ l.glyphs > 0 /\ l.todo = Cell /\ l.char = Blank /\ l.put
          /\ l.glyphs = Tab - (s.x % Tab)
      BY <1>9, <2>1, StartFields
    <2>3. Wrote(s, j, s, l, l.glyphs, l.char)
      BY <2>2, BegunWrites
    <2> QED
      BY <1>5, <2>1, <2>2, <2>3 DEF Shift
  <1>10. CASE b = "BS"
    <2>1. t = Back(s) /\ l = Start(s, b) /\ s.x \in Nat
      BY <1>1, <1>10 DEF Moved
    <2>2. /\ l \in Jobs /\ l.glyphs > 0 /\ l.todo = Cell /\ l.char = Blank /\ ~l.put
          /\ l.glyphs = 1
      BY <1>10, <2>1, StartFields
    <2>3. t.pixels = s.pixels /\ At(t) = IF At(s) = 0 THEN 0 ELSE At(s) - 1
      BY <2>1, BackMoves
    <2>4. Painted(t, l)
      BY <1>5, <2>2, <2>3
    <2>5. Place(t, l) = At(t) /\ \A q : q \in Pending(t, l) <=> q = At(t)
      <3>1. At(t) \in Pending(t, l)
        BY <1>6, <2>2, PendingCursor
      <3> QED
        BY <2>2, <3>1 DEF Place, Pending
    <2>6. Cells(t, l) = [Cells(s, j) EXCEPT ![At(t)] = Blank]
      <3>1. \A q \in Spots : Cells(s, j)[q] = View(s.pixels, q)
        BY <1>2 DEF Cells
      <3>2. Cells(t, l) = [q \in Spots |-> IF q = At(t) THEN Blank ELSE Cells(s, j)[q]]
        BY <2>2, <2>3, <2>5, <3>1 DEF Cells
      <3>3. DOMAIN Cells(s, j) = Spots
        BY DEF Cells
      <3> QED
        BY <3>2, <3>3
    <2> QED
      BY <1>2, <2>3, <2>4, <2>5, <2>6 DEF Shift
  <1>11. CASE b \in {"m", "E"}
    <2>1. t = s /\ l = Start(s, b) /\ s.x \in Nat
      BY <1>1, <1>11 DEF Moved
    <2>2. /\ l \in Jobs /\ l.glyphs > 0 /\ l.todo = Cell /\ l.char = b /\ l.put
          /\ l.glyphs = 1
      BY <1>11, <2>1, StartFields
    <2>3. Wrote(s, j, s, l, l.glyphs, l.char)
      BY <2>2, BegunWrites
    <2> QED
      BY <1>5, <1>11, <2>1, <2>2, <2>3 DEF Shift
  <1> QED
    BY <1>7, <1>8, <1>9, <1>10, <1>11 DEF Controls

-----------------------------------------------------------------------------
(***************************************************************************)
(* The console implements the ring terminal.                               *)
(***************************************************************************)
\* What the screen shows is a matter of mode, screen and job.
LEMMA SameMode ==
    ASSUME mode' = mode
    PROVE  /\ Painted(screen, job)' <=> Painted(screen', job')
           /\ Cells(screen, job)' = Cells(screen', job')
           /\ Place(screen, job)' = Place(screen', job')
           /\ ModeFits' <=> ModeFits
           /\ Cols' = Cols /\ Rows' = Rows
  <1>1. /\ Cols' = Cols /\ Rows' = Rows /\ Stride' = Stride /\ Spots' = Spots
        /\ Ring' = Ring
    BY DEF Cols, Rows, Stride, Spots, Ring
  <1>2. ASSUME NEW q, NEW dot PROVE Pixel(CellAt(q), dot)' = Pixel(CellAt(q), dot)
    BY <1>1 DEF Pixel, CellAt
  <1>3. At(screen)' = At(screen')
    BY <1>1 DEF At
  <1>4. Painted(screen, job)' <=> Painted(screen', job')
    <2>1. Spanned(screen.pixels)' <=> Spanned(screen'.pixels)
      BY DEF Spanned
    <2>2. \A q : Whole(screen.pixels, q)' <=> Whole(screen'.pixels, q)
      BY <1>2 DEF Whole, Bare, Shows
    <2>3. Begun(screen.pixels, At(screen), job)' <=> Begun(screen'.pixels, At(screen'), job')
      BY <1>2, <1>3 DEF Begun
    <2> QED
      BY <1>1, <1>3, <2>1, <2>2, <2>3 DEF Painted
  <1>5. \A q : View(screen.pixels, q)' = View(screen'.pixels, q)
    BY <1>2 DEF View, Picture
  <1>6. /\ Pending(screen, job)' = Pending(screen', job')
        /\ Place(screen, job)' = Place(screen', job')
    BY <1>1, <1>3 DEF Pending, Place
  <1>7. Cells(screen, job)' = Cells(screen', job')
    BY <1>1, <1>5, <1>6 DEF Cells
  <1>8. ModeFits' <=> ModeFits
    BY DEF ModeFits, Offset
  <1> QED
    BY <1>1, <1>4, <1>6, <1>7, <1>8

\* A step of the console keeps what the screen shows or does what one byte does.
LEMMA ScreenStep ==
    ASSUME PaintInv, [Next]_vars
    PROVE  /\ mode' = mode
           /\ ModeFits => Painted(screen', job')
           /\ \/ UNCHANGED <<screen, job>>
              \/ /\ ModeFits
                 /\ Place(screen', job') = Place(screen, job)
                 /\ Cells(screen', job') = Cells(screen, job)
              \/ /\ ModeFits /\ OnScreen(screen) /\ Place(screen, job) = At(screen)
                 /\ Shift(screen, job, screen', job')
  <1>1. /\ WindowInv /\ mode \in Modes /\ job \in Jobs
        /\ buffer => ModeFits /\ OnScreen(screen) /\ Painted(screen, job)
        /\ job.glyphs > 0 => buffer
        /\ ModeFits => Painted(screen, job)
    BY DEF PaintInv, WindowInv
  <1>2. CASE TakeByte
    <2>1. PICK b \in Controls \cup {"m", "E"} :
              /\ screen' = IF buffer THEN Moved(screen, b) ELSE screen
              /\ job' = IF buffer /\ b \notin {"LF", "CR"} THEN Start(screen, b) ELSE job
              /\ mode' = mode /\ buffer' = buffer /\ job.glyphs = 0 /\ screen.x \in Nat
      BY <1>1, <1>2, TakeByteFacts
    <2>2. CASE buffer
      <3>1. screen' = Moved(screen, b)
        BY <2>1, <2>2
      <3>2. job' = IF b \notin {"LF", "CR"} THEN Start(screen, b) ELSE job
        BY <2>1, <2>2
      <3>3. Place(screen, job) = At(screen)
        BY <1>1, <2>1, <2>2, PendingCursor
      <3>4. Painted(screen', job') /\ Shift(screen, job, screen', job')
        BY <1>1, <2>1, <2>2, <3>1, <3>2, BytePaints
      <3> QED
        BY <1>1, <2>1, <2>2, <3>3, <3>4
    <2>3. CASE ~buffer
      BY <1>1, <2>1, <2>3
    <2> QED
      BY <2>2, <2>3
  <1>3. CASE Store
    <2>1. /\ mode' = mode /\ job.glyphs > 0 /\ job' \in Jobs /\ job'.glyphs = job.glyphs
          /\ job'.char = job.char /\ job'.put = job.put
      BY <1>1, <1>3, StoreFacts
    <2>2. PICK dot \in job.todo : /\ screen' = Stored(screen, Pixel(screen, dot), <<job.char, dot>>)
                                  /\ job'.todo = job.todo \ {dot}
      BY <1>1, <1>3, StoreFacts
    <2>3. /\ Painted(screen', job')
          /\ Place(screen', job') = Place(screen, job) /\ Cells(screen', job') = Cells(screen, job)
      BY <1>1, <2>1, <2>2, StorePaints
    <2> QED
      BY <1>1, <2>1, <2>3
  <1>4. CASE GlyphDone
    <2>1. /\ mode' = mode /\ buffer /\ job.glyphs > 0 /\ job.todo = {}
          /\ screen' = IF job.put THEN Forward(screen) ELSE screen
          /\ job' \in Jobs /\ job'.glyphs = job.glyphs - 1
          /\ job'.glyphs = 0 => ~job'.put
          /\ job'.glyphs > 0 => /\ job'.char = job.char /\ job'.put = job.put
                                /\ job'.todo = Cell
      BY <1>1, <1>4, GlyphDoneFacts
    <2>2. /\ Painted(screen', job')
          /\ Place(screen', job') = Place(screen, job) /\ Cells(screen', job') = Cells(screen, job)
      BY <1>1, <2>1, GlyphPaints
    <2> QED
      BY <1>1, <2>1, <2>2
  <1>5. CASE UNCHANGED <<mode, screen, job>>
    BY <1>1, <1>5
  <1> QED
    BY <1>1, <1>2, <1>3, <1>4, <1>5, OtherSteps

LEMMA PaintStep == PaintInv /\ [Next]_vars => PaintInv'
  <1> SUFFICES ASSUME PaintInv, [Next]_vars PROVE PaintInv'
    OBVIOUS
  <1>1. WindowInv'
    BY WindowStep DEF PaintInv
  <1>2. mode' = mode /\ (ModeFits => Painted(screen', job'))
    BY ScreenStep
  <1>3. ModeFits' => Painted(screen, job)'
    BY <1>2, SameMode
  <1> QED
    BY <1>1, <1>3 DEF PaintInv

\* At power-on no cell has been painted.
LEMMA PaintInit ==
    ASSUME Init
    PROVE  /\ PaintInv
           /\ ModeFits => \A q \in Spots : Bare(screen.pixels, q)
           /\ ModeFits => Place(screen, job) = 0 /\ Pending(screen, job) = {}
           /\ At(screen) = 0
  <1>1. WindowInv
    BY NoJobFields DEF Init, WindowInv, HasFields
  <1>2. /\ DOMAIN screen.pixels = 0 .. (mode.pitch * mode.height) \div 4 - 1
        /\ \A i \in DOMAIN screen.pixels : screen.pixels[i] = <<Unpainted>>
        /\ screen.x = 0 /\ screen.y = 0 /\ mode \in Modes
    BY DEF Init
  <1>3. ASSUME ModeFits, NEW q \in Spots PROVE Bare(screen.pixels, q)
    <2> SUFFICES ASSUME NEW dot \in Cell
                 PROVE  screen.pixels[Pixel(CellAt(q), dot)] = <<Unpainted>>
      BY DEF Bare
    <2>1. CellAt(q).x \in 0 .. Cols - 1 /\ CellAt(q).y \in 0 .. Rows - 1
      BY <1>2, <1>3, CellOf
    <2>2. Pixel(CellAt(q), dot) \in DOMAIN screen.pixels
      BY <1>2, <1>3, <2>1, PixelInside
    <2> QED
      BY <1>2, <2>2
  <1>4. At(screen) = 0
    <2>1. Cols \in Int
      BY <1>2, ConsoleAssumption DEF Cols
    <2> QED
      BY <1>2, <2>1 DEF At
  <1>5. job \in Jobs /\ job.glyphs = 0 /\ ~(job.glyphs > 0)
    BY NoJobFields DEF Init
  <1>6. ASSUME ModeFits PROVE Place(screen, job) = 0 /\ Pending(screen, job) = {}
    <2>1. OnScreen(screen)
      BY <1>1, <1>2, <1>6, GridFacts DEF OnScreen, WindowInv
    <2> QED
      BY <1>2, <1>4, <1>5, <1>6, <2>1, PendingCursor
  <1> QED
    BY <1>1, <1>2, <1>3, <1>4, <1>5, <1>6 DEF PaintInv, Painted, Spanned, Whole

\* Every cell but the one a glyph is under way in shows one thing, always.
LEMMA PaintInvariance == Spec => []PaintInv
  <1>1. Init => PaintInv
    BY PaintInit
  <1> QED
    BY <1>1, PaintStep, PTL DEF Spec

\* The terminal's variables as the refinement mapping reads them.
MapCols == IF ModeFits THEN Cols ELSE 1
MapRows == IF ModeFits THEN Rows ELSE 1
MapAt ==
    IF ~ModeFits THEN 0
    ELSE IF job.put THEN (Position + job.glyphs) % (Cols * Rows) ELSE Position
MapCells ==
    IF ModeFits
    THEN [p \in 0 .. Cols * Rows - 1 |-> IF p \in Unfinished THEN job.char ELSE Shown(p)]
    ELSE [p \in {0} |-> Unpainted]

LEMMA ShownIsView ==
    ASSUME NEW q \in Spots, Whole(screen.pixels, q)
    PROVE  Shown(q) = View(screen.pixels, q)
  <1> DEFINE bare == \A dot \in Cell : screen.pixels[Pixel(CellAt(q), dot)] = <<Unpainted>>
             dots(c) == \A dot \in Cell : screen.pixels[Pixel(CellAt(q), dot)] = <<c, dot>>
  <1>1. Shown(q) = IF bare THEN Unpainted
                   ELSE IF \E c \in Chars : dots(c) THEN CHOOSE c \in Chars : dots(c)
                   ELSE "garbled"
    BY DEF Shown, CellAt, Chars
  <1>2. (bare <=> Bare(screen.pixels, q)) /\ \A c : dots(c) <=> Shows(screen.pixels, q, c)
    BY DEF Bare, Shows
  <1>3. <<0, 0>> \in Cell
    BY ConsoleAssumption DEF Cell
  <1>4. \A c, d : dots(c) /\ dots(d) => c = d
    <2> SUFFICES ASSUME NEW c, NEW d, dots(c), dots(d) PROVE c = d
      OBVIOUS
    <2>1. <<c, <<0, 0>>>> = <<d, <<0, 0>>>>
      BY <1>3
    <2> QED
      BY <2>1
  <1>5. \A c : dots(c) => ~bare
    <2> SUFFICES ASSUME NEW c, dots(c), bare PROVE FALSE
      OBVIOUS
    <2>1. <<c, <<0, 0>>>> = <<Unpainted>>
      BY <1>3
    <2> QED
      BY <2>1
  <1> HIDE DEF bare, dots
  <1>6. CASE bare
    BY <1>1, <1>2, <1>6, ViewFacts
  <1>7. CASE ~bare
    <2>1. PICK c \in Chars : dots(c)
      BY <1>2, <1>7 DEF Whole
    <2>2. (CHOOSE d \in Chars : dots(d)) = c
      BY <1>4, <2>1
    <2>3. View(screen.pixels, q) = c
      BY <1>2, <2>1, ViewFacts
    <2> QED
      BY <1>1, <1>7, <2>1, <2>2, <2>3
  <1> QED
    BY <1>6, <1>7

MapHolds ==
    IF ModeFits THEN /\ MapCols = Cols /\ MapRows = Rows
                     /\ MapAt = Place(screen, job) /\ MapCells = Cells(screen, job)
    ELSE MapCols = 1 /\ MapRows = 1 /\ MapAt = 0 /\ MapCells = [p \in {0} |-> Unpainted]

LEMMA MapState == PaintInv => MapHolds
  <1> SUFFICES ASSUME PaintInv PROVE MapHolds
    OBVIOUS
  <1>1. CASE ModeFits
    <2>1. Position = At(screen) /\ Unfinished = Pending(screen, job)
      BY DEF Position, Unfinished, Pending, At, Ring
    <2>2. job.glyphs > 0 => At(screen) \in Pending(screen, job)
      BY <1>1, PendingCursor DEF PaintInv, WindowInv
    <2>3. ASSUME NEW q \in Spots, q \notin Unfinished PROVE Shown(q) = View(screen.pixels, q)
      <3>1. Whole(screen.pixels, q)
        BY <1>1, <2>1, <2>2, <2>3 DEF PaintInv, Painted
      <3> QED
        BY <3>1, ShownIsView
    <2>4. [p \in Spots |-> IF p \in Unfinished THEN job.char ELSE Shown(p)] = Cells(screen, job)
      BY <2>1, <2>3 DEF Cells
    <2>5. MapCells = Cells(screen, job)
      BY <1>1, <2>4 DEF MapCells, Spots
    <2>6. MapAt = Place(screen, job)
      BY <1>1, <2>1 DEF MapAt, Place, Ring
    <2> QED
      BY <1>1, <2>5, <2>6 DEF MapHolds, MapCols, MapRows
  <1>2. CASE ~ModeFits
    BY <1>2 DEF MapHolds, MapCols, MapRows, MapAt, MapCells
  <1> QED
    BY <1>1, <1>2

LEMMA MapStateNext == PaintInv' => MapHolds'
  <1>1. [](PaintInv => MapHolds)
    BY MapState, PTL
  <1> QED
    BY <1>1, PTL

\* One step of the console is one step of the terminal, or none.
LEMMA MapStep ==
    ASSUME PaintInv, PaintInv', [Next]_vars
    PROVE  \/ UNCHANGED <<MapCols, MapRows, MapAt, MapCells>>
           \/ /\ ModeFits /\ OnScreen(screen) /\ Place(screen, job) = At(screen)
              /\ Shift(screen, job, screen', job')
              /\ UNCHANGED <<MapCols, MapRows>>
              /\ MapCols = Cols /\ MapRows = Rows
              /\ MapAt = Place(screen, job) /\ MapAt' = Place(screen', job')
              /\ MapCells = Cells(screen, job) /\ MapCells' = Cells(screen', job')
  <1>1. /\ mode' = mode
        /\ \/ UNCHANGED <<screen, job>>
           \/ /\ ModeFits
              /\ Place(screen', job') = Place(screen, job)
              /\ Cells(screen', job') = Cells(screen, job)
           \/ /\ ModeFits /\ OnScreen(screen) /\ Place(screen, job) = At(screen)
              /\ Shift(screen, job, screen', job')
    BY ScreenStep
  <1>2. MapHolds /\ MapHolds'
    BY MapState, MapStateNext
  <1>3. /\ Cells(screen, job)' = Cells(screen', job')
        /\ Place(screen, job)' = Place(screen', job')
        /\ ModeFits' <=> ModeFits
        /\ Cols' = Cols /\ Rows' = Rows
    BY <1>1, SameMode
  <1>4. /\ MapCols' = MapCols /\ MapRows' = MapRows
        /\ ModeFits => /\ MapCols = Cols /\ MapRows = Rows
                       /\ MapAt = Place(screen, job) /\ MapAt' = Place(screen', job')
                       /\ MapCells = Cells(screen, job) /\ MapCells' = Cells(screen', job')
        /\ ~ModeFits => MapAt' = MapAt /\ MapCells' = MapCells
    BY <1>2, <1>3 DEF MapHolds
  <1>5. screen' = screen /\ job' = job => /\ Cells(screen', job') = Cells(screen, job)
                                          /\ Place(screen', job') = Place(screen, job)
    OBVIOUS
  <1> QED
    BY <1>1, <1>4, <1>5

\* Terminal's Write under the mapping.
LEMMA MapWrite ==
    ASSUME NEW n, NEW c,
           MapCells' = [p \in DOMAIN MapCells |->
                           IF \E k \in 0 .. n - 1 : p = (MapAt + k) % (MapCols * MapRows)
                           THEN c ELSE MapCells[p]],
           MapAt' = (MapAt + n) % (MapCols * MapRows)
    PROVE  Screen!Write(n, c)
  BY DEF Screen!Write, Screen!Size, MapCols, MapRows, MapAt, MapCells

LEMMA StepRefines ==
    ASSUME PaintInv, PaintInv', [Next]_vars
    PROVE  [Screen!Next]_<<MapCols, MapRows, MapAt, MapCells>>
  <1> SUFFICES ASSUME ModeFits, OnScreen(screen), Place(screen, job) = At(screen),
                      Shift(screen, job, screen', job'),
                      UNCHANGED <<MapCols, MapRows>>, MapCols = Cols, MapRows = Rows,
                      MapAt = Place(screen, job), MapAt' = Place(screen', job'),
                      MapCells = Cells(screen, job), MapCells' = Cells(screen', job')
               PROVE  Screen!Next
    BY MapStep
  <1>1. MapAt % MapCols = screen.x
    <2>1. screen.x \in 0 .. Cols - 1 /\ screen.y \in 0 .. Rows - 1 /\ mode \in Modes
      BY DEF OnScreen, PaintInv, WindowInv
    <2> QED
      BY <2>1, SpotOf DEF At
  <1>2. MapCols * MapRows = Ring /\ DOMAIN MapCells = Spots
    BY DEF Ring, Cells
  <1>3. ASSUME NEW n, NEW c, Wrote(screen, job, screen', job', n, c) PROVE Screen!Write(n, c)
    <2>1. MapAt' = (MapAt + n) % (MapCols * MapRows)
      BY <1>2, <1>3 DEF Wrote
    <2>2. MapCells' = [p \in DOMAIN MapCells |->
                          IF \E k \in 0 .. n - 1 : p = (MapAt + k) % (MapCols * MapRows)
                          THEN c ELSE MapCells[p]]
      BY <1>2, <1>3 DEF Wrote
    <2> QED
      BY <2>1, <2>2, MapWrite
  <1>4. CASE \E c \in {"m", "E"} : Wrote(screen, job, screen', job', 1, c)
    <2>1. Screen!Put
      BY <1>3, <1>4 DEF Screen!Put
    <2> QED
      BY <2>1 DEF Screen!Next, MapCols, MapRows
  <1>5. CASE Wrote(screen, job, screen', job', Tab - (screen.x % Tab), Blank)
    <2>1. Screen!Write(Tab - ((MapAt % MapCols) % Tab), Blank)
      BY <1>1, <1>3, <1>5
    <2>2. Screen!TabStop
      BY <2>1 DEF Screen!TabStop, MapAt, MapCols
    <2> QED
      BY <2>2 DEF Screen!Next, MapCols, MapRows
  <1>6. CASE /\ Place(screen', job') = (Place(screen, job) - screen.x + Cols) % Ring
             /\ Cells(screen', job') = Cells(screen, job)
    <2>1. /\ MapAt' = (MapAt - (MapAt % MapCols) + MapCols) % (MapCols * MapRows)
          /\ UNCHANGED MapCells
      BY <1>1, <1>2, <1>6
    <2>2. Screen!NewLine
      BY <2>1 DEF Screen!NewLine, Screen!Size, MapAt, MapCols, MapRows, MapCells
    <2> QED
      BY <2>2 DEF Screen!Next, MapCols, MapRows
  <1>7. CASE Place(screen', job') = Place(screen, job) - screen.x /\ Cells(screen', job') = Cells(screen, job)
    <2>1. MapAt' = MapAt - (MapAt % MapCols) /\ UNCHANGED MapCells
      BY <1>1, <1>7
    <2>2. Screen!Return
      BY <2>1 DEF Screen!Return, MapAt, MapCols, MapCells
    <2> QED
      BY <2>2 DEF Screen!Next, MapCols, MapRows
  <1>8. CASE /\ Place(screen', job') = IF Place(screen, job) = 0 THEN 0 ELSE Place(screen, job) - 1
             /\ Cells(screen', job') = [Cells(screen, job) EXCEPT ![Place(screen', job')] = Blank]
    <2>1. /\ MapAt' = IF MapAt = 0 THEN 0 ELSE MapAt - 1
          /\ MapCells' = [MapCells EXCEPT ![MapAt'] = Blank]
      BY <1>8
    <2>2. Screen!Backspace
      BY <2>1 DEF Screen!Backspace, MapAt, MapCells
    <2> QED
      BY <2>2 DEF Screen!Next, MapCols, MapRows
  <1> QED
    BY <1>4, <1>5, <1>6, <1>7, <1>8 DEF Shift

LEMMA InitRefines == Init => Screen!Init
  <1> SUFFICES ASSUME Init PROVE Screen!Init
    OBVIOUS
  <1>1. /\ PaintInv
        /\ ModeFits => /\ Place(screen, job) = 0 /\ Pending(screen, job) = {}
                       /\ \A q \in Spots : Bare(screen.pixels, q)
    BY PaintInit
  <1>2. MapHolds
    BY <1>1, MapState
  <1>3. MapAt = 0 /\ MapCells = [p \in 0 .. MapCols * MapRows - 1 |-> Unpainted]
    <2>1. CASE ModeFits
      <3>1. \A q \in Spots : View(screen.pixels, q) = Unpainted
        BY <1>1, <2>1, ViewFacts
      <3>2. Cells(screen, job) = [q \in Spots |-> Unpainted]
        BY <1>1, <2>1, <3>1 DEF Cells
      <3> QED
        BY <1>1, <1>2, <2>1, <3>2 DEF MapHolds, Spots
    <2>2. CASE ~ModeFits
      <3>1. 0 .. 1 * 1 - 1 = {0}
        OBVIOUS
      <3> QED
        BY <1>2, <2>2, <3>1 DEF MapHolds
    <2> QED
      BY <2>1, <2>2
  <1> QED
    BY <1>3 DEF Screen!Init, Screen!Size, MapCols, MapRows, MapAt, MapCells

\* ScreenIsTerminal: whatever Console::byte is given, and however the prints
\* that call it are cut short, skipped or interrupted, between any two stores
\* too, the cursor is where the ring terminal's is and the framebuffer shows
\* what the terminal shows in every cell but those the byte under way, or cut
\* short, has still to finish.
THEOREM ScreenShowsTerminal == Spec => ScreenIsTerminal
  <1>1. Init => Screen!Init
    BY InitRefines
  <1>2. PaintInv /\ PaintInv' /\ [Next]_vars => [Screen!Next]_<<MapCols, MapRows, MapAt, MapCells>>
    BY StepRefines
  <1> QED
    BY <1>1, <1>2, PaintInvariance, PTL
       DEF Spec, Screen!Spec, ScreenIsTerminal, MapCols, MapRows, MapAt, MapCells
=============================================================================
