------------------------------- MODULE Console -------------------------------
(***************************************************************************)
(* The console and whoever interrupts it.  print writes the debug port     *)
(* first, then draws, dot by dot, if it gets BUSY and skips drawing if it  *)
(* does not.  Between any two of its steps, two stores of a glyph too, the *)
(* CPU may take an exception (IST1, or IST2 for a double fault), whose     *)
(* handler prints and halts, or, where IF is set, an IRQ (IST3), whose     *)
(* handler returns.                                                        *)
(* Sources: console.rs, trap.rs, entry.S, gate.rs (init), main.rs (panic), *)
(* arch.rs (halt, wait_for_interrupt), head.S (framebuffer PDEs).          *)
(***************************************************************************)
EXTENDS Integers, Sequences, FiniteSets

CONSTANTS
    Modes,       \* VBE modes the BIOS may have set: what ModeInfo at 0x8200 says
    GW, GH, Tab, \* 8, 16, 8
    Big, Pdes,   \* a large page, 2 MiB; head.S maps 8 of them to the framebuffer
    MaxBytes,    \* bound: bytes drawn
    MaxLine,     \* bound: bytes of one print
    MaxTraps,    \* bound: exceptions other than those of a broken framebuffer
    MaxIrqs      \* bound: interrupts taken

ASSUME ConsoleAssumption ==
    /\ {GW, GH, Tab, Big, Pdes} \subseteq Nat \ {0}
    /\ Modes \subseteq [bgrx : BOOLEAN, width : Nat, height : Nat, pitch : Nat, base : Nat]

VARIABLES
    mode,        \* the mode set, one of Modes
    broken,      \* a store to the framebuffer raises an exception
    buffer,      \* CONSOLE.buffer is not null
    screen,      \* CONSOLE's x and y, and the framebuffer as pixels
    job,         \* locals of the Console::byte under way
    busy,        \* BUSY
    tables,      \* gate::init and trap::init are done
    contexts,    \* the running context, last, and those it interrupted
    drawn, traps, irqs

counters == <<drawn, traps, irqs>>
vars == <<mode, broken, buffer, screen, job, busy, tables, contexts, counters>>

Blank == " "
Unpainted == "?"
Controls == {"LF", "CR", "HT", "BS"}
Cell == (0 .. GH - 1) \X (0 .. GW - 1)

\* glyphs: still to finish, the one at the cursor first, of which the dots todo
\* are not yet stored; put: each moves the cursor on.  One job is enough as
\* there is only one drawer (OneDrawer).
Job(char, glyphs, put) ==
    [char |-> char, glyphs |-> glyphs, put |-> put, todo |-> IF glyphs > 0 THEN Cell ELSE {}]
NoJob == Job(Blank, 0, FALSE)

\* stack: 0 the interrupted one's own, else the IST slot.  open: RFLAGS.IF.
\* left: bytes of the line still to draw.  lines: lines still to print.
Context(who, stack, open, pc) ==
    [who |-> who, stack |-> stack, open |-> open, pc |-> pc, left |-> 0,
     lines |-> 0, fatal |-> FALSE, intact |-> TRUE, reported |-> FALSE]

Top == contexts[Len(contexts)]
Under(pc) == Top.pc = pc
Become(c) == contexts' = [contexts EXCEPT ![Len(contexts)] = c]
Faulty == broken /\ buffer /\ tables

\* The next byte: any of the main program, a glyph and LF of a report.
Bytes(c) == IF ~c.fatal THEN Controls \cup {"m"}
            ELSE IF c.left > 1 THEN {"E"} ELSE {"LF"}

\* An entry on an IST slot starts at its top, over whatever is there.
Enter(c) ==
    contexts' = Append([i \in DOMAIN contexts |->
        [contexts[i] EXCEPT !.intact = @ /\ contexts[i].stack # c.stack]], c)

\* panic, exception_dispatch: print so many lines, then halt.
Dying(c, n) == [c EXCEPT !.pc = "port", !.fatal = TRUE, !.lines = n]

-----------------------------------------------------------------------------
(***************************************************************************)
(* The screen.  A pixel holds the character and the dot of it last stored. *)
(***************************************************************************)
Cols == mode.width \div GW
Rows == mode.height \div GH
Stride == mode.pitch \div 4
Offset == mode.base % Big

ModeFits ==
    /\ mode.bgrx
    /\ mode.width >= GW /\ mode.height >= GH
    /\ mode.pitch >= mode.width * 4 /\ mode.pitch % 4 = 0
    /\ mode.base # 0 /\ Offset + mode.pitch * mode.height <= Pdes * Big

\* Mutant: a last row that is only partly visible counts.
BugNewLine(s) ==
    [s EXCEPT !.x = 0, !.y = (s.y + 1) % ((mode.height + GH - 1) \div GH)]
NewLine(s) == [s EXCEPT !.x = 0, !.y = (s.y + 1) % Rows]

Pixel(s, dot) == (s.y * GH + dot[1]) * Stride + s.x * GW + dot[2]

\* x += 1, and the new line at the right edge.
Forward(s) == IF s.x + 1 >= Cols THEN NewLine(s) ELSE [s EXCEPT !.x = @ + 1]

\* Mutant: leaving column 0 backwards lands one column beyond the last.
BugBack(s) ==
    CASE s.x > 0 -> [s EXCEPT !.x = @ - 1]
      [] s.x = 0 /\ s.y > 0 -> [s EXCEPT !.x = Cols - 1]
      [] OTHER -> s
Back(s) ==
    CASE s.x > 0 -> [s EXCEPT !.x = @ - 1]
      [] s.x = 0 /\ s.y > 0 -> [s EXCEPT !.x = Cols - 1, !.y = @ - 1]
      [] OTHER -> s

\* The number of spaces of a tab is fixed before the first moves the cursor.
Start(s, b) ==
    CASE b = "HT" -> Job(Blank, Tab - (s.x % Tab), TRUE)
      [] b = "BS" -> Job(Blank, 1, FALSE)
      [] OTHER -> Job(b, 1, TRUE)

\* What moves before the first store of a byte.
Moved(s, b) ==
    CASE b = "LF" -> NewLine(s)
      [] b = "CR" -> [s EXCEPT !.x = 0]
      [] b = "BS" -> Back(s)
      [] OTHER -> s

\* Row by row, column by column.
FirstDot(dot) ==
    /\ dot \in job.todo
    /\ \A d \in job.todo : d[1] > dot[1] \/ (d[1] = dot[1] /\ d[2] >= dot[2])

-----------------------------------------------------------------------------
Init ==
    /\ mode \in Modes /\ broken \in BOOLEAN
    /\ buffer = FALSE /\ busy = FALSE /\ tables = FALSE
    /\ screen = [x |-> 0, y |-> 0,
                 pixels |-> [i \in 0 .. (mode.pitch * mode.height) \div 4 - 1 |-> <<Unpainted>>]]
    /\ contexts = <<Context("main", 0, FALSE, "init")>>
    /\ job = NoJob
    /\ drawn = 0 /\ traps = 0 /\ irqs = 0

InitConsole ==
    /\ Under("init")
    /\ IF ModeFits THEN buffer' = TRUE /\ Become([Top EXCEPT !.pc = "run"])
                   ELSE UNCHANGED buffer /\ Become(Dying(Top, 1))
    /\ UNCHANGED <<mode, broken, screen, job, busy, tables, counters>>

LoadTables ==
    /\ Under("run") /\ ~tables
    /\ tables' = TRUE
    /\ UNCHANGED <<mode, broken, buffer, screen, job, busy, contexts, counters>>

\* wait_for_interrupt; module Interrupts has what ends the wait.
OpenWindow ==
    /\ Under("run") /\ Top.who = "main" /\ tables
    /\ Become([Top EXCEPT !.pc = "wait", !.open = TRUE])
    /\ UNCHANGED <<mode, broken, buffer, screen, job, busy, tables, counters>>

CloseWindow ==
    /\ Under("wait")
    /\ Become([Top EXCEPT !.pc = "run", !.open = FALSE])
    /\ UNCHANGED <<mode, broken, buffer, screen, job, busy, tables, counters>>

BeginPrint ==
    /\ Under("run") /\ Top.who = "main" /\ drawn < MaxBytes
    /\ Become([Top EXCEPT !.pc = "port", !.lines = 1])
    /\ UNCHANGED <<mode, broken, buffer, screen, job, busy, tables, counters>>

\* An assert of the main program or of irq_dispatch fails.
Panic ==
    /\ Under("run") /\ traps < MaxTraps
    /\ Become(Dying(Top, 1)) /\ traps' = traps + 1
    /\ UNCHANGED <<mode, broken, buffer, screen, job, busy, tables, drawn, irqs>>

\* The two passes over the arguments: debug port, then screen.
WritePort ==
    /\ Under("port")
    /\ \E n \in IF Top.fatal THEN {2} ELSE 1 .. MaxLine :
          Become([Top EXCEPT !.pc = "lock", !.left = n, !.reported = TRUE])
    /\ UNCHANGED <<mode, broken, buffer, screen, job, busy, tables, counters>>

\* The line is out; the next one, or back to the caller.
Printed(c) ==
    LET rest == [c EXCEPT !.lines = @ - 1, !.left = 0]
    IN [rest EXCEPT !.pc = IF rest.lines > 0 THEN "port"
                           ELSE IF c.fatal THEN "halt" ELSE "run"]

\* Mutant: a taken BUSY is waited for.
BugLock ==
    /\ Under("lock")
    /\ \/ ~busy /\ busy' = TRUE /\ Become([Top EXCEPT !.pc = "draw"])
       \/ busy /\ UNCHANGED <<busy, contexts>>
    /\ UNCHANGED <<mode, broken, buffer, screen, job, tables, counters>>
\* Mutant: the flag is set without looking at it.
BugLockAlways ==
    /\ Under("lock")
    /\ busy' = TRUE /\ Become([Top EXCEPT !.pc = "draw"])
    /\ UNCHANGED <<mode, broken, buffer, screen, job, tables, counters>>
Lock ==
    /\ Under("lock")
    /\ \/ ~busy /\ busy' = TRUE /\ Become([Top EXCEPT !.pc = "draw"])
       \/ busy /\ Become(Printed(Top)) /\ UNCHANGED busy
    /\ UNCHANGED <<mode, broken, buffer, screen, job, tables, counters>>

\* Console::byte up to its first store; all of it for a byte without a glyph.
TakeByte ==
    /\ Under("draw") /\ Top.left > 0 /\ job.glyphs = 0
    /\ \E b \in Bytes(Top) :
          /\ screen' = IF buffer THEN Moved(screen, b) ELSE screen
          /\ job' = IF buffer /\ b \notin {"LF", "CR"} THEN Start(screen, b) ELSE job
    /\ drawn' = IF Top.fatal THEN drawn ELSE drawn + 1
    /\ Become([Top EXCEPT !.left = IF Top.fatal \/ drawn' < MaxBytes THEN @ - 1 ELSE 0])
    /\ UNCHANGED <<mode, broken, buffer, busy, tables, traps, irqs>>

\* One volatile store of glyph.
Store ==
    /\ Under("draw") /\ ~Faulty
    /\ \E dot \in job.todo :
          /\ FirstDot(dot)
          /\ screen' = [screen EXCEPT !.pixels[Pixel(screen, dot)] = <<job.char, dot>>]
          /\ job' = [job EXCEPT !.todo = @ \ {dot}]
    /\ UNCHANGED <<mode, broken, buffer, busy, tables, contexts, counters>>

\* glyph returns.
GlyphDone ==
    /\ Under("draw") /\ job.glyphs > 0 /\ job.todo = {}
    /\ screen' = IF job.put THEN Forward(screen) ELSE screen
    /\ job' = IF job.glyphs > 1 THEN Job(job.char, job.glyphs - 1, job.put) ELSE NoJob
    /\ UNCHANGED <<mode, broken, buffer, busy, tables, contexts, counters>>

Unlock ==
    /\ Under("draw") /\ Top.left = 0 /\ job.glyphs = 0
    /\ busy' = FALSE /\ Become(Printed(Top))
    /\ UNCHANGED <<mode, broken, buffer, screen, job, tables, counters>>

-----------------------------------------------------------------------------
(***************************************************************************)
(* The CPU (external) and the gates trap::init and install_irq gave it.    *)
(* A fault or trap keeps IF until exception_common's CLI; the NMI gate and *)
(* the IRQ gates clear it.  Before the tables are loaded an exception      *)
(* resets the machine, which ends the run; it is left out.                 *)
(***************************************************************************)
\* n lines: the exception itself; its selector or CR2; the user context.
Raise(who) ==
    \E n \in 1 .. 3 :
        LET c == [Context(who, IF who = "df" THEN 2 ELSE 1, Top.open /\ who # "nmi", "entry")
                     EXCEPT !.fatal = TRUE, !.lines = n]
        IN Enter(c)

\* NMI is blocked from its delivery to the next IRET, and gets through HLT.
Trap(who) ==
    /\ tables /\ traps < MaxTraps
    /\ who = "nmi" => \A i \in DOMAIN contexts : contexts[i].who # "nmi"
    /\ who # "nmi" => ~Under("halt")
    /\ Raise(who) /\ traps' = traps + 1
    /\ UNCHANGED <<mode, broken, buffer, screen, job, busy, tables, drawn, irqs>>

\* A store of glyph faults: in the middle of a print, BUSY held.
StoreFault ==
    /\ Faulty /\ Under("draw") /\ job.todo # {}
    /\ Raise("store")
    /\ UNCHANGED <<mode, broken, buffer, screen, job, busy, tables, counters>>

\* exception_common: CLI, then save, align and call exception_dispatch.
Cli ==
    /\ Under("entry")
    /\ Become([Top EXCEPT !.pc = "port", !.open = FALSE])
    /\ UNCHANGED <<mode, broken, buffer, screen, job, busy, tables, counters>>

\* Mutant: the IRQ gates share IST1 with the exceptions.
BugIrqStack == 1
IrqStack == 3

Irq ==
    /\ Top.open /\ irqs < MaxIrqs
    /\ Enter(Context("irq", IrqStack, FALSE, "run")) /\ irqs' = irqs + 1
    /\ UNCHANGED <<mode, broken, buffer, screen, job, busy, tables, drawn, traps>>

IrqReturn ==
    /\ Top.who = "irq" /\ Under("run")
    /\ contexts' = SubSeq(contexts, 1, Len(contexts) - 1)
    /\ UNCHANGED <<mode, broken, buffer, screen, job, busy, tables, counters>>

Code == InitConsole \/ LoadTables \/ OpenWindow \/ CloseWindow \/ BeginPrint
        \/ WritePort \/ Lock \/ TakeByte \/ Store \/ GlyphDone \/ Unlock
        \/ StoreFault \/ Cli \/ IrqReturn

Stopped == Under("halt") /\ UNCHANGED vars

Next == Code \/ Panic \/ (\E who \in {"fault", "df", "nmi"} : Trap(who)) \/ Irq \/ Stopped

Spec == Init /\ [][Next]_vars
ConsoleSpec == Spec /\ WF_vars(Code)

-----------------------------------------------------------------------------
(* PixelsInWindow: whatever was printed, all dots of the cell at the cursor,
   the next one drawn to, are on the visible screen and inside the large
   pages head.S maps: glyph's unchecked store goes nowhere else. *)
PixelsInWindow ==
    buffer => \A dot \in Cell :
        /\ Pixel(screen, dot) % Stride < mode.width
        /\ Pixel(screen, dot) \div Stride < mode.height
        /\ Offset + 4 * Pixel(screen, dot) + 3 < Pdes * Big

(* ScreenIsTerminal: the cursor is where the ring terminal's is, and every
   cell but those the byte under way has still to draw shows whole the
   character the terminal shows there, however the prints before were skipped
   or interrupted.  The terminal takes a byte at once, the screen store by
   store; of the cells not finished nothing is said, and if the print is cut
   short there for good they stay half drawn (Console::byte, glyph). *)
Position == screen.y * Cols + screen.x
Unfinished ==
    {IF job.put THEN (Position + k) % (Cols * Rows) ELSE Position : k \in 0 .. job.glyphs - 1}

Shown(p) ==
    LET cell == [x |-> p % Cols, y |-> p \div Cols]
        dots(c) == \A dot \in Cell : screen.pixels[Pixel(cell, dot)] = <<c, dot>>
    IN IF \A dot \in Cell : screen.pixels[Pixel(cell, dot)] = <<Unpainted>> THEN Unpainted
       ELSE IF \E c \in {"m", "E", Blank} : dots(c)
            THEN CHOOSE c \in {"m", "E", Blank} : dots(c)
            ELSE "garbled"

Screen == INSTANCE Terminal WITH
    Glyphs <- {"m", "E"}, Blank <- Blank, Unpainted <- Unpainted, Tab <- Tab,
    cols <- IF ModeFits THEN Cols ELSE 1, rows <- IF ModeFits THEN Rows ELSE 1,
    at <- IF ~ModeFits THEN 0
          ELSE IF job.put THEN (Position + job.glyphs) % (Cols * Rows) ELSE Position,
    cells <- IF ModeFits
             THEN [p \in 0 .. Cols * Rows - 1 |->
                      IF p \in Unfinished THEN job.char ELSE Shown(p)]
             ELSE [p \in {0} |-> Unpainted]
ScreenIsTerminal == Screen!Spec

(* OneDrawer: BUSY is set exactly while one print, running or interrupted, is
   between taking and releasing it, and no IRQ can come in meanwhile: a trap
   inside a print never gets a second &mut to the cursor (console::print). *)
OneDrawer ==
    LET drawers == {i \in DOMAIN contexts : contexts[i].pc = "draw"}
    IN /\ Cardinality(drawers) = IF busy THEN 1 ELSE 0
       /\ Top.open => ~busy

(* ResumableFrames: an interrupted context whose interrupters all return has
   lost nothing of its stack, although exceptions start over at the same IST
   top and may interrupt an IRQ, and an IRQ may interrupt the entry of an
   exception taken with IF set (gate.rs: the comment on IRQ_STACK). *)
ResumableFrames ==
    \A i \in DOMAIN contexts :
        (\A j \in i + 1 .. Len(contexts) : ~contexts[j].fatal) => contexts[i].intact

(* TrapsReported: after an exception or a panic the CPU ends halted, and then
   the first line of every one there was is on the debug port, unless another
   exception, or a panic of an IRQ handler, took the CPU from it before that;
   the last one is always there.  An exception that drawing a report raises
   never takes the CPU before that report's first line is out; nothing waits
   for BUSY, and no report of a report goes on for ever (print: port first). *)
Overtaken(i) ==
    \E j \in i + 1 .. Len(contexts) : contexts[j].fatal /\ contexts[j].who # "store"
TrapsReported ==
    (\E i \in DOMAIN contexts : contexts[i].fatal) ~>
        /\ Under("halt")
        /\ \A i \in DOMAIN contexts :
              contexts[i].fatal => contexts[i].reported \/ Overtaken(i)
=============================================================================
