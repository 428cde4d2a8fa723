# MikoOS in TLA+

A verification project for MikoOS, a small x86-64 teaching kernel in Rust and
assembly. The modules model it from the boot sector to the keyboard loop, TLC
checks them on small instances, and TLAPS proves all their safety properties and
refinements for every value of the parameters. Liveness is left to TLC. Paths
below are relative to the repository; `kernel/` stands for `src/kernel/` and
`boot/` for `src/boot/`.

## 1. The system

MikoOS boots from a FAT12 floppy image, runs on one CPU and has no scheduler.
`Start_Kernel` (`kernel/main.rs`) executes a fixed sequence:

    boot.asm -> loader.asm -> head.S -> console, gate, trap, processor
      -> memory::init -> allocate and free two pages
      -> interrupt::init -> demonstrate_timer (two IRQ0)
      -> task::demonstrate (one kernel thread) -> usermode::demonstrate
      -> keyboard::init -> keyboard::run (for ever)

| Component | State | Operations | Talks to |
|---|---|---|---|
| E820 collection, `boot/loader.asm` | header at 0x4ff0, table at 0x5000 | clear, query, store, publish | BIOS; the kernel, through low memory |
| Hand-over, `kernel/bootinfo.rs` | the copied `MemoryMap` | `read_memory_map` | `memory::init` |
| Page manager, `kernel/memory.rs`, `memory/allocator.rs` | bitmap, `Page[]`, `Zone[]` | `init`, `allocate_pages`, `free_pages` | every caller, through `PageRun` credentials |
| Interrupts, `kernel/interrupt.rs`, `interrupt/pic.rs`, `irq.S` | PIC registers, `TIMER_IRQS`, IF, IST3 | `init`, `demonstrate_timer`, `irq_dispatch` | PIT, 8042, main program |
| Keyboard, `kernel/keyboard.rs` | 64-byte ring, loss counters, 8042 configuration | `init`, `on_interrupt`, `run` | 8042; handler and main loop share the ring |
| Kernel threads, `kernel/task.rs`, `task_switch.S` | two `Task`s, `CURRENT`, TSS.RSP0, a page | create, `switch_to`, exit, reclaim | page manager, TSS |
| User mode, `kernel/usermode.rs`, `syscall.rs` and their `.S` | low page tables, TLB, SYSENTER MSRs, gate 0x80, `ACTIVE` | map, enter, requests, completion, clean-up | page manager, TSS, the user program |
| Console, `kernel/console.rs` | cursor, framebuffer, `BUSY` | `init`, `print` | everybody, the exception handlers too |
| Descriptors and exceptions, `gate.rs`, `trap.rs`, `entry.S`, `panic` | GDT, IDT, TSS, the three IST stacks | set-up; an exception or panic prints and halts | CPU, console |
| Boot sector and Loader, `boot/*.asm`, `head.S` | FAT and file buffers, A20 probe, VBE information, CPU mode | search directory, follow chain, read, copy above 1 MiB, change mode | BIOS, A20 gate at port 0x92, floppy |
| Memory primitives, `kernel/arch.rs` | registers, DF | `memset`, `memcpy`, `memmove`, `memcmp` | calls the compiler inserts everywhere |
| Self test, `memory/allocator.rs` (`memory-check`) | the runs it holds, totals | `verify`, `check_allocation_state` | page manager |

What is hard here. The machine is never multi-threaded in the usual sense, but
it is concurrent: devices raise edges between any two instructions of the main
program, an exception can interrupt a print that holds `BUSY` and must print
itself, the CPU's page walker loads translations whenever it likes, two tasks
and a user program resume in the middle of calls with state the others left,
and a reset may come at any moment while DRAM survives. The Loader works in a
memory without protection, with an address line that opens late, in two CPU
modes of which only one may call the BIOS. The page manager is
sequential but keeps three records of the same fact and trusts a different one
in each operation. The list `hazards` in PROJECT.json names each of these at
its line.

What makes each component correct: the kernel accepts the whole memory map of
this boot or none; only whole pages of ordinary RAM are managed, each by one
owner; no interrupt or byte gets lost or stuck, and the CPU never sleeps on
work; a page is given back only when no stack, TSS field, table or TLB entry
refers to it; a request reads exactly the memory its caller may read; a trap
is always reported and never shares the cursor; a store to the framebuffer
stays inside it; the program that runs is in memory as it is on the floppy;
every boot phase ends.

## 2. Modules

    BootChain                     boot sector, Loader, head.S (BootChainProofs)
    MemoryLayout                  what the boot code hands to the page manager
      BootMemory                  produces one     (BootMemoryProofs)
      PageAllocator               starts from one  (PageAllocatorProofs)
        AllocatorScan             allocate's loops (AllocateProofs)
        MemoryCheck               the self test, a client (AllocateProofs)
        Tasks                     callers of the allocator, kernel thread
          UserMode                the user program and its page
                                  (UserModeProofs, on PageAllocatorProofs)
    BoundedFifo                   abstract queue
      ByteQueue                   the ring
        Interrupts  <- Pic        devices, CPU, handler, main program
                                  (InterruptsProofs, also of the ring)
    Terminal                      abstract screen
      Console                     print, exceptions and IRQs (ConsoleProofs)
    Primitives                    memset, memcpy, memmove, memcmp (PrimitivesProofs)

`MC*.tla` and `MC*.cfg` instantiate them for TLC. PROJECT.json `map` gives the
source lines of each definition. Operators called `Bug...` are wrong variants
of the definition that follows them; substituted for it, they make the property
named in PROJECT.json fail, and they are used nowhere else.

**BootChain.** From `Label_Start` of the boot sector to `verify_boot_mode`, for
both loads: `file` tells which of the two programs runs, since the Loader
repeats the boot sector's search and walk. Memory maps a block of one sector to
what it holds; a failed read may leave garbage in the target. FAT bytes are
computed from the chain the way FAT12 packs them, so `FatEntry` decodes real
12-bit entries at odd and even clusters and across a sector border. With A20
closed, `Phys` clears bit 20, also for the probe and the copy. `Switch` steps
follow the order of the mode-changing instructions; `EnablePaging` is enabled
only where the CPU accepts it. `CollectMemoryMap` stands for the E820 loop.

**BootMemory.** One action for each outcome of a BIOS call (`Store`,
`TableFull`, `Carry`, `Malformed`), `Clear` and `Publish` around them,
`ReadMemoryMap` for `bootinfo`, `SkipEntry`/`MeasureEntry` for the first loop of
`memory::init`, `LayOut` for the placement of the metadata. A failed check
records its name in `fault`. `Reset` returns to the start with memory as it is.
`format` stands for magic, version, entry size and capacity of the header, which
the Loader writes together and the kernel compares together. Addresses are
integers; `checked_add` overflows at `Word`.

**PageAllocator.** `InstallZone`, `ReservePages` and `CheckInvariants` are the
rest of `memory::init`; `AllocateFails`, `AllocateSucceeds` and `Release` are the
two public calls. The bitmap is the set `used`. `InitPages`/`CleanPages` are
`init_page`/`clean_page` on all pages of a run at once, which is what the callers
do with interrupts off. A `PageRun` is a credential in `held`; Rust moves it into
`free_pages`, so `Release` takes a member of `held`. A failed assert sets
`phase = "panic"`.

**AllocatorScan** replaces the set-based choice of the window by the loops of
`allocate`: zone index, bit index, `consecutive`. Its property `FirstFit` is the
specification of PageAllocator.

**MemoryCheck** runs `verify` on PageAllocator's actions, with the comparison of
all descriptors, the bitmap and the totals after every call. `assert` is a failed
expectation about the page manager, `stop` a machine that lacks what the test
requires (65 pages in a row, a page more, two pages of direct map).

**ByteQueue** is the ring with `head`, `length` and the two loss counters;
**BoundedFifo** is the queue it promises: drop the newest byte when full.

**Interrupts** interleaves the PIT, the 8042 (output buffer, configuration bit,
pending answer), the master PIC (IRR, ISR, IMR with edge latching), interrupt
delivery, the handler step by step, and the main program from `interrupt::init`
to `keyboard::run`. STI has its one-instruction shadow. Status and data port are
read in separate steps.

**Tasks** follows `Start_Kernel`'s page demonstration and `task::demonstrate`.
`rip` is the place in the code, `on` the stack, `regs` whose values the
callee-saved registers hold, `saved` the frame each task left. `Handover` is
`switch_to` up to the call of `task_context_switch`, `ContextSwitch` that routine.

**UserMode** continues with the end of `memory::init` (identity map removed) and
`usermode::demonstrate`. A user program is a finite sequence of accesses and
requests; `user_demo` and the four fault demonstrations are among the checked
ones. `Walk` is the page walker filling the TLB at any time. `suspended` is the
call chain on the boot stack; a kernel entry on that stack destroys it.

**Console** has a stack of contexts: the main program, and every exception or IRQ
that interrupted it. A print writes the debug port, tries to take `BUSY`, draws
if it got it, and releases it. Drawing is `TakeByte` (the byte up to its first
store: the moves of a control byte, and how many glyphs are to follow), one
`Store` for each volatile store of `glyph`, in its order, and `GlyphDone` (the
cursor moves on); `job` holds the locals in between. A trap may strike before
any of them. Moves of the cursor are not split: they are plain memory behind
the only reference there is, and a print that is cut short keeps `BUSY`, so
nobody reads the cursor afterwards. `Enter` starts at the top of an IST stack
and thereby destroys (`intact`) a frame that still lies there. Exceptions enter
with IF as it was, until `Cli`; `StoreFault` is a store to the framebuffer that
traps. The framebuffer is kept pixel by pixel, so that two cells that overlap,
or a dot beyond the line, show. **Terminal** says what is to be seen: a ring of
cells with a cursor, without rows and pixels, that takes each byte at once.
The refinement compares the two in every cell the byte under way has not still
to finish (`Unfinished`). Of those cells it says nothing, and if a trap ends the
print there they stay half drawn for good: the code lets that happen.

`TrapsReported` asks more than that the CPU halts: every exception and panic
there was has its first line on the debug port, except one that another
exception, or the panic of an IRQ handler, overtook before that
(`Overtaken`); the code cannot report those. A fault that drawing a report
raises never overtakes it.

**Primitives** executes one iteration of `rep stosb`/`rep movsb` per step.
`Exception` may come between two of them; its handler clears DF and makes one of
`Reports`.

## 3. Runs

| Run | Instance | Shows |
|---|---|---|
| `boot_chain` | sectors of 4 bytes, 5 sectors to a track, every placement of two files of up to 2 and 3 clusters on 6, every position of the directory entries, mode lists of any length | the running program is intact, the kernel finds all it is handed, BIOS calls and interrupts only in real mode, the boot ends |
| `boot_memory` | 13 possible descriptors, table of 4, one reset, any garbage in the header, 512-byte pages in a 16 KiB address space | complete hand-over, no entry refused twice, pure zones, disjoint and with the kernel's own memory reserved; the boot decides |
| `page_allocator` | 4 memory maps of 6 to 8 pages (hole, unsorted, adjacent, overlapping), counts 0 to 5, direct map of 4 pages | the three records agree, exclusive ownership, complete search, addressable Mapped runs, no assert fails except for overlapping zones |
| `allocator_scan` | 3 maps (hole, adjacent, overlapping), counts 0 to 4, every reachable bitmap | the loops refine PageAllocator: first fit |
| `memory_check` | every machine of 7 pages with 1 or 2 zones, overlapping ones included, and up to 2 reserved pages | the self test never blames the page manager for the machine |
| `byte_queue` | capacity 3, 3 byte values, up to 2 of each kind of loss | refinement of BoundedFifo through wraps and overflow |
| `interrupts` | 4 typed bytes, ring of 2 slots, 1 spurious vector | no assert of the handler fails, it never nests and has the ring for itself, no lost wakeup, no stuck byte, accounting, order, and two liveness properties |
| `console_screen` | 9 VBE modes: 3 x 2 cells with spare dots that end where the mapping ends, a single row, 7 that `init` refuses; 2 x 2 dots a cell, tabs of 2; 4 bytes in lines of up to 2, one exception before any store | stores stay in the window; the finished cells show the ring terminal |
| `console_traps` | one cell of 2 dots or no console, 2 bytes, 2 traps or panics between any two stores, 1 IRQ, a framebuffer that faults | one drawer, no frame lost that is returned to, a halt with every report out that was not overtaken |
| `tasks` | 12 pairs of zones on 6 pages | no assert, no stack freed under its user, contexts intact, the end is reached with every page back |
| `user_mode` | 354 programs, 24 addresses, 2 machines | no stale translation and a clean page, safe way back, contract of the services, clean exit, completion |
| `primitives` | every legal call on every memory of 5 bytes of 3 values, four reports | C semantics for every overlap, DF clear on return, also inside a report |

Why the bounds are enough. Six to eight pages hold two or three zones with a
hole, a reserved prefix and a direct-map border inside a zone, so every relation
between a run, a zone end, the border and the prefix occurs. A table of four
entries is overfull after five answers, and three entries already contain an
overlap that is not between neighbours. One reset reaches every combination of
an old table with a new boot. The ring is small so that it wraps and overflows.
In `user_mode` every address is tried as the start of a request with every
length around the limits. With four bytes to a sector two of the six clusters
have their entry across a sector border, and the root directory is two sectors,
so the file may be in the last one. Three columns and two rows let four bytes
pass the edge, wrap from the last row and go back across an edge; a tab is two
cells, so it may stop at, on or beyond the edge. Two traps and two IRQs are one
more than the interrupted print needs: every pair nests in both orders. Five
bytes hold two ranges in every relative position, at distance 0 to 5. The proofs
remove the bounds where they exist.

`TypeOK`, `QueueTypeOK`, `ScanTypeOK`, `BootTypeOK`, `IrqTypeOK`, `TaskTypeOK` and
`UserTypeOK` state the types of the variables for the reader; the first five are
proved, alone or as conjuncts of the inductive invariants below. The runs check
the deeper properties.

`PageAllocator` keeps an overlapping map among its layouts although
`BootMemory` establishes that none occurs: the assert is in the code, and this
way its firing is exercised.

Fairness. `Interrupts`: the CPU executes the main program and the handler and
takes a pending interrupt, and the PIT keeps counting; nothing is assumed of
the keyboard, whose silence is covered by the code's budgets (`Timeout`).
`BootMemory`: the CPU runs and every BIOS call returns; the BIOS need not end
its list. `BootChain`: the same, and a read that is repeated for ever succeeds
in the end (strong fairness of `ReadDone`): the code has no retry limit, so
without it a broken floppy keeps the boot sector in its loop. The A20 gate need
not open. `Console`, `Tasks`, `UserMode`: the CPU executes; in `Console` neither
exceptions nor IRQs have to come. The code justifies each: IF is clear and there
is no HLT in these flows, and in the main loop HLT is left by an interrupt only.
The other modules state no liveness.

Assumptions about devices. The 8042 interrupt line is `output full` and
`interrupt enabled`; a request withdrawn before acknowledgement may or may not
stay latched; a byte on its way may arrive after the ports were closed. The
slave PIC stays masked. E820 descriptors may be anything the protocol allows.
INT 13h does not read past the end of a track, and a read that fails may have
written anything to its target, nothing elsewhere. An NMI is blocked from its
delivery to the next IRET and gets through HLT; a double fault uses IST2, other
exceptions IST1, IRQs IST3.

## 4. Proofs

All theorems are of the form `Spec => []P`, an action property or a refinement,
for every value of the constants that satisfies the named assumptions:

| Assumption | What it asks, and why the code justifies it |
|---|---|
| `LayoutAssumption`, `BoundAssumption` | layouts are well-formed, which `HandoverIsSound` establishes; numbers are naturals |
| `QueueAssumption`, `InterruptAssumption` | a capacity of at least 1; `MaxBytes <= 200` keeps the numbers that stand for typed bytes apart from the keyboard's answers 0xfa and 0xfe |
| `BootAssumption` | E820 numbers are below `Word`; the kernel lies behind the ranges `read_memory_map` insists on |
| `ConsoleAssumption` | glyphs, tabs and large pages are not empty; mode fields are naturals |
| `TaskAssumption` | one page is among the counts asked for |
| `UserAssumption` | the two pages of the demonstration are apart and below `Word`, the program fits its page and ends with `done`; `WRITE` is one of the services |
| `PrimitivesAssumption` | bytes are bytes; the exception handler's calls are legal C calls |
| `ChainAssumption` | the areas of low memory are in the order of `boot.asm` and `loader.asm`; a floppy is what `build_image.py` writes: each cluster belongs to one place of one file, its entry lies in the FAT, and the Loader fits below the page tables |

* **PageAllocatorProofs.** The inductive invariant `IInv` strengthens
  `Bookkeeping` and `ExclusiveOwnership` in two ways: it also describes the
  states while zones are being installed (pages of installed zones free, the
  others used holes), and it counts, i.e. it ties each counter to the
  cardinality of a set, which is what `CanInit` and `TypeOK` need. Cardinality
  lemmas say how `InitPages` and `CleanPages` move the counters. From `IInv`:
  `TypeCorrect`, `BookkeepingHolds`, `OwnershipHolds`, `NoOtherPanic`,
  `SearchIsComplete` (a skipped zone has fewer free pages than asked for, so no
  window), `MappedIsAddressable`, and the action property `NoDisturbance`.
  `NeverPanics` adds the disjointness that BootMemory establishes.
* **AllocateProofs.** `LoopInvariant` is `NothingPassedOver`;
  `ScanImplementsFirstFit` shows that `Commit` takes the first window of the
  first candidate zone, `Exhausted` happens only without candidates, and every
  other step of the loops stutters. `SelfTestPasses` needs to know what
  `verify()` holds at each step, which nothing in its own state says: `CheckInv`
  adds to the page manager's `IInv` that the totals are a function of the bitmap
  (`Counting`), which runs are kept and held (`Unheld`, `Singles`), that the
  large run is the first fit of the bitmap without any run, so that it is found
  again after it was given back although another page is held in between
  (`Reuse`), that the direct map is full but for the hole (`DirectFull`), and
  that the last run is the whole zone (`Whole`). `GrantEffect`
  and `ReleaseEffect` say what a call does to the bitmap, `StillFirst` when a
  window stays the first fit.
* **BootMemoryProofs.** The invariant says that the first `count` slots of the
  table are the normalised answers of this boot from `Clear` on, that the copy
  equals them, that `zones` and `origin` describe the entries measured so far,
  and that validated entries are disjoint. From it `HandoffIsComplete`,
  `LayoutIsSound`, `OnlyRamIsManaged`, `OwnMemoryIsKept`; the last with
  `LayoutIsSound` is `HandoverIsSound`, which is what PageAllocator assumes of a
  layout, and disjoint zones besides. The step from disjoint
  byte ranges to disjoint page ranges needs the two roundings to go inward.
  `AcceptedOnce` needs `Summed`: `total_ram` is the cardinality of the set of
  bytes in the usable entries so far. `RamGrows` adds an entry to that set
  (its bytes are new because the map is validated), and a set of addresses below
  `Word - 1` has fewer than `Word` members, so the `checked_add` cannot overflow.
* **InterruptsProofs.** First the ring: `RingImplementsFifo` with the mapping
  `Contents`, by the arithmetic of indices modulo the capacity. Then the
  interrupt path, where `IInv` is `IrqTypeOK`, `Control`, `Accounted` and
  `Order`. `Control` goes through the labels of main program and handler: IF,
  the frames on IST3 and the ISR bit they own, the masks each phase has
  programmed, the 8042 protocol, the edge that is latched or cannot be needed,
  and what the last look before STI found (`LastLook`). That last part makes
  `WakeupNeverLost`: whatever arrives after the look is pending at HLT, because
  IF was clear and STI has its shadow. `Order` says that what is printed,
  followed by what waits in the ring, increases and is older than the byte in
  the 8042; `PrintedAsTyped` alone is not inductive, since it says nothing of
  the bytes under way. With `AssertionsHold`, `ByteNeverStuck` and
  `EverythingAccounted` every invariant of the run is proved, for every ring.
* **UserModeProofs.** Neither flow of Tasks checks where the other one stands:
  that the thread is Ready when it is switched to, and that `progress` is the
  expected number, follows from the sequence of labels. `Flows` says for each
  label of the one what the other left. `Holdings` adds which page each label
  owns; that the page of the dead thread is the one handed out next
  (`recycle`) needs `FirstPage`, the page a request for one page gets when
  nothing is handed out, as a function of the map alone. For UserMode `Mapping`
  ties tables, TLB and ownership to the labels, `Entries` the ways back to
  ring 0, and `Answers` the requests. With PageAllocator's `IInv`, which holds
  because each step of a client is written as a step of the page manager or
  leaves it alone, they give
  `NoAssertOfTheFlows`, `ContextsSurvive`, `StackOutlivesThread`,
  `TranslationsCurrent`, `WayBackStays`, `ContractHolds` and `NothingLeft`, for
  every memory map, every program, every page size and address width.
* **ConsoleProofs.** `StackInv` speaks of the whole stack of contexts, not of
  its top: an IRQ lies only on a context that was open (`Nesting`), and what is
  below an open context is open (`Openness`), so an IST slot can be entered
  twice only by contexts that never return. `OneDrawerAtATime` and
  `FramesSurvive` follow for any number of traps and IRQs. `WindowInv` with the
  arithmetic of the tab and of the wrapped row gives `StoresStayOnScreen` for
  every mode and every byte: `job` says how many glyphs are to follow, so a tab
  needs no induction.
  `ScreenShowsTerminal` is the refinement of Terminal. Its invariant `PaintInv`
  says that every cell is blank since the start or shows one whole character
  (`Whole`), but for the one at the cursor while a glyph is under way: of that
  the dots stored so far are the glyph's (`Begun`). A pixel belongs to one cell
  and one dot (`PixelUnique`), so a store changes one dot of the cell at the
  cursor and nothing else (`StoreDot`). The cursor of rows and columns is a
  position on the ring of cells (`SpotOf`, `CellOf`), on which the end of a row
  and of the screen is one step (`RowAfter`, `ForwardMoves`). The terminal is
  ahead by what is `Pending`: taking a byte is an action of Terminal
  (`BytePaints`), and stores and the moves between glyphs are none
  (`StorePaints`, `GlyphPaints`), since a glyph leaves the pending cells as a
  whole character. `MapStep` takes that through the refinement mapping,
  `StepRefines` and `InitRefines` to the terminal's formulas.
* **BootChainProofs.** `Modes` fixes the CPU's state at each label, `Position`
  the place in the cluster chain, `Reading` what a pending read will bring and
  where the code goes on, `Programs` and `Buffers` what lies in memory.
  `Programs` speaks of memory with the A20 probe's two bytes put back (`Real`),
  because `CodeIntact` does not hold step by step through the probe otherwise.
  The data lemma is `LinkIsRead`: the two FAT sectors read hold the whole 12-bit
  entry of the cluster at any offset, and the word at it decodes to the next
  cluster, because no other entry shares its twelve bits. `SectorAsked` inverts
  the division into cylinder, head and sector. From these `WalkIsOnCourse`,
  `RealModeForBios`, `ProgramsStayWhole`, `KernelGetsAll`, for files of any
  length, any geometry and any placement.
* **PrimitivesProofs.** `Moving` says what a half-done rep instruction has
  written, from the front or with DF from the back (`Written`), and that the rest
  of memory is untouched. The key lemma is `SourceIsOld`: the byte read next is
  not among those written, which is where memcpy needs disjoint ranges and
  memmove the right direction. `AsInC` holds for memory of every size and every
  legal call, and in the report of an exception that interrupted one.

Boot and page manager are composed by assumption and guarantee: BootMemory's
`HandoverIsSound` gives what `LayoutAssumption` asks for, through the
definitions both take from MemoryLayout. Page manager and clients share its
actions: Tasks and UserMode call `AllocateSucceeds`, `AllocateFails` and
`Release` as conjuncts of their own steps, so PageAllocator's proved invariant
holds of them. That a client keeps to the page manager's contract is therefore
built into the model and no result of it; what the checks say of the clients is
that they never get stuck for want of a legal call (`TasksFinish`,
`DemoCompletes`). In the same way the lemmas
about the ring serve the handler and the main loop, which share it.

TLC checked each inductive invariant on the instance of a run, or a part of it,
before it was proved.

Only model-checked: the liveness properties (`BootEnds`, `InputSurfaces`,
`BootDecides`, `TasksFinish`, `DemoCompletes`, `TrapsReported`, `ChainEnds`).
Liveness under fairness is out of the prover's reach. Every invariant, action
property and refinement of the runs is a theorem.

## 5. Not modelled

* `kernel/font.rs` is a table of dot patterns without behaviour; a pixel keeps
  the character and the dot, not a colour. Texts are left out everywhere.
* Descriptor encodings, the layout of the saved registers, RFLAGS and segment
  registers at user entry, register contents beyond whose they are.
* An exception before the tables are loaded resets the machine; the runs of
  `Console` end there.
* `console::init` does not check that the framebuffer base is a multiple of
  four; VBE bases are page aligned, and the modes checked are aligned.
* Only 0xfff ends a cluster chain in `boot.asm` and `loader.asm`. FAT12 allows
  0xff8 to 0xffe too; the floppies are made by `scripts/build_image.py`, which
  writes 0xfff.
* The slave PIC, masked in every build. Registers and values the other `*-check`
  builds compare around an interrupt, a switch and a request: they add no
  behaviour to the kernel.
* A lost-input report at boot caused by a byte typed during initialisation is
  possible in the model and in the code; it counts as an error, not as input.
* The build scripts are outside the project.

## 6. State of the project

Every component is modelled and checked but for what section 5 lists, and the
safety of each is proved. Proofs and runs are per module; the compositions that
are proved are the layout (BootMemory, PageAllocator), the clients of the page
manager (AllocatorScan, MemoryCheck, Tasks, UserMode), the ring inside the
interrupt path, and the terminal behind the console. What a change of the code
touches first: the inductive invariants named in section 4, one part of which
speaks of each label.
