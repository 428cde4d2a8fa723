------------------------------ MODULE BootChain ------------------------------
(***************************************************************************)
(* From the boot sector to Rust: boot.asm loads LOADER.BIN, loader.asm     *)
(* loads KERNEL.BIN above 1 MiB, collects what the kernel needs from the   *)
(* BIOS and switches to long mode, head.S replaces page tables and         *)
(* segments, verify_boot_mode checks the mode.  BIOS calls need real mode, *)
(* the copy above 1 MiB protected mode, so the Loader goes back and forth. *)
(*                                                                         *)
(* Memory is a map from blocks of one sector to what they hold, with the   *)
(* regions in the order of the source; a ModeInfo takes a block too.       *)
(* Module BootMemory has the E820 collection in detail.                    *)
(***************************************************************************)
EXTENDS Integers, Sequences

CONSTANTS
    Images,          \* floppy images: the slot of each file, its cluster chain
    SectorBytes,     \* BytesPerSector, 512
    SectorsPerTrack, \* 18
    FatSectors,      \* 9, of each of the two copies
    RootDirSectors,  \* 14
    Entries,         \* directory entries in a sector, 16
    Probe,           \* block of 0x500, the A20 probe byte
    Table,           \* of 0x4ff0 and 0x5000, the E820 hand-over
    Sector0,         \* of 0x7c00, the boot sector
    Temp,            \* of 0x7e00, where the Loader reads a kernel sector
    Buf,             \* of 0x8000, directory and FAT, then VBE information
    Loader,          \* of 0x10000
    Segment,         \* blocks of 64 KiB
    Pages,           \* of 0x90000, the Loader's page tables
    High             \* of 1 MiB, KERNEL.BIN

Files == {"LOADER", "KERNEL"}
ModeInfo == Buf + 1
Absent == -1
LastCluster == 4095      \* 0xfff
Clusters == 2 .. LastCluster - 1

(* The layout of the floppy is build_image.py's: every cluster belongs to one
   file, has its twelve-bit entry in the FAT, and is not taken for an end mark. *)
ASSUME ChainAssumption ==
    /\ {SectorBytes, SectorsPerTrack, FatSectors, RootDirSectors, Entries} \subseteq Nat \ {0}
    /\ {Probe, Table, Sector0, Temp, Buf, Loader, Segment, Pages, High} \subseteq Nat
    /\ Probe < Table /\ Table < Sector0 /\ Sector0 < Temp
    /\ Temp < Buf /\ ModeInfo < Loader /\ Loader + Segment <= Pages /\ Pages < High
    /\ \A image \in Images : \A f \in Files :
          /\ image.slot[f] \in {Absent} \cup 0 .. RootDirSectors * Entries - 1
          /\ image.chain[f] \in Seq(Clusters)
          /\ Len(image.chain[f]) \in 1 .. High
          /\ \A i \in DOMAIN image.chain[f] :
                /\ (image.chain[f][i] * 3) \div 2 + 1 < FatSectors * SectorBytes
                /\ \A g \in Files : \A j \in DOMAIN image.chain[g] :
                      image.chain[f][i] = image.chain[g][j] => f = g /\ i = j
    /\ \A image \in Images : Len(image.chain["LOADER"]) <= Segment

VARIABLES
    image,     \* the floppy in the drive
    mem,       \* physical memory
    a20,       \* what the gate does: "off", "asked" or "on"
    file,      \* which file is looked for: LOADER is boot.asm, KERNEL loader.asm
    pc,
    left,      \* RootDirSizeForLoop
    cluster,   \* AX
    infos,     \* ModeInfos written: EDI
    done,      \* sectors of the file at their place: BX, OffsetOfKernelFileCount
    io,        \* the INT 13h call under way, and where it returns to
    probe,     \* the two bytes saved by the A20 probe, and KernelCopyOK
    pushed,    \* RFLAGS.IF on the stack
    cpu        \* IF, PE, PG, PAE, LME, the kind of code segment, the table root

vars == <<image, mem, a20, file, pc, left, cluster, infos, done, io, probe, pushed, cpu>>
walk == <<left, cluster, done>>
loads == <<image, infos>>
window == <<probe, pushed>>

\* With A20 off bit 20 of an address is zero.
Phys(a) == IF a20 = "on" \/ a < High THEN a ELSE a - High
MemTop == High + High - 1

-----------------------------------------------------------------------------
(***************************************************************************)
(* The floppy (external: build_image.py and the FAT12 layout of fat12.inc).*)
(***************************************************************************)
FatStart == 1
RootStart == FatStart + 2 * FatSectors
SectorBalance == RootStart - 2

Link(c) ==
    LET at == {p \in Files \X (1 .. High) :
                  p[2] \in DOMAIN image.chain[p[1]] /\ image.chain[p[1]][p[2]] = c}
        p == CHOOSE p \in at : TRUE
    IN IF at = {} THEN 0
       ELSE IF p[2] = Len(image.chain[p[1]]) THEN LastCluster
       ELSE image.chain[p[1]][p[2] + 1]

\* Three bytes hold the links of an even cluster and the next.
FatByte(k) ==
    LET even == 2 * (k \div 3)
    IN CASE k % 3 = 0 -> Link(even) % 256
         [] k % 3 = 1 -> (Link(even) \div 256) + 16 * (Link(even + 1) % 16)
         [] k % 3 = 2 -> Link(even + 1) \div 16

DataSector(lba) ==
    LET at == {p \in Files \X (1 .. High) :
                  /\ p[2] \in DOMAIN image.chain[p[1]]
                  /\ image.chain[p[1]][p[2]] + RootDirSectors + SectorBalance = lba}
    IN IF at = {} THEN <<"free">> ELSE CHOOSE p \in at : TRUE

DiskSector(lba) ==
    CASE lba < FatStart -> <<"boot">>
      [] lba >= FatStart /\ lba < RootStart -> <<"fat", (lba - FatStart) % FatSectors>>
      [] lba >= RootStart /\ lba < RootStart + RootDirSectors -> <<"root", lba - RootStart>>
      [] OTHER -> DataSector(lba)

-----------------------------------------------------------------------------
(***************************************************************************)
(* Reading.  _ReadOneSectorFunc turns the sector number into cylinder,     *)
(* head and sector and repeats the call until it succeeds; the BIOS does   *)
(* not read past the end of a track, and a failed read may leave anything. *)
(***************************************************************************)
Chs(lba) ==
    [sector |-> (lba % SectorsPerTrack) + 1, head |-> (lba \div SectorsPerTrack) % 2,
     cylinder |-> (lba \div SectorsPerTrack) \div 2]

Read(lba, n, dest, then) ==
    /\ pc' = "int13"
    /\ io' = [chs |-> Chs(lba), n |-> n, dest |-> dest, then |-> then]

\* External: what INT 13h reads at a cylinder, head and sector.
Lba(chs) == (chs.cylinder * 2 + chs.head) * SectorsPerTrack + chs.sector - 1
Fill(blocks, content(_)) == [a \in 0 .. MemTop |-> IF a \in blocks THEN content(a) ELSE mem[a]]
Target == io.dest .. io.dest + io.n - 1

ReadDone ==
    /\ pc = "int13" /\ io.chs.sector + io.n - 1 <= SectorsPerTrack
    /\ LET Arrives(a) == DiskSector(Lba(io.chs) + a - io.dest)
       IN mem' = Fill(Target, Arrives)
    /\ pc' = io.then
    /\ UNCHANGED <<loads, a20, file, walk, io, window, cpu>>

ReadError ==
    /\ pc = "int13"
    /\ LET Garbage(a) == <<"garbage">>
       IN mem' = mem \/ mem' = Fill(Target, Garbage)
    /\ pc' = "carry"
    /\ UNCHANGED <<loads, a20, file, walk, io, window, cpu>>

ReadAgain ==
    /\ pc = "carry" /\ pc' = "int13"
    /\ UNCHANGED <<loads, mem, a20, file, walk, io, window, cpu>>

-----------------------------------------------------------------------------
(***************************************************************************)
(* The file: its directory entry, its sectors, its chain.                  *)
(***************************************************************************)
\* Mutant: the number of directory sectors left is not counted down.
BugSearchRoot ==
    /\ pc = "search"
    /\ IF left = 0 THEN pc' = "not found" /\ UNCHANGED <<left, io>>
       ELSE Read(RootStart, 1, Buf, "compare") /\ left' = left
    /\ UNCHANGED <<loads, mem, a20, file, cluster, done, window, cpu>>
SearchRoot ==
    /\ pc = "search"
    /\ IF left = 0 THEN pc' = "not found" /\ UNCHANGED <<left, io>>
       ELSE Read(RootStart + RootDirSectors - left, 1, Buf, "compare") /\ left' = left - 1
    /\ UNCHANGED <<loads, mem, a20, file, cluster, done, window, cpu>>

\* One of the entries of the directory sector in memory has the file's name.
Compare ==
    /\ pc = "compare"
    /\ IF mem[Buf] = <<"root", image.slot[file] \div Entries>>
       THEN cluster' = image.chain[file][1] /\ pc' = "load"
       ELSE UNCHANGED cluster /\ pc' = "search"
    /\ UNCHANGED <<loads, mem, a20, file, left, done, io, window, cpu>>

\* boot.asm reads to ES:BX in the Loader's segment, loader.asm to a buffer.
LoadSector ==
    /\ pc = "load"
    /\ LET lba == cluster + RootDirSectors + SectorBalance
       IN IF file = "LOADER" THEN Read(lba, 1, Loader + (done % Segment), "next")
                             ELSE Read(lba, 1, Temp, "copy")
    /\ UNCHANGED <<loads, mem, a20, file, walk, window, cpu>>

\* Mutant: one sector is enough for an entry.
BugFatSpan == 1
FatSpan == 2

FatOffset == (cluster * 3) \div 2

GetFATEntry ==
    /\ pc = "next"
    /\ Read(FatStart + (FatOffset \div SectorBytes), FatSpan, Buf, "follow")
    /\ done' = IF file = "LOADER" THEN done + 1 ELSE done
    /\ UNCHANGED <<loads, mem, a20, file, left, cluster, window, cpu>>

\* The word at the entry's offset in what was read, one entry of it.
FatEntry ==
    LET at(k) == mem[Buf + (k \div SectorBytes)]
        byte(k) == IF at(k)[1] = "fat" THEN FatByte(at(k)[2] * SectorBytes + (k % SectorBytes)) ELSE 0
        first == FatOffset % SectorBytes
        word == byte(first) + 256 * byte(first + 1)
    IN IF (cluster * 3) % 2 = 1 THEN word \div 16 ELSE word % 4096

Follow ==
    /\ pc = "follow"
    /\ cluster' = FatEntry
    /\ pc' = IF FatEntry = LastCluster THEN "loaded" ELSE "load"
    /\ UNCHANGED <<loads, mem, a20, file, left, done, io, window, cpu>>

-----------------------------------------------------------------------------
(***************************************************************************)
(* _CopyKernelSector: interrupts off, protected mode, probe A20, copy,     *)
(* real mode, flags back.                                                  *)
(***************************************************************************)
CopyBegin ==
    /\ pc = "copy"
    /\ pushed' = cpu.if /\ cpu' = [cpu EXCEPT !.if = FALSE]
    /\ pc' = "enter"
    /\ UNCHANGED <<loads, mem, a20, file, walk, io, probe>>

CopyEnter ==
    /\ pc = "enter"
    /\ cpu' = [cpu EXCEPT !.pe = TRUE, !.cs = 32]
    /\ pc' = "mark"
    /\ UNCHANGED <<loads, mem, a20, file, walk, io, window>>

ProbeMark ==
    /\ pc = "mark"
    /\ probe' = [low |-> mem[Probe], high |-> mem[Phys(High + Probe)], ok |-> FALSE]
    /\ mem' = [mem EXCEPT ![Probe] = <<"mark", 0>>, ![Phys(High + Probe)] = <<"mark", 255>>]
    /\ pc' = "test"
    /\ UNCHANGED <<loads, a20, file, walk, io, pushed, cpu>>

ProbeTest ==
    /\ pc = "test"
    /\ probe' = [probe EXCEPT !.ok = mem[Probe] = <<"mark", 0>>]
    /\ mem' = [mem EXCEPT ![Phys(High + Probe)] = probe.high, ![Probe] = probe.low]
    /\ pc' = IF probe'.ok THEN "move" ELSE "leave"
    /\ UNCHANGED <<loads, a20, file, walk, io, pushed, cpu>>

Move ==
    /\ pc = "move"
    /\ mem' = [mem EXCEPT ![Phys(High + done)] = mem[Temp]]
    /\ done' = done + 1
    /\ pc' = "leave"
    /\ UNCHANGED <<loads, a20, file, left, cluster, io, window, cpu>>

\* Mutant: PE stays set.
BugCopyLeave ==
    /\ pc = "leave"
    /\ cpu' = [cpu EXCEPT !.cs = 16]
    /\ pc' = "flags"
    /\ UNCHANGED <<loads, mem, a20, file, walk, io, window>>
CopyLeave ==
    /\ pc = "leave"
    /\ cpu' = [cpu EXCEPT !.pe = FALSE, !.cs = 16]
    /\ pc' = "flags"
    /\ UNCHANGED <<loads, mem, a20, file, walk, io, window>>

CopyEnd ==
    /\ pc = "flags"
    /\ cpu' = [cpu EXCEPT !.if = pushed]
    /\ pc' = IF probe.ok THEN "next" ELSE "no A20"
    /\ UNCHANGED <<loads, mem, a20, file, walk, io, window>>

-----------------------------------------------------------------------------
(***************************************************************************)
(* Around the two loads.                                                   *)
(***************************************************************************)
RealMode == [if |-> TRUE, pe |-> FALSE, pg |-> FALSE, pae |-> FALSE, lme |-> FALSE,
             cs |-> 16, root |-> "none"]

Init ==
    /\ image \in Images
    /\ mem = [a \in 0 .. MemTop |->
                 IF a = Probe THEN <<"bda">> ELSE IF a = Sector0 THEN <<"boot">> ELSE <<"free">>]
    /\ a20 \in {"off", "on"}
    /\ file = "LOADER" /\ pc = "search"
    /\ left = RootDirSectors /\ cluster = 0 /\ infos = 0 /\ done = 0
    /\ io = [chs |-> Chs(0), n |-> 0, dest |-> 0, then |-> "search"]
    /\ probe = [low |-> <<"free">>, high |-> <<"free">>, ok |-> FALSE]
    /\ pushed = FALSE
    /\ cpu = RealMode

\* The jump to the Loader; port 0x92; the search for the kernel.
StartLoader ==
    /\ pc = "loaded" /\ file = "LOADER"
    /\ file' = "KERNEL" /\ pc' = "search"
    /\ left' = RootDirSectors /\ cluster' = 0 /\ done' = 0
    /\ a20' = IF a20 = "off" THEN "asked" ELSE a20
    /\ UNCHANGED <<loads, mem, io, window, cpu>>

\* External: the gate opens at some time after the request, or never.
GateOpens ==
    /\ a20 = "asked" /\ a20' = "on"
    /\ UNCHANGED <<loads, mem, file, pc, walk, io, window, cpu>>

\* A step of the Loader that calls the BIOS; a refusal stops the boot.
Bios(here, next) ==
    /\ pc = here
    /\ pc' \in {next, "refused"}
    /\ UNCHANGED <<image, a20, file, walk, io, window, cpu>>

CollectMemoryMap ==
    /\ file = "KERNEL" /\ Bios("loaded", "controller")
    /\ mem' = [mem EXCEPT ![Table] = <<"e820">>] /\ UNCHANGED infos

\* VbeInfoBlock holds the list of modes, of any length.
ControllerInfo ==
    /\ Bios("controller", "modes")
    /\ \E n \in 0 .. Loader - ModeInfo + 1 : mem' = [mem EXCEPT ![Buf] = <<"modes", n>>]
    /\ infos' = 0

InfoFits == ModeInfo + infos <= Loader - 1

ModesListed ==
    /\ pc = "modes" /\ mem[Buf] = <<"modes", infos>>
    /\ pc' = "select"
    /\ UNCHANGED <<loads, mem, a20, file, walk, io, window, cpu>>

GetModeInfo ==
    /\ Bios("modes", "modes") /\ mem[Buf] # <<"modes", infos>> /\ InfoFits
    /\ IF pc' = "modes" THEN /\ mem' = [mem EXCEPT ![ModeInfo + infos] = <<"mode", infos>>]
                             /\ infos' = infos + 1
                        ELSE UNCHANGED <<mem, infos>>

TooManyModes ==
    /\ pc = "modes" /\ mem[Buf] # <<"modes", infos>> /\ ~InfoFits
    /\ pc' = "refused"
    /\ UNCHANGED <<loads, mem, a20, file, walk, io, window, cpu>>

\* The mode that will be set, number 0x180, over the first of the list.
Chosen == 384
\* Mutant: the first mode of the list is handed over.
BugSelectMode == Bios("select", "set mode") /\ UNCHANGED <<mem, infos>>
SelectMode ==
    /\ Bios("select", "set mode")
    /\ mem' = [mem EXCEPT ![ModeInfo] = <<"mode", Chosen>>] /\ UNCHANGED infos

SetMode == Bios("set mode", "cli") /\ UNCHANGED <<mem, infos>>

-----------------------------------------------------------------------------
(***************************************************************************)
(* To long mode, one instruction that matters at a time.                   *)
(***************************************************************************)
Switch(here, state, next) ==
    /\ pc = here /\ cpu' = state /\ pc' = next
    /\ UNCHANGED <<loads, a20, file, walk, io, window>>

DisableInterrupts == Switch("cli", [cpu EXCEPT !.if = FALSE], "protect") /\ UNCHANGED mem

Protect == Switch("protect", [cpu EXCEPT !.pe = TRUE, !.cs = 32], "long mode") /\ UNCHANGED mem

support_long_mode ==
    /\ \E next \in {"tables", "refused"} : Switch("long mode", cpu, next)
    /\ UNCHANGED mem

\* The tables at 0x90000, the 64-bit GDT, CR4.PAE and CR3.
BuildTables ==
    /\ Switch("tables", [cpu EXCEPT !.pae = TRUE, !.root = "loader"], "lme")
    /\ mem' = [mem EXCEPT ![Pages] = <<"tables">>]

RequestLongMode == Switch("lme", [cpu EXCEPT !.lme = TRUE], "paging") /\ UNCHANGED mem

\* The CPU refuses IA-32e without PAE or without a table root.
EnablePaging ==
    /\ cpu.pe /\ cpu.pae /\ cpu.lme /\ mem[Pages] = <<"tables">>
    /\ Switch("paging", [cpu EXCEPT !.pg = TRUE], "jump") /\ UNCHANGED mem

JumpToKernel == Switch("jump", [cpu EXCEPT !.cs = 64], "kernel") /\ UNCHANGED mem

\* head.S: framebuffer PDEs from the ModeInfo, CR3, GDT, far return, BSS.
StartKernel == Switch("kernel", [cpu EXCEPT !.root = "kernel"], "verify") /\ UNCHANGED mem

ModeHolds ==
    /\ ~cpu.if /\ cpu.pe /\ cpu.pg /\ cpu.pae /\ cpu.lme
    /\ cpu.cs = 64 /\ cpu.root = "kernel"

VerifyBootMode ==
    Switch("verify", cpu, IF ModeHolds THEN "verified" ELSE "assert") /\ UNCHANGED mem

-----------------------------------------------------------------------------
Ended == pc \in {"not found", "no A20", "refused", "verified", "assert"}

Code ==
    \/ SearchRoot \/ Compare \/ LoadSector \/ GetFATEntry \/ Follow \/ ReadAgain
    \/ CopyBegin \/ CopyEnter \/ ProbeMark \/ ProbeTest \/ Move \/ CopyLeave \/ CopyEnd
    \/ StartLoader \/ CollectMemoryMap \/ ControllerInfo
    \/ ModesListed \/ GetModeInfo \/ TooManyModes \/ SelectMode \/ SetMode
    \/ DisableInterrupts \/ Protect \/ support_long_mode \/ BuildTables \/ RequestLongMode \/ EnablePaging
    \/ JumpToKernel \/ StartKernel \/ VerifyBootMode

Next == Code \/ ReadDone \/ ReadError \/ GateOpens \/ (Ended /\ UNCHANGED vars)

Spec == Init /\ [][Next]_vars

\* The CPU runs, every INT 13h returns, and a sector tried for ever is read.
ChainSpec == Spec /\ WF_vars(Code) /\ WF_vars(ReadDone \/ ReadError) /\ SF_vars(ReadDone)

-----------------------------------------------------------------------------
(* CodeIntact: every program is, while it runs, in memory byte for byte as on
   the floppy, in the order of its chain: no sector read, no copy, no probe and
   no VBE answer writes over it, whether A20 is open or not (boot.asm,
   loader.asm: _Go_On_Loading_File, _CopyKernelSector, Label_SVGA_Mode_Info_Get). *)
At(base, f, n) == \A i \in 1 .. n : mem[base + i - 1] = <<f, i>>
Length(f) == Len(image.chain[f])
CodeIntact ==
    IF file = "LOADER"
    THEN mem[Sector0] = <<"boot">> /\ (pc = "loaded" => At(Loader, "LOADER", Length("LOADER")))
    ELSE At(Loader, "LOADER", Length("LOADER"))

(* HandoffIntact: what enters the kernel finds all of it at 1 MiB, the memory
   map, and at 0x8200 the ModeInfo of the mode that was set; the byte the A20
   probe borrowed is back; and verify_boot_mode has nothing to object to. *)
HandoffIntact ==
    /\ pc \in {"kernel", "verify", "verified"} =>
          /\ a20 = "on" /\ At(High, "KERNEL", Length("KERNEL"))
          /\ mem[Table] = <<"e820">> /\ mem[ModeInfo] = <<"mode", Chosen>>
    /\ pc # "test" => mem[Probe] = <<"bda">>
    /\ pc # "assert"

(* BiosInRealMode: a BIOS call, and a moment at which a device may interrupt,
   finds the CPU in real mode and back in a 16-bit segment: the vectors in use
   until trap::init are the BIOS's (loader.asm: _CopyKernelSector). *)
BiosInRealMode ==
    cpu.if \/ pc \in {"int13", "loaded", "controller", "modes", "select", "set mode"}
        => ~cpu.pe /\ cpu.cs = 16

(* ChainEnds: on a drive that reads a sector in the end, the boot ends: with
   the kernel running or stopped with a message (both searches and chains). *)
ChainEnds == <>Ended
=============================================================================
