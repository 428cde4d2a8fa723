--------------------------- MODULE BootChainProofs ---------------------------
(***************************************************************************)
(* BootChain for every floppy, disk geometry and memory layout that        *)
(* ChainAssumption admits: the CPU mode at each label, the place in the    *)
(* chain, what each read will bring, and what lies where in memory.  The   *)
(* data fact under all of it is LinkIsRead: the two FAT sectors that       *)
(* GetFATEntry reads hold all of the entry, whatever its offset.           *)
(***************************************************************************)
EXTENDS BootChain, TLAPS

-----------------------------------------------------------------------------
(***************************************************************************)
(* Division.                                                               *)
(***************************************************************************)
LEMMA Division ==
    ASSUME NEW a \in Nat, NEW b \in Nat \ {0}
    PROVE  /\ a = b * (a \div b) + (a % b)
           /\ a % b \in 0 .. b - 1
           /\ a \div b \in Nat
OBVIOUS

\* Quotient and remainder are determined by the range of the remainder.
LEMMA Quotient ==
    ASSUME NEW b \in Nat \ {0}, NEW q \in Nat, NEW r \in 0 .. b - 1
    PROVE  (b * q + r) \div b = q /\ (b * q + r) % b = r
<1>. DEFINE a == b * q + r
           p == a \div b
<1>1. a \in Nat  OBVIOUS
<1>2. a = b * p + (a % b) /\ a % b \in 0 .. b - 1 /\ p \in Nat
  BY <1>1, Division
<1>3. ASSUME p < q PROVE FALSE
  <2>1. b * (p + 1) <= b * q  BY <1>2, <1>3
  <2>2. b * (p + 1) = b * p + b  BY <1>2
  <2>. QED  BY <2>1, <2>2, <1>2
<1>4. ASSUME q < p PROVE FALSE
  <2>1. b * (q + 1) <= b * p  BY <1>2, <1>4
  <2>2. b * (q + 1) = b * q + b  OBVIOUS
  <2>. QED  BY <2>1, <2>2, <1>2
<1>. QED  BY <1>2, <1>3, <1>4

\* Lba undoes Chs: the BIOS reads the sector that was asked for.
LEMMA SectorAsked ==
    ASSUME NEW lba \in Nat PROVE Lba(Chs(lba)) = lba
<1>. DEFINE t == lba \div SectorsPerTrack
<1>1. SectorsPerTrack \in Nat \ {0}  BY ChainAssumption
<1>2. /\ lba = SectorsPerTrack * t + (lba % SectorsPerTrack)
      /\ lba % SectorsPerTrack \in Nat /\ t \in Nat
  BY <1>1, Division
<1>3. (t \div 2) * 2 + (t % 2) = t  BY <1>2
<1>4. Lba(Chs(lba)) = ((t \div 2) * 2 + (t % 2)) * SectorsPerTrack + ((lba % SectorsPerTrack) + 1) - 1
  BY DEF Lba, Chs
<1>. HIDE DEF t
<1>5. t * SectorsPerTrack = SectorsPerTrack * t  BY <1>1, <1>2
<1>. QED  BY <1>1, <1>2, <1>3, <1>4, <1>5

-----------------------------------------------------------------------------
(***************************************************************************)
(* The floppy.                                                             *)
(***************************************************************************)
LEMMA Geometry ==
    /\ SectorBytes \in Nat \ {0} /\ FatSectors \in Nat \ {0} /\ RootDirSectors \in Nat \ {0}
    /\ FatStart = 1 /\ RootStart = 1 + 2 * FatSectors /\ SectorBalance = RootStart - 2
BY ChainAssumption DEF FatStart, RootStart, SectorBalance

LEMMA Elements ==
    ASSUME NEW S, NEW s \in Seq(S)
    PROVE  /\ Len(s) \in Nat /\ DOMAIN s = 1 .. Len(s)
           /\ \A i \in 1 .. Len(s) : s[i] \in S
OBVIOUS

LEMMA ClusterNumber == ASSUME NEW c \in Clusters PROVE c \in Nat /\ 2 <= c /\ c < 4095
BY DEF Clusters, LastCluster

\* The clusters of the two files.
LEMMA Floppy ==
    ASSUME image \in Images, NEW f \in Files
    PROVE  /\ Len(image.chain[f]) \in 1 .. High /\ High \in Nat
           /\ DOMAIN image.chain[f] = 1 .. Len(image.chain[f])
           /\ \A i \in 1 .. Len(image.chain[f]) : image.chain[f][i] \in Clusters
<1>1. Len(image.chain[f]) \in 1 .. High  BY ChainAssumption
<1>2. image.chain[f] \in Seq(Clusters)  BY ChainAssumption
<1>3. High \in Nat  BY ChainAssumption
<1>4. /\ DOMAIN image.chain[f] = 1 .. Len(image.chain[f])
      /\ \A i \in 1 .. Len(image.chain[f]) : image.chain[f][i] \in Clusters
  BY <1>2, Elements
<1>. QED  BY <1>1, <1>3, <1>4

LEMMA FatHolds ==
    ASSUME image \in Images, NEW f \in Files, NEW i \in 1 .. Len(image.chain[f])
    PROVE  (image.chain[f][i] * 3) \div 2 + 1 < FatSectors * SectorBytes
<1>1. i \in DOMAIN image.chain[f]  BY Floppy
<1>. QED  BY <1>1, ChainAssumption

\* A cluster belongs to one place of one file.
LEMMA OnePlace ==
    ASSUME image \in Images, NEW f \in Files, NEW i \in 1 .. Len(image.chain[f]),
           NEW g \in Files, NEW j \in 1 .. Len(image.chain[g]),
           image.chain[f][i] = image.chain[g][j]
    PROVE  f = g /\ i = j
<1>1. i \in DOMAIN image.chain[f] /\ j \in DOMAIN image.chain[g]  BY Floppy
<1>. QED  BY <1>1, ChainAssumption

\* Where a cluster is found in the chains.
Places(c) ==
    {p \in Files \X (1 .. High) :
        p[2] \in DOMAIN image.chain[p[1]] /\ image.chain[p[1]][p[2]] = c}

LEMMA PlaceOf ==
    ASSUME image \in Images, NEW c, NEW p \in Places(c)
    PROVE  /\ p[1] \in Files /\ p[2] \in 1 .. Len(image.chain[p[1]]) /\ p = <<p[1], p[2]>>
           /\ image.chain[p[1]][p[2]] = c
<1>1. /\ p \in Files \X (1 .. High) /\ p[2] \in DOMAIN image.chain[p[1]]
      /\ image.chain[p[1]][p[2]] = c
  BY DEF Places
<1>2. p[1] \in Files /\ p = <<p[1], p[2]>>  BY <1>1
<1>3. DOMAIN image.chain[p[1]] = 1 .. Len(image.chain[p[1]])  BY <1>2, Floppy
<1>. QED  BY <1>1, <1>2, <1>3

LEMMA OnlyPlace ==
    ASSUME image \in Images, NEW f \in Files, NEW i \in 1 .. Len(image.chain[f])
    PROVE  Places(image.chain[f][i]) = {<<f, i>>}
<1>1. <<f, i>> \in Places(image.chain[f][i])
  <2>1. i \in 1 .. High /\ i \in DOMAIN image.chain[f]  BY Floppy
  <2>. QED  BY <2>1 DEF Places
<1>2. ASSUME NEW p \in Places(image.chain[f][i]) PROVE p = <<f, i>>
  <2>1. /\ p[1] \in Files /\ p[2] \in 1 .. Len(image.chain[p[1]]) /\ p = <<p[1], p[2]>>
        /\ image.chain[p[1]][p[2]] = image.chain[f][i]
    BY PlaceOf
  <2>2. p[1] = f /\ p[2] = i  BY <2>1, OnePlace
  <2>. QED  BY <2>1, <2>2
<1>. QED  BY <1>1, <1>2

LEMMA LinkIsShort ==
    ASSUME image \in Images, NEW c PROVE Link(c) \in 0 .. 4095
<1>. DEFINE p == CHOOSE q \in Places(c) : TRUE
<1>1. Link(c) = IF Places(c) = {} THEN 0
                ELSE IF p[2] = Len(image.chain[p[1]]) THEN 4095
                ELSE image.chain[p[1]][p[2] + 1]
  BY DEF Link, Places, LastCluster
<1>2. Places(c) # {} => p \in Places(c)  OBVIOUS
<1>. HIDE DEF p
<1>3. CASE Places(c) = {}  BY <1>1, <1>3
<1>4. CASE Places(c) # {}
  <2>1. p[1] \in Files /\ p[2] \in 1 .. Len(image.chain[p[1]])  BY <1>2, <1>4, PlaceOf
  <2>2. CASE p[2] = Len(image.chain[p[1]])  BY <1>1, <1>4, <2>2
  <2>3. CASE p[2] # Len(image.chain[p[1]])
    <3>1. Len(image.chain[p[1]]) \in Nat  BY <2>1, Floppy
    <3>2. p[2] + 1 \in 1 .. Len(image.chain[p[1]])  BY <3>1, <2>1, <2>3
    <3>3. image.chain[p[1]][p[2] + 1] \in Clusters  BY <3>2, <2>1, Floppy
    <3>4. Link(c) \in Clusters  BY <1>1, <1>4, <2>3, <3>3
    <3>. DEFINE l == Link(c)
    <3>5. l \in Nat /\ l < 4095  BY <3>4, ClusterNumber
    <3>. HIDE DEF l
    <3>6. l \in 0 .. 4095  BY <3>5
    <3>. QED  BY <3>6 DEF l
  <2>. QED  BY <2>2, <2>3
<1>. QED  BY <1>3, <1>4

LEMMA LinkInChain ==
    ASSUME image \in Images, NEW f \in Files, NEW i \in 1 .. Len(image.chain[f])
    PROVE  Link(image.chain[f][i]) = IF i = Len(image.chain[f]) THEN LastCluster
                                     ELSE image.chain[f][i + 1]
<1>. DEFINE c == image.chain[f][i]
           p == CHOOSE q \in Places(c) : TRUE
<1>1. Link(c) = IF Places(c) = {} THEN 0
                ELSE IF p[2] = Len(image.chain[p[1]]) THEN LastCluster
                ELSE image.chain[p[1]][p[2] + 1]
  BY DEF Link, Places
<1>2. Places(c) = {<<f, i>>}  BY OnlyPlace
<1>3. p = <<f, i>>  BY <1>2
<1>. HIDE DEF p, c
<1>4. p[1] = f /\ p[2] = i  BY <1>3
<1>5. Link(c) = IF i = Len(image.chain[f]) THEN LastCluster ELSE image.chain[f][i + 1]
  BY <1>1, <1>2, <1>4
<1>. QED  BY <1>5 DEF c

\* The sector of a cluster holds the part of the file it is in the chain.
LEMMA SectorOfCluster ==
    ASSUME image \in Images, NEW f \in Files, NEW i \in 1 .. Len(image.chain[f])
    PROVE  DiskSector(image.chain[f][i] + RootDirSectors + SectorBalance) = <<f, i>>
<1>. DEFINE c == image.chain[f][i]
           lba == c + RootDirSectors + SectorBalance
           at == {p \in Files \X (1 .. High) :
                  /\ p[2] \in DOMAIN image.chain[p[1]]
                  /\ image.chain[p[1]][p[2]] + RootDirSectors + SectorBalance = lba}
           p == CHOOSE p \in at : TRUE
<1>1. c \in Clusters  BY Floppy
<1>2. Places(c) = {<<f, i>>}  BY OnlyPlace
<1>3. at = Places(c)
  <2>. HIDE DEF c
  <2>1. ASSUME NEW q \in Files \X (1 .. High), q[2] \in DOMAIN image.chain[q[1]]
        PROVE  (image.chain[q[1]][q[2]] + RootDirSectors + SectorBalance = lba)
                  <=> (image.chain[q[1]][q[2]] = c)
    <3>1. q[1] \in Files  OBVIOUS
    <3>2. q[2] \in 1 .. Len(image.chain[q[1]])  BY <2>1, <3>1, Floppy
    <3>3. image.chain[q[1]][q[2]] \in Clusters  BY <3>1, <3>2, Floppy
    <3>. QED  BY <3>3, <1>1, Geometry, ClusterNumber
  <2>. HIDE DEF lba
  <2>. QED  BY <2>1 DEF Places
<1>. HIDE DEF c
<1>4. /\ ~(lba < FatStart) /\ ~(lba >= FatStart /\ lba < RootStart)
      /\ ~(lba >= RootStart /\ lba < RootStart + RootDirSectors)
  BY <1>1, Geometry, ClusterNumber
<1>5. DiskSector(lba) = DataSector(lba)
  <2>. HIDE DEF lba
  <2>. QED  BY <1>4 DEF DiskSector
<1>6. DataSector(lba) = IF at = {} THEN <<"free">> ELSE p
  BY DEF DataSector
<1>. HIDE DEF at
<1>7. p = <<f, i>> /\ at # {}  BY <1>2, <1>3
<1>. QED  BY <1>5, <1>6, <1>7 DEF c

\* The FAT sectors, the second copy after the first.
LEMMA SectorOfFat ==
    ASSUME NEW k \in 0 .. FatSectors
    PROVE  DiskSector(FatStart + k) = <<"fat", k % FatSectors>>
<1>. DEFINE lba == FatStart + k
<1>1. ~(lba < FatStart) /\ lba >= FatStart /\ lba < RootStart /\ lba - FatStart = k
  BY Geometry
<1>. HIDE DEF lba
<1>2. DiskSector(lba) = <<"fat", (lba - FatStart) % FatSectors>>
  <2>. DEFINE boot == <<"boot">>
              fat == <<"fat", (lba - FatStart) % FatSectors>>
              root == <<"root", lba - RootStart>>
              data == DataSector(lba)
  <2>1. DiskSector(lba) =
           CASE lba < FatStart -> boot
             [] lba >= FatStart /\ lba < RootStart -> fat
             [] lba >= RootStart /\ lba < RootStart + RootDirSectors -> root
             [] OTHER -> data
    BY DEF DiskSector
  <2>2. ~(lba >= RootStart /\ lba < RootStart + RootDirSectors)  BY <1>1, Geometry DEF lba
  <2>. HIDE DEF boot, fat, root, data
  <2>3. DiskSector(lba) = fat  BY <1>1, <2>1, <2>2
  <2>. QED  BY <2>3 DEF fat
<1>. QED  BY <1>1, <1>2 DEF lba

-----------------------------------------------------------------------------
(***************************************************************************)
(* Decoding.  The two bytes at FatOffset are in the two FAT sectors read,  *)
(* in the first only or across its end, and hold the twelve bits.          *)
(***************************************************************************)
LEMMA BytesOfEven ==
    ASSUME image \in Images, NEW c \in Nat, (c * 3) % 2 # 1
    PROVE  /\ FatByte((c * 3) \div 2) = Link(c) % 256
           /\ FatByte((c * 3) \div 2 + 1) = (Link(c) \div 256) + 16 * (Link(c + 1) % 16)
<1>1. PICK m \in Nat : c = 2 * m
  <2>1. c = 2 * (c \div 2) /\ c \div 2 \in Nat  OBVIOUS
  <2>. QED  BY <2>1
<1>. DEFINE k == 3 * m
<1>2. (c * 3) \div 2 = k  BY <1>1
<1>3. /\ k % 3 = 0 /\ 2 * (k \div 3) = c
      /\ (k + 1) % 3 = 1 /\ 2 * ((k + 1) \div 3) = c
  BY <1>1
<1>. HIDE DEF k
<1>4. FatByte(k) = Link(c) % 256  BY <1>3 DEF FatByte
<1>5. FatByte(k + 1) = (Link(c) \div 256) + 16 * (Link(c + 1) % 16)  BY <1>3 DEF FatByte
<1>. QED  BY <1>2, <1>4, <1>5

LEMMA BytesOfOdd ==
    ASSUME image \in Images, NEW c \in Nat, (c * 3) % 2 = 1
    PROVE  /\ FatByte((c * 3) \div 2) = (Link(c - 1) \div 256) + 16 * (Link(c) % 16)
           /\ FatByte((c * 3) \div 2 + 1) = Link(c) \div 16
<1>1. PICK m \in Nat : c = 2 * m + 1
  <2>1. c = 2 * (c \div 2) + 1 /\ c \div 2 \in Nat  OBVIOUS
  <2>. QED  BY <2>1
<1>. DEFINE k == 3 * m + 1
<1>2. (c * 3) \div 2 = k  BY <1>1
<1>3. /\ k % 3 = 1 /\ 2 * (k \div 3) = c - 1 /\ (c - 1) + 1 = c
      /\ (k + 1) % 3 = 2 /\ 2 * ((k + 1) \div 3) = c - 1
  BY <1>1
<1>. HIDE DEF k
<1>4. FatByte(k) = (Link(c - 1) \div 256) + 16 * (Link(c) % 16)  BY <1>3 DEF FatByte
<1>5. FatByte(k + 1) = Link(c) \div 16  BY <1>3 DEF FatByte
<1>. QED  BY <1>2, <1>4, <1>5

\* The word that lies at the entry, with the link shifted as GetFATEntry does.
Word(c) == FatByte((c * 3) \div 2) + 256 * FatByte((c * 3) \div 2 + 1)

LEMMA EntryOfWord ==
    ASSUME image \in Images, NEW c \in Nat
    PROVE  (IF (c * 3) % 2 = 1 THEN Word(c) \div 16 ELSE Word(c) % 4096) = Link(c)
<1>. DEFINE link == Link(c)
           before == Link(c - 1)
           after == Link(c + 1)
<1>1. link \in 0 .. 4095 /\ before \in 0 .. 4095 /\ after \in 0 .. 4095
  BY LinkIsShort
<1>2. CASE (c * 3) % 2 = 1
  <2>1. Word(c) = ((before \div 256) + 16 * (link % 16)) + 256 * (link \div 16)
    BY <1>2, BytesOfOdd DEF Word
  <2>. HIDE DEF link, before
  <2>2. (((before \div 256) + 16 * (link % 16)) + 256 * (link \div 16)) \div 16 = link
    BY <1>1
  <2>. QED  BY <1>2, <2>1, <2>2 DEF link
<1>3. CASE (c * 3) % 2 # 1
  <2>1. Word(c) = (link % 256) + 256 * ((link \div 256) + 16 * (after % 16))
    BY <1>3, BytesOfEven, ZenonT(60) DEF Word
  <2>. HIDE DEF link, after
  <2>2. ((link % 256) + 256 * ((link \div 256) + 16 * (after % 16))) % 4096 = link
    BY <1>1, SMTT(30)
  <2>. QED  BY <1>3, <2>1, <2>2 DEF link
<1>. QED  BY <1>2, <1>3

\* Where the two bytes of an offset in the FAT lie among the two sectors read.
LEMMA Across ==
    ASSUME NEW o \in Nat, o + 1 < FatSectors * SectorBytes
    PROVE  LET q == o \div SectorBytes
               r == o % SectorBytes
           IN /\ q \in 0 .. FatSectors - 1 /\ r \in 0 .. SectorBytes - 1
              /\ q % FatSectors = q
              /\ r \div SectorBytes = 0 /\ r % SectorBytes = r /\ q * SectorBytes + r = o
              /\ \/ /\ (r + 1) \div SectorBytes = 0
                    /\ q * SectorBytes + ((r + 1) % SectorBytes) = o + 1
                 \/ /\ (r + 1) \div SectorBytes = 1 /\ (q + 1) % FatSectors = q + 1
                    /\ (q + 1) * SectorBytes + ((r + 1) % SectorBytes) = o + 1
<1>. DEFINE q == o \div SectorBytes
           r == o % SectorBytes
<1>. USE Geometry
<1>1. o = SectorBytes * q + r /\ r \in 0 .. SectorBytes - 1 /\ q \in Nat
  BY Division
<1>. HIDE DEF q, r
<1>2. q * SectorBytes = SectorBytes * q /\ q * SectorBytes \in Nat  BY <1>1
<1>3. q < FatSectors
  <2>1. SUFFICES ASSUME FatSectors <= q PROVE FALSE  BY <1>1
  <2>2. FatSectors * SectorBytes <= q * SectorBytes  BY <1>1, <2>1
  <2>3. FatSectors * SectorBytes \in Nat  OBVIOUS
  <2>. QED  BY <1>1, <1>2, <2>2, <2>3
<1>4. q % FatSectors = q  BY <1>1, <1>3
<1>5. r \div SectorBytes = 0 /\ r % SectorBytes = r
  <2>1. SectorBytes * 0 + r = r  BY <1>1
  <2>. QED  BY <1>1, <2>1, Quotient
<1>6. CASE r + 1 < SectorBytes
  <2>1. SectorBytes * 0 + (r + 1) = r + 1 /\ r + 1 \in 0 .. SectorBytes - 1  BY <1>1, <1>6
  <2>2. (r + 1) \div SectorBytes = 0 /\ (r + 1) % SectorBytes = r + 1
    BY <2>1, Quotient
  <2>. QED  BY <1>1, <1>2, <1>3, <1>4, <1>5, <2>2 DEF q, r
<1>7. CASE r + 1 = SectorBytes
  <2>1. SectorBytes * 1 + 0 = r + 1  BY <1>1, <1>7
  <2>2. (r + 1) \div SectorBytes = 1 /\ (r + 1) % SectorBytes = 0
    BY <2>1, Quotient
  <2>3. (q + 1) * SectorBytes = q * SectorBytes + SectorBytes  BY <1>1
  <2>4. q + 1 < FatSectors
    <3>1. SUFFICES ASSUME q + 1 = FatSectors PROVE FALSE  BY <1>1, <1>3
    <3>2. FatSectors * SectorBytes = o + 1  BY <1>1, <1>2, <1>7, <2>3, <3>1
    <3>. QED  BY <3>2
  <2>5. (q + 1) % FatSectors = q + 1  BY <1>1, <2>4
  <2>6. (q + 1) * SectorBytes + 0 = o + 1  BY <1>1, <1>2, <1>7, <2>3
  <2>. QED  BY <1>1, <1>2, <1>3, <1>4, <1>5, <2>2, <2>5, <2>6 DEF q, r
<1>. QED  BY <1>1, <1>6, <1>7

\* What GetFATEntry finds in its buffer is the link of the cluster.
LEMMA LinkIsRead ==
    ASSUME image \in Images, NEW f \in Files, NEW i \in 1 .. Len(image.chain[f]),
           cluster = image.chain[f][i],
           \A k \in {0, 1} :
              mem[Buf + k] = <<"fat", ((FatOffset \div SectorBytes) + k) % FatSectors>>
    PROVE  FatEntry = Link(cluster)
<1>. DEFINE q == FatOffset \div SectorBytes
           r == FatOffset % SectorBytes
           at(k) == mem[Buf + (k \div SectorBytes)]
           byte(k) == IF at(k)[1] = "fat" THEN FatByte(at(k)[2] * SectorBytes + (k % SectorBytes)) ELSE 0
<1>1. cluster \in Nat  BY Floppy, ClusterNumber
<1>2. FatOffset = (cluster * 3) \div 2 /\ FatOffset \in Nat  BY <1>1 DEF FatOffset
<1>3. FatOffset + 1 < FatSectors * SectorBytes  BY <1>2, FatHolds
<1>4. /\ q \in 0 .. FatSectors - 1 /\ r \in 0 .. SectorBytes - 1
      /\ q % FatSectors = q
      /\ r \div SectorBytes = 0 /\ r % SectorBytes = r /\ q * SectorBytes + r = FatOffset
      /\ \/ /\ (r + 1) \div SectorBytes = 0
            /\ q * SectorBytes + ((r + 1) % SectorBytes) = FatOffset + 1
         \/ /\ (r + 1) \div SectorBytes = 1 /\ (q + 1) % FatSectors = q + 1
            /\ (q + 1) * SectorBytes + ((r + 1) % SectorBytes) = FatOffset + 1
  BY <1>2, <1>3, Across
<1>5. mem[Buf + 0] = <<"fat", q % FatSectors>> /\ mem[Buf + 1] = <<"fat", (q + 1) % FatSectors>>
  <2>1. (FatOffset \div SectorBytes) + 0 = q /\ 0 \in {0, 1} /\ 1 \in {0, 1}  BY <1>4
  <2>. QED  BY <2>1
<1>6. FatEntry = LET word == byte(r) + 256 * byte(r + 1)
                 IN IF (cluster * 3) % 2 = 1 THEN word \div 16 ELSE word % 4096
  BY DEF FatEntry
<1>. HIDE DEF q, r
<1>7. byte(r) = FatByte(FatOffset)
  <2>1. at(r) = <<"fat", q>>  BY <1>4, <1>5
  <2>2. at(r)[1] = "fat" /\ at(r)[2] = q  BY <2>1
  <2>. HIDE DEF at
  <2>. QED  BY <1>4, <2>2
<1>8. byte(r + 1) = FatByte(FatOffset + 1)
  <2>1. CASE /\ (r + 1) \div SectorBytes = 0
             /\ q * SectorBytes + ((r + 1) % SectorBytes) = FatOffset + 1
    <3>1. at(r + 1) = <<"fat", q>>  BY <1>4, <1>5, <2>1
    <3>2. at(r + 1)[1] = "fat" /\ at(r + 1)[2] = q  BY <3>1
    <3>. HIDE DEF at
    <3>. QED  BY <2>1, <3>2
  <2>2. CASE /\ (r + 1) \div SectorBytes = 1 /\ (q + 1) % FatSectors = q + 1
             /\ (q + 1) * SectorBytes + ((r + 1) % SectorBytes) = FatOffset + 1
    <3>1. at(r + 1) = <<"fat", q + 1>>  BY <1>5, <2>2
    <3>2. at(r + 1)[1] = "fat" /\ at(r + 1)[2] = q + 1  BY <3>1
    <3>. HIDE DEF at
    <3>. QED  BY <2>2, <3>2
  <2>. QED  BY <1>4, <2>1, <2>2
<1>. HIDE DEF byte
<1>9. byte(r) + 256 * byte(r + 1) = Word(cluster)  BY <1>2, <1>7, <1>8 DEF Word
<1>10. FatEntry = IF (cluster * 3) % 2 = 1 THEN Word(cluster) \div 16 ELSE Word(cluster) % 4096
  BY <1>6, <1>9
<1>11. (IF (cluster * 3) % 2 = 1 THEN Word(cluster) \div 16 ELSE Word(cluster) % 4096)
           = Link(cluster)
  BY <1>1, EntryOfWord
<1>. QED  BY <1>10, <1>11

-----------------------------------------------------------------------------
(***************************************************************************)
(* The inductive invariant.  CodeIntact alone says nothing of a load under *)
(* way: Position ties the cluster to the number of sectors in place, and   *)
(* Reading says what the INT 13h call that is pending will bring where.    *)
(***************************************************************************)
Chain == image.chain[file]

\* The cluster after the last sector in place is due, or the last is being left.
Ahead == done < Len(Chain) /\ cluster = Chain[done + 1]
Behind == done \in 1 .. Len(Chain) /\ cluster = Chain[done]

Reads == {"int13", "carry"}
Copying == {"copy", "enter", "mark", "test", "move"}
Leaving == {"leave", "flags"}
Listing == {"controller", "modes", "select"}
Handing == {"set mode", "cli", "protect", "long mode", "tables", "lme", "paging", "jump",
            "kernel", "verify", "verified"}
Walking == {"search", "compare", "load", "next", "follow", "loaded"}
Stopped == {"not found", "no A20", "refused"}

ChainTypes ==
    /\ image \in Images /\ file \in Files
    /\ pc \in Walking \cup Reads \cup Copying \cup Leaving \cup Listing \cup Handing \cup Stopped
    /\ a20 \in {"off", "asked", "on"}
    /\ done \in Nat /\ infos \in Nat
    /\ mem = [a \in 0 .. MemTop |-> mem[a]]

\* The state of the CPU at each label.
InCode == [RealMode EXCEPT !.if = FALSE]
Protected == [InCode EXCEPT !.pe = TRUE, !.cs = 32]
WithTables == [Protected EXCEPT !.pae = TRUE, !.root = "loader"]
Requested == [WithTables EXCEPT !.lme = TRUE]
Paged == [Requested EXCEPT !.pg = TRUE]
LongMode == [Paged EXCEPT !.cs = 64]
KernelMode == [LongMode EXCEPT !.root = "kernel"]

Modes ==
    /\ pc \in Walking \cup Reads \cup Listing \cup {"copy", "set mode", "cli", "not found", "no A20"}
          => cpu = RealMode
    /\ pc \in {"enter", "flags", "protect"} => cpu = InCode
    /\ pc \in {"mark", "test", "move", "leave", "long mode", "tables"} => cpu = Protected
    /\ pc \in {"enter", "mark", "test", "move", "leave", "flags"} => pushed = TRUE
    /\ pc = "lme" => cpu = WithTables
    /\ pc = "paging" => cpu = Requested
    /\ pc = "jump" => cpu = Paged
    /\ pc = "kernel" => cpu = LongMode
    /\ pc \in {"verify", "verified"} => cpu = KernelMode
    /\ pc = "refused" => cpu \in {RealMode, Protected}

Position ==
    /\ pc \in Copying \cup Leaving \cup Listing \cup Handing => file = "KERNEL"
    /\ pc \in {"search", "compare"} => done = 0
    /\ pc \in {"load"} \cup Copying => Ahead
    /\ pc = "next" => IF file = "LOADER" THEN Ahead ELSE Behind
    /\ pc = "follow" => Behind
    /\ pc \in Leaving /\ probe.ok => Behind
    /\ pc \in {"loaded"} \cup Listing \cup Handing => done = Len(Chain)
    /\ pc = "move" => a20 = "on" /\ probe.ok
    /\ file = "KERNEL" /\ done > 0 => a20 = "on"

\* The three reads of the walk, and where each returns to.
DirectoryRead == io.then = "compare" /\ io.dest = Buf /\ io.n = 1 /\ done = 0
SectorRead ==
    /\ IF file = "LOADER" THEN io.then = "next" /\ io.dest = Loader + done
                          ELSE io.then = "copy" /\ io.dest = Temp
    /\ io.n = 1 /\ Lba(io.chs) = cluster + RootDirSectors + SectorBalance /\ Ahead
FatRead ==
    /\ io.then = "follow" /\ io.dest = Buf /\ io.n = 2
    /\ Lba(io.chs) = FatStart + (FatOffset \div SectorBytes) /\ Behind
Reading == pc \in Reads => DirectoryRead \/ SectorRead \/ FatRead

\* Memory as it is when the probe has put back what it borrowed.
Real ==
    IF pc = "test"
    THEN [mem EXCEPT ![Phys(High + Probe)] = probe.high, ![Probe] = probe.low]
    ELSE mem

Loaded == IF file = "KERNEL" THEN Length("LOADER") ELSE IF pc = "next" THEN done + 1 ELSE done

Programs ==
    /\ file = "LOADER" => mem[Sector0] = <<"boot">>
    /\ At(Loader, "LOADER", Loaded)
    /\ file = "KERNEL" => \A i \in 1 .. done : Real[High + i - 1] = <<"KERNEL", i>>
    /\ Real[Probe] = <<"bda">>

Buffers ==
    /\ pc \in Copying => mem[Temp] = <<"KERNEL", done + 1>>
    /\ pc = "follow" => \A k \in {0, 1} :
          mem[Buf + k] = <<"fat", ((FatOffset \div SectorBytes) + k) % FatSectors>>
    /\ pc = "test" /\ a20 # "on" => mem[Probe] = <<"mark", 255>>

Handed ==
    /\ pc \in Listing \cup Handing => mem[Table] = <<"e820">>
    /\ pc \in Handing => mem[ModeInfo] = <<"mode", Chosen>>

IInv == ChainTypes /\ Modes /\ Position /\ Reading /\ Programs /\ Buffers /\ Handed

-----------------------------------------------------------------------------
(***************************************************************************)
(* Where things are.                                                       *)
(***************************************************************************)
LEMMA Layout ==
    /\ Probe \in Nat /\ Table \in Nat /\ Sector0 \in Nat /\ Temp \in Nat /\ Buf \in Nat
    /\ Loader \in Nat /\ Segment \in Nat /\ Pages \in Nat /\ High \in Nat
    /\ Probe < Table /\ Table < Sector0 /\ Sector0 < Temp /\ Temp < Buf
    /\ ModeInfo = Buf + 1 /\ Buf + 1 < Loader /\ Loader + Segment <= Pages /\ Pages < High
    /\ MemTop = High + High - 1
BY ChainAssumption DEF ModeInfo, MemTop

LEMMA ModeInfoIsApart ==
    ModeInfo \in Buf .. Loader - 1 /\ ModeInfo # Table /\ ModeInfo # Pages /\ ModeInfo \in Nat
BY Layout

LEMMA AliasOfProbe ==
    /\ a20 = "on" => Phys(High + Probe) = High + Probe
    /\ a20 # "on" => Phys(High + Probe) = Probe
BY Layout DEF Phys

LEMMA LoaderLength ==
    ASSUME image \in Images PROVE Length("LOADER") \in Nat /\ Length("LOADER") <= Segment
<1>1. "LOADER" \in Files  BY DEF Files
<1>2. Length("LOADER") \in Nat  BY <1>1, Floppy DEF Length
<1>. QED  BY <1>2, ChainAssumption DEF Length

\* What a step that writes elsewhere leaves in place.
Kept == {Sector0, Probe} \cup (Loader .. Loader + Loaded - 1) \cup (High .. High + done - 1)

LEMMA RealOutside ==
    pc # "test" => Real = mem
BY DEF Real

LEMMA Between ==
    ASSUME NEW b \in Nat, NEW n \in Nat, NEW i \in 1 .. n PROVE b + i - 1 \in b .. b + n - 1
OBVIOUS

\* One sector of the Loader may be added.
LEMMA KeepPrograms ==
    ASSUME ChainTypes, Programs, pc # "test", pc' # "test", file' = file,
           Loaded \in Nat, file = "KERNEL" => done' = done,
           \/ Loaded' = Loaded
           \/ Loaded' = Loaded + 1 /\ mem'[Loader + Loaded] = <<"LOADER", Loaded + 1>>,
           \A a \in Kept : mem'[a] = mem[a]
    PROVE  Programs'
<1>. USE DEF ChainTypes
<1>1. Real = mem /\ Real' = mem'  BY DEF Real
<1>2. (file = "LOADER" => mem[Sector0] = <<"boot">>)'  BY DEF Programs, Kept
<1>3. At(Loader, "LOADER", Loaded)'
  <2>1. ASSUME NEW i \in 1 .. Loaded PROVE mem'[Loader + i - 1] = <<"LOADER", i>>
    <3>1. Loader + i - 1 \in Loader .. Loader + Loaded - 1  BY Layout, Between
    <3>2. Loader + i - 1 \in Kept  BY <3>1 DEF Kept
    <3>3. mem[Loader + i - 1] = <<"LOADER", i>>  BY DEF Programs, At
    <3>. QED  BY <3>2, <3>3
  <2>2. CASE Loaded' = Loaded  BY <2>1, <2>2 DEF At
  <2>3. CASE Loaded' = Loaded + 1 /\ mem'[Loader + Loaded] = <<"LOADER", Loaded + 1>>
    <3>1. SUFFICES ASSUME NEW i \in 1 .. Loaded + 1 PROVE mem'[Loader + i - 1] = <<"LOADER", i>>
      BY <2>3 DEF At
    <3>2. CASE i \in 1 .. Loaded  BY <2>1, <3>2
    <3>3. CASE i = Loaded + 1
      <4>1. Loader + i - 1 = Loader + Loaded  BY <3>3, Layout
      <4>. QED  BY <2>3, <3>3, <4>1
    <3>. QED  BY <3>2, <3>3
  <2>. QED  BY <2>2, <2>3
<1>4. (file = "KERNEL" => \A i \in 1 .. done : Real[High + i - 1] = <<"KERNEL", i>>)'
  <2>1. SUFFICES ASSUME file = "KERNEL", NEW i \in 1 .. done
                 PROVE  mem'[High + i - 1] = <<"KERNEL", i>>
    BY <1>1
  <2>2. High + i - 1 \in High .. High + done - 1
    <3>1. High \in Nat /\ done \in Nat  BY Layout
    <3>. QED  BY <3>1, Between
  <2>3. High + i - 1 \in Kept  BY <2>2 DEF Kept
  <2>4. mem[High + i - 1] = <<"KERNEL", i>>  BY <1>1, <2>1 DEF Programs
  <2>. QED  BY <2>3, <2>4
<1>5. (Real[Probe] = <<"bda">>)'  BY <1>1 DEF Programs, Kept
<1>. QED  BY <1>2, <1>3, <1>4, <1>5 DEF Programs

\* A store of one block.
LEMMA Store ==
    ASSUME ChainTypes, NEW a, NEW v, mem' = [mem EXCEPT ![a] = v]
    PROVE  /\ mem' = [b \in 0 .. MemTop |-> mem'[b]]
           /\ a \in 0 .. MemTop => mem'[a] = v
           /\ \A b : b # a => mem'[b] = mem[b]
<1>1. DOMAIN mem = 0 .. MemTop  BY DEF ChainTypes
<1>2. mem' = [b \in 0 .. MemTop |-> IF b = a THEN v ELSE mem[b]]  BY <1>1
<1>3. DOMAIN mem' = 0 .. MemTop  BY <1>2
<1>4. mem' = [b \in 0 .. MemTop |-> mem'[b]]  BY <1>2, <1>3
<1>. HIDE <1>2
<1>5. ASSUME NEW b, b # a PROVE mem'[b] = mem[b]
  BY <1>1, <1>5
<1>6. a \in 0 .. MemTop => mem'[a] = v  BY <1>1
<1>. QED  BY <1>4, <1>5, <1>6

-----------------------------------------------------------------------------
(***************************************************************************)
(* The invariant holds at reset.                                           *)
(***************************************************************************)
LEMMA AtReset == Init => IInv
<1>. SUFFICES ASSUME Init PROVE IInv  OBVIOUS
<1>1. ChainTypes  BY DEF Init, ChainTypes, Files, Walking
<1>2. Modes  BY DEF Init, Modes, Walking
<1>3. Position  BY DEF Init, Position, Copying, Leaving, Listing, Handing
<1>4. Reading  BY DEF Init, Reading, Reads
<1>5. Programs
  <2>1. mem[Probe] = <<"bda">> /\ mem[Sector0] = <<"boot">>
    BY Layout DEF Init
  <2>2. Loaded = 0 /\ done = 0 /\ Real = mem /\ file = "LOADER"  BY DEF Init, Loaded, Real
  <2>. QED  BY <2>1, <2>2 DEF Programs, At
<1>6. Buffers /\ Handed  BY DEF Init, Buffers, Handed, Copying, Listing, Handing
<1>. QED  BY <1>1, <1>2, <1>3, <1>4, <1>5, <1>6 DEF IInv

-----------------------------------------------------------------------------
(***************************************************************************)
(* Reads.                                                                  *)
(***************************************************************************)
LEMMA SearchRootStep == ASSUME IInv, SearchRoot PROVE IInv'
<1>. USE DEF IInv, SearchRoot, loads, window, Read
<1>1. ChainTypes'  BY DEF ChainTypes, Walking, Reads, Stopped
<1>2. Modes'  BY DEF Modes, Walking, Reads
<1>3. Position'
  BY DEF Position, Ahead, Behind, Chain, Walking, Reads, Copying, Leaving, Listing, Handing
<1>4. Reading'
  <2>1. done = 0  BY DEF Position
  <2>2. CASE left = 0
    <3>1. pc' = "not found"  BY <2>2
    <3>. QED  BY <3>1 DEF Reading, Reads
  <2>3. CASE left # 0
    <3>1. io'.then = "compare" /\ io'.dest = Buf /\ io'.n = 1  BY <2>3
    <3>. QED  BY <2>1, <3>1 DEF Reading, DirectoryRead
  <2>. QED  BY <2>2, <2>3
<1>5. Programs'
  <2>1. Loaded' = Loaded /\ Loaded \in Nat  BY LoaderLength DEF Loaded, ChainTypes, Length
  <2>. QED  BY <2>1, KeepPrograms
<1>6. Buffers' /\ Handed'  BY DEF Buffers, Handed, Copying, Listing, Handing
<1>. QED  BY <1>1, <1>2, <1>3, <1>4, <1>5, <1>6

LEMMA CompareStep == ASSUME IInv, Compare PROVE IInv'
<1>. USE DEF IInv, Compare, loads, window
<1>1. ChainTypes'  BY DEF ChainTypes, Walking
<1>2. Modes'  BY DEF Modes, Walking
<1>3. Position'
  <2>1. done = 0 /\ Len(Chain) \in 1 .. High /\ High \in Nat  BY Floppy DEF Position, ChainTypes, Chain
  <2>2. pc' = "load" => Ahead'  BY <2>1 DEF Ahead, Chain
  <2>. QED
    BY <2>2 DEF Position, Ahead, Behind, Chain, Walking, Copying, Leaving, Listing, Handing
<1>4. Reading'  BY DEF Reading, Reads
<1>5. Programs'
  <2>1. Loaded' = Loaded /\ Loaded \in Nat  BY LoaderLength DEF Loaded, ChainTypes, Length
  <2>. QED  BY <2>1, KeepPrograms
<1>6. Buffers' /\ Handed'  BY DEF Buffers, Handed, Copying, Listing, Handing
<1>. QED  BY <1>1, <1>2, <1>3, <1>4, <1>5, <1>6

LEMMA LoadSectorStep == ASSUME IInv, LoadSector PROVE IInv'
<1>. USE DEF IInv, LoadSector, loads, window, walk, Read
<1>1. ChainTypes'  BY DEF ChainTypes, Reads
<1>2. Modes'  BY DEF Modes, Walking, Reads
<1>3. Position'
  BY DEF Position, Ahead, Behind, Chain, Walking, Reads, Copying, Leaving, Listing, Handing
<1>4. Reading'
  <2>. DEFINE lba == cluster + RootDirSectors + SectorBalance
  <2>1. Ahead /\ Len(Chain) \in Nat /\ file \in Files /\ done \in Nat
    BY Floppy DEF Position, ChainTypes, Chain
  <2>2. cluster \in Clusters  BY <2>1, Floppy DEF Ahead, Chain, ChainTypes
  <2>3. lba \in Nat  BY <2>2, Geometry, ClusterNumber
  <2>4. Lba(Chs(lba)) = lba  BY <2>3, SectorAsked
  <2>5. file = "LOADER" => done % Segment = done
    <3>1. file = "LOADER" => done < Segment /\ Segment \in Nat
      BY <2>1, LoaderLength, Layout, SMTT(30) DEF Ahead, Chain, Length, ChainTypes
    <3>. QED  BY <2>1, <3>1
  <2>6. /\ io'.n = 1 /\ io'.chs = Chs(lba)
        /\ IF file = "LOADER" THEN io'.then = "next" /\ io'.dest = Loader + done
                              ELSE io'.then = "copy" /\ io'.dest = Temp
    BY <2>5
  <2>7. SectorRead'
    BY <2>1, <2>4, <2>6 DEF SectorRead, Ahead, Chain
  <2>. QED  BY <2>7 DEF Reading
<1>5. Programs'
  <2>1. Loaded' = Loaded /\ Loaded \in Nat  BY LoaderLength DEF Loaded, ChainTypes, Length
  <2>. QED  BY <2>1, KeepPrograms
<1>6. Buffers' /\ Handed'  BY DEF Buffers, Handed, Copying, Listing, Handing
<1>. QED  BY <1>1, <1>2, <1>3, <1>4, <1>5, <1>6

\* In boot.asm the sector just read is counted before its link is fetched.
LEMMA GetFATEntryStep == ASSUME IInv, GetFATEntry PROVE IInv'
<1>. USE DEF IInv, GetFATEntry, loads, window, Read
<1>1. ChainTypes'  BY DEF ChainTypes, Reads
<1>2. Modes'  BY DEF Modes, Walking, Reads
<1>3. Behind'
  <2>1. Len(Chain) \in Nat  BY Floppy DEF ChainTypes, Chain
  <2>. QED  BY <2>1 DEF Position, Ahead, Behind, Chain, ChainTypes
<1>4. Position'
  BY <1>3 DEF Position, Ahead, Behind, Chain, Walking, Reads, Copying, Leaving, Listing, Handing,
     ChainTypes, Files
<1>5. Reading'
  <2>. DEFINE lba == FatStart + (FatOffset \div SectorBytes)
  <2>1. cluster \in Clusters  BY <1>3, Floppy DEF Behind, Chain, ChainTypes
  <2>2. FatOffset \in Nat  BY <2>1, ClusterNumber DEF FatOffset
  <2>3. lba \in Nat  BY <2>2, Geometry, Division
  <2>4. Lba(Chs(lba)) = lba  BY <2>3, SectorAsked
  <2>5. FatOffset' = FatOffset  BY DEF FatOffset
  <2>6. FatRead'  BY <1>3, <2>4, <2>5 DEF FatRead, FatSpan
  <2>. QED  BY <2>6 DEF Reading
<1>6. Programs'
  <2>1. Loaded' = Loaded /\ Loaded \in Nat
    BY LoaderLength DEF Loaded, ChainTypes, Length, Files
  <2>2. file = "KERNEL" => done' = done  OBVIOUS
  <2>. QED  BY <2>1, <2>2, KeepPrograms
<1>7. Buffers' /\ Handed'  BY DEF Buffers, Handed, Copying, Listing, Handing
<1>. QED  BY <1>1, <1>2, <1>4, <1>5, <1>6, <1>7

LEMMA FollowStep == ASSUME IInv, Follow PROVE IInv'
<1>. USE DEF IInv, Follow, loads, window
<1>1. ChainTypes'  BY DEF ChainTypes, Walking
<1>2. Modes'  BY DEF Modes, Walking
<1>3. Position'
  <2>1. /\ Behind /\ Len(Chain) \in Nat /\ file \in Files /\ image \in Images
        /\ done \in 1 .. Len(image.chain[file])
    BY Floppy DEF Position, ChainTypes, Chain, Behind
  <2>2. FatEntry = Link(cluster)
    BY <2>1, LinkIsRead DEF Behind, Chain, Buffers
  <2>3. FatEntry = IF done = Len(Chain) THEN LastCluster ELSE Chain[done + 1]
    BY <2>1, <2>2, LinkInChain DEF Behind, Chain
  <2>4. CASE done = Len(Chain)
    <3>1. pc' = "loaded" /\ done' = Len(Chain')  BY <2>3, <2>4 DEF Chain
    <3>. QED
      BY <3>1 DEF Position, Walking, Copying, Leaving, Listing, Handing
  <2>5. CASE done # Len(Chain)
    <3>1. done + 1 \in 1 .. Len(Chain)  BY <2>1, <2>5 DEF Chain
    <3>2. Chain[done + 1] \in Clusters  BY <2>1, <3>1, Floppy DEF Chain
    <3>3. Chain[done + 1] # LastCluster  BY <3>2, ClusterNumber DEF LastCluster
    <3>4. pc' = "load" /\ cluster' = Chain[done + 1] /\ done' = done  BY <2>3, <2>5, <3>3
    <3>5. Ahead'  BY <2>1, <2>5, <3>4 DEF Ahead, Chain
    <3>. QED
      BY <3>4, <3>5 DEF Position, Walking, Copying, Leaving, Listing, Handing
  <2>. QED  BY <2>4, <2>5
<1>4. Reading'  BY DEF Reading, Reads
<1>5. Programs'
  <2>1. Loaded' = Loaded /\ Loaded \in Nat  BY LoaderLength DEF Loaded, ChainTypes, Length
  <2>. QED  BY <2>1, KeepPrograms
<1>6. Buffers' /\ Handed'
  BY DEF Buffers, Handed, Copying, Listing, Handing
<1>. QED  BY <1>1, <1>2, <1>3, <1>4, <1>5, <1>6

\* Whatever a read that is pending writes, it writes to no program and not to the probe byte.
LEMMA TargetIsFree ==
    ASSUME IInv, pc \in Reads
    PROVE  /\ Loaded \in Nat /\ Kept \subseteq 0 .. MemTop /\ Kept \cap Target = {}
           /\ file = "LOADER" => Loaded = done
<1>. USE DEF IInv, ChainTypes
<1>. DEFINE n == Len(Chain)
<1>1. n \in 1 .. High /\ Length("LOADER") \in Nat /\ Length("LOADER") <= Segment
  BY Floppy, LoaderLength DEF Chain
<1>2. done <= n
  <2>. HIDE DEF n
  <2>. QED  BY <1>1 DEF Reading, DirectoryRead, SectorRead, FatRead, Ahead, Behind, n
<1>3. file = "LOADER" => n = Length("LOADER") /\ Loaded = done
  BY DEF Chain, Length, Loaded, Reads
<1>4. file = "KERNEL" => Loaded = Length("LOADER")  BY DEF Loaded
<1>5. file \in {"LOADER", "KERNEL"}  BY DEF Files
<1>. HIDE DEF n
<1>6. Loaded \in 0 .. Segment  BY <1>1, <1>2, <1>3, <1>4, <1>5, Layout
<1>7. Kept \subseteq 0 .. MemTop
  <2>1. ASSUME NEW a \in Kept PROVE a \in 0 .. MemTop
    <3>1. CASE a \in {Sector0, Probe}  BY <3>1, Layout
    <3>2. CASE a \in Loader .. Loader + Loaded - 1  BY <3>2, <1>6, Layout, SMTT(30)
    <3>3. CASE a \in High .. High + done - 1  BY <3>3, <1>1, <1>2, Layout, SMTT(30)
    <3>. QED  BY <3>1, <3>2, <3>3 DEF Kept
  <2>. QED  BY <2>1
<1>8. ASSUME NEW a \in Kept PROVE a \notin Target
  <2>1. CASE (DirectoryRead \/ FatRead)
    <3>1. io.dest = Buf /\ io.n \in {1, 2}  BY <2>1 DEF DirectoryRead, FatRead
    <3>2. Target \subseteq Buf .. Buf + 1  BY <3>1, Layout DEF Target
    <3>3. a < Buf \/ a > Buf + 1
      <4>1. CASE a \in {Sector0, Probe}  BY <4>1, Layout
      <4>2. CASE a \in Loader .. Loader + Loaded - 1  BY <4>2, <1>6, Layout
      <4>3. CASE a \in High .. High + done - 1  BY <4>3, Layout
      <4>. QED  BY <4>1, <4>2, <4>3 DEF Kept
    <3>4. a \in Nat  BY <1>7, Layout
    <3>. QED  BY <3>2, <3>3, <3>4, Layout
  <2>2. CASE SectorRead /\ file = "LOADER"
    <3>1. io.dest = Loader + done /\ io.n = 1 /\ done < n  BY <2>2 DEF SectorRead, Ahead, n
    <3>2. Target \subseteq {Loader + done}  BY <3>1, Layout, SMTT(30) DEF Target
    <3>3. a # Loader + done
      <4>1. CASE a \in {Sector0, Probe}  BY <4>1, Layout
      <4>2. CASE a \in Loader .. Loader + Loaded - 1  BY <4>2, <2>2, <1>3, Layout
      <4>3. CASE a \in High .. High + done - 1
        BY <4>3, <3>1, <2>2, <1>1, <1>3, Layout, SMTT(30)
      <4>. QED  BY <4>1, <4>2, <4>3 DEF Kept
    <3>. QED  BY <3>2, <3>3
  <2>3. CASE SectorRead /\ file = "KERNEL"
    <3>1. io.dest = Temp /\ io.n = 1  BY <2>3 DEF SectorRead
    <3>2. Target \subseteq {Temp}  BY <3>1, Layout DEF Target
    <3>3. a # Temp
      <4>1. CASE a \in {Sector0, Probe}  BY <4>1, Layout
      <4>2. CASE a \in Loader .. Loader + Loaded - 1  BY <4>2, <1>6, Layout
      <4>3. CASE a \in High .. High + done - 1  BY <4>3, Layout
      <4>. QED  BY <4>1, <4>2, <4>3 DEF Kept
    <3>. QED  BY <3>2, <3>3
  <2>. QED  BY <2>1, <2>2, <2>3, <1>5 DEF Reading
<1>. QED  BY <1>3, <1>6, <1>7, <1>8

\* A read that succeeds: the sector asked for is where the next step looks for it.
LEMMA ReadDoneStep == ASSUME IInv, ReadDone PROVE IInv'
<1>. USE DEF IInv, ReadDone, loads, window, walk
<1>1. /\ mem' = [a \in 0 .. MemTop |-> IF a \in Target THEN DiskSector(Lba(io.chs) + a - io.dest)
                                                       ELSE mem[a]]
      /\ pc = "int13" /\ pc' = io.then
  BY DEF Fill
<1>2. /\ DOMAIN mem' = 0 .. MemTop
      /\ \A a \in 0 .. MemTop : a \in Target => mem'[a] = DiskSector(Lba(io.chs) + a - io.dest)
      /\ \A a \in 0 .. MemTop : a \notin Target => mem'[a] = mem[a]
  BY <1>1
<1>3. mem' = [a \in 0 .. MemTop |-> mem'[a]]  BY <1>1, <1>2
<1>4. \A a \in Kept : mem'[a] = mem[a]  BY <1>1, <1>2, TargetIsFree DEF Reads
<1>5. Loaded \in Nat /\ (file = "LOADER" => Loaded = done)  BY TargetIsFree DEF Reads
<1>6. CASE DirectoryRead
  <2>. USE <1>6 DEF DirectoryRead
  <2>1. ChainTypes'  BY <1>3 DEF ChainTypes, Walking
  <2>2. Modes'  BY DEF Modes, Walking, Reads
  <2>3. Position'  BY DEF Position, Walking, Reads, Copying, Leaving, Listing, Handing
  <2>4. Reading'  BY DEF Reading, Reads
  <2>5. Loaded' = Loaded  BY DEF Loaded, Length
  <2>6. Programs'  BY <1>4, <1>5, <2>5, KeepPrograms
  <2>7. Buffers' /\ Handed'  BY DEF Buffers, Handed, Copying, Listing, Handing
  <2>. QED  BY <2>1, <2>2, <2>3, <2>4, <2>6, <2>7
<1>7. CASE SectorRead
  <2>. USE <1>7 DEF SectorRead
  <2>1. ChainTypes'  BY <1>3 DEF ChainTypes, Walking, Copying
  <2>2. Modes'  BY DEF Modes, Walking, Reads
  <2>3. Position'
    BY DEF Position, Walking, Reads, Copying, Leaving, Listing, Handing, Ahead, Chain, ChainTypes, Files
  <2>4. Reading'  BY DEF Reading, Reads
  <2>5. Target = {io.dest} /\ io.dest \in 0 .. MemTop /\ io.dest \in Nat
    <3>1. io.dest \in 0 .. MemTop
      <4>1. CASE file = "LOADER"
        <5>1. done < Segment
          BY <4>1, LoaderLength, Layout, SMTT(30) DEF Ahead, Chain, Length, ChainTypes
        <5>. QED  BY <4>1, <5>1, Layout DEF ChainTypes
      <4>2. CASE file # "LOADER"  BY <4>2, Layout
      <4>. QED  BY <4>1, <4>2
    <3>2. io.dest \in Int  BY <3>1
    <3>. QED  BY <3>1, <3>2 DEF Target
  <2>6. done + 1 \in 1 .. Len(image.chain[file]) /\ cluster = image.chain[file][done + 1]
    <3>1. Len(Chain) \in Nat  BY Floppy DEF ChainTypes, Chain
    <3>. QED  BY <3>1 DEF Ahead, Chain, ChainTypes
  <2>7. mem'[io.dest] = <<file, done + 1>>
    <3>1. DiskSector(cluster + RootDirSectors + SectorBalance) = <<file, done + 1>>
      BY <2>6, SectorOfCluster DEF ChainTypes
    <3>2. cluster \in Nat  BY <2>6, Floppy, ClusterNumber DEF ChainTypes
    <3>3. Lba(io.chs) + io.dest - io.dest = cluster + RootDirSectors + SectorBalance
      BY <2>5, <3>2, Geometry
    <3>. QED  BY <1>2, <2>5, <3>1, <3>3
  <2>8. CASE file = "LOADER"
    <3>1. Loaded' = Loaded + 1  BY <1>5, <2>8 DEF Loaded
    <3>2. mem'[Loader + Loaded] = <<"LOADER", Loaded + 1>>  BY <1>5, <2>7, <2>8
    <3>3. Programs'  BY <1>4, <1>5, <2>8, <3>1, <3>2, KeepPrograms
    <3>4. Buffers' /\ Handed'  BY <2>8 DEF Buffers, Handed, Copying, Listing, Handing
    <3>. QED  BY <2>1, <2>2, <2>3, <2>4, <3>3, <3>4
  <2>9. CASE file = "KERNEL"
    <3>1. Loaded' = Loaded  BY <2>9 DEF Loaded, Length
    <3>2. Programs'  BY <1>4, <1>5, <2>9, <3>1, KeepPrograms
    <3>3. mem'[Temp] = <<"KERNEL", done + 1>>  BY <2>7, <2>9
    <3>4. Buffers' /\ Handed'
      BY <2>9, <3>3 DEF Buffers, Handed, Copying, Listing, Handing
    <3>. QED  BY <2>1, <2>2, <2>3, <2>4, <3>2, <3>4
  <2>. QED  BY <2>8, <2>9 DEF ChainTypes, Files
<1>8. CASE FatRead
  <2>. USE <1>8 DEF FatRead
  <2>1. ChainTypes'  BY <1>3 DEF ChainTypes, Walking
  <2>2. Modes'  BY DEF Modes, Walking, Reads
  <2>3. Position'
    BY DEF Position, Walking, Reads, Copying, Leaving, Listing, Handing, Behind, Chain
  <2>4. Reading'  BY DEF Reading, Reads
  <2>5. Loaded' = Loaded  BY DEF Loaded, Length
  <2>6. Programs'  BY <1>4, <1>5, <2>5, KeepPrograms
  <2>. DEFINE q == FatOffset \div SectorBytes
  <2>7. q \in 0 .. FatSectors - 1
    <3>1. cluster \in Nat  BY Floppy, ClusterNumber DEF Behind, Chain, ChainTypes
    <3>2. FatOffset = (cluster * 3) \div 2 /\ FatOffset \in Nat  BY <3>1 DEF FatOffset
    <3>3. FatOffset + 1 < FatSectors * SectorBytes
      BY <3>2, FatHolds DEF Behind, Chain, ChainTypes
    <3>. QED  BY <3>2, <3>3, Across
  <2>. HIDE DEF q
  <2>8. Lba(io.chs) = FatStart + q  BY DEF q
  <2>9. ASSUME NEW k \in {0, 1} PROVE mem'[Buf + k] = <<"fat", (q + k) % FatSectors>>
    <3>1. k \in 0 .. 1 /\ q + k \in 0 .. FatSectors  BY <2>7, Geometry
    <3>2. Buf + k \in Target /\ Buf + k \in 0 .. MemTop  BY <3>1, Layout DEF Target
    <3>3. Lba(io.chs) + (Buf + k) - io.dest = FatStart + (q + k)
      BY <2>7, <2>8, <3>1, Layout, Geometry
    <3>4. mem'[Buf + k] = DiskSector(FatStart + (q + k))  BY <1>2, <3>2, <3>3
    <3>. QED  BY <3>1, <3>4, SectorOfFat
  <2>10. FatOffset' = FatOffset  BY DEF FatOffset
  <2>11. Buffers' /\ Handed'
    BY <2>9, <2>10 DEF Buffers, Handed, Copying, Listing, Handing, q
  <2>. QED  BY <2>1, <2>2, <2>3, <2>4, <2>6, <2>11
<1>. QED  BY <1>6, <1>7, <1>8 DEF Reading, Reads

\* A read that fails, and the same call again.
LEMMA ReadErrorStep == ASSUME IInv, ReadError PROVE IInv'
<1>. USE DEF IInv, ReadError, loads, window, walk
<1>1. \/ mem' = mem
      \/ mem' = [a \in 0 .. MemTop |-> IF a \in Target THEN <<"garbage">> ELSE mem[a]]
  BY DEF Fill
<1>2. mem' = [a \in 0 .. MemTop |-> mem'[a]] /\ \A a \in 0 .. MemTop : a \notin Target => mem'[a] = mem[a]
  BY <1>1 DEF ChainTypes
<1>3. \A a \in Kept : mem'[a] = mem[a]  BY <1>2, TargetIsFree DEF Reads
<1>4. ChainTypes'  BY <1>2 DEF ChainTypes, Reads
<1>5. Modes'  BY DEF Modes, Walking, Reads
<1>6. Position'  BY DEF Position, Walking, Reads, Copying, Leaving, Listing, Handing
<1>7. Reading'
  BY DEF Reading, Reads, DirectoryRead, SectorRead, FatRead, Ahead, Behind, Chain, FatOffset
<1>8. Programs'
  <2>1. Loaded' = Loaded /\ Loaded \in Nat  BY TargetIsFree DEF Loaded, Reads, Length
  <2>. QED  BY <1>3, <2>1, KeepPrograms
<1>9. Buffers' /\ Handed'  BY DEF Buffers, Handed, Copying, Listing, Handing
<1>. QED  BY <1>4, <1>5, <1>6, <1>7, <1>8, <1>9

LEMMA ReadAgainStep == ASSUME IInv, ReadAgain PROVE IInv'
<1>. USE DEF IInv, ReadAgain, loads, window, walk
<1>1. ChainTypes'  BY DEF ChainTypes, Reads
<1>2. Modes'  BY DEF Modes, Walking, Reads
<1>3. Position'  BY DEF Position, Walking, Reads, Copying, Leaving, Listing, Handing
<1>4. Reading'
  BY DEF Reading, Reads, DirectoryRead, SectorRead, FatRead, Ahead, Behind, Chain, FatOffset
<1>5. Programs'
  <2>1. Loaded' = Loaded /\ Loaded \in Nat  BY TargetIsFree DEF Loaded, Reads, Length
  <2>. QED  BY <2>1, KeepPrograms
<1>6. Buffers' /\ Handed'  BY DEF Buffers, Handed, Copying, Listing, Handing
<1>. QED  BY <1>1, <1>2, <1>3, <1>4, <1>5, <1>6

-----------------------------------------------------------------------------
(***************************************************************************)
(* The copy above 1 MiB.                                                   *)
(***************************************************************************)
LEMMA CopyBeginStep == ASSUME IInv, CopyBegin PROVE IInv'
<1>. USE DEF IInv, CopyBegin, loads, walk
<1>1. ChainTypes'  BY DEF ChainTypes, Copying
<1>2. Modes'
  <2>1. cpu = RealMode  BY DEF Modes
  <2>2. cpu' = InCode /\ pushed' = TRUE  BY <2>1 DEF InCode, RealMode
  <2>. QED  BY <2>2 DEF Modes, Walking, Reads, Listing
<1>3. Position'
  BY DEF Position, Walking, Reads, Copying, Leaving, Listing, Handing, Ahead, Chain
<1>4. Reading'  BY DEF Reading, Reads
<1>5. Programs'
  <2>1. Loaded' = Loaded /\ Loaded \in Nat  BY LoaderLength DEF Loaded, ChainTypes, Length
  <2>. QED  BY <2>1, KeepPrograms
<1>6. Buffers' /\ Handed'  BY DEF Buffers, Handed, Copying, Listing, Handing
<1>. QED  BY <1>1, <1>2, <1>3, <1>4, <1>5, <1>6

LEMMA CopyEnterStep == ASSUME IInv, CopyEnter PROVE IInv'
<1>. USE DEF IInv, CopyEnter, loads, walk, window
<1>1. ChainTypes'  BY DEF ChainTypes, Copying
<1>2. Modes'
  <2>1. cpu = InCode /\ pushed = TRUE  BY DEF Modes
  <2>2. cpu' = Protected /\ pushed' = TRUE  BY <2>1 DEF Protected
  <2>. QED  BY <2>2 DEF Modes, Walking, Reads, Listing
<1>3. Position'
  BY DEF Position, Walking, Reads, Copying, Leaving, Listing, Handing, Ahead, Chain
<1>4. Reading'  BY DEF Reading, Reads
<1>5. Programs'
  <2>1. Loaded' = Loaded /\ Loaded \in Nat  BY LoaderLength DEF Loaded, ChainTypes, Length
  <2>. QED  BY <2>1, KeepPrograms
<1>6. Buffers' /\ Handed'  BY DEF Buffers, Handed, Copying, Listing, Handing
<1>. QED  BY <1>1, <1>2, <1>3, <1>4, <1>5, <1>6

\* The two marks.  With A20 closed both go to the probe byte, and the second stays.
LEMMA ProbeMarkStep == ASSUME IInv, ProbeMark PROVE IInv'
<1>. USE DEF IInv, ProbeMark, loads, walk
<1>. DEFINE alias == Phys(High + Probe)
<1>1. /\ alias \in 0 .. MemTop /\ Probe \in 0 .. MemTop /\ alias' = alias
      /\ a20 = "on" => alias = High + Probe
      /\ a20 # "on" => alias = Probe
  BY Layout, AliasOfProbe DEF Phys
<1>2. DOMAIN mem = 0 .. MemTop  BY DEF ChainTypes
<1>. HIDE DEF alias
<1>3. mem' = [a \in 0 .. MemTop |-> IF a = alias THEN <<"mark", 255>>
                                    ELSE IF a = Probe THEN <<"mark", 0>> ELSE mem[a]]
  BY <1>1, <1>2 DEF alias
<1>4. mem' = [a \in 0 .. MemTop |-> mem'[a]]  BY <1>3
<1>5. /\ \A a \in 0 .. MemTop : a \notin {alias, Probe} => mem'[a] = mem[a]
      /\ mem'[alias] = <<"mark", 255>>
  BY <1>1, <1>3
<1>6. file = "KERNEL" /\ Real = mem  BY DEF Position, Copying, Real
<1>7. done < Len(Chain) /\ Len(Chain) \in 1 .. High /\ done \in Nat
  BY Floppy DEF Position, Copying, Ahead, ChainTypes, Chain
<1>8. ChainTypes'  BY <1>4 DEF ChainTypes, Copying
<1>9. Modes'  BY DEF Modes, Walking, Reads, Listing
<1>10. Position'
  BY DEF Position, Walking, Reads, Copying, Leaving, Listing, Handing, Ahead, Chain
<1>11. Reading'  BY DEF Reading, Reads
<1>12. Programs'
  <2>1. At(Loader, "LOADER", Loaded)'
    <3>1. Loaded' = Length("LOADER") /\ Loaded = Length("LOADER")  BY <1>6 DEF Loaded, Length
    <3>2. Length("LOADER") \in Nat /\ Length("LOADER") <= Segment
      BY LoaderLength DEF ChainTypes
    <3>3. SUFFICES ASSUME NEW i \in 1 .. Length("LOADER")
                   PROVE  mem'[Loader + i - 1] = <<"LOADER", i>>
      BY <3>1 DEF At
    <3>4. mem[Loader + i - 1] = <<"LOADER", i>>  BY <3>1 DEF Programs, At
    <3>5. Loader + i - 1 \in 0 .. MemTop /\ Loader + i - 1 \notin {alias, Probe}
      BY <1>1, <3>2, Layout
    <3>. QED  BY <1>5, <3>4, <3>5
  <2>2. /\ DOMAIN [mem' EXCEPT ![alias] = probe'.high, ![Probe] = probe'.low] = 0 .. MemTop
        /\ Real' = [mem' EXCEPT ![alias] = probe'.high, ![Probe] = probe'.low]
        /\ probe'.high = mem[alias] /\ probe'.low = mem[Probe]
    BY <1>1, <1>4 DEF Real, alias
  <2>3. \A a \in 0 .. MemTop : Real'[a] = mem[a]
    <3>1. SUFFICES ASSUME NEW a \in 0 .. MemTop PROVE Real'[a] = mem[a]
      OBVIOUS
    <3>2. Real'[a] = IF a = Probe THEN probe'.low ELSE IF a = alias THEN probe'.high ELSE mem'[a]
      BY <2>2, <1>4
    <3>. QED  BY <1>5, <2>2, <3>2
  <2>4. (file = "KERNEL" => \A i \in 1 .. done : Real[High + i - 1] = <<"KERNEL", i>>)'
    <3>1. SUFFICES ASSUME NEW i \in 1 .. done PROVE Real'[High + i - 1] = <<"KERNEL", i>>
      OBVIOUS
    <3>2. mem[High + i - 1] = <<"KERNEL", i>>  BY <1>6 DEF Programs
    <3>3. High + i - 1 \in 0 .. MemTop  BY <1>7, Layout
    <3>. QED  BY <2>3, <3>2, <3>3
  <2>5. (Real[Probe] = <<"bda">>)'  BY <1>1, <1>6, <2>3 DEF Programs
  <2>. QED  BY <1>6, <2>1, <2>4, <2>5 DEF Programs
<1>13. Buffers'
  <2>1. mem'[Temp] = mem[Temp] /\ mem[Temp] = <<"KERNEL", done + 1>>
    <3>1. Temp \in 0 .. MemTop /\ Temp \notin {alias, Probe}  BY <1>1, Layout
    <3>. QED  BY <1>5, <3>1 DEF Buffers, Copying
  <2>2. a20' # "on" => mem'[Probe] = <<"mark", 255>>  BY <1>1, <1>5
  <2>. QED  BY <2>1, <2>2 DEF Buffers, Copying
<1>14. Handed'  BY DEF Handed, Listing, Handing
<1>. QED  BY <1>8, <1>9, <1>10, <1>11, <1>12, <1>13, <1>14

\* What was borrowed is back, and A20 counts as open only if it is.
LEMMA ProbeTestStep == ASSUME IInv, ProbeTest PROVE IInv'
<1>. USE DEF IInv, ProbeTest, loads, walk
<1>. DEFINE alias == Phys(High + Probe)
<1>1. /\ alias \in 0 .. MemTop /\ Probe \in 0 .. MemTop
      /\ a20 = "on" => alias = High + Probe
      /\ a20 # "on" => alias = Probe
  BY Layout, AliasOfProbe DEF Phys
<1>2. mem' = Real /\ Real' = mem'  BY DEF Real
<1>3. DOMAIN mem = 0 .. MemTop  BY DEF ChainTypes
<1>. HIDE DEF alias
<1>4. mem' = [a \in 0 .. MemTop |-> IF a = Probe THEN probe.low
                                    ELSE IF a = alias THEN probe.high ELSE mem[a]]
  BY <1>1, <1>3 DEF alias
<1>5. /\ mem' = [a \in 0 .. MemTop |-> mem'[a]]
      /\ \A a \in 0 .. MemTop : a \notin {alias, Probe} => mem'[a] = mem[a]
  BY <1>4
<1>6. file = "KERNEL" /\ Ahead  BY DEF Position, Copying
<1>7. probe'.ok = (mem[Probe] = <<"mark", 0>>) /\ (probe'.ok => a20 = "on")
  <2>1. <<"mark", 0>> # <<"mark", 255>>
    <3>1. <<"mark", 0>>[2] = 0 /\ <<"mark", 255>>[2] = 255  OBVIOUS
    <3>. QED  BY <3>1
  <2>2. probe'.ok = (mem[Probe] = <<"mark", 0>>)  OBVIOUS
  <2>. QED  BY <2>1, <2>2 DEF Buffers
<1>8. ChainTypes'  BY <1>5 DEF ChainTypes, Copying, Leaving
<1>9. Modes'  BY DEF Modes, Walking, Reads, Listing
<1>10. Ahead'  BY <1>6 DEF Ahead, Chain
<1>11. Position'
  BY <1>6, <1>7, <1>10 DEF Position, Walking, Reads, Copying, Leaving, Listing, Handing
<1>12. Reading'  BY DEF Reading, Reads
<1>13. Programs'
  <2>1. At(Loader, "LOADER", Loaded)'
    <3>1. Loaded' = Length("LOADER") /\ Loaded = Length("LOADER")  BY <1>6 DEF Loaded, Length
    <3>2. Length("LOADER") \in Nat /\ Length("LOADER") <= Segment
      BY LoaderLength DEF ChainTypes
    <3>3. SUFFICES ASSUME NEW i \in 1 .. Length("LOADER")
                   PROVE  mem'[Loader + i - 1] = <<"LOADER", i>>
      BY <3>1 DEF At
    <3>4. mem[Loader + i - 1] = <<"LOADER", i>>  BY <3>1 DEF Programs, At
    <3>5. Loader + i - 1 \in 0 .. MemTop /\ Loader + i - 1 \notin {alias, Probe}
      BY <1>1, <3>2, Layout
    <3>. QED  BY <1>5, <3>4, <3>5
  <2>. HIDE DEF ProbeTest
  <2>2. file' = file /\ done' = done  BY DEF ProbeTest
  <2>. QED  BY <1>2, <1>6, <2>1, <2>2 DEF Programs
<1>14. Buffers'
  <2>1. mem'[Temp] = mem[Temp] /\ mem[Temp] = <<"KERNEL", done + 1>>
    <3>1. Temp \in 0 .. MemTop /\ Temp \notin {alias, Probe}  BY <1>1, Layout
    <3>. QED  BY <1>5, <3>1 DEF Buffers, Copying
  <2>. QED  BY <2>1 DEF Buffers, Copying
<1>15. Handed'  BY DEF Handed, Listing, Handing
<1>. QED  BY <1>8, <1>9, <1>11, <1>12, <1>13, <1>14, <1>15

LEMMA MoveStep == ASSUME IInv, Move PROVE IInv'
<1>. USE DEF IInv, Move, loads, window
<1>1. /\ file = "KERNEL" /\ Ahead /\ a20 = "on" /\ probe.ok
      /\ Len(Chain) \in 1 .. High /\ done \in Nat /\ done < Len(Chain)
  BY Floppy DEF Position, Copying, Ahead, ChainTypes, Chain
<1>2. Phys(High + done) = High + done  BY <1>1 DEF Phys
<1>3. High + done \in 0 .. MemTop  BY <1>1, Layout, SMTT(30)
<1>4. /\ mem' = [b \in 0 .. MemTop |-> mem'[b]]
      /\ mem'[High + done] = mem[Temp]
      /\ \A b : b # High + done => mem'[b] = mem[b]
  BY <1>2, <1>3, Store
<1>5. ChainTypes'  BY <1>4 DEF ChainTypes, Leaving
<1>6. Modes'  BY DEF Modes, Walking, Reads, Listing
<1>7. Behind'  BY <1>1 DEF Ahead, Behind, Chain
<1>8. Position'
  BY <1>1, <1>7 DEF Position, Walking, Reads, Copying, Leaving, Listing, Handing
<1>9. Reading'  BY DEF Reading, Reads
<1>10. Programs'
  <2>1. Real = mem /\ Real' = mem'  BY DEF Real
  <2>2. At(Loader, "LOADER", Loaded)'
    <3>1. Loaded' = Length("LOADER") /\ Loaded = Length("LOADER")  BY <1>1 DEF Loaded, Length
    <3>2. Length("LOADER") \in Nat /\ Length("LOADER") <= Segment
      BY LoaderLength DEF ChainTypes
    <3>3. SUFFICES ASSUME NEW i \in 1 .. Length("LOADER")
                   PROVE  mem'[Loader + i - 1] = <<"LOADER", i>>
      BY <3>1 DEF At
    <3>4. mem[Loader + i - 1] = <<"LOADER", i>>  BY <3>1 DEF Programs, At
    <3>5. Loader + i - 1 # High + done  BY <1>1, <3>2, Layout, SMTT(30)
    <3>. QED  BY <1>4, <3>4, <3>5
  <2>3. ASSUME NEW i \in 1 .. done + 1 PROVE mem'[High + i - 1] = <<"KERNEL", i>>
    <3>1. CASE i = done + 1
      <4>1. High + i - 1 = High + done  BY <3>1, Layout, <1>1
      <4>2. mem[Temp] = <<"KERNEL", done + 1>>  BY DEF Buffers, Copying
      <4>. QED  BY <1>4, <3>1, <4>1, <4>2
    <3>2. CASE i # done + 1
      <4>1. i \in 1 .. done /\ High + i - 1 # High + done  BY <3>2, <1>1, Layout, SMTT(30)
      <4>2. mem[High + i - 1] = <<"KERNEL", i>>  BY <1>1, <2>1, <4>1 DEF Programs
      <4>. QED  BY <1>4, <4>1, <4>2
    <3>. QED  BY <3>1, <3>2
  <2>4. mem'[Probe] = <<"bda">>
    <3>1. Probe # High + done  BY <1>1, Layout
    <3>. QED  BY <1>4, <2>1, <3>1 DEF Programs
  <2>. QED  BY <1>1, <2>1, <2>2, <2>3, <2>4 DEF Programs
<1>11. Buffers' /\ Handed'  BY DEF Buffers, Handed, Copying, Listing, Handing
<1>. QED  BY <1>5, <1>6, <1>8, <1>9, <1>10, <1>11

CpuStates ==
    [if : BOOLEAN, pe : BOOLEAN, pg : BOOLEAN, pae : BOOLEAN, lme : BOOLEAN,
     cs : {16, 32, 64}, root : {"none", "loader", "kernel"}]

\* Leaving protected mode undoes what entering it did.
LEMMA ModeUndone ==
    ASSUME NEW c \in CpuStates, c.pe = FALSE, c.cs = 16
    PROVE  [[c EXCEPT !.pe = TRUE, !.cs = 32] EXCEPT !.pe = FALSE, !.cs = 16] = c
BY DEF CpuStates

LEMMA BackToReal == [Protected EXCEPT !.pe = FALSE, !.cs = 16] = InCode
<1>1. InCode \in CpuStates  BY DEF InCode, RealMode, CpuStates
<1>2. InCode.pe = FALSE /\ InCode.cs = 16  BY DEF InCode, RealMode
<1>. QED  BY <1>1, <1>2, ModeUndone DEF Protected

LEMMA CopyLeaveStep == ASSUME IInv, CopyLeave PROVE IInv'
<1>. USE DEF IInv, CopyLeave, loads, walk, window
<1>1. ChainTypes'  BY DEF ChainTypes, Leaving
<1>2. Modes'
  <2>1. cpu = Protected /\ pushed = TRUE  BY DEF Modes
  <2>2. cpu' = InCode /\ pushed' = TRUE  BY <2>1, BackToReal
  <2>. QED  BY <2>2 DEF Modes, Walking, Reads, Listing
<1>3. Position'
  BY DEF Position, Walking, Reads, Copying, Leaving, Listing, Handing, Behind, Chain
<1>4. Reading'  BY DEF Reading, Reads
<1>5. Programs'
  <2>1. Loaded' = Loaded /\ Loaded \in Nat  BY LoaderLength DEF Loaded, ChainTypes, Length
  <2>. QED  BY <2>1, KeepPrograms
<1>6. Buffers' /\ Handed'  BY DEF Buffers, Handed, Copying, Listing, Handing
<1>. QED  BY <1>1, <1>2, <1>3, <1>4, <1>5, <1>6

LEMMA CopyEndStep == ASSUME IInv, CopyEnd PROVE IInv'
<1>. USE DEF IInv, CopyEnd, loads, walk, window
<1>1. ChainTypes'  BY DEF ChainTypes, Walking, Stopped
<1>2. Modes'
  <2>1. cpu = InCode /\ pushed = TRUE  BY DEF Modes
  <2>2. cpu' = RealMode  BY <2>1 DEF InCode, RealMode
  <2>. QED  BY <2>2 DEF Modes, Walking, Reads, Listing
<1>3. Position'
  <2>1. file = "KERNEL" /\ (probe.ok => Behind)  BY DEF Position, Leaving
  <2>2. probe.ok => Behind'  BY <2>1 DEF Behind, Chain
  <2>. QED
    BY <2>1, <2>2 DEF Position, Walking, Reads, Copying, Leaving, Listing, Handing
<1>4. Reading'  BY DEF Reading, Reads
<1>5. Programs'
  <2>1. file = "KERNEL"  BY DEF Position, Leaving
  <2>2. Loaded' = Loaded /\ Loaded \in Nat
    BY <2>1, LoaderLength DEF Loaded, ChainTypes, Length
  <2>. QED  BY <2>2, KeepPrograms
<1>6. Buffers' /\ Handed'  BY DEF Buffers, Handed, Copying, Listing, Handing
<1>. QED  BY <1>1, <1>2, <1>3, <1>4, <1>5, <1>6

-----------------------------------------------------------------------------
(***************************************************************************)
(* Between the loads and after them.                                       *)
(***************************************************************************)
\* The Loader starts whole.
LEMMA StartLoaderStep == ASSUME IInv, StartLoader PROVE IInv'
<1>. USE DEF IInv, StartLoader, loads, window
<1>1. ChainTypes'  BY DEF ChainTypes, Walking, Files
<1>2. Modes'  BY DEF Modes, Walking
<1>3. Position'  BY DEF Position, Walking, Copying, Leaving, Listing, Handing
<1>4. Reading'  BY DEF Reading, Reads
<1>5. Programs'
  <2>1. Real = mem /\ Real' = mem'  BY DEF Real
  <2>2. Loaded = Length("LOADER") /\ Loaded' = Length("LOADER")
    BY DEF Position, Loaded, Length, Chain
  <2>3. mem' = mem /\ done' = 0 /\ file' = "KERNEL"  OBVIOUS
  <2>4. At(Loader, "LOADER", Loaded)'  BY <2>2, <2>3 DEF Programs, At
  <2>. QED  BY <2>1, <2>3, <2>4 DEF Programs
<1>6. Buffers' /\ Handed'  BY DEF Buffers, Handed, Copying, Listing, Handing
<1>. QED  BY <1>1, <1>2, <1>3, <1>4, <1>5, <1>6

\* The gate may open at any moment, in the middle of a probe too.
LEMMA GateOpensStep == ASSUME IInv, GateOpens PROVE IInv'
<1>. USE DEF IInv, GateOpens, loads, window, walk
<1>1. ChainTypes'  BY DEF ChainTypes
<1>2. Modes'  BY DEF Modes
<1>3. Position'  BY DEF Position, Ahead, Behind, Chain
<1>4. Reading'
  BY DEF Reading, DirectoryRead, SectorRead, FatRead, Ahead, Behind, Chain, FatOffset
<1>5. Programs'
  <2>1. file = "KERNEL" => done' = 0
    BY DEF Position, ChainTypes
  <2>2. (Real[Probe] = <<"bda">>)'
    <3>1. CASE pc = "test"
      <4>1. DOMAIN mem = 0 .. MemTop /\ Probe \in 0 .. MemTop  BY Layout DEF ChainTypes
      <4>2. Real[Probe] = probe.low  BY <3>1, <4>1 DEF Real
      <4>3. Real'[Probe] = probe.low  BY <3>1, <4>1 DEF Real
      <4>. QED  BY <4>2, <4>3 DEF Programs
    <3>2. CASE pc # "test"  BY <3>2 DEF Real, Programs
    <3>. QED  BY <3>1, <3>2
  <2>3. Loaded' = Loaded  BY DEF Loaded, Length
  <2>4. At(Loader, "LOADER", Loaded)'  BY <2>3 DEF At, Programs
  <2>5. (file = "LOADER" => mem[Sector0] = <<"boot">>)'  BY DEF Programs
  <2>. QED  BY <2>1, <2>2, <2>4, <2>5 DEF Programs
<1>6. Buffers' /\ Handed'
  <2>1. FatOffset' = FatOffset  BY DEF FatOffset
  <2>. QED  BY <2>1 DEF Buffers, Handed
<1>. QED  BY <1>1, <1>2, <1>3, <1>4, <1>5, <1>6

\* The BIOS calls of the Loader store below it, and never on the probe byte.
LEMMA StoreBelow ==
    ASSUME IInv, file = "KERNEL", pc # "test", pc' # "test", NEW a, NEW v,
           mem' = [mem EXCEPT ![a] = v], a \in {Table} \cup (Buf .. Loader - 1),
           UNCHANGED <<image, file, done>>
    PROVE  Programs' /\ a \in 0 .. MemTop
<1>. USE DEF IInv
<1>1. a \in 0 .. MemTop  BY Layout
<1>2. \A b : b # a => mem'[b] = mem[b]  BY Store
<1>3. Loaded' = Loaded /\ Loaded = Length("LOADER") /\ Loaded \in Nat
  BY LoaderLength DEF Loaded, Length, ChainTypes
<1>4. ASSUME NEW b \in Kept PROVE mem'[b] = mem[b]
  <2>1. b # a
    <3>1. CASE b \in {Sector0, Probe}  BY <3>1, Layout
    <3>2. CASE b \in Loader .. Loader + Loaded - 1  BY <3>2, <1>3, Layout
    <3>3. CASE b \in High .. High + done - 1  BY <3>3, Layout DEF ChainTypes
    <3>. QED  BY <3>1, <3>2, <3>3 DEF Kept
  <2>. QED  BY <1>2, <2>1
<1>. QED  BY <1>1, <1>3, <1>4, KeepPrograms

LEMMA CollectMemoryMapStep == ASSUME IInv, CollectMemoryMap PROVE IInv'
<1>. USE DEF IInv, CollectMemoryMap, Bios, walk, window
<1>1. /\ mem' = [b \in 0 .. MemTop |-> mem'[b]]
      /\ Table \in 0 .. MemTop => mem'[Table] = <<"e820">>
  BY Store
<1>2. Programs' /\ Table \in 0 .. MemTop  BY StoreBelow
<1>3. ChainTypes'  BY <1>1 DEF ChainTypes, Listing, Stopped
<1>4. Modes'  BY DEF Modes, Walking, Reads, Listing
<1>5. Position'
  BY DEF Position, Walking, Reads, Copying, Leaving, Listing, Handing, Chain
<1>6. Reading'  BY DEF Reading, Reads
<1>7. Buffers' /\ Handed'
  BY <1>1, <1>2 DEF Buffers, Handed, Copying, Listing, Handing
<1>. QED  BY <1>2, <1>3, <1>4, <1>5, <1>6, <1>7

LEMMA ControllerInfoStep == ASSUME IInv, ControllerInfo PROVE IInv'
<1>. USE DEF IInv, ControllerInfo, Bios, walk, window
<1>1. file = "KERNEL" /\ mem[Table] = <<"e820">>  BY DEF Position, Handed, Listing
<1>2. PICK n \in 0 .. Loader - ModeInfo + 1 : mem' = [mem EXCEPT ![Buf] = <<"modes", n>>]
  OBVIOUS
<1>3. mem' = [b \in 0 .. MemTop |-> mem'[b]] /\ \A b : b # Buf => mem'[b] = mem[b]
  BY <1>2, Store
<1>4. Programs'
  <2>1. Buf \in {Table} \cup (Buf .. Loader - 1)  BY Layout
  <2>. QED  BY <1>1, <1>2, <2>1, StoreBelow
<1>5. ChainTypes'  BY <1>3 DEF ChainTypes, Listing, Stopped
<1>6. Modes'  BY DEF Modes, Walking, Reads, Listing
<1>7. Position'
  BY DEF Position, Walking, Reads, Copying, Leaving, Listing, Handing, Chain
<1>8. Reading'  BY DEF Reading, Reads
<1>9. Buffers' /\ Handed'
  <2>1. mem'[Table] = mem[Table]
    <3>1. Table # Buf  BY Layout
    <3>. QED  BY <1>3, <3>1
  <2>. QED  BY <1>1, <2>1 DEF Buffers, Handed, Copying, Listing, Handing
<1>. QED  BY <1>4, <1>5, <1>6, <1>7, <1>8, <1>9

LEMMA GetModeInfoStep == ASSUME IInv, GetModeInfo PROVE IInv'
<1>. USE DEF IInv, GetModeInfo, Bios, walk, window
<1>1. file = "KERNEL" /\ mem[Table] = <<"e820">> /\ infos \in Nat
  BY DEF Position, Handed, Listing, ChainTypes
<1>2. CASE pc' = "modes"
  <2>. USE <1>2
  <2>1. mem' = [mem EXCEPT ![ModeInfo + infos] = <<"mode", infos>>] /\ infos' = infos + 1
    OBVIOUS
  <2>2. mem' = [b \in 0 .. MemTop |-> mem'[b]] /\ \A b : b # ModeInfo + infos => mem'[b] = mem[b]
    BY <2>1, Store
  <2>3. Programs'
    <3>1. ModeInfo + infos \in {Table} \cup (Buf .. Loader - 1)  BY <1>1, Layout DEF InfoFits
    <3>. QED  BY <1>1, <2>1, <3>1, StoreBelow
  <2>4. ChainTypes'  BY <2>1, <2>2 DEF ChainTypes, Listing
  <2>5. Modes'  BY DEF Modes, Walking, Reads, Listing
  <2>6. Position'
    BY DEF Position, Walking, Reads, Copying, Leaving, Listing, Handing, Chain
  <2>7. Reading'  BY DEF Reading, Reads
  <2>8. Buffers' /\ Handed'
    <3>1. Table # ModeInfo + infos  BY <1>1, Layout
    <3>2. mem'[Table] = mem[Table]  BY <2>2, <3>1
    <3>. QED  BY <1>1, <3>2 DEF Buffers, Handed, Copying, Listing, Handing
  <2>. QED  BY <2>3, <2>4, <2>5, <2>6, <2>7, <2>8
<1>3. CASE pc' = "refused"
  <2>. USE <1>3
  <2>1. mem' = mem /\ infos' = infos  OBVIOUS
  <2>2. ChainTypes'  BY <2>1 DEF ChainTypes, Stopped
  <2>3. Modes'  BY DEF Modes, Walking, Reads, Listing
  <2>4. Position'
    BY DEF Position, Walking, Reads, Copying, Leaving, Listing, Handing, Chain
  <2>5. Reading'  BY DEF Reading, Reads
  <2>6. Programs'
    <3>1. Loaded' = Loaded /\ Loaded \in Nat  BY LoaderLength DEF Loaded, ChainTypes, Length
    <3>. QED  BY <2>1, <3>1, KeepPrograms
  <2>7. Buffers' /\ Handed'  BY DEF Buffers, Handed, Copying, Listing, Handing
  <2>. QED  BY <2>2, <2>3, <2>4, <2>5, <2>6, <2>7
<1>. QED  BY <1>2, <1>3

\* What head.S takes for the mode is written after the last entry of the list.
LEMMA SelectModeStep == ASSUME IInv, SelectMode PROVE IInv'
<1>. USE DEF IInv, SelectMode, Bios, walk, window
<1>1. file = "KERNEL" /\ mem[Table] = <<"e820">>  BY DEF Position, Handed, Listing
<1>2. /\ mem' = [b \in 0 .. MemTop |-> mem'[b]]
      /\ ModeInfo \in 0 .. MemTop => mem'[ModeInfo] = <<"mode", Chosen>>
      /\ \A b : b # ModeInfo => mem'[b] = mem[b]
  BY Store
<1>3. Programs' /\ ModeInfo \in 0 .. MemTop
  <2>1. ModeInfo \in {Table} \cup (Buf .. Loader - 1)  BY ModeInfoIsApart
  <2>. QED  BY <1>1, <2>1, StoreBelow
<1>4. ChainTypes'  BY <1>2 DEF ChainTypes, Handing, Stopped
<1>5. Modes'  BY DEF Modes, Walking, Reads, Listing
<1>6. Position'
  BY DEF Position, Walking, Reads, Copying, Leaving, Listing, Handing, Chain
<1>7. Reading'  BY DEF Reading, Reads
<1>8. Buffers' /\ Handed'
  <2>1. Table # ModeInfo  BY ModeInfoIsApart
  <2>2. mem'[Table] = mem[Table]  BY <1>2, <2>1
  <2>. QED  BY <1>1, <1>2, <1>3, <2>2 DEF Buffers, Handed, Copying, Listing, Handing
<1>. QED  BY <1>3, <1>4, <1>5, <1>6, <1>7, <1>8

\* Steps after the load that store nothing.
LEMMA QuietSteps ==
    ASSUME IInv, pc \in Listing \cup Handing, Modes',
           pc \in Listing => pc' \in {"select", "refused"},
           pc \in Handing => pc' \in Handing \cup {"refused"},
           UNCHANGED <<loads, mem, a20, file, walk, io, window>>
    PROVE  IInv'
<1>. USE DEF IInv, loads, walk, window
<1>1. ChainTypes'  BY DEF ChainTypes, Listing, Handing, Stopped
<1>2. Position'
  BY DEF Position, Walking, Reads, Copying, Leaving, Listing, Handing, Chain
<1>3. Reading'  BY DEF Reading, Reads, Listing, Handing
<1>4. Programs'
  <2>1. pc # "test" /\ pc' # "test" /\ pc' # "next" /\ pc # "next"  BY DEF Listing, Handing
  <2>2. Loaded' = Loaded /\ Loaded \in Nat
    BY <2>1, LoaderLength DEF Loaded, ChainTypes, Length
  <2>. QED  BY <2>1, <2>2, KeepPrograms
<1>5. Buffers' /\ Handed'  BY DEF Buffers, Handed, Copying, Listing, Handing
<1>. QED  BY <1>1, <1>2, <1>3, <1>4, <1>5

LEMMA ModeListSteps == ASSUME IInv, ModesListed \/ TooManyModes \/ SetMode PROVE IInv'
<1>. USE DEF IInv, ModesListed, TooManyModes, SetMode, Bios
<1>1. Modes'  BY DEF Modes, Walking, Reads, Listing
<1>. QED  BY <1>1, QuietSteps DEF Listing, Handing, loads

\* From CLI to Rust the CPU goes through the states in the order the CPU asks for.
LEMMA SwitchSteps ==
    ASSUME IInv,
           \/ DisableInterrupts \/ Protect \/ support_long_mode \/ RequestLongMode
           \/ EnablePaging \/ JumpToKernel \/ StartKernel \/ VerifyBootMode
    PROVE  IInv'
<1>. USE DEF IInv, Switch
<1>1. CASE DisableInterrupts
  <2>1. cpu' = InCode  BY <1>1 DEF DisableInterrupts, Modes, InCode
  <2>2. Modes'  BY <1>1, <2>1 DEF DisableInterrupts, Modes, Walking, Reads, Listing
  <2>. QED  BY <1>1, <2>2, QuietSteps DEF DisableInterrupts, Handing, Listing
<1>2. CASE Protect
  <2>1. cpu' = Protected  BY <1>2 DEF Protect, Modes, Protected
  <2>2. Modes'  BY <1>2, <2>1 DEF Protect, Modes, Walking, Reads, Listing
  <2>. QED  BY <1>2, <2>2, QuietSteps DEF Protect, Handing, Listing
<1>3. CASE support_long_mode
  <2>1. Modes'  BY <1>3 DEF support_long_mode, Modes, Walking, Reads, Listing
  <2>. QED  BY <1>3, <2>1, QuietSteps DEF support_long_mode, Handing, Listing
<1>4. CASE RequestLongMode
  <2>1. cpu' = Requested  BY <1>4 DEF RequestLongMode, Modes, Requested
  <2>2. Modes'  BY <1>4, <2>1 DEF RequestLongMode, Modes, Walking, Reads, Listing
  <2>. QED  BY <1>4, <2>2, QuietSteps DEF RequestLongMode, Handing, Listing
<1>5. CASE EnablePaging
  <2>1. cpu' = Paged  BY <1>5 DEF EnablePaging, Modes, Paged
  <2>2. Modes'  BY <1>5, <2>1 DEF EnablePaging, Modes, Walking, Reads, Listing
  <2>. QED  BY <1>5, <2>2, QuietSteps DEF EnablePaging, Handing, Listing
<1>6. CASE JumpToKernel
  <2>1. cpu' = LongMode  BY <1>6 DEF JumpToKernel, Modes, LongMode
  <2>2. Modes'  BY <1>6, <2>1 DEF JumpToKernel, Modes, Walking, Reads, Listing
  <2>. QED  BY <1>6, <2>2, QuietSteps DEF JumpToKernel, Handing, Listing
<1>7. CASE StartKernel
  <2>1. cpu' = KernelMode  BY <1>7 DEF StartKernel, Modes, KernelMode
  <2>2. Modes'  BY <1>7, <2>1 DEF StartKernel, Modes, Walking, Reads, Listing
  <2>. QED  BY <1>7, <2>2, QuietSteps DEF StartKernel, Handing, Listing
<1>8. CASE VerifyBootMode
  <2>1. cpu = KernelMode  BY <1>8 DEF VerifyBootMode, Modes
  <2>2. ModeHolds
    BY <2>1 DEF ModeHolds, KernelMode, LongMode, Paged, Requested, WithTables, Protected, InCode,
       RealMode
  <2>3. pc' = "verified" /\ cpu' = KernelMode  BY <1>8, <2>1, <2>2 DEF VerifyBootMode
  <2>4. Modes'  BY <2>3 DEF Modes, Walking, Reads, Listing
  <2>. QED  BY <1>8, <2>3, <2>4, QuietSteps DEF VerifyBootMode, Handing, Listing
<1>. QED  BY <1>1, <1>2, <1>3, <1>4, <1>5, <1>6, <1>7, <1>8

LEMMA BuildTablesStep == ASSUME IInv, BuildTables PROVE IInv'
<1>. USE DEF IInv, BuildTables, Switch, loads, walk, window
<1>1. /\ file = "KERNEL" /\ mem[Table] = <<"e820">> /\ mem[ModeInfo] = <<"mode", Chosen>>
      /\ cpu = Protected
  BY DEF Position, Handed, Handing, Modes
<1>2. mem' = [b \in 0 .. MemTop |-> mem'[b]] /\ \A b : b # Pages => mem'[b] = mem[b]
  BY Store
<1>3. Loaded' = Loaded /\ Loaded = Length("LOADER") /\ Loaded \in Nat /\ Loaded <= Segment
  BY <1>1, LoaderLength DEF Loaded, Length, ChainTypes
<1>4. ASSUME NEW b \in Kept PROVE mem'[b] = mem[b]
  <2>1. b # Pages
    <3>1. CASE b \in {Sector0, Probe}  BY <3>1, Layout
    <3>2. CASE b \in Loader .. Loader + Loaded - 1  BY <3>2, <1>3, Layout
    <3>3. CASE b \in High .. High + done - 1  BY <3>3, Layout DEF ChainTypes
    <3>. QED  BY <3>1, <3>2, <3>3 DEF Kept
  <2>. QED  BY <1>2, <2>1
<1>5. Programs'  BY <1>3, <1>4, KeepPrograms
<1>6. ChainTypes'  BY <1>2 DEF ChainTypes, Handing
<1>7. Modes'
  <2>1. cpu' = WithTables  BY <1>1 DEF WithTables
  <2>. QED  BY <2>1 DEF Modes, Walking, Reads, Listing
<1>8. Position'
  BY DEF Position, Walking, Reads, Copying, Leaving, Listing, Handing, Chain
<1>9. Reading'  BY DEF Reading, Reads
<1>10. Buffers' /\ Handed'
  <2>1. Table # Pages /\ ModeInfo # Pages  BY Layout
  <2>2. mem'[Table] = mem[Table] /\ mem'[ModeInfo] = mem[ModeInfo]  BY <1>2, <2>1
  <2>. QED  BY <1>1, <2>2 DEF Buffers, Handed, Copying, Listing, Handing
<1>. QED  BY <1>5, <1>6, <1>7, <1>8, <1>9, <1>10

-----------------------------------------------------------------------------
(***************************************************************************)
(* The invariant and what follows from it.                                 *)
(***************************************************************************)
LEMMA ChainStep == ASSUME IInv, [Next]_vars PROVE IInv'
<1>1. CASE Code
  BY <1>1, SearchRootStep, CompareStep, LoadSectorStep, GetFATEntryStep, FollowStep, ReadAgainStep,
     CopyBeginStep, CopyEnterStep, ProbeMarkStep, ProbeTestStep, MoveStep, CopyLeaveStep, CopyEndStep,
     StartLoaderStep, CollectMemoryMapStep, ControllerInfoStep, GetModeInfoStep, SelectModeStep,
     ModeListSteps, SwitchSteps, BuildTablesStep
  DEF Code
<1>2. CASE UNCHANGED vars
  <2>. USE <1>2 DEF IInv, vars, loads, walk, window
  <2>1. ChainTypes'  BY DEF ChainTypes
  <2>a. Modes'
    <3>1. UNCHANGED <<pc, cpu, pushed>>
      OBVIOUS
    <3>2. Modes
      OBVIOUS
    <3>. QED  BY <3>1, <3>2, Zenon DEF Modes
  <2>2. Position'  BY DEF Position, Ahead, Behind, Chain
  <2>3. Reading'
    BY DEF Reading, DirectoryRead, SectorRead, FatRead, Ahead, Behind, Chain, FatOffset
  <2>4. Programs'  BY DEF Programs, At, Real, Loaded, Length, Phys
  <2>5. Buffers' /\ Handed'  BY DEF Buffers, Handed, FatOffset
  <2>. QED  BY <2>1, <2>a, <2>2, <2>3, <2>4, <2>5
<1>. QED  BY <1>1, <1>2, ReadDoneStep, ReadErrorStep, GateOpensStep DEF Next

LEMMA ChainInvariance == Spec => []IInv
BY AtReset, ChainStep, PTL DEF Spec

(* At every label of the boot sector and the Loader the cluster in AX is the one
   the count of sectors in place asks for, and a sector goes above 1 MiB only
   with A20 open (boot.asm, loader.asm: _Go_On_Loading_File). *)
THEOREM WalkIsOnCourse == Spec => [](ChainTypes /\ Position)
<1>1. IInv => ChainTypes /\ Position  BY DEF IInv
<1>. QED  BY <1>1, ChainInvariance, PTL

(* The BIOS is called, and interrupts are let in, in real mode only
   (loader.asm: _CopyKernelSector). *)
THEOREM RealModeForBios == Spec => []BiosInRealMode
<1>1. IInv => BiosInRealMode
  <2>. SUFFICES ASSUME IInv PROVE BiosInRealMode  OBVIOUS
  <2>. USE DEF IInv
  <2>1. RealMode.pe = FALSE /\ RealMode.cs = 16  BY DEF RealMode
  <2>2. InCode.if = FALSE  BY DEF InCode, RealMode
  <2>3. Protected.if = FALSE  BY DEF Protected, InCode, RealMode
  <2>4. WithTables.if = FALSE  BY DEF WithTables, Protected, InCode, RealMode
  <2>5. Requested.if = FALSE  BY DEF Requested, WithTables, Protected, InCode, RealMode
  <2>6. Paged.if = FALSE  BY DEF Paged, Requested, WithTables, Protected, InCode, RealMode
  <2>7. LongMode.if = FALSE
    BY DEF LongMode, Paged, Requested, WithTables, Protected, InCode, RealMode
  <2>8. KernelMode.if = FALSE
    BY DEF KernelMode, LongMode, Paged, Requested, WithTables, Protected, InCode, RealMode
  <2>9. cpu = RealMode \/ cpu.if = FALSE
    BY <2>2, <2>3, <2>4, <2>5, <2>6, <2>7, <2>8
    DEF ChainTypes, Modes, Walking, Reads, Copying, Leaving, Listing, Handing, Stopped
  <2>10. pc \in {"int13", "loaded", "controller", "modes", "select", "set mode"} => cpu = RealMode
    BY DEF Modes, Walking, Reads, Listing
  <2>. QED  BY <2>1, <2>9, <2>10 DEF BiosInRealMode
<1>. QED  BY <1>1, ChainInvariance, PTL

(* Neither a read, nor a copy, nor a probe through the alias at 1 MiB, nor a list
   of modes of any length writes over the program that runs, for every floppy
   (boot.asm, loader.asm: _Go_On_Loading_File, Label_SVGA_Mode_Info_Get). *)
THEOREM ProgramsStayWhole == Spec => []CodeIntact
<1>1. IInv => CodeIntact
  <2>. SUFFICES ASSUME IInv PROVE CodeIntact  OBVIOUS
  <2>. USE DEF IInv
  <2>1. CASE file = "LOADER"
    <3>1. pc = "loaded" => Loaded = Length("LOADER")  BY <2>1 DEF Loaded, Position, Chain, Length
    <3>. QED  BY <2>1, <3>1 DEF CodeIntact, Programs, At
  <2>2. CASE file = "KERNEL"
    <3>1. Loaded = Length("LOADER")  BY <2>2 DEF Loaded
    <3>. QED  BY <2>2, <3>1 DEF CodeIntact, Programs, At
  <2>. QED  BY <2>1, <2>2 DEF ChainTypes, Files
<1>. QED  BY <1>1, ChainInvariance, PTL

(* The kernel starts complete at 1 MiB, with the memory map and the ModeInfo of
   the mode that was set, and verify_boot_mode finds the mode it asserts
   (loader.asm: Label_File_Loaded; processor.rs: verify_boot_mode). *)
THEOREM KernelGetsAll == Spec => []HandoffIntact
<1>1. IInv => HandoffIntact
  <2>. SUFFICES ASSUME IInv PROVE HandoffIntact  OBVIOUS
  <2>. USE DEF IInv
  <2>1. ASSUME pc \in {"kernel", "verify", "verified"}
        PROVE  /\ a20 = "on" /\ At(High, "KERNEL", Length("KERNEL"))
               /\ mem[Table] = <<"e820">> /\ mem[ModeInfo] = <<"mode", Chosen>>
    <3>1. pc \in Handing  BY <2>1 DEF Handing
    <3>2. file = "KERNEL" /\ done = Length("KERNEL")
      BY <3>1 DEF Position, Chain, Length
    <3>3. done > 0  BY <3>2, Floppy DEF Length, ChainTypes
    <3>4. Real = mem  BY <2>1 DEF Real
    <3>. QED  BY <3>1, <3>2, <3>3, <3>4 DEF Position, Programs, Handed, At
  <2>2. pc # "test" => mem[Probe] = <<"bda">>  BY DEF Programs, Real
  <2>3. pc # "assert"
    BY DEF ChainTypes, Walking, Reads, Copying, Leaving, Listing, Handing, Stopped
  <2>. QED  BY <2>1, <2>2, <2>3 DEF HandoffIntact
<1>. QED  BY <1>1, ChainInvariance, PTL
=============================================================================
