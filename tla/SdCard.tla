------------------------------- MODULE SdCard -------------------------------
(***************************************************************************)
(* The card reader of software/sdcard: the MMC driver mmc.c, the FAT16     *)
(* reader fat.c on top of it, and main.c, which waits for a card and lists *)
(* its root directory.  Search_File and Read_File are called as the loader *)
(* that main.c keeps in a comment calls them.  The card is external.       *)
(*                                                                         *)
(* A call works on one buffer of a sector, which a read that fails leaves  *)
(* as it was.  A sector is a function of byte positions, scaled down: the  *)
(* base of a name has NB characters (8), a link or a cluster number is one *)
(* byte (2), a sector two directory entries (16).  An extension has its    *)
(* three characters.                                                       *)
(***************************************************************************)
EXTENDS Integers, Sequences, FiniteSets

CONSTANTS
    Entries,     \* what a slot of the root directory may hold
    MaxEntries,  \* slots in use
    Chains,      \* the clusters a file may have
    SecPerClus,  \* sectors of a cluster
    InitTries,   \* how often mmc_init repeats a command (200)
    MaxList,     \* entries main lists (240)
    MaxSearch,   \* entries Search_File looks at (100)
    MaxFails     \* reads the card refuses

NB == 2
NE == 3
ATTR == NB + NE                  \* positions in a directory entry:
CLUS == ATTR + 2                 \* the byte in between is not used
SIZE == ATTR + 3
ENTRY == ATTR + 4
BlockSize == 2 * ENTRY
EOF == 255
SPACE == 32
DOT == 46
IS_FREE == 229
LONG_NAME == 15

Byte == 0..255

(* Sectors of the card: a boot record in sector 0 points to a volume with   *)
(* one FAT of two sectors and a root directory of BlockSize entries.        *)
Volume == 3
Rsvd == 1
FATSz == 2
RootSec == Volume + Rsvd + FATSz
DataSec == RootSec + ENTRY
LastSec == 255

(* A slot is <<characters of the name, attribute, cluster, size>>; FAT      *)
(* allows neither a zero nor a dot in a name.  The clusters of a file are   *)
(* in the FAT and on the card, and none comes twice.                        *)
ASSUME ImageAssumption ==
    /\ \A e \in Entries : e \in [1..ENTRY - 1 -> Byte] /\ \A i \in 1..ATTR : e[i] \notin {0, DOT}
    /\ MaxEntries \in 0..BlockSize - 1
    /\ \A c \in Chains \cup {<<2>>} :
          /\ c \in Seq(2..FATSz * BlockSize - 1) /\ c # <<>>
          /\ \A i, j \in DOMAIN c : c[i] = c[j] => i = j
          /\ \A j \in DOMAIN c : DataSec + (c[j] - 1) * SecPerClus <= LastSec + 1
    /\ SecPerClus \in Byte \ {0} /\ MaxList \in Nat \ {0} /\ MaxSearch \in Nat \ {0}
    /\ InitTries \in Nat /\ MaxFails \in Nat

VARIABLES
    root, chain,     \* the contents of the card: the root directory, a file
    pc,
    buffer,
    Volume_Boot_Record_Addr, ClusterSize, FAT_Offset, ClusterOffset,
    tries,           \* mmc_init: Timeout
    card,            \* "absent", "idle" (not ready), "ready" or "silent"
    n,               \* the directory entry main or Search_File is at
    blk, count,      \* Read_Dir_Ent: blk and TMP_Entry_Count
    want,            \* Search_File: the name
    list,            \* what Read_Dir_Ent has returned to main
    found,           \* what Search_File has returned
    k,               \* Read_File: BlockCount ...
    link, cl, store, \* ... and in Load_FAT a, Cluster and FAT_Block_Store
    fails            \* reads refused

image == <<root, chain>>
global == <<Volume_Boot_Record_Addr, ClusterSize, FAT_Offset, ClusterOffset>>
dirVars == <<n, blk, count, want, list, found>>
fatVars == <<k, link, cl, store>>
vars == <<image, pc, buffer, global, tries, card, dirVars, fatVars, fails>>

-----------------------------------------------------------------------------
(* What the sectors of the card hold. *)

Pos == 0..BlockSize - 1

MBR == [p \in Pos |-> IF p = 0 THEN Volume ELSE 0]
BPB_BytesPerSec == 0             \* positions in the boot sector of the volume
BPB_SecPerClus == 1
BPB_RsvdSecCnt == 2
BPB_NumFATs == 3
BPB_FATSz16 == 4
VBR == [p \in Pos |-> IF p < 5 THEN <<BlockSize, SecPerClus, Rsvd, 1, FATSz>>[p + 1] ELSE 0]

(* The link of a cluster; clusters that are no part of the file are free. *)
LinkOf(c) == IF \E j \in DOMAIN chain : chain[j] = c
             THEN LET j == CHOOSE j \in DOMAIN chain : chain[j] = c
                  IN IF j < Len(chain) THEN chain[j + 1] ELSE EOF
             ELSE 0

EntryByte(e, p) == IF p < ATTR + 1 THEN e[p + 1] ELSE IF p = ATTR + 1 THEN 0 ELSE e[p]

(* The sector of a block of data holds the number of the sector. *)
Sector(s) ==
    CASE s = 0 -> MBR
      [] s = Volume -> VBR
      [] s \in Volume + Rsvd..RootSec - 1 ->
            [p \in Pos |-> LinkOf((s - Volume - Rsvd) * BlockSize + p)]
      [] s \in RootSec..DataSec - 1 ->
            [p \in Pos |-> LET j == 2 * (s - RootSec) + p \div ENTRY + 1
                           IN IF j <= Len(root) THEN EntryByte(root[j], p % ENTRY) ELSE 0]
      [] OTHER -> [p \in Pos |-> s]

(* What an automatic array may hold before the first read into it. *)
Stack == {[p \in Pos |-> x] : x \in {0, EOF}}

Init == /\ \/ root \in UNION {[1..m -> Entries] : m \in 0..MaxEntries} /\ chain = <<2>>
           \/ root = <<>> /\ chain \in Chains
        /\ pc = "cmd0" /\ tries = 0 /\ card = "absent"
        /\ buffer \in Stack
        /\ Volume_Boot_Record_Addr = 0 /\ ClusterSize = 0
        /\ FAT_Offset = 0 /\ ClusterOffset = 0
        /\ n = 0 /\ blk = 0 /\ count = 0 /\ want = <<>> /\ list = <<>> /\ found = <<>>
        /\ k = 0 /\ link = 0 /\ cl = 0 /\ store = 0 /\ fails = 0

HwInsert == /\ card = "absent" /\ card' = "idle"
            /\ UNCHANGED <<image, pc, buffer, global, tries, dirVars, fatVars, fails>>

(* CMD1 sets off the card's own initialisation, which takes its time. *)
HwReady == /\ card = "idle" /\ pc = "cmd1" /\ card' = "ready"
           /\ UNCHANGED <<image, pc, buffer, global, tries, dirVars, fatVars, fails>>

(* The card takes the read command and then sends no start byte, only an    *)
(* error token or nothing, now or ever.                                     *)
HwSilent == /\ card = "ready" /\ pc \in {"mbr", "vbr", "bpb", "offset", "dir", "scan", "fat"}
            /\ card' = "silent"
            /\ UNCHANGED <<image, pc, buffer, global, tries, dirVars, fatVars, fails>>

-----------------------------------------------------------------------------
(* mmc.c. *)

(* Mutant: a loop of mmc_init that counts but does not give up. *)
Repeat_noLimit(here) == pc' = here /\ tries' = tries + 1

(* One turn of a loop of mmc_init: main calls mmc_init again when it fails. *)
Repeat(here) == IF tries > InitTries THEN pc' = "cmd0" /\ tries' = 0
                                     ELSE pc' = here /\ tries' = tries + 1

(* Mutant: CMD0 is repeated until the card says that it is ready. *)
Cmd0_untilReady ==
    /\ pc = "cmd0"
    /\ IF card = "ready" THEN pc' = "cmd1" /\ tries' = 0 ELSE Repeat("cmd0")
    /\ UNCHANGED <<image, buffer, global, card, dirVars, fatVars, fails>>

(* CMD0 puts a card back to its idle state. *)
Cmd0 == /\ pc = "cmd0"
        /\ IF card # "absent" THEN pc' = "cmd1" /\ tries' = 0 /\ card' = "idle"
                              ELSE Repeat("cmd0") /\ UNCHANGED card
        /\ UNCHANGED <<image, buffer, global, dirVars, fatVars, fails>>

Cmd1 == /\ pc = "cmd1"
        /\ IF card = "ready" THEN pc' = "mbr" /\ UNCHANGED tries ELSE Repeat("cmd1")
        /\ UNCHANGED <<image, buffer, global, card, dirVars, fatVars, fails>>

(* A sector number of fat.c has a byte here (16 bits). *)
Short(s) == s % (LastSec + 1)

(* mmc_read_sector returns with b in the buffer: the sector, or what the    *)
(* buffer held before when the card refuses the command.  It reports        *)
(* success in both cases.  It waits for the start byte without a limit, so  *)
(* from a card that sends none it does not return.                          *)
mmc_read_sector(s, b) ==
    /\ card # "silent"
    /\ \/ s \in 0..LastSec /\ b = Sector(s) /\ fails' = fails
       \/ s \in 0..LastSec /\ b = buffer /\ fails < MaxFails /\ fails' = fails + 1
       \/ s \notin 0..LastSec /\ b = buffer /\ fails' = fails

Reads(s) == {buffer} \cup (IF s \in 0..LastSec THEN {Sector(s)} ELSE {})

-----------------------------------------------------------------------------
(* Cluster_Data_Store. *)

(* A read of the volume's boot sector that leaves b in the buffer. *)
ReadVolume(b) == /\ mmc_read_sector(Volume_Boot_Record_Addr, b)
                 /\ buffer' = b
VolumeReads == Reads(Volume_Boot_Record_Addr)

FAT_Addr ==
    \/ /\ pc = "mbr" /\ pc' = "vbr"
       /\ \E b \in Reads(0) : /\ mmc_read_sector(0, b) /\ buffer' = b
                              /\ Volume_Boot_Record_Addr' = b[0]
       /\ UNCHANGED <<image, ClusterSize, FAT_Offset, ClusterOffset, tries, card, dirVars, fatVars>>
    \/ /\ pc = "vbr" /\ pc' = "bpb"
       /\ \E b \in VolumeReads : ReadVolume(b)
       /\ UNCHANGED <<image, global, tries, card, dirVars, fatVars>>

Root_Dir_Addr(b) ==
    Short(b[BPB_RsvdSecCnt] + b[BPB_NumFATs] * b[BPB_FATSz16] + Volume_Boot_Record_Addr)

(* The size of the root directory is taken from the size of a sector.  The  *)
(* buffer is an array of Cluster_Data_Store; main has its own.              *)
Cluster_Data_Store ==
    \/ /\ pc = "bpb" /\ pc' = "offset"
       /\ \E b \in VolumeReads :
             /\ ReadVolume(b)
             /\ ClusterSize' = b[BPB_SecPerClus]
             /\ FAT_Offset' = b[BPB_RsvdSecCnt]
             /\ ClusterOffset' = (b[BPB_BytesPerSec] * ENTRY) \div BlockSize
       /\ UNCHANGED <<image, Volume_Boot_Record_Addr, tries, card, dirVars, fatVars>>
    \/ /\ pc = "offset" /\ pc' = "dir"
       /\ \E b \in VolumeReads : /\ mmc_read_sector(Volume_Boot_Record_Addr, b)
                                 /\ ClusterOffset' = Short(ClusterOffset + Root_Dir_Addr(b))
       /\ buffer' \in Stack                 \* from here on the buffer of main
       /\ UNCHANGED <<image, Volume_Boot_Record_Addr, ClusterSize, FAT_Offset, tries, card,
                      dirVars, fatVars>>

-----------------------------------------------------------------------------
(* Read_Dir_Ent of the root directory, and its two callers. *)

Slots == 0..1

(* Mutant: without the test for a slot of a long name. *)
Live_longToo(b, j) == b[j * ENTRY] # IS_FREE

Live(b, j) == b[j * ENTRY + ATTR] # LONG_NAME /\ b[j * ENTRY] # IS_FREE
Ended(b, j) == \E i \in 0..j : b[i * ENTRY] = 0
LiveBefore(b, j) == Cardinality({i \in Slots : i < j /\ Live(b, i)})

(* The name goes to the start of the buffer it is read from: character i    *)
(* of slot j is written to place p, a dot before the first of an extension. *)
Storing == [buf : [Pos -> Byte], p : Nat]
Put(st, x) == [buf |-> [st.buf EXCEPT ![st.p] = x], p |-> st.p + 1]
StoreChar(j, i) ==
    [st \in Storing |-> LET ch(t) == t.buf[j * ENTRY + i]
                            dotted == IF i = NB THEN Put(st, DOT) ELSE st
                        IN IF ch(st) = SPACE THEN st ELSE Put(dotted, ch(dotted))]

StoreName(b, j) ==
    LET step[i \in 0..ATTR] == IF i = 0 THEN [buf |-> b, p |-> 0]
                               ELSE StoreChar(j, i - 1)[step[i - 1]]
    IN Put(step[ATTR], 0).buf

(* The string at the start of a buffer. *)
Str(b) == LET z == CHOOSE z \in Pos : b[z] = 0 /\ \A i \in 0..z - 1 : b[i] # 0
          IN [i \in 1..z |-> b[i - 1]]

Dir_Entry(b, j) == [name |-> Str(b), attr |-> b[j * ENTRY + ATTR],
                    cluster |-> b[j * ENTRY + CLUS], size |-> b[j * ENTRY + SIZE]]

(* What the caller does when Read_Dir_Ent returns 0xFFFF. *)
ReturnNone == /\ pc' = "listed"
              /\ found' = IF want = <<>> THEN found ELSE <<0>>
              /\ UNCHANGED <<n, list>>

(* What the caller does with the entry: main lists it, Search_File compares *)
(* its name.  The result of Read_Dir_Ent is the cluster of the entry, and   *)
(* the cluster 0xFFFF is what it returns when there is no entry.            *)
Return(e) ==
    \/ e.cluster = EOF /\ ReturnNone
    \/ /\ e.cluster # EOF /\ n' = n + 1
       /\ IF want = <<>>
          THEN /\ list' = Append(list, e)
               /\ pc' = IF n' < MaxList THEN "dir" ELSE "listed"
               /\ UNCHANGED found
          ELSE IF e.name = want THEN found' = <<1, e.cluster>> /\ pc' = "listed" /\ UNCHANGED list
          ELSE IF n' < MaxSearch THEN pc' = "dir" /\ UNCHANGED <<found, list>>
          ELSE found' = <<2>> /\ pc' = "listed" /\ UNCHANGED list

(* Mutant: the count goes on from the last search. *)
StartDir_keepCount ==
    /\ pc = "dir" /\ pc' = "scan"
    /\ \E b \in VolumeReads : ReadVolume(b) /\ blk' = Root_Dir_Addr(b)
    /\ count' = IF want = <<>> THEN 0 ELSE count
    /\ UNCHANGED <<image, global, tries, card, n, want, list, found, fatVars>>

StartDir == /\ pc = "dir" /\ pc' = "scan"
            /\ \E b \in VolumeReads : ReadVolume(b) /\ blk' = Root_Dir_Addr(b)
            /\ count' = 0
            /\ UNCHANGED <<image, global, tries, card, n, want, list, found, fatVars>>

(* The slot of b that holds entry n, if it has one. *)
Hits(b) == {j \in Slots : ~Ended(b, j) /\ Live(b, j) /\ count + LiveBefore(b, j) = n}

ScanBlock ==
    /\ pc = "scan"
    /\ \E b \in Reads(blk) :
          /\ mmc_read_sector(blk, b)
          /\ \/ \E j \in Hits(b) : /\ buffer' = StoreName(b, j)
                                   /\ Return(Dir_Entry(buffer', j))
                                   /\ UNCHANGED <<blk, count>>
             \/ /\ Hits(b) = {} /\ Ended(b, 1)
                /\ ReturnNone /\ buffer' = b
                /\ UNCHANGED <<blk, count>>
             \/ /\ Hits(b) = {} /\ ~Ended(b, 1)
                /\ blk' = Short(blk + 1) /\ count' = count + LiveBefore(b, 2)
                /\ pc' = "scan" /\ buffer' = b /\ UNCHANGED <<n, list, found>>
    /\ UNCHANGED <<image, global, tries, card, want, fatVars>>

-----------------------------------------------------------------------------
(* The calls of a program that has a card. *)

(* What a name looks like after Read_Dir_Ent: without spaces, with a dot    *)
(* before an extension that does not begin with one.                        *)
Char(c) == IF c = SPACE THEN <<>> ELSE <<c>>
Plain(e) == Char(e[1]) \o Char(e[NB])
            \o (IF e[NB + 1] = SPACE THEN <<>> ELSE <<DOT, e[NB + 1]>>)
            \o Char(e[NB + 2]) \o Char(e[NB + NE])

Search_File(name) ==
    /\ pc = "listed" /\ root # <<>>
    /\ pc' = "dir" /\ n' = 0 /\ want' = name /\ found' = <<>>
    /\ UNCHANGED <<image, buffer, global, tries, card, blk, count, list, fatVars, fails>>

(* A block of the file, within its length; a cluster size of 0, which a     *)
(* failed read leaves, would be divided by.                                 *)
Read_File(c) ==
    /\ pc = "listed" /\ root = <<>> /\ ClusterSize # 0
    /\ pc' = "fat" /\ k' = c /\ link' = 0 /\ cl' = chain[1] /\ store' = 0
    /\ UNCHANGED <<image, buffer, global, tries, card, dirVars, fails>>

(* Mutant: a sector of the FAT that was read once is taken for all of it. *)
Load_FAT_once ==
    /\ pc = "fat" /\ link # k \div ClusterSize /\ cl # EOF
    /\ LET addr == Short(cl \div BlockSize + Volume_Boot_Record_Addr + FAT_Offset)
       IN \E b \in Reads(addr) :
            /\ IF store = 0 THEN mmc_read_sector(addr, b) ELSE b = buffer /\ fails' = fails
            /\ store' = addr /\ buffer' = b
            /\ cl' = b[cl % BlockSize]
    /\ link' = link + 1
    /\ UNCHANGED <<image, pc, global, tries, card, dirVars, k>>

Load_FAT ==
    /\ pc = "fat" /\ link # k \div ClusterSize /\ cl # EOF
    /\ LET addr == Short(cl \div BlockSize + Volume_Boot_Record_Addr + FAT_Offset)
       IN \E b \in Reads(addr) :
            /\ IF addr # store THEN mmc_read_sector(addr, b) ELSE b = buffer /\ fails' = fails
            /\ store' = addr /\ buffer' = b
            /\ cl' = b[cl % BlockSize]
    /\ link' = link + 1
    /\ UNCHANGED <<image, pc, global, tries, card, dirVars, k>>

(* At the end of a chain that is too short, Load_FAT leaves the number of   *)
(* the link in the place of the cluster.                                    *)
ReadBlock ==
    /\ pc = "fat" /\ (link = k \div ClusterSize \/ cl = EOF)
    /\ LET Block == IF link = k \div ClusterSize THEN cl ELSE k \div ClusterSize
           sec == (Block - 2) * ClusterSize + ClusterOffset + (k % ClusterSize)
       IN \E b \in Reads(sec) : mmc_read_sector(sec, b) /\ buffer' = b
    /\ pc' = "read"
    /\ UNCHANGED <<image, global, tries, card, dirVars, fatVars>>

Use == /\ pc = "read" /\ pc' = "listed"
       /\ UNCHANGED <<image, buffer, global, tries, card, dirVars, fatVars, fails>>

-----------------------------------------------------------------------------
(* A name that is searched for is not empty. *)
Names == ({Plain(e) : e \in Entries} \cup {<<1>>}) \ {<<>>}

Main == \/ Cmd0 \/ Cmd1 \/ FAT_Addr \/ Cluster_Data_Store \/ StartDir \/ ScanBlock
        \/ Load_FAT \/ ReadBlock \/ Use
Client == \/ \E name \in Names : Search_File(name)
          \/ \E c \in 0..Len(chain) * SecPerClus - 1 : Read_File(c)

Next == Main \/ Client \/ HwInsert \/ HwReady \/ HwSilent

Spec == Init /\ [][Next]_vars

(* The program runs on, and a card that is told to initialise itself again  *)
(* and again gets ready before mmc_init gives up and resets it.  Nothing    *)
(* makes it answer a read.                                                  *)
FairSpec == Spec /\ WF_vars(Main) /\ SF_vars(HwReady)

-----------------------------------------------------------------------------
(* Properties. *)

(* The variables keep their ranges: mmc_init stops counting at its limit,   *)
(* and main prints no more than MaxList entries.                            *)
TypeOK ==
    /\ pc \in {"cmd0", "cmd1", "mbr", "vbr", "bpb", "offset", "dir", "scan", "listed", "fat",
              "read"}
    /\ buffer \in [Pos -> Byte] /\ tries \in 0..InitTries + 1
    /\ card \in {"absent", "idle", "ready", "silent"}
    /\ Volume_Boot_Record_Addr \in Byte /\ ClusterSize \in Byte /\ FAT_Offset \in Byte
    /\ ClusterOffset \in Nat /\ Len(list) <= MaxList /\ fails \in 0..MaxFails

(* The slots of the root directory that are in use, the place of a slot     *)
(* among them, and the slots before the first with the cluster 0xFFFF,      *)
(* which no file has and the callers take for the end of the directory.     *)
Used == {j \in DOMAIN root : root[j][ATTR + 1] # LONG_NAME /\ root[j][1] # IS_FREE}
Rank(j) == Cardinality({h \in Used : h <= j})
Files == {j \in Used : \A h \in Used : h <= j => root[h][CLUS] # EOF}

Least(a, b) == IF a < b THEN a ELSE b

(* The first slot of a sector is where the name is written to.  The dot     *)
(* that follows a base without a space is written over the first character  *)
(* of the extension before that is read, and is then read for every other   *)
(* one: base and NE + 1 dots are returned, the last in the place of the     *)
(* attribute.  Otherwise a name of ATTR characters ends in that place.      *)
OverName(j) == j % 2 = 1 /\ \A i \in 1..NB + 1 : root[j][i] # SPACE
OverAttr(j) == OverName(j) \/ (j % 2 = 1 /\ Len(Plain(root[j])) >= ATTR)

(* An entry as Read_Dir_Ent returns it, and the slot it is read from. *)
Describes(x, j) == LET e == root[j]
                   IN /\ x.cluster = e[CLUS] /\ x.size = e[SIZE]
                      /\ OverName(j) \/ x.name = Plain(e)
                      /\ OverAttr(j) \/ x.attr = e[ATTR + 1]

(* When the card refuses no read, main lists every file of the root         *)
(* directory once, in order and up to its limit, with the file's cluster,   *)
(* size, name and attribute, except for what the name overwrites (every     *)
(* name with a full base and an extension in the first slot of a sector,    *)
(* and the attribute of every one that is as long as its field): although   *)
(* Read_Dir_Ent reads the directory again for each entry through the buffer *)
(* it returns the last name in, and skips long-name and deleted slots.      *)
ListRight ==
    pc = "listed" /\ fails = 0 =>
        /\ Len(list) = Least(Cardinality(Files), MaxList)
        /\ \A i \in 1..Len(list) : \E j \in Files : Rank(j) = i /\ Describes(list[i], j)

(* When the card refuses no read, Search_File ends with the first file of   *)
(* that name and its cluster, says 0 only after the whole directory and 2   *)
(* only after MaxSearch files; it misses a file only when Read_Dir_Ent has  *)
(* destroyed the name.                                                      *)
SearchRight ==
    pc = "listed" /\ want # <<>> /\ fails = 0 =>
        LET seen == {j \in Files : Rank(j) <= MaxSearch /\ Plain(root[j]) = want /\ ~OverName(j)}
        IN IF seen = {} THEN found = IF Cardinality(Files) < MaxSearch THEN <<0>> ELSE <<2>>
           ELSE \E j \in seen : /\ \A h \in seen : j <= h
                                /\ found = <<1, root[j][CLUS]>>

(* When the card refuses no read, Read_File leaves the block that was asked *)
(* for in the buffer, however the links of the file jump between the        *)
(* sectors of the FAT that Load_FAT reads into the same buffer.             *)
FileRight == pc = "read" /\ fails = 0 =>
    buffer = Sector(DataSec + (chain[k \div SecPerClus + 1] - 2) * SecPerClus + (k % SecPerClus))

(* Once a card is there, main gets through mmc_init and to the end of its   *)
(* list, refused reads included, unless a read that the card has accepted   *)
(* is never answered: neither a directory that is read wrongly nor the      *)
(* restart of mmc_init keeps it for ever.  The card refuses MaxFails reads  *)
(* at most; of one that is pulled out and refuses every read nothing is     *)
(* said.                                                                    *)
ListingEnds == card # "absent" ~> (pc = "listed" \/ card = "silent")
=============================================================================
