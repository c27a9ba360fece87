---------------------------- MODULE SdCardProofs ----------------------------
(***************************************************************************)
(* Proofs about SdCard.tla: the types, with the limits of mmc_init and of  *)
(* the listing; that Read_File finds the block it is asked for, for every  *)
(* file whose clusters are on the card; and that main lists, and           *)
(* Search_File finds, the files of every root directory.                   *)
(***************************************************************************)
EXTENDS SdCard, FiniteSetTheorems, SequenceTheorems, TLAPS

(* The positions and sector numbers of the scaled-down card. *)
LEMMA Numbers ==
    /\ ATTR = 5 /\ CLUS = 7 /\ SIZE = 8 /\ ENTRY = 9 /\ BlockSize = 18
    /\ RootSec = 6 /\ DataSec = 15 /\ Pos = 0..17 /\ Slots = 0..1
  BY DEF NB, NE, ATTR, CLUS, SIZE, ENTRY, BlockSize, Volume, Rsvd, FATSz, RootSec, DataSec,
         Pos, Slots

Sectors == [Pos -> Byte]

(* What Init chooses, and nothing changes. *)
ImageOK == /\ root \in Seq(Entries) /\ Len(root) \in 0..MaxEntries
           /\ chain \in Chains \cup {<<2>>}

LEMMA ChainFacts ==
    ASSUME ImageOK
    PROVE  /\ chain \in Seq(2..35) /\ Len(chain) \in Nat \ {0}
           /\ \A j \in 1..Len(chain) : chain[j] \in 2..35
           /\ \A i, j \in 1..Len(chain) : chain[i] = chain[j] => i = j
           /\ \A j \in 1..Len(chain) : 15 + (chain[j] - 1) * SecPerClus <= 256
           /\ SecPerClus \in 1..255
<1>1. /\ chain \in Seq(2..35) /\ chain # <<>>
      /\ \A i, j \in DOMAIN chain : chain[i] = chain[j] => i = j
      /\ \A j \in DOMAIN chain : 15 + (chain[j] - 1) * SecPerClus <= 256
  <2>1. FATSz * BlockSize - 1 = 35 /\ LastSec + 1 = 256
    BY Numbers DEF FATSz, LastSec
  <2>2. /\ chain \in Seq(2..FATSz * BlockSize - 1) /\ chain # <<>>
        /\ \A i, j \in DOMAIN chain : chain[i] = chain[j] => i = j
        /\ \A j \in DOMAIN chain : DataSec + (chain[j] - 1) * SecPerClus <= LastSec + 1
    BY ONLY ImageOK, ImageAssumption, Zenon DEF ImageOK
  <2>3. DataSec = 15
    BY Numbers
  <2>4. chain \in Seq(2..35)
    BY ONLY <2>1, <2>2
  <2>5. \A j \in DOMAIN chain : 15 + (chain[j] - 1) * SecPerClus <= 256
    BY ONLY <2>1, <2>2, <2>3
  <2> QED  BY ONLY <2>2, <2>4, <2>5, Zenon
<1>2. Len(chain) \in Nat /\ DOMAIN chain = 1..Len(chain) /\ (Len(chain) = 0 => chain = <<>>)
  BY <1>1
<1>3. SecPerClus \in 1..255
  BY ImageAssumption DEF Byte
<1>4. \A j \in 1..Len(chain) : chain[j] \in 2..35
  <2>1. chain \in Seq(2..35)
    BY <1>1
  <2> QED  BY ONLY <2>1, ElementOfSeq
<1>5. Len(chain) \in Nat \ {0}
  BY <1>1, <1>2
<1> QED  BY ONLY <1>1, <1>2, <1>3, <1>4, <1>5, Zenon

LEMMA ChainShape ==
    ASSUME ImageOK
    PROVE  /\ Len(chain) \in Nat \ {0} /\ SecPerClus \in Nat \ {0}
           /\ \A j \in 1..Len(chain) : chain[j] \in 2..35
<1>1. SecPerClus \in Byte \ {0}
  BY ONLY ImageAssumption, Zenon
<1>2. SecPerClus \in Nat \ {0}
  BY ONLY <1>1 DEF Byte
<1> QED  BY <1>2, ChainFacts, Zenon

(* The link of a cluster of the file is the next cluster. *)
LEMMA NextLink ==
    ASSUME ImageOK, NEW i \in 1..Len(chain) - 1
    PROVE  LinkOf(chain[i]) = chain[i + 1]
<1>1. /\ Len(chain) \in Nat \ {0} /\ DOMAIN chain = 1..Len(chain)
      /\ \A a, b \in 1..Len(chain) : chain[a] = chain[b] => a = b
  BY ChainFacts
<1>2. i \in DOMAIN chain /\ i < Len(chain)
  BY <1>1
<1>3. (CHOOSE j \in DOMAIN chain : chain[j] = chain[i]) = i
  BY <1>1, <1>2
<1> QED  BY <1>2, <1>3 DEF LinkOf

LEMMA LinkType ==
    ASSUME ImageOK, NEW c
    PROVE  LinkOf(c) \in Byte
<1>1. /\ Len(chain) \in Nat \ {0} /\ DOMAIN chain = 1..Len(chain)
      /\ \A j \in 1..Len(chain) : chain[j] \in 2..35
  BY ChainFacts
<1>2. CASE \E j \in DOMAIN chain : chain[j] = c
  <2> DEFINE j == CHOOSE j \in DOMAIN chain : chain[j] = c
  <2>1. j \in 1..Len(chain)
    BY <1>1, <1>2
  <2>2. LinkOf(c) = IF j < Len(chain) THEN chain[j + 1] ELSE 255
    BY <1>2 DEF LinkOf, EOF
  <2> HIDE DEF j
  <2>3. j < Len(chain) => chain[j + 1] \in 2..35
    BY <1>1, <2>1
  <2> QED  BY <2>2, <2>3 DEF Byte
<1>3. CASE ~\E j \in DOMAIN chain : chain[j] = c
  BY <1>3 DEF LinkOf, Byte
<1> QED  BY <1>2, <1>3

(* Every sector of the card holds bytes. *)
LEMMA SectorType ==
    ASSUME ImageOK, NEW s \in 0..LastSec
    PROVE  Sector(s) \in Sectors
<1> USE Numbers
<1>1. MBR \in Sectors
  BY DEF MBR, Volume, Byte, Sectors
<1>2. VBR \in Sectors
  <2>1. \A p \in 0..17 : p < 5 => <<18, SecPerClus, 1, 1, 2>>[p + 1] \in Byte
    <3>1. \A p \in 0..17 : p < 5 => p \in {0, 1, 2, 3, 4}
      OBVIOUS
    <3>2. SecPerClus \in Byte /\ 18 \in Byte /\ 1 \in Byte /\ 2 \in Byte
      BY ONLY ImageAssumption DEF Byte
    <3> DEFINE v == <<18, SecPerClus, 1, 1, 2>>
    <3>3. v[0 + 1] = 18 /\ v[1 + 1] = SecPerClus /\ v[2 + 1] = 1 /\ v[3 + 1] = 1 /\ v[4 + 1] = 2
      BY ONLY TRUE
    <3> HIDE DEF v
    <3>4. \A p \in {0, 1, 2, 3, 4} : v[p + 1] \in Byte
      BY ONLY <3>2, <3>3
    <3>5. \A p \in 0..17 : p < 5 => v[p + 1] \in Byte
      BY ONLY <3>1, <3>4
    <3> QED  BY ONLY <3>5 DEF v
  <2> QED  BY <2>1 DEF VBR, Rsvd, FATSz, Byte, Sectors
<1>3. \A x : [p \in Pos |-> LinkOf((x - Volume - Rsvd) * BlockSize + p)] \in Sectors
  BY LinkType DEF Sectors
<1> DEFINE Slot(x, p) == 2 * (x - RootSec) + p \div ENTRY + 1
           DirByte(x, p) == IF Slot(x, p) <= Len(root)
                            THEN EntryByte(root[Slot(x, p)], p % ENTRY) ELSE 0
<1>4. \A x \in 6..14, p \in Pos : DirByte(x, p) \in Byte
  <2> SUFFICES ASSUME NEW x \in 6..14, NEW p \in Pos  PROVE DirByte(x, p) \in Byte
    OBVIOUS
  <2> DEFINE j == 2 * (x - 6) + p \div 9 + 1
             q == p % 9
  <2>0. DirByte(x, p) = IF j <= Len(root) THEN EntryByte(root[j], q) ELSE 0
    OBVIOUS
  <2> SUFFICES ASSUME j <= Len(root)  PROVE EntryByte(root[j], q) \in Byte
    <3>1. 0 \in Byte
      BY DEF Byte
    <3> HIDE DEF DirByte, j, q
    <3> QED  BY <2>0, <3>1, Zenon
  <2>1. q \in 0..8 /\ j \in Nat \ {0}
    OBVIOUS
  <2>2. Len(root) \in Nat /\ \A i \in 1..Len(root) : root[i] \in Entries
    BY DEF ImageOK
  <2>3. j \in 1..Len(root)
    BY <2>1, <2>2
  <2>4. root[j] \in [1..8 -> Byte]
    BY <2>2, <2>3, ImageAssumption
  <2> HIDE DEF j, q
  <2>5. EntryByte(root[j], q) \in Byte
    <3>1. EntryByte(root[j], q) = IF q < 6 THEN root[j][q + 1] ELSE IF q = 6 THEN 0 ELSE root[j][q]
      BY DEF EntryByte
    <3>2. (q < 6 => q + 1 \in 1..8) /\ (q >= 6 /\ q # 6 => q \in 1..8) /\ 0 \in Byte
      BY <2>1 DEF Byte
    <3>3. \A i \in 1..8 : root[j][i] \in Byte
      BY <2>4
    <3> QED  BY <2>1, <3>1, <3>2, <3>3
  <2> QED  BY <2>5 DEF j, q
<1>5. s \in Byte => [p \in Pos |-> s] \in Sectors
  BY DEF Sectors
<1>6. s \in Byte
  BY DEF LastSec, Byte
<1>7. Volume + Rsvd = 4 /\ Volume = 3
  BY DEF Volume, Rsvd
<1>8. CASE s = 0
  BY <1>8, <1>1, <1>7 DEF Sector
<1>9. CASE s = 3
  BY <1>9, <1>2, <1>7 DEF Sector
<1>10. CASE s \in 4..5
  <2>1. /\ s # 0 /\ s # Volume /\ s \in Volume + Rsvd..RootSec - 1
        /\ s \notin RootSec..DataSec - 1
    BY <1>10, <1>7
  <2>2. Sector(s) = [p \in Pos |-> LinkOf((s - Volume - Rsvd) * BlockSize + p)]
    BY ONLY <2>1 DEF Sector
  <2> QED  BY ONLY <1>3, <2>2
<1>11. CASE s \in 6..14
  <2>1. Sector(s) = [p \in Pos |-> DirByte(s, p)]
    BY <1>11, <1>7 DEF Sector
  <2> HIDE DEF DirByte
  <2> QED  BY <1>11, <2>1, <1>4 DEF Sectors
<1>12. CASE s \notin {0, 3} \cup 4..14
  <2>1. /\ s # 0 /\ s # Volume /\ s \notin Volume + Rsvd..RootSec - 1
        /\ s \notin RootSec..DataSec - 1
    BY <1>12, <1>7
  <2>2. Sector(s) = [p \in Pos |-> s]
    BY ONLY <2>1 DEF Sector
  <2> QED  BY <2>2, <1>5, <1>6
<1> QED  BY <1>6, <1>8, <1>9, <1>10, <1>11, <1>12 DEF Byte

(* The name is written with bytes of the buffer. *)
LEMMA PutType ==
    ASSUME NEW t \in Storing, NEW x \in Byte
    PROVE  Put(t, x) \in Storing
<1>1. t.buf \in [Pos -> Byte] /\ t.p \in Nat
  BY DEF Storing
<1>2. [t.buf EXCEPT ![t.p] = x] \in [Pos -> Byte]
  BY ONLY <1>1, x \in Byte, Zenon
<1>3. t.p + 1 \in Nat
  BY <1>1
<1> QED  BY ONLY <1>2, <1>3 DEF Put, Storing

(* One character, of a slot within the sector. *)
LEMMA StoreCharIs ==
    ASSUME NEW st \in Storing, NEW j, NEW i
    PROVE  LET dotted == IF i = NB THEN Put(st, DOT) ELSE st
           IN StoreChar(j, i)[st] = IF st.buf[j * ENTRY + i] = SPACE THEN st
                                    ELSE Put(dotted, dotted.buf[j * ENTRY + i])
<1> DEFINE f(t) == IF t.buf[j * ENTRY + i] = SPACE THEN t
                   ELSE Put(IF i = NB THEN Put(t, DOT) ELSE t,
                            (IF i = NB THEN Put(t, DOT) ELSE t).buf[j * ENTRY + i])
<1>1. StoreChar(j, i) = [t \in Storing |-> f(t)]
  BY DEF StoreChar
<1> HIDE DEF f
<1>2. StoreChar(j, i)[st] = f(st)
  BY <1>1
<1> QED  BY <1>2 DEF f

LEMMA StoreCharType ==
    ASSUME NEW st \in Storing, NEW j \in Slots, NEW i \in 0..4
    PROVE  StoreChar(j, i)[st] \in Storing
<1>1. \A t \in Storing, x \in Byte : Put(t, x) \in Storing
  BY PutType
<1>2. j * ENTRY + i \in Pos
  BY Numbers
<1>3. \A t \in Storing : t.buf[j * ENTRY + i] \in Byte
  BY <1>2 DEF Storing
<1>4. DOT \in Byte
  BY DEF DOT, Byte
<1> HIDE DEF Storing
<1>5. (IF i = NB THEN Put(st, DOT) ELSE st) \in Storing
  BY <1>1, <1>4
<1> QED  BY <1>1, <1>3, <1>5, StoreCharIs

(* The characters are stored one after the other. *)
Stored(b, j, i) == LET s0 == [buf |-> b, p |-> 0]
                       s1 == StoreChar(j, 0)[s0]
                       s2 == StoreChar(j, 1)[s1]
                       s3 == StoreChar(j, 2)[s2]
                       s4 == StoreChar(j, 3)[s3]
                   IN IF i = 0 THEN s0 ELSE IF i = 1 THEN s1 ELSE IF i = 2 THEN s2
                      ELSE IF i = 3 THEN s3 ELSE IF i = 4 THEN s4 ELSE StoreChar(j, 4)[s4]

LEMMA StoredNext ==
    ASSUME NEW b, NEW j
    PROVE  /\ Stored(b, j, 0) = [buf |-> b, p |-> 0]
           /\ Stored(b, j, 1) = StoreChar(j, 0)[Stored(b, j, 0)]
           /\ Stored(b, j, 2) = StoreChar(j, 1)[Stored(b, j, 1)]
           /\ Stored(b, j, 3) = StoreChar(j, 2)[Stored(b, j, 2)]
           /\ Stored(b, j, 4) = StoreChar(j, 3)[Stored(b, j, 3)]
           /\ Stored(b, j, 5) = StoreChar(j, 4)[Stored(b, j, 4)]
  BY DEF Stored

LEMMA StoreNameIs ==
    ASSUME NEW b, NEW j
    PROVE  StoreName(b, j) = Put(Stored(b, j, 5), 0).buf
<1> DEFINE s0 == [buf |-> b, p |-> 0]
           F(g) == [i \in 0..5 |-> IF i = 0 THEN s0 ELSE StoreChar(j, i - 1)[g[i - 1]]]
           w == [i \in 0..5 |-> Stored(b, j, i)]
           step == CHOOSE g : g = F(g)
<1>0. \A i \in 0..5 : i = 0 \/ i = 1 \/ i = 2 \/ i = 3 \/ i = 4 \/ i = 5
  OBVIOUS
<1>1. w = F(w)
  <2>1. \A i \in 0..5 : w[i] = Stored(b, j, i)
    OBVIOUS
  <2>2. \A i \in 0..5 : F(w)[i] = IF i = 0 THEN s0 ELSE StoreChar(j, i - 1)[w[i - 1]]
    OBVIOUS
  <2> HIDE DEF s0, w
  <2>3. \A i \in 0..5 : w[i] = F(w)[i]
    <3> HIDE DEF F
    <3>1. /\ F(w)[0] = s0 /\ F(w)[1] = StoreChar(j, 0)[w[0]] /\ F(w)[2] = StoreChar(j, 1)[w[1]]
          /\ F(w)[3] = StoreChar(j, 2)[w[2]] /\ F(w)[4] = StoreChar(j, 3)[w[3]]
          /\ F(w)[5] = StoreChar(j, 4)[w[4]]
      BY <2>2
    <3>2. /\ w[0] = Stored(b, j, 0) /\ w[1] = Stored(b, j, 1) /\ w[2] = Stored(b, j, 2)
          /\ w[3] = Stored(b, j, 3) /\ w[4] = Stored(b, j, 4) /\ w[5] = Stored(b, j, 5)
      BY <2>1
    <3> QED  BY <1>0, <3>1, <3>2, StoredNext DEF s0
  <2>4. w = [i \in 0..5 |-> w[i]]
    BY DEF w
  <2> QED  BY <2>3, <2>4
<1> HIDE DEF w, F
<1>2. step = F(step)
  BY <1>1
<1> HIDE DEF step
<1>3. step[5] = Stored(b, j, 5)
  <2>1. \A i \in 0..5 : F(step)[i] = IF i = 0 THEN s0 ELSE StoreChar(j, i - 1)[step[i - 1]]
    BY DEF F
  <2> HIDE DEF s0
  <2>2. /\ step[0] = s0 /\ step[1] = StoreChar(j, 0)[step[0]] /\ step[2] = StoreChar(j, 1)[step[1]]
        /\ step[3] = StoreChar(j, 2)[step[2]] /\ step[4] = StoreChar(j, 3)[step[3]]
        /\ step[5] = StoreChar(j, 4)[step[4]]
    BY <1>2, <2>1
  <2>3. s0 = Stored(b, j, 0)
    BY StoredNext DEF s0
  <2> QED  BY <2>2, <2>3, StoredNext
<1>4. StoreName(b, j) = Put(step[5], 0).buf
  BY Numbers DEF StoreName, step, F
<1> QED  BY <1>3, <1>4

LEMMA StoredType ==
    ASSUME NEW b \in Sectors, NEW j \in Slots
    PROVE  /\ Stored(b, j, 0) \in Storing /\ Stored(b, j, 1) \in Storing
           /\ Stored(b, j, 2) \in Storing /\ Stored(b, j, 3) \in Storing
           /\ Stored(b, j, 4) \in Storing /\ Stored(b, j, 5) \in Storing
<1>1. Stored(b, j, 0) \in Storing
  BY StoredNext DEF Storing, Sectors
<1>2. \A st \in Storing, i \in 0..4 : StoreChar(j, i)[st] \in Storing
  BY StoreCharType
<1>3. 0 \in 0..4 /\ 1 \in 0..4 /\ 2 \in 0..4 /\ 3 \in 0..4 /\ 4 \in 0..4
  OBVIOUS
<1>4. Stored(b, j, 1) \in Storing
  BY ONLY <1>1, <1>2, <1>3, StoredNext
<1>5. Stored(b, j, 2) \in Storing
  BY ONLY <1>4, <1>2, <1>3, StoredNext
<1>6. Stored(b, j, 3) \in Storing
  BY ONLY <1>5, <1>2, <1>3, StoredNext
<1>7. Stored(b, j, 4) \in Storing
  BY ONLY <1>6, <1>2, <1>3, StoredNext
<1>8. Stored(b, j, 5) \in Storing
  BY ONLY <1>7, <1>2, <1>3, StoredNext
<1> QED  BY <1>1, <1>4, <1>5, <1>6, <1>7, <1>8

LEMMA StoreNameType ==
    ASSUME NEW b \in Sectors, NEW j \in Slots
    PROVE  StoreName(b, j) \in Sectors
<1>1. \A t \in Storing : Put(t, 0).buf \in Sectors
  <2>1. 0 \in Byte
    BY DEF Byte
  <2> QED  BY <2>1, PutType DEF Storing, Sectors
<1> QED  BY <1>1, StoredType, StoreNameIs

-----------------------------------------------------------------------------
(* Types. *)

IsSeq(s) == \E S : s \in Seq(S)

(* main's count of the entries is the length of its list. *)
Listing == /\ n \in Nat /\ IsSeq(list)
           /\ want = <<>> => Len(list) = n
           /\ want = <<>> /\ pc \notin {"listed", "fat", "read"} => n < MaxList

Types == TypeOK /\ ImageOK /\ Listing

LEMMA Appended ==
    ASSUME NEW s, IsSeq(s), NEW e
    PROVE  IsSeq(Append(s, e)) /\ Len(Append(s, e)) = Len(s) + 1 /\ Len(s) \in Nat
<1>1. PICK S : s \in Seq(S)
  BY DEF IsSeq
<1>2. s \in Seq(S \cup {e})
  BY <1>1
<1>3. Append(s, e) \in Seq(S \cup {e}) /\ Len(Append(s, e)) = Len(s) + 1 /\ Len(s) \in Nat
  BY <1>2
<1> QED  BY <1>3 DEF IsSeq

(* A read leaves bytes in the buffer; unless it is refused, the sector. *)
LEMMA ReadType ==
    ASSUME Types, NEW s, NEW b \in Reads(s), mmc_read_sector(s, b)
    PROVE  /\ b \in [Pos -> Byte] /\ \A p \in 0..17 : b[p] \in Byte
           /\ fails' \in 0..MaxFails /\ fails <= fails'
           /\ fails' = 0 => fails = 0
           /\ fails' = 0 /\ s \in 0..LastSec => b = Sector(s)
<1>1. ImageOK /\ buffer \in Sectors /\ fails \in 0..MaxFails /\ MaxFails \in Nat
  BY ImageAssumption DEF Types, TypeOK, Sectors
<1>2. b \in Sectors
  BY <1>1, SectorType DEF Reads
<1>3. \A p \in 0..17 : b[p] \in Byte
  BY <1>2, Numbers DEF Sectors
<1>4. fails' = fails \/ (fails < MaxFails /\ fails' = fails + 1)
  BY DEF mmc_read_sector
<1>5. fails' \in 0..MaxFails /\ fails <= fails' /\ (fails' = 0 => fails = 0)
  BY <1>1, <1>4
<1>6. fails' = 0 /\ s \in 0..LastSec => b = Sector(s)
  BY <1>1 DEF mmc_read_sector
<1> QED  BY <1>2, <1>3, <1>5, <1>6 DEF Sectors

(* Expressions of bytes. *)
LEMMA ByteArithmetic ==
    /\ \A x \in Byte : (x * ENTRY) \div BlockSize \in Nat
    /\ \A x \in Int : Short(x) \in Byte
<1>1. \A x \in 0..255 : (x * 9) \div 18 \in Nat
  OBVIOUS
<1>2. \A x \in Int : x % 256 \in 0..255
  OBVIOUS
<1> QED  BY <1>1, <1>2, Numbers DEF Byte, Short, LastSec

LEMMA RootDirType ==
    ASSUME Volume_Boot_Record_Addr \in Byte, NEW b \in [Pos -> Byte]
    PROVE  Root_Dir_Addr(b) \in Byte
<1>1. /\ BPB_RsvdSecCnt \in Pos /\ BPB_NumFATs \in Pos /\ BPB_FATSz16 \in Pos
  BY Numbers DEF BPB_RsvdSecCnt, BPB_NumFATs, BPB_FATSz16
<1>2. /\ b[BPB_RsvdSecCnt] \in Int /\ b[BPB_NumFATs] \in Int /\ b[BPB_FATSz16] \in Int
      /\ Volume_Boot_Record_Addr \in Int
  BY <1>1 DEF Byte
<1>3. \A x, y, z, w \in Int : x + y * z + w \in Int
  OBVIOUS
<1>4. b[BPB_RsvdSecCnt] + b[BPB_NumFATs] * b[BPB_FATSz16] + Volume_Boot_Record_Addr \in Int
  BY ONLY <1>2, <1>3, Zenon
<1> QED  BY ONLY <1>4, ByteArithmetic, Zenon DEF Root_Dir_Addr

LEMMA InitTypes == Init => Types
<1> SUFFICES ASSUME Init  PROVE Types
  OBVIOUS
<1>1. root \in Seq(Entries) /\ Len(root) \in 0..MaxEntries
  <2>1. CASE root \in UNION {[1..m -> Entries] : m \in 0..MaxEntries}
    <3>1. PICK m \in 0..MaxEntries : root \in [1..m -> Entries]
      BY <2>1
    <3>2. m \in Nat
      BY ImageAssumption, Numbers
    <3>3. root \in Seq(Entries) /\ Len(root) = m
      BY <3>1, <3>2
    <3> QED  BY <3>3
  <2>2. CASE root = <<>>
    <3>1. Len(root) = 0 /\ root \in Seq(Entries) /\ 0 \in 0..MaxEntries
      BY <2>2, ImageAssumption, Numbers
    <3> QED  BY <3>1
  <2> QED  BY <2>1, <2>2 DEF Init
<1>2. chain \in Chains \cup {<<2>>}
  BY DEF Init
<1>3. buffer \in [Pos -> Byte]
  <2>1. 0 \in Byte /\ EOF \in Byte
    BY DEF EOF, Byte
  <2> QED  BY <2>1 DEF Init, Stack
<1>4. Listing
  <2>1. IsSeq(<<>>) /\ Len(<<>>) = 0
    <3>1. <<>> \in Seq({})
      OBVIOUS
    <3> QED  BY <3>1 DEF IsSeq
  <2> QED  BY <2>1, ImageAssumption DEF Init, Listing
<1>5. TypeOK
  BY <1>3, ImageAssumption DEF Init, TypeOK, Byte
<1> QED  BY <1>1, <1>2, <1>4, <1>5 DEF Types, ImageOK

(* Of a step that leaves the card's contents and the list alone. *)
LEMMA Elsewhere ==
    ASSUME Types, UNCHANGED <<root, chain, n, want, list>>,
           pc' \in {"listed", "fat", "read"} \/ pc \notin {"listed", "fat", "read"}
    PROVE  ImageOK' /\ Listing'
<1>1. ImageOK'
  BY DEF Types, ImageOK
<1>2. Listing'
  BY DEF Types, Listing, IsSeq
<1> QED  BY <1>1, <1>2

LEMMA Cmd0Types == ASSUME Types, Cmd0  PROVE Types'
<1>1. ImageOK' /\ Listing'
  BY Elsewhere DEF Cmd0, image, dirVars
<1>2. TypeOK'
  BY ImageAssumption DEF Types, TypeOK, Cmd0, Repeat, image, global, dirVars
<1> QED  BY <1>1, <1>2 DEF Types

LEMMA Cmd1Types == ASSUME Types, Cmd1  PROVE Types'
<1>1. ImageOK' /\ Listing'
  BY Elsewhere DEF Cmd1, image, dirVars
<1>2. TypeOK'
  BY ImageAssumption DEF Types, TypeOK, Cmd1, Repeat, image, global, dirVars
<1> QED  BY <1>1, <1>2 DEF Types

LEMMA FAT_AddrTypes == ASSUME Types, FAT_Addr  PROVE Types'
<1>1. ImageOK' /\ Listing'
  BY Elsewhere DEF FAT_Addr, image, dirVars
<1>2. TypeOK'
  <2>1. CASE pc = "mbr"
    <3>1. PICK b \in Reads(0) : /\ mmc_read_sector(0, b) /\ buffer' = b
                                /\ Volume_Boot_Record_Addr' = b[0]
      BY <2>1 DEF FAT_Addr
    <3>2. b \in [Pos -> Byte] /\ b[0] \in Byte /\ fails' \in 0..MaxFails
      BY <3>1, ReadType
    <3>3. pc' = "vbr" /\ UNCHANGED <<ClusterSize, FAT_Offset, ClusterOffset, tries, card, list>>
      BY <2>1 DEF FAT_Addr, dirVars
    <3> QED  BY <3>1, <3>2, <3>3 DEF Types, TypeOK
  <2>2. CASE pc = "vbr"
    <3>1. PICK b \in VolumeReads : ReadVolume(b)
      BY <2>2 DEF FAT_Addr
    <3>2. buffer' = b /\ b \in [Pos -> Byte] /\ fails' \in 0..MaxFails
      BY <3>1, ReadType DEF ReadVolume, VolumeReads
    <3>3. pc' = "bpb" /\ UNCHANGED <<global, tries, card, list>>
      BY <2>2 DEF FAT_Addr, dirVars
    <3> QED  BY <3>2, <3>3 DEF Types, TypeOK, global
  <2> QED  BY <2>1, <2>2 DEF FAT_Addr
<1> QED  BY <1>1, <1>2 DEF Types

LEMMA Cluster_Data_StoreTypes == ASSUME Types, Cluster_Data_Store  PROVE Types'
<1>1. ImageOK' /\ Listing'
  BY Elsewhere DEF Cluster_Data_Store, image, dirVars
<1>2. TypeOK'
  <2>1. CASE pc = "bpb"
    <3>1. PICK b \in VolumeReads : /\ ReadVolume(b)
                                   /\ ClusterSize' = b[1] /\ FAT_Offset' = b[2]
                                   /\ ClusterOffset' = (b[0] * ENTRY) \div BlockSize
      BY <2>1 DEF Cluster_Data_Store, BPB_SecPerClus, BPB_RsvdSecCnt, BPB_BytesPerSec
    <3>2. /\ buffer' = b /\ b \in [Pos -> Byte] /\ fails' \in 0..MaxFails
          /\ b[0] \in Byte /\ b[1] \in Byte /\ b[2] \in Byte
      BY <3>1, ReadType DEF ReadVolume, VolumeReads
    <3>3. ClusterOffset' \in Nat
      BY ONLY <3>1, <3>2, ByteArithmetic
    <3>4. pc' = "offset" /\ UNCHANGED <<Volume_Boot_Record_Addr, tries, card, list>>
      BY <2>1 DEF Cluster_Data_Store, dirVars
    <3>5. ClusterSize' \in Byte /\ FAT_Offset' \in Byte /\ buffer' \in [Pos -> Byte]
      BY ONLY <3>1, <3>2
    <3> QED  BY <3>2, <3>3, <3>4, <3>5 DEF Types, TypeOK
  <2>2. CASE pc = "offset"
    <3>1. PICK b \in VolumeReads : /\ mmc_read_sector(Volume_Boot_Record_Addr, b)
                                   /\ ClusterOffset' = Short(ClusterOffset + Root_Dir_Addr(b))
      BY <2>2 DEF Cluster_Data_Store
    <3>2. b \in [Pos -> Byte] /\ fails' \in 0..MaxFails
      BY <3>1, ReadType DEF VolumeReads
    <3>3. ClusterOffset' \in Nat
      <4>1. Root_Dir_Addr(b) \in Byte /\ ClusterOffset \in Nat
        BY <3>2, RootDirType DEF Types, TypeOK
      <4>2. ClusterOffset + Root_Dir_Addr(b) \in Int
        BY ONLY <4>1 DEF Byte
      <4>3. ClusterOffset' \in Byte
        BY ONLY <3>1, <4>2, ByteArithmetic
      <4> QED  BY ONLY <4>3 DEF Byte
    <3>4. buffer' \in [Pos -> Byte]
      <4>1. 0 \in Byte /\ EOF \in Byte
        BY DEF EOF, Byte
      <4> QED  BY <2>2, <4>1 DEF Cluster_Data_Store, Stack
    <3>5. /\ pc' = "dir"
          /\ UNCHANGED <<Volume_Boot_Record_Addr, ClusterSize, FAT_Offset, tries, card, list>>
      BY <2>2 DEF Cluster_Data_Store, dirVars
    <3> QED  BY <3>2, <3>3, <3>4, <3>5 DEF Types, TypeOK
  <2> QED  BY <2>1, <2>2 DEF Cluster_Data_Store
<1> QED  BY <1>1, <1>2 DEF Types

LEMMA StartDirTypes == ASSUME Types, StartDir  PROVE Types'
<1>1. ImageOK' /\ Listing'
  BY Elsewhere DEF StartDir, image
<1>2. PICK b \in VolumeReads : ReadVolume(b)
  BY DEF StartDir
<1>3. buffer' = b /\ b \in [Pos -> Byte] /\ fails' \in 0..MaxFails
  BY <1>2, ReadType DEF ReadVolume, VolumeReads
<1>4. TypeOK'
  BY <1>3 DEF Types, TypeOK, StartDir, global
<1> QED  BY <1>1, <1>4 DEF Types

LEMMA ScanBlockTypes == ASSUME Types, ScanBlock  PROVE Types'
<1>1. PICK b \in Reads(blk) :
         /\ mmc_read_sector(blk, b)
         /\ \/ \E j \in Hits(b) : buffer' = StoreName(b, j) /\ Return(Dir_Entry(buffer', j))
            \/ ReturnNone /\ buffer' = b
            \/ pc' = "scan" /\ buffer' = b /\ UNCHANGED <<n, list, found>>
  BY DEF ScanBlock
<1>2. b \in Sectors /\ fails' \in 0..MaxFails
  BY <1>1, ReadType DEF Sectors
<1>3. buffer' \in Sectors
  BY <1>1, <1>2, StoreNameType DEF Hits
<1>4. ImageOK' /\ pc = "scan" /\ UNCHANGED <<want, global, tries, card>>
  BY DEF Types, ImageOK, ScanBlock, image
<1>5. /\ n \in Nat /\ IsSeq(list) /\ (want = <<>> => Len(list) = n /\ n < MaxList)
      /\ Len(list) <= MaxList /\ MaxList \in Nat
  BY <1>4, ImageAssumption DEF Types, Listing, TypeOK
<1>6. Listing' /\ Len(list') <= MaxList /\ pc' \in {"dir", "scan", "listed"}
  <2>1. CASE \E j \in Hits(b) : Return(Dir_Entry(buffer', j))
    <3>1. PICK e : Return(e)
      BY <2>1
    <3>0. CASE ReturnNone
      BY <3>0, <1>4, <1>5 DEF ReturnNone, Listing, IsSeq
    <3> SUFFICES ASSUME ~ReturnNone
                 PROVE  Listing' /\ Len(list') <= MaxList /\ pc' \in {"dir", "scan", "listed"}
      BY <3>0
    <3>2. IsSeq(Append(list, e)) /\ Len(Append(list, e)) = Len(list) + 1 /\ Len(list) \in Nat
      BY <1>5, Appended
    <3>3. CASE want = <<>>
      <4>1. /\ n' = n + 1 /\ list' = Append(list, e)
            /\ pc' = IF n' < MaxList THEN "dir" ELSE "listed"
        BY <3>1, <3>3 DEF Return
      <4>2. IsSeq(list)' /\ Len(list)' = n + 1 /\ n + 1 <= MaxList
        BY <4>1, <3>2, <3>3, <1>5 DEF IsSeq
      <4> QED  BY <4>1, <4>2, <1>4, <1>5 DEF Listing
    <3>4. CASE want # <<>>
      BY <3>1, <3>4, <1>4, <1>5 DEF Return, Listing, IsSeq
    <3> QED  BY <3>3, <3>4
  <2>2. CASE ReturnNone
    BY <2>2, <1>4, <1>5 DEF ReturnNone, Listing, IsSeq
  <2>3. CASE pc' = "scan" /\ UNCHANGED <<n, list, found>>
    BY <2>3, <1>4, <1>5 DEF Listing, IsSeq
  <2> QED  BY <1>1, <2>1, <2>2, <2>3
<1>7. TypeOK'
  BY <1>2, <1>3, <1>4, <1>6 DEF Types, TypeOK, Sectors, global
<1> QED  BY <1>4, <1>6, <1>7 DEF Types

LEMMA Load_FATTypes == ASSUME Types, Load_FAT  PROVE Types'
<1>1. ImageOK' /\ Listing'
  BY Elsewhere DEF Load_FAT, image, dirVars
<1> DEFINE addr == Short(cl \div BlockSize + Volume_Boot_Record_Addr + FAT_Offset)
<1>2. PICK b \in Reads(addr) :
         /\ IF addr # store THEN mmc_read_sector(addr, b) ELSE b = buffer /\ fails' = fails
         /\ buffer' = b
  BY DEF Load_FAT
<1> HIDE DEF addr
<1>3. buffer' \in [Pos -> Byte] /\ fails' \in 0..MaxFails
  <2>1. CASE addr # store
    BY <2>1, <1>2, ReadType
  <2>2. CASE addr = store
    BY <2>2, <1>2 DEF Types, TypeOK
  <2> QED  BY <2>1, <2>2
<1>4. TypeOK'
  BY <1>3 DEF Types, TypeOK, Load_FAT, global, dirVars
<1> QED  BY <1>1, <1>4 DEF Types

LEMMA ReadBlockTypes == ASSUME Types, ReadBlock  PROVE Types'
<1>1. ImageOK' /\ Listing'
  BY Elsewhere DEF ReadBlock, image, dirVars
<1>2. \E sec : \E b \in Reads(sec) : mmc_read_sector(sec, b) /\ buffer' = b
  BY DEF ReadBlock
<1>3. buffer' \in [Pos -> Byte] /\ fails' \in 0..MaxFails
  BY <1>2, ReadType
<1>4. TypeOK'
  BY <1>3 DEF Types, TypeOK, ReadBlock, global, dirVars
<1> QED  BY <1>1, <1>4 DEF Types

LEMMA ClientTypes ==
    ASSUME Types, Use \/ Client \/ HwInsert \/ HwReady \/ HwSilent  PROVE Types'
<1>1. CASE \E name \in Names : Search_File(name)
  <2>1. want' # <<>> /\ UNCHANGED <<root, chain, list>> /\ n' = 0
    BY <1>1 DEF Search_File, Names, image
  <2>2. ImageOK' /\ Listing'
    BY <2>1 DEF Types, ImageOK, Listing, IsSeq
  <2>3. TypeOK'
    BY <1>1 DEF Types, TypeOK, Search_File, global
  <2> QED  BY <2>2, <2>3 DEF Types
<1>2. CASE \E c \in 0..Len(chain) * SecPerClus - 1 : Read_File(c)
  <2>1. ImageOK' /\ Listing'
    BY <1>2, Elsewhere DEF Read_File, image, dirVars
  <2>2. TypeOK'
    BY <1>2 DEF Types, TypeOK, Read_File, global, dirVars
  <2> QED  BY <2>1, <2>2 DEF Types
<1>3. CASE Use
  <2>1. ImageOK' /\ Listing'
    BY <1>3, Elsewhere DEF Use, image, dirVars
  <2>2. TypeOK'
    BY <1>3 DEF Types, TypeOK, Use, global, dirVars
  <2> QED  BY <2>1, <2>2 DEF Types
<1>4. CASE HwInsert \/ HwReady \/ HwSilent
  <2>1. ImageOK' /\ Listing'
    BY <1>4, Elsewhere DEF HwInsert, HwReady, HwSilent, image, dirVars
  <2>2. TypeOK'
    BY <1>4 DEF Types, TypeOK, HwInsert, HwReady, HwSilent, global, dirVars
  <2> QED  BY <2>1, <2>2 DEF Types
<1> QED  BY <1>1, <1>2, <1>3, <1>4 DEF Client

LEMMA TypesStep == ASSUME Types, [Next]_vars  PROVE Types'
<1>1. CASE UNCHANGED vars
  BY <1>1 DEF Types, TypeOK, ImageOK, Listing, IsSeq, vars, image, global, dirVars, fatVars
<1>2. CASE Next
  BY <1>2, Cmd0Types, Cmd1Types, FAT_AddrTypes, Cluster_Data_StoreTypes, StartDirTypes,
     ScanBlockTypes, Load_FATTypes, ReadBlockTypes, ClientTypes DEF Next, Main
<1> QED  BY <1>1, <1>2

(* The types, for every card and every limit: what is read off the card is  *)
(* a buffer of bytes through Read_Dir_Ent's overwriting too, mmc_init never *)
(* counts past its limit, and main's list never grows past MaxList.         *)
THEOREM TypeCorrect == Spec => []TypeOK
<1>1. Spec => []Types
  BY InitTypes, TypesStep, PTL DEF Spec
<1>2. Types => TypeOK
  BY DEF Types
<1> QED  BY <1>1, <1>2, PTL

-----------------------------------------------------------------------------
(* Reading a file. *)

(* What Cluster_Data_Store has found out about the volume. *)
Geometry == fails = 0 =>
    /\ pc \notin {"cmd0", "cmd1", "mbr"} => Volume_Boot_Record_Addr = Volume
    /\ pc \notin {"cmd0", "cmd1", "mbr", "vbr", "bpb"} =>
          ClusterSize = SecPerClus /\ FAT_Offset = Rsvd
    /\ pc = "offset" => ClusterOffset = ENTRY
    /\ pc \in {"dir", "scan", "listed", "fat", "read"} => ClusterOffset = DataSec

(* Load_FAT is at cluster number link of the file, and the sector of the    *)
(* FAT that it believes to be in the buffer is there.                       *)
Walk == fails = 0 /\ pc \in {"fat", "read"} =>
    /\ k \in 0..Len(chain) * SecPerClus - 1
    /\ pc = "fat" => /\ link \in 0..k \div SecPerClus
                     /\ cl = chain[link + 1]
                     /\ store # 0 => buffer = Sector(store)

FileInv == Geometry /\ Walk /\ FileRight

(* The boot record and the boot sector of the volume. *)
LEMMA BootSectors ==
    /\ Sector(0)[0] = Volume
    /\ LET b == Sector(Volume)
       IN b[0] = BlockSize /\ b[1] = SecPerClus /\ b[2] = Rsvd /\ b[3] = 1 /\ b[4] = FATSz
<1>1. Sector(0) = MBR /\ Sector(Volume) = VBR
  BY Numbers DEF Sector, Volume, Rsvd
<1>2. MBR[0] = Volume
  BY Numbers DEF MBR
<1>3. \A p \in {0, 1, 2, 3, 4} : VBR[p] = <<BlockSize, SecPerClus, Rsvd, 1, FATSz>>[p + 1]
  BY Numbers DEF VBR
<1>4. /\ VBR[0] = BlockSize /\ VBR[1] = SecPerClus /\ VBR[2] = Rsvd /\ VBR[3] = 1
      /\ VBR[4] = FATSz
  <2> DEFINE v == <<BlockSize, SecPerClus, Rsvd, 1, FATSz>>
  <2>1. /\ v[0 + 1] = BlockSize /\ v[1 + 1] = SecPerClus /\ v[2 + 1] = Rsvd /\ v[3 + 1] = 1
        /\ v[4 + 1] = FATSz
    BY ONLY TRUE
  <2> HIDE DEF v
  <2> QED  BY ONLY <1>3, <2>1 DEF v
<1> QED  BY <1>1, <1>2, <1>4

(* The sector of the FAT that Load_FAT reads for a cluster holds its link. *)
LEMMA FatSector ==
    ASSUME NEW c \in 2..35
    PROVE  LET addr == Short(c \div BlockSize + Volume + Rsvd)
           IN addr \in 4..5 /\ Sector(addr)[c % BlockSize] = LinkOf(c)
<1> DEFINE addr == c \div 18 + 4
<1>1. addr \in 4..5 /\ c % 18 \in 0..17 /\ (addr - 4) * 18 + (c % 18) = c
  <2>1. c \div 18 \in 0..1 /\ c % 18 \in 0..17
    OBVIOUS
  <2>2. c = 18 * (c \div 18) + (c % 18)
    OBVIOUS
  <2>3. \A q \in 0..1, r \in 0..17 :
           c = 18 * q + r => q + 4 \in 4..5 /\ (q + 4 - 4) * 18 + r = c
    OBVIOUS
  <2> QED  BY <2>1, <2>2, <2>3
<1>2. Short(c \div BlockSize + Volume + Rsvd) = addr
  BY Numbers, <1>1 DEF Short, LastSec, Volume, Rsvd
<1> HIDE DEF addr
<1>3. Sector(addr) = [p \in Pos |-> LinkOf((addr - Volume - Rsvd) * BlockSize + p)]
  <2>1. Volume + Rsvd = 4 /\ Volume = 3 /\ RootSec = 6
    BY Numbers DEF Volume, Rsvd
  <2>2. addr # 0 /\ addr # Volume /\ addr \in Volume + Rsvd..RootSec - 1
        /\ addr \notin RootSec..DataSec - 1
    BY <1>1, <2>1
  <2> QED  BY <2>2 DEF Sector
<1>4. Sector(addr)[c % 18] = LinkOf((addr - 4) * 18 + (c % 18))
  <2>1. Sector(addr)[c % 18] = LinkOf((addr - Volume - Rsvd) * BlockSize + (c % 18))
    BY ONLY Numbers, <1>1, <1>3
  <2>2. addr - Volume - Rsvd = addr - 4 /\ BlockSize = 18
    BY <1>1, Numbers DEF Volume, Rsvd
  <2> QED  BY ONLY <2>1, <2>2, Zenon
<1> QED  BY <1>1, <1>2, <1>4, Numbers

(* The cluster of a block, and its place in the cluster. *)
LEMMA Quotient ==
    ASSUME NEW L \in Nat, NEW S \in Nat \ {0}, NEW x \in 0..L * S - 1
    PROVE  x \div S \in 0..L - 1 /\ x % S \in 0..S - 1
<1> DEFINE q == x \div S
           r == x % S
<1>1. q \in Int /\ r \in 0..S - 1 /\ x = S * q + r
  OBVIOUS
<1> HIDE DEF q, r
<1>2. q >= 0
  <2> SUFFICES ASSUME q <= -1  PROVE FALSE
    BY <1>1
  <2>1. S * q <= S * (-1)
    BY <1>1
  <2> QED  BY <1>1, <2>1
<1>3. q < L
  <2> SUFFICES ASSUME q >= L  PROVE FALSE
    BY <1>1
  <2>1. S * q >= S * L
    BY <1>1
  <2>2. S * L = L * S
    OBVIOUS
  <2> QED  BY <1>1, <2>1, <2>2
<1> QED  BY <1>1, <1>2, <1>3 DEF q, r

(* Every sector of a file is on the card. *)
LEMMA DataSector ==
    ASSUME ImageOK, NEW j \in 1..Len(chain), NEW r \in 0..SecPerClus - 1
    PROVE  (chain[j] - 2) * SecPerClus + DataSec + r \in 0..LastSec
<1> DEFINE c == chain[j]
<1>1. c \in 2..35 /\ 15 + (c - 1) * SecPerClus <= 256 /\ SecPerClus \in 1..255
  BY ChainFacts
<1> HIDE DEF c
<1>2. (c - 1) * SecPerClus = (c - 2) * SecPerClus + SecPerClus /\ (c - 2) * SecPerClus >= 0
  BY <1>1
<1>3. (c - 2) * SecPerClus \in Int
  BY <1>1
<1>4. \A x \in Int : x + SecPerClus <= 241 /\ x >= 0 => x + 15 + r \in 0..255
  BY <1>1
<1>5. (c - 2) * SecPerClus + SecPerClus <= 241
  BY <1>1, <1>2, <1>3
<1>6. (c - 2) * SecPerClus + 15 + r \in 0..255
  BY ONLY <1>2, <1>3, <1>4, <1>5
<1> QED  BY <1>6, Numbers DEF LastSec, c

LEMMA InitFile == Init => FileInv
  BY DEF Init, FileInv, Geometry, Walk, FileRight

(* Outside Read_File only the geometry matters. *)
LEMMA Outside ==
    ASSUME pc' \notin {"fat", "read"}, Geometry'
    PROVE  FileInv'
  BY DEF FileInv, Walk, FileRight

(* The steps of mmc_init. *)
LEMMA StartFile ==
    ASSUME Types, FileInv, Cmd0 \/ Cmd1
    PROVE  FileInv'
<1>1. pc' \in {"cmd0", "cmd1", "mbr"}
  BY DEF Cmd0, Cmd1, Repeat
<1> QED  BY <1>1, Outside DEF Geometry

(* The steps of Cluster_Data_Store find the geometry. *)
LEMMA FAT_AddrFile ==
    ASSUME Types, FileInv, FAT_Addr
    PROVE  FileInv'
<1>1. CASE pc = "mbr"
  <2>1. PICK b \in Reads(0) : mmc_read_sector(0, b) /\ Volume_Boot_Record_Addr' = b[0]
    BY <1>1 DEF FAT_Addr
  <2>2. fails' = 0 => b = Sector(0)
    BY <2>1, ReadType DEF LastSec
  <2>3. fails' = 0 => Volume_Boot_Record_Addr' = Volume
    BY <2>1, <2>2, BootSectors
  <2>4. pc' = "vbr"
    BY <1>1 DEF FAT_Addr
  <2> QED  BY <2>3, <2>4, Outside DEF Geometry
<1>2. CASE pc = "vbr"
  <2>1. PICK b \in VolumeReads : ReadVolume(b)
    BY <1>2 DEF FAT_Addr
  <2>2. fails' = 0 => fails = 0
    BY <2>1, ReadType DEF ReadVolume, VolumeReads
  <2>3. pc' = "bpb" /\ UNCHANGED Volume_Boot_Record_Addr
    BY <1>2 DEF FAT_Addr, global
  <2> QED  BY <1>2, <2>2, <2>3, Outside DEF FileInv, Geometry
<1> QED  BY <1>1, <1>2 DEF FAT_Addr

LEMMA Cluster_Data_StoreFile ==
    ASSUME Types, FileInv, Cluster_Data_Store
    PROVE  FileInv'
<1> DEFINE V == Sector(Volume)
<1>1. Volume \in 0..LastSec /\ V[0] = 18 /\ V[1] = SecPerClus /\ V[2] = Rsvd /\ V[3] = 1 /\ V[4] = 2
  BY BootSectors, Numbers DEF Volume, LastSec, FATSz
<1> HIDE DEF V
<1>2. CASE pc = "bpb"
  <2>1. PICK b \in VolumeReads : /\ ReadVolume(b)
                                 /\ ClusterSize' = b[1] /\ FAT_Offset' = b[2]
                                 /\ ClusterOffset' = (b[0] * ENTRY) \div BlockSize
    BY <1>2 DEF Cluster_Data_Store, BPB_SecPerClus, BPB_RsvdSecCnt, BPB_BytesPerSec
  <2>2. pc' = "offset" /\ UNCHANGED Volume_Boot_Record_Addr
    BY <1>2 DEF Cluster_Data_Store
  <2>3. SUFFICES ASSUME fails' = 0
                 PROVE  /\ Volume_Boot_Record_Addr = Volume
                        /\ ClusterSize' = SecPerClus /\ FAT_Offset' = Rsvd /\ ClusterOffset' = ENTRY
    BY <2>2, Outside DEF Geometry
  <2>4. fails = 0
    BY <2>1, <2>3, ReadType DEF ReadVolume, VolumeReads
  <2>5. Volume_Boot_Record_Addr = Volume
    BY <1>2, <2>4 DEF FileInv, Geometry
  <2>6. b = V
    BY <1>1, <2>1, <2>3, <2>5, ReadType DEF ReadVolume, VolumeReads, V
  <2>7. (18 * ENTRY) \div BlockSize = ENTRY
    BY Numbers
  <2> QED  BY <1>1, <2>1, <2>5, <2>6, <2>7
<1>3. CASE pc = "offset"
  <2>1. PICK b \in VolumeReads : /\ mmc_read_sector(Volume_Boot_Record_Addr, b)
                                 /\ ClusterOffset' = Short(ClusterOffset + Root_Dir_Addr(b))
    BY <1>3 DEF Cluster_Data_Store
  <2>2. pc' = "dir" /\ UNCHANGED <<Volume_Boot_Record_Addr, ClusterSize, FAT_Offset>>
    BY <1>3 DEF Cluster_Data_Store
  <2>3. SUFFICES ASSUME fails' = 0
                 PROVE  /\ Volume_Boot_Record_Addr = Volume /\ ClusterSize = SecPerClus
                        /\ FAT_Offset = Rsvd /\ ClusterOffset' = DataSec
    BY <2>2, Outside DEF Geometry
  <2>4. fails = 0
    BY <2>1, <2>3, ReadType DEF VolumeReads
  <2>5. /\ Volume_Boot_Record_Addr = Volume /\ ClusterSize = SecPerClus
        /\ FAT_Offset = Rsvd /\ ClusterOffset = ENTRY
    BY <1>3, <2>4 DEF FileInv, Geometry
  <2>6. b = V
    BY <1>1, <2>1, <2>3, <2>5, ReadType DEF VolumeReads, V
  <2>7. Root_Dir_Addr(b) = 6
    BY <1>1, <2>5, <2>6 DEF Root_Dir_Addr, Short, LastSec, Volume, Rsvd, BPB_RsvdSecCnt,
                            BPB_NumFATs, BPB_FATSz16
  <2>8. Short(ENTRY + 6) = DataSec
    BY Numbers DEF Short, LastSec
  <2> QED  BY <2>1, <2>5, <2>7, <2>8
<1> QED  BY <1>2, <1>3 DEF Cluster_Data_Store

(* Listing and searching leave the geometry alone. *)
LEMMA DirFile ==
    ASSUME Types, FileInv,
           StartDir \/ ScanBlock \/ Use \/ \E name \in Names : Search_File(name)
    PROVE  FileInv'
<1>1. /\ pc \in {"dir", "scan", "listed", "read"} /\ pc' \in {"dir", "scan", "listed"}
      /\ UNCHANGED global
  BY DEF StartDir, ScanBlock, Use, Search_File, Return, ReturnNone
<1>2. fails' = 0 => fails = 0
  BY ReadType DEF StartDir, ScanBlock, Use, Search_File, ReadVolume, VolumeReads
<1> QED  BY <1>1, <1>2, Outside DEF FileInv, Geometry, global

LEMMA Read_FileFile ==
    ASSUME Types, FileInv, NEW c \in 0..Len(chain) * SecPerClus - 1, Read_File(c)
    PROVE  FileInv'
<1>1. /\ pc = "listed" /\ pc' = "fat" /\ k' = c /\ link' = 0 /\ cl' = chain[1] /\ store' = 0
      /\ UNCHANGED <<root, chain, global, fails>>
  BY DEF Read_File, image
<1>2. Geometry'
  BY <1>1 DEF FileInv, Geometry, global
<1>3. 0 \in 0..c \div SecPerClus
  <2>1. Len(chain) \in Nat \ {0} /\ SecPerClus \in Nat \ {0}
    BY ChainShape DEF Types
  <2>2. c \div SecPerClus \in 0..Len(chain) - 1
    BY <2>1, Quotient
  <2> QED  BY <2>1, <2>2
<1>4. Walk'
  BY <1>1, <1>3 DEF Walk
<1>5. FileRight'
  BY <1>1 DEF FileRight
<1> QED  BY <1>2, <1>4, <1>5 DEF FileInv

(* What is known of the walk when no read was refused. *)
LEMMA WalkFacts ==
    ASSUME Types, FileInv, fails = 0, pc = "fat"
    PROVE  /\ Volume_Boot_Record_Addr = Volume /\ FAT_Offset = Rsvd
           /\ ClusterSize = SecPerClus /\ ClusterOffset = DataSec
           /\ k \in 0..Len(chain) * SecPerClus - 1
           /\ k \div SecPerClus \in 0..Len(chain) - 1 /\ k % SecPerClus \in 0..SecPerClus - 1
           /\ link \in 0..k \div SecPerClus /\ link + 1 \in 1..Len(chain)
           /\ cl = chain[link + 1] /\ cl \in 2..35 /\ cl # EOF
           /\ store # 0 => buffer = Sector(store)
<1>1. /\ Volume_Boot_Record_Addr = Volume /\ FAT_Offset = Rsvd
      /\ ClusterSize = SecPerClus /\ ClusterOffset = DataSec
  BY DEF FileInv, Geometry
<1>2. /\ k \in 0..Len(chain) * SecPerClus - 1
      /\ link \in 0..k \div SecPerClus /\ cl = chain[link + 1]
      /\ store # 0 => buffer = Sector(store)
  BY DEF FileInv, Walk
<1>3. /\ Len(chain) \in Nat \ {0} /\ SecPerClus \in Nat \ {0}
      /\ \A j \in 1..Len(chain) : chain[j] \in 2..35
  BY ChainShape DEF Types
<1>4. k \div SecPerClus \in 0..Len(chain) - 1 /\ k % SecPerClus \in 0..SecPerClus - 1
  BY ONLY <1>2, <1>3, Quotient
<1>5. \A q \in 0..Len(chain) - 1 : \A a \in 0..q : a + 1 \in 1..Len(chain)
  BY <1>3
<1>6. link + 1 \in 1..Len(chain)
  BY ONLY <1>2, <1>4, <1>5, Zenon
<1>7. cl \in 2..35 /\ cl # EOF
  <2>1. cl \in 2..35
    BY ONLY <1>2, <1>3, <1>6, Zenon
  <2> QED  BY ONLY <2>1 DEF EOF
<1> QED  BY <1>1, <1>2, <1>4, <1>6, <1>7

(* The next link: from the buffer, if it holds the right sector of the FAT. *)
LEMMA Load_FATFile ==
    ASSUME Types, FileInv, Load_FAT
    PROVE  FileInv'
<1> DEFINE addr == Short(cl \div BlockSize + Volume_Boot_Record_Addr + FAT_Offset)
<1>1. PICK b \in Reads(addr) :
         /\ IF addr # store THEN mmc_read_sector(addr, b) ELSE b = buffer /\ fails' = fails
         /\ store' = addr /\ buffer' = b /\ cl' = b[cl % BlockSize]
  BY DEF Load_FAT
<1>2. /\ pc = "fat" /\ pc' = "fat" /\ link' = link + 1 /\ link # k \div ClusterSize
      /\ UNCHANGED <<root, chain, global, k>>
  BY DEF Load_FAT, image
<1> HIDE DEF addr
<1>3. fails' = 0 => fails = 0
  <2>1. CASE addr # store
    BY <1>1, <2>1, ReadType
  <2>2. CASE addr = store
    BY <1>1, <2>2
  <2> QED  BY <2>1, <2>2
<1>4. Geometry'
  BY <1>2, <1>3 DEF FileInv, Geometry, global
<1>5. FileRight'
  BY <1>2 DEF FileRight
<1>6. Walk'
  <2> SUFFICES ASSUME fails' = 0
               PROVE  /\ k \in 0..Len(chain) * SecPerClus - 1
                      /\ link + 1 \in 0..k \div SecPerClus
                      /\ cl' = chain[link + 1 + 1]
                      /\ buffer' = (Sector(store))'
    BY <1>2 DEF Walk
  <2>1. fails = 0 /\ ImageOK
    BY <1>3 DEF Types
  <2>2. /\ Volume_Boot_Record_Addr = Volume /\ FAT_Offset = Rsvd /\ ClusterSize = SecPerClus
        /\ k \in 0..Len(chain) * SecPerClus - 1 /\ k \div SecPerClus \in 0..Len(chain) - 1
        /\ link \in 0..k \div SecPerClus /\ link + 1 \in 1..Len(chain)
        /\ cl = chain[link + 1] /\ cl \in 2..35
        /\ store # 0 => buffer = Sector(store)
    BY <1>2, <2>1, WalkFacts
  <2>3. addr \in 4..5 /\ Sector(addr)[cl % BlockSize] = LinkOf(cl)
    BY <2>2, FatSector DEF addr
  <2>4. b = Sector(addr)
    <3>1. CASE addr # store
      <4>1. addr \in 0..LastSec
        BY <2>3 DEF LastSec
      <4> QED  BY <1>1, <3>1, <4>1, ReadType
    <3>2. CASE addr = store
      BY <1>1, <2>2, <2>3, <3>2
    <3> QED  BY <3>1, <3>2
  <2>5. Len(chain) \in Nat
    BY <2>1, ChainFacts
  <2>6. \A q \in 0..Len(chain) - 1 : \A a \in 0..q :
           a # q => a + 1 \in 0..q /\ a + 1 \in 1..Len(chain) - 1
    BY <2>5
  <2>7. link + 1 \in 0..k \div SecPerClus /\ link + 1 \in 1..Len(chain) - 1
    BY ONLY <1>2, <2>2, <2>6, Zenon
  <2>8. cl' = chain[link + 1 + 1]
    BY <1>1, <2>1, <2>2, <2>3, <2>4, <2>7, NextLink
  <2>9. buffer' = (Sector(store))'
    <3>1. buffer' = Sector(store')
      BY <1>1, <2>4
    <3> QED  BY ONLY <3>1, <1>2 DEF Sector, LinkOf
  <2> QED  BY <2>2, <2>7, <2>8, <2>9
<1> QED  BY <1>4, <1>5, <1>6 DEF FileInv

(* The block itself. *)
LEMMA ReadBlockFile ==
    ASSUME Types, FileInv, ReadBlock
    PROVE  FileInv'
<1> DEFINE Block == IF link = k \div ClusterSize THEN cl ELSE k \div ClusterSize
           sec == (Block - 2) * ClusterSize + ClusterOffset + (k % ClusterSize)
<1>1. PICK b \in Reads(sec) : mmc_read_sector(sec, b) /\ buffer' = b
  BY DEF ReadBlock
<1>2. /\ pc = "fat" /\ pc' = "read" /\ (link = k \div ClusterSize \/ cl = EOF)
      /\ UNCHANGED <<root, chain, global, k>>
  BY DEF ReadBlock, image, fatVars
<1> HIDE DEF sec
<1>3. fails' = 0 => fails = 0
  BY <1>1, ReadType
<1>4. Geometry'
  BY <1>2, <1>3 DEF FileInv, Geometry, global
<1>5. Walk'
  BY <1>2, <1>3 DEF FileInv, Walk
<1>6. FileRight'
  <2> DEFINE s == DataSec + (chain[k \div SecPerClus + 1] - 2) * SecPerClus + (k % SecPerClus)
  <2>1. SUFFICES ASSUME fails' = 0  PROVE buffer' = Sector(s)
    <3>1. CASE fails' = 0
      BY ONLY <3>1, <2>1, <1>2 DEF FileRight, Sector, LinkOf
    <3>2. CASE fails' # 0
      BY <3>2 DEF FileRight
    <3> QED  BY <3>1, <3>2
  <2>2. fails = 0 /\ ImageOK
    BY <1>3, <2>1 DEF Types
  <2>3. /\ ClusterSize = SecPerClus /\ ClusterOffset = DataSec
        /\ k \div SecPerClus \in 0..Len(chain) - 1 /\ k % SecPerClus \in 0..SecPerClus - 1
        /\ link + 1 \in 1..Len(chain) /\ cl = chain[link + 1] /\ cl # EOF /\ cl \in 2..35
    BY <1>2, <2>2, WalkFacts
  <2>4. link = k \div SecPerClus
    BY <1>2, <2>3
  <2>5. sec = (chain[link + 1] - 2) * SecPerClus + DataSec + (k % SecPerClus)
    BY <2>3, <2>4 DEF sec
  <2>6. sec \in 0..LastSec
    BY ONLY <2>2, <2>3, <2>5, DataSector
  <2>7. sec = s
    <3>1. chain[k \div SecPerClus + 1] = cl /\ chain[link + 1] = cl
      BY ONLY <2>3, <2>4
    <3>2. (cl - 2) * SecPerClus \in Int /\ k % SecPerClus \in Int /\ DataSec \in Int
      BY <2>3, Numbers, ImageAssumption DEF Byte
    <3> QED  BY ONLY <2>5, <3>1, <3>2
  <2> HIDE DEF s
  <2>8. b = Sector(sec)
    BY <1>1, <2>1, <2>6, ReadType
  <2> QED  BY <1>1, <2>7, <2>8
<1> QED  BY <1>4, <1>5, <1>6 DEF FileInv

(* Steps that do not concern Read_File. *)
LEMMA SameFile ==
    ASSUME FileInv, UNCHANGED <<root, chain, pc, buffer, global, fatVars, fails>>
    PROVE  FileInv'
<1>1. Geometry'
  BY DEF FileInv, Geometry, global
<1>2. Walk'
  BY DEF FileInv, Walk, fatVars, Sector, LinkOf
<1>3. FileRight'
  BY DEF FileInv, FileRight, fatVars, Sector, LinkOf
<1> QED  BY <1>1, <1>2, <1>3 DEF FileInv

LEMMA FileStep == ASSUME Types, FileInv, [Next]_vars  PROVE FileInv'
<1>1. CASE HwInsert \/ HwReady \/ HwSilent \/ UNCHANGED vars
  BY <1>1, SameFile DEF HwInsert, HwReady, HwSilent, vars, image
<1>2. CASE Main
  BY <1>2, StartFile, FAT_AddrFile, Cluster_Data_StoreFile, DirFile, Load_FATFile, ReadBlockFile
     DEF Main
<1>3. CASE Client
  BY <1>3, DirFile, Read_FileFile DEF Client
<1> QED  BY <1>1, <1>2, <1>3 DEF Next

(* For every file whose clusters are on the card, however long it is and    *)
(* however its links jump, Read_File leaves the block it was asked for in   *)
(* the buffer, as long as the card refuses no read: Load_FAT's belief about *)
(* what the shared buffer holds is true whenever it relies on it.           *)
THEOREM FileRightHolds == Spec => []FileRight
<1>1. Spec => []Types
  BY InitTypes, TypesStep, PTL DEF Spec
<1>2. Spec => []FileInv
  BY <1>1, InitFile, FileStep, PTL DEF Spec
<1>3. FileInv => FileRight
  BY DEF FileInv
<1> QED  BY <1>2, <1>3, PTL

-----------------------------------------------------------------------------
(* The name that Read_Dir_Ent builds in the buffer. *)

(* The buffer b after the characters c have been written to its start. *)
Part(b, c) == [q \in Pos |-> IF q < Len(c) THEN c[q + 1] ELSE b[q]]
Written(b, c) == [buf |-> Part(b, c), p |-> Len(c)]

LEMMA PutIs ==
    ASSUME NEW b, NEW c \in Seq(Byte), Len(c) < 18, NEW x \in Byte
    PROVE  Put(Written(b, c), x) = Written(b, Append(c, x))
<1> DEFINE d == Append(c, x)
<1>1. /\ d \in Seq(Byte) /\ Len(d) = Len(c) + 1 /\ Len(c) \in 0..17
      /\ \A i \in 1..Len(c) : d[i] = c[i]
      /\ d[Len(c) + 1] = x
  <2>1. Len(c) \in Nat
    BY LenProperties
  <2>2. Len(c) \in 0..17
    <3>1. \A m \in Nat : m < 18 => m \in 0..17
      OBVIOUS
    <3> QED  BY ONLY <2>1, <3>1, Len(c) < 18, Zenon
  <2> QED  BY <2>2, AppendProperties
<1> HIDE DEF d
<1>2. [Part(b, c) EXCEPT ![Len(c)] = x] = Part(b, d)
  <2>1. ASSUME NEW q \in 0..17
        PROVE  [Part(b, c) EXCEPT ![Len(c)] = x][q] = Part(b, d)[q]
    <3>1. [Part(b, c) EXCEPT ![Len(c)] = x][q] = IF q = Len(c) THEN x ELSE Part(b, c)[q]
      BY Numbers DEF Part
    <3>2. Part(b, c)[q] = IF q < Len(c) THEN c[q + 1] ELSE b[q]
      BY Numbers DEF Part
    <3>3. Part(b, d)[q] = IF q < Len(d) THEN d[q + 1] ELSE b[q]
      BY Numbers DEF Part
    <3>4. q < Len(c) => d[q + 1] = c[q + 1]
      <4>1. \A l \in 0..17 : q < l => q + 1 \in 1..l
        OBVIOUS
      <4> QED  BY ONLY <1>1, <4>1, Zenon
    <3> QED  BY <1>1, <3>1, <3>2, <3>3, <3>4
  <2> QED  BY <2>1, Numbers DEF Part
<1> QED  BY <1>1, <1>2 DEF Put, Written, d

(* The string at the start of the buffer is what was written. *)
LEMMA StrIs ==
    ASSUME NEW b, NEW c \in Seq(Byte), Len(c) < 17, \A i \in 1..Len(c) : c[i] # 0
    PROVE  Str(Part(b, Append(c, 0))) = c
<1> DEFINE d == Append(c, 0)
           B == Part(b, d)
<1>1. /\ Len(d) = Len(c) + 1 /\ Len(c) \in 0..16
      /\ \A i \in 1..Len(c) : d[i] = c[i]
      /\ d[Len(c) + 1] = 0
  <2>1. 0 \in Byte
    BY DEF Byte
  <2>2. Len(c) \in Nat
    BY LenProperties
  <2>3. Len(c) \in 0..16
    <3>1. \A m \in Nat : m < 17 => m \in 0..16
      OBVIOUS
    <3> QED  BY ONLY <2>2, <3>1, Len(c) < 17, Zenon
  <2> QED  BY <2>1, <2>3, AppendProperties
<1> HIDE DEF d
<1>2. Len(c) \in Pos /\ B[Len(c)] = 0 /\ \A i \in 0..Len(c) - 1 : B[i] = c[i + 1] /\ B[i] # 0
  <2>1. \A q \in 0..17 : B[q] = IF q < Len(d) THEN d[q + 1] ELSE b[q]
    BY Numbers DEF Part
  <2> HIDE DEF B
  <2>2. Len(c) \in 0..17 /\ B[Len(c)] = 0
    BY <1>1, <2>1
  <2>3. \A i \in 0..Len(c) - 1 : i \in 0..17 /\ i < Len(d) /\ i + 1 \in 1..Len(c)
    BY <1>1
  <2>4. \A i \in 0..Len(c) - 1 : B[i] = c[i + 1] /\ c[i + 1] # 0
    BY <1>1, <2>1, <2>3
  <2> QED  BY <2>2, <2>4, Numbers
<1> HIDE DEF B
<1>3. ASSUME NEW z \in Pos, B[z] = 0, \A i \in 0..z - 1 : B[i] # 0
      PROVE  z = Len(c)
  <2>1. z \in 0..17 /\ Len(c) \in Nat
    BY <1>1, Numbers
  <2>2. ~(z < Len(c))
    BY <1>2, <1>3, <2>1
  <2>3. ~(z > Len(c))
    BY <1>2, <1>3, <2>1
  <2> QED  BY <2>1, <2>2, <2>3
<1>4. (CHOOSE z \in Pos : B[z] = 0 /\ \A i \in 0..z - 1 : B[i] # 0) = Len(c)
  BY <1>2, <1>3
<1>5. Str(B) = [i \in 1..Len(c) |-> B[i - 1]]
  BY <1>4 DEF Str
<1>6. \A i \in 1..Len(c) : B[i - 1] = c[i]
  <2>1. \A i \in 1..Len(c) : i - 1 \in 0..Len(c) - 1 /\ (i - 1) + 1 = i
    BY <1>1
  <2> QED  BY <1>2, <2>1
<1>7. c = [i \in 1..Len(c) |-> c[i]]
  OBVIOUS
<1> QED  BY <1>5, <1>6, <1>7 DEF B, d

(* A name as it is built: no character is the zero that ends it. *)
Text == Seq(Byte \ {0})
Size(c) == Len(c)

LEMMA TextType ==
    ASSUME NEW c \in Text
    PROVE  /\ c \in Seq(Byte) /\ Size(c) \in Nat /\ Size(c) = Len(c)
           /\ \A i \in 1..Size(c) : c[i] \in Byte \ {0}
<1>1. c \in Seq(Byte \ {0})
  BY DEF Text
<1>2. Len(c) \in Nat /\ \A i \in 1..Len(c) : c[i] \in Byte \ {0}
  BY <1>1, LenProperties, ElementOfSeq
<1>3. c \in Seq(Byte)
  BY <1>1
<1> QED  BY ONLY <1>2, <1>3, Zenon DEF Size

LEMMA AppendText ==
    ASSUME NEW c \in Text, NEW x \in Byte \ {0}
    PROVE  /\ Append(c, x) \in Text /\ Append(c, x) # <<>>
           /\ Size(Append(c, x)) = Size(c) + 1 /\ Append(c, x)[Size(c) + 1] = x
<1>1. c \in Seq(Byte \ {0})
  BY DEF Text
<1>2. /\ Append(c, x) \in Seq(Byte \ {0}) /\ Append(c, x) # <<>>
      /\ Len(Append(c, x)) = Len(c) + 1 /\ Append(c, x)[Len(c) + 1] = x
  BY <1>1, AppendProperties
<1> QED  BY ONLY <1>2, Zenon DEF Text, Size

LEMMA EmptyText == <<>> \in Text /\ Size(<<>>) = 0
  BY DEF Text, Size

(* A space of the slot is left out. *)
Add(c, x) == IF x = SPACE THEN c ELSE Append(c, x)

LEMMA AddType ==
    ASSUME NEW c \in Text, NEW x \in Byte \ {0}
    PROVE  /\ Add(c, x) \in Text
           /\ Size(Add(c, x)) = IF x = SPACE THEN Size(c) ELSE Size(c) + 1
  BY AppendText DEF Add

(* The buffer while a name is written to it. *)
LEMMA WrittenType ==
    ASSUME NEW b \in Sectors, NEW c \in Text
    PROVE  Written(b, c) \in Storing
<1>1. Size(c) \in Nat /\ \A i \in 1..Size(c) : c[i] \in Byte
  BY TextType
<1>2. \A q \in Pos : q < Size(c) => q + 1 \in 1..Size(c)
  BY <1>1, Numbers
<1>3. Part(b, c) = [q \in Pos |-> IF q < Size(c) THEN c[q + 1] ELSE b[q]]
  BY DEF Part, Size
<1>4. Part(b, c) \in [Pos -> Byte]
  BY <1>1, <1>2, <1>3 DEF Sectors
<1>5. Written(b, c) = [buf |-> Part(b, c), p |-> Size(c)]
  BY DEF Written, Size
<1> QED  BY ONLY <1>1, <1>4, <1>5 DEF Storing

LEMMA ReadWritten ==
    ASSUME NEW b, NEW c \in Text, NEW q \in 0..17
    PROVE  /\ q >= Size(c) => Written(b, c).buf[q] = b[q]
           /\ q < Size(c) => Written(b, c).buf[q] = c[q + 1]
<1>1. Part(b, c)[q] = IF q < Size(c) THEN c[q + 1] ELSE b[q]
  BY Numbers DEF Part, Size
<1>2. Size(c) \in Nat
  BY TextType
<1>3. Written(b, c).buf = Part(b, c)
  BY DEF Written
<1> QED  BY <1>1, <1>2, <1>3

LEMMA PutWritten ==
    ASSUME NEW b, NEW c \in Text, Size(c) <= 6, NEW x \in Byte
    PROVE  Put(Written(b, c), x) = Written(b, Append(c, x))
<1>1. c \in Seq(Byte) /\ Size(c) \in Nat /\ Len(c) = Size(c)
  BY TextType
<1>2. Size(c) < 18
  BY ONLY <1>1, Size(c) <= 6
<1>3. Len(c) < 18
  BY ONLY <1>1, <1>2, Zenon
<1> QED  BY <1>1, <1>3, PutIs

(* A character that is not the first of the extension is added as it is     *)
(* found in the buffer.                                                     *)
LEMMA AddIs ==
    ASSUME NEW b \in Sectors, NEW c \in Text, Size(c) <= 6, NEW j \in Slots, NEW i \in 0..4, i # NB,
           NEW x \in Byte \ {0}, Written(b, c).buf[j * ENTRY + i] = x
    PROVE  StoreChar(j, i)[Written(b, c)] = Written(b, Add(c, x))
<1> DEFINE st == Written(b, c)
<1>1. st \in Storing
  BY WrittenType
<1>2. Put(st, x) = Written(b, Append(c, x))
  BY PutWritten
<1> HIDE DEF st
<1>3. StoreChar(j, i)[st] = IF st.buf[j * ENTRY + i] = SPACE THEN st
                            ELSE Put(st, st.buf[j * ENTRY + i])
  BY <1>1, StoreCharIs
<1>4. st.buf[j * ENTRY + i] = x
  BY DEF st
<1> QED  BY <1>2, <1>3, <1>4 DEF Add, st

(* The first one: z is found, and w after the dot has been written. *)
Dotted(c, z, w) == IF z = SPACE THEN c ELSE Append(Append(c, DOT), w)

LEMMA DottedType ==
    ASSUME NEW c \in Text, NEW z, NEW w \in Byte \ {0}
    PROVE  /\ Dotted(c, z, w) \in Text
           /\ Size(Dotted(c, z, w)) = IF z = SPACE THEN Size(c) ELSE Size(c) + 2
           /\ z # SPACE => Dotted(c, z, w)[Size(c) + 2] = w
<1>1. DOT \in Byte \ {0}
  BY DEF DOT, Byte
<1> DEFINE d == Append(c, DOT)
<1>2. d \in Text /\ Size(d) = Size(c) + 1 /\ Size(c) \in Nat
  BY <1>1, AppendText, TextType
<1> HIDE DEF d
<1>3. Append(d, w) \in Text /\ Size(Append(d, w)) = Size(d) + 1 /\ Append(d, w)[Size(d) + 1] = w
  BY <1>2, AppendText
<1>4. Size(c) + 1 + 1 = Size(c) + 2
  BY <1>2
<1> QED  BY <1>2, <1>3, <1>4 DEF Dotted, d

LEMMA DottedIs ==
    ASSUME NEW b \in Sectors, NEW c \in Text, Size(c) <= 2, NEW j \in Slots,
           NEW z, Written(b, c).buf[j * ENTRY + 2] = z,
           NEW w \in Byte \ {0}, Written(b, Append(c, DOT)).buf[j * ENTRY + 2] = w
    PROVE  StoreChar(j, 2)[Written(b, c)] = Written(b, Dotted(c, z, w))
<1> DEFINE st == Written(b, c)
           dt == Written(b, Append(c, DOT))
<1>1. st \in Storing
  BY WrittenType
<1>2. DOT \in Byte \ {0} /\ DOT \in Byte /\ w \in Byte /\ Size(c) \in Nat
  BY TextType DEF DOT, Byte
<1>3. Append(c, DOT) \in Text /\ Size(Append(c, DOT)) = Size(c) + 1
  BY <1>2, AppendText
<1>4. Put(st, DOT) = dt
  BY <1>2, PutWritten
<1>5. Size(Append(c, DOT)) <= 6
  BY <1>2, <1>3
<1>6. Put(dt, w) = Written(b, Append(Append(c, DOT), w))
  BY <1>2, <1>3, <1>5, PutWritten
<1>7. st.buf[j * ENTRY + 2] = z /\ dt.buf[j * ENTRY + 2] = w
  OBVIOUS
<1> HIDE DEF st, dt
<1>8. StoreChar(j, 2)[st] = IF st.buf[j * ENTRY + 2] = SPACE THEN st
                            ELSE Put(Put(st, DOT), Put(st, DOT).buf[j * ENTRY + 2])
  BY <1>1, StoreCharIs DEF NB
<1> QED  BY <1>4, <1>6, <1>7, <1>8 DEF Dotted, st

(* The characters of a name: x, y and z are those of the slot; w, which     *)
(* takes the place of z, u and v are read while the name is written.        *)
Base(x, y) == Add(Add(<<>>, x), y)
Chars(x, y, z, w, u, v) == Add(Add(Dotted(Base(x, y), z, w), u), v)

LEMMA BaseType ==
    ASSUME NEW x \in Byte \ {0}, NEW y \in Byte \ {0}
    PROVE  /\ Add(<<>>, x) \in Text /\ Size(Add(<<>>, x)) \in 0..1
           /\ Base(x, y) \in Text /\ Size(Base(x, y)) \in 0..2
           /\ Size(Base(x, y)) = 2 <=> x # SPACE /\ y # SPACE
<1> DEFINE a == Add(<<>>, x)
<1>1. a \in Text /\ Size(a) = IF x = SPACE THEN 0 ELSE 1
  BY EmptyText, AddType
<1> HIDE DEF a
<1>2. Add(a, y) \in Text /\ Size(Add(a, y)) = IF y = SPACE THEN Size(a) ELSE Size(a) + 1
  BY <1>1, AddType
<1> QED  BY <1>1, <1>2 DEF Base, a

LEMMA CharsType ==
    ASSUME NEW c \in Text, NEW u \in Byte \ {0}, NEW v \in Byte \ {0}, NEW m \in Nat, Size(c) <= m
    PROVE  /\ Add(c, u) \in Text /\ Size(Add(c, u)) <= m + 1
           /\ Add(Add(c, u), v) \in Text /\ Size(Add(Add(c, u), v)) <= m + 2
<1>0. Size(c) \in Nat
  BY TextType
<1>1. Add(c, u) \in Text /\ Size(Add(c, u)) <= m + 1 /\ Size(Add(c, u)) \in Nat
  BY <1>0, AddType
<1> DEFINE d == Add(c, u)
<1> HIDE DEF d
<1>2. Add(d, v) \in Text /\ Size(Add(d, v)) <= m + 2
  BY <1>1, AddType DEF d
<1> QED  BY <1>1, <1>2 DEF d

(* When the name is not written over itself, these are the characters of    *)
(* the plain name.                                                          *)
LEMMA AddPlain ==
    ASSUME NEW c \in Text, NEW x \in Byte \ {0}
    PROVE  c \o Char(x) = Add(c, x)
<1>1. c \in Seq(Byte \ {0})
  BY DEF Text
<1>2. c \o <<>> = c /\ c \o <<x>> = Append(c, x)
  BY <1>1, ConcatEmptySeq, AppendIsConcat
<1> QED  BY <1>2 DEF Char, Add

LEMMA DottedPlain ==
    ASSUME NEW c \in Text, NEW z \in Byte \ {0}
    PROVE  c \o (IF z = SPACE THEN <<>> ELSE <<DOT, z>>) = Dotted(c, z, z)
<1>1. c \in Seq(Byte) /\ DOT \in Byte /\ z \in Byte
  BY TextType DEF DOT, Byte
<1>2. c \o <<>> = c
  BY <1>1, ConcatEmptySeq
<1>3. Append(<<DOT>>, z) = <<DOT, z>>
  <2>1. /\ <<DOT>> \in Seq(Byte) /\ Len(<<DOT>>) = 1 /\ <<DOT>>[1] = DOT
        /\ <<DOT, z>> \in Seq(Byte) /\ Len(<<DOT, z>>) = 2
        /\ <<DOT, z>>[1] = DOT /\ <<DOT, z>>[2] = z
    BY <1>1
  <2>2. /\ Append(<<DOT>>, z) \in Seq(Byte) /\ Len(Append(<<DOT>>, z)) = 2
        /\ Append(<<DOT>>, z)[1] = DOT /\ Append(<<DOT>>, z)[2] = z
    <3>1. 1 \in 1..Len(<<DOT>>) /\ Len(<<DOT>>) + 1 = 2
      BY <2>1
    <3> QED  BY ONLY <1>1, <2>1, <3>1, AppendProperties
  <2>3. \A i \in 1..2 : i = 1 \/ i = 2
    OBVIOUS
  <2>4. \A i \in 1..2 : Append(<<DOT>>, z)[i] = <<DOT, z>>[i]
    BY ONLY <2>1, <2>2, <2>3
  <2> QED  BY ONLY <2>1, <2>2, <2>4, SeqEqual
<1>4. <<DOT>> \in Seq(Byte) /\ <<z>> \in Seq(Byte)
  BY <1>1
<1>5. <<DOT>> \o <<z>> = <<DOT, z>>
  BY <1>1, <1>3, <1>4, AppendIsConcat
<1>6. (c \o <<DOT>>) \o <<z>> = c \o (<<DOT>> \o <<z>>)
  BY <1>1, <1>4, ConcatAssociative
<1>7. Append(c, DOT) = c \o <<DOT>> /\ Append(c, DOT) \in Seq(Byte)
  BY <1>1, AppendIsConcat
<1>8. Append(Append(c, DOT), z) = Append(c, DOT) \o <<z>>
  BY <1>1, <1>7, AppendIsConcat
<1> QED  BY <1>2, <1>5, <1>6, <1>7, <1>8 DEF Dotted

LEMMA PlainIs ==
    ASSUME NEW e, \A i \in 1..5 : e[i] \in Byte \ {0}
    PROVE  Plain(e) = Chars(e[1], e[2], e[3], e[3], e[4], e[5])
<1>1. /\ e[1] \in Byte \ {0} /\ e[2] \in Byte \ {0} /\ e[3] \in Byte \ {0}
      /\ e[4] \in Byte \ {0} /\ e[5] \in Byte \ {0}
  OBVIOUS
<1> DEFINE d == IF e[3] = SPACE THEN <<>> ELSE <<DOT, e[3]>>
           a1 == Add(<<>>, e[1])
           a2 == Base(e[1], e[2])
           a3 == Dotted(a2, e[3], e[3])
           a4 == Add(a3, e[4])
<1>2. a1 \in Text /\ a2 \in Text
  BY <1>1, BaseType
<1>3. Char(e[1]) = a1
  <2>1. Append(<<>>, e[1]) = <<e[1]>>
    OBVIOUS
  <2> QED  BY <2>1 DEF Char, Add
<1>4. a1 \o Char(e[2]) = a2
  BY <1>1, <1>2, AddPlain DEF Base
<1> HIDE DEF a1, a2
<1>5. a3 \in Text /\ a2 \o d = a3
  BY <1>1, <1>2, DottedType, DottedPlain
<1> HIDE DEF a3, d
<1>6. a4 \in Text /\ a3 \o Char(e[4]) = a4
  BY <1>1, <1>5, AddType, AddPlain
<1> HIDE DEF a4
<1>7. a4 \o Char(e[5]) = Add(a4, e[5])
  BY <1>1, <1>6, AddPlain
<1>8. Plain(e) = (((Char(e[1]) \o Char(e[2])) \o d) \o Char(e[4])) \o Char(e[5])
  BY DEF Plain, NB, NE, d
<1>9. Plain(e) = Add(a4, e[5])
  BY ONLY <1>3, <1>4, <1>5, <1>6, <1>7, <1>8
<1> QED  BY <1>9 DEF a4, a3, a2, Chars

(* What is stored of a slot with these characters.  In slot 0 the dot after *)
(* a full base is where the extension was, and each further character is    *)
(* read one place behind the last that was written.                         *)
Over(x, y, z, j) == j = 0 /\ x # SPACE /\ y # SPACE /\ z # SPACE
Taken(x, y, z, u, v, j) == IF Over(x, y, z, j) THEN Chars(x, y, z, DOT, DOT, DOT)
                           ELSE Chars(x, y, z, z, u, v)

(* The base of a name is stored before it can reach its own slot. *)
LEMMA BaseStored ==
    ASSUME NEW b \in Sectors, NEW j \in Slots, NEW x \in Byte \ {0}, NEW y \in Byte \ {0},
           b[j * ENTRY] = x, b[j * ENTRY + 1] = y
    PROVE  Stored(b, j, 2) = Written(b, Base(x, y))
<1> DEFINE at == j * ENTRY
           a == Add(<<>>, x)
<1>1. at \in {0, 9} /\ at + 0 = at /\ at \in 0..17 /\ at + 1 \in 0..17
  BY Numbers
<1>2. a \in Text /\ Size(a) \in 0..1
  BY BaseType
<1>3. Stored(b, j, 0) = Written(b, <<>>)
  <2>1. \A q \in 0..17 : Part(b, <<>>)[q] = b[q]
    BY Numbers DEF Part
  <2>2. Part(b, <<>>) = b
    BY <2>1, Numbers DEF Part, Sectors
  <2> QED  BY <2>2, StoredNext DEF Written
<1>4. StoreChar(j, 0)[Written(b, <<>>)] = Written(b, a)
  <2>1. Written(b, <<>>).buf[at] = x
    BY <1>1, EmptyText, ReadWritten
  <2>2. Written(b, <<>>).buf[at + 0] = x
    BY <1>1, <2>1
  <2>3. Size(<<>>) <= 6 /\ 0 \in 0..4 /\ 0 # NB
    BY EmptyText DEF NB
  <2> QED  BY <2>2, <2>3, EmptyText, AddIs
<1>5. StoreChar(j, 1)[Written(b, a)] = Written(b, Base(x, y))
  <2> HIDE DEF a
  <2>1. Size(a) <= at + 1 /\ Size(a) <= 6 /\ 1 \in 0..4 /\ 1 # NB
    BY <1>1, <1>2 DEF NB
  <2>2. Written(b, a).buf[at + 1] = y
    BY <1>1, <1>2, <2>1, ReadWritten
  <2>3. StoreChar(j, 1)[Written(b, a)] = Written(b, Add(a, y))
    BY <1>2, <2>1, <2>2, AddIs
  <2> QED  BY <2>3 DEF Base, a
<1> QED  BY <1>3, <1>4, <1>5, StoredNext

(* Two more characters after c, each where the buffer has it. *)
LEMMA RestStored ==
    ASSUME NEW b \in Sectors, NEW j \in Slots, NEW c \in Text, Size(c) <= 4,
           Stored(b, j, 3) = Written(b, c),
           NEW u \in Byte \ {0}, Written(b, c).buf[j * ENTRY + 3] = u,
           NEW v \in Byte \ {0}, Written(b, Add(c, u)).buf[j * ENTRY + 4] = v
    PROVE  StoreName(b, j) = Part(b, Append(Add(Add(c, u), v), 0))
<1>1. Size(c) \in Nat /\ Size(c) <= 6 /\ 3 \in 0..4 /\ 4 \in 0..4 /\ 3 # NB /\ 4 # NB /\ 0 \in Byte
  BY TextType DEF NB, Byte
<1>2. Stored(b, j, 4) = Written(b, Add(c, u))
  BY <1>1, AddIs, StoredNext
<1> DEFINE d == Add(c, u)
<1>3. d \in Text /\ Size(d) <= 5 /\ Size(d) \in Nat
  <2>1. d \in Text /\ Size(d) = IF u = SPACE THEN Size(c) ELSE Size(c) + 1
    BY AddType
  <2> HIDE DEF d
  <2> QED  BY ONLY <1>1, <2>1, Size(c) <= 4
<1> HIDE DEF d
<1>4. Stored(b, j, 5) = Written(b, Add(d, v))
  <2>1. Size(d) <= 6
    BY <1>3
  <2>2. StoreChar(j, 4)[Written(b, d)] = Written(b, Add(d, v))
    BY <1>1, <1>3, <2>1, AddIs DEF d
  <2> QED  BY <1>2, <2>2, StoredNext DEF d
<1> DEFINE f == Add(d, v)
<1>5. f \in Text /\ Size(f) <= 6
  BY <1>3, AddType
<1> HIDE DEF f
<1>6. Put(Written(b, f), 0) = Written(b, Append(f, 0))
  BY <1>1, <1>5, PutWritten
<1> QED  BY <1>4, <1>6, StoreNameIs DEF Written, f, d

LEMMA StoredIs ==
    ASSUME NEW b \in Sectors, NEW j \in Slots, NEW x \in Byte \ {0}, NEW y \in Byte \ {0},
           NEW z \in Byte \ {0}, NEW u \in Byte \ {0}, NEW v \in Byte \ {0},
           b[j * ENTRY] = x, b[j * ENTRY + 1] = y, b[j * ENTRY + 2] = z,
           b[j * ENTRY + 3] = u, b[j * ENTRY + 4] = v
    PROVE  StoreName(b, j) = Part(b, Append(Taken(x, y, z, u, v, j), 0))
<1> DEFINE at == j * ENTRY
           c == Base(x, y)
           d == Append(c, DOT)
<1>1. /\ at \in {0, 9} /\ at + 2 \in 0..17 /\ at + 3 \in 0..17 /\ at + 4 \in 0..17
      /\ j = 0 <=> at = 0
  BY Numbers
<1>2. c \in Text /\ Size(c) \in 0..2 /\ (Size(c) = 2 <=> x # SPACE /\ y # SPACE)
  BY BaseType
<1>3. Stored(b, j, 2) = Written(b, c)
  BY BaseStored
<1>4. DOT \in Byte \ {0}
  BY DEF DOT, Byte
<1>5. b[at + 2] = z /\ b[at + 3] = u /\ b[at + 4] = v
  OBVIOUS
<1> HIDE DEF c
<1>6. d \in Text /\ Size(d) = Size(c) + 1 /\ d[Size(c) + 1] = DOT
  BY <1>2, <1>4, AppendText
<1>7. Written(b, c).buf[at + 2] = z
  <2>1. at + 2 >= Size(c)
    BY <1>1, <1>2
  <2> QED  BY <1>1, <1>2, <1>5, <2>1, ReadWritten
<1> HIDE DEF d
<1>8. CASE Over(x, y, z, j)
  <2> DEFINE f == Dotted(c, z, DOT)
             g == Add(f, DOT)
  <2>1. at = 0 /\ Size(c) = 2 /\ z # SPACE
    BY <1>1, <1>2, <1>8 DEF Over
  <2>2. Written(b, d).buf[at + 2] = DOT
    <3>1. at + 2 < Size(d) /\ at + 2 + 1 = Size(c) + 1
      BY <1>6, <2>1
    <3> QED  BY <1>1, <1>6, <3>1, ReadWritten
  <2>3. Stored(b, j, 3) = Written(b, f)
    <3>1. Size(c) <= 2
      BY <1>2
    <3>2. StoreChar(j, 2)[Written(b, c)] = Written(b, f)
      BY <1>2, <1>4, <1>7, <2>2, <3>1, DottedIs DEF d
    <3> QED  BY <1>3, <3>2, StoredNext
  <2>4. f \in Text /\ Size(f) = 4 /\ f[4] = DOT
    <3>1. f \in Text /\ Size(f) = Size(c) + 2 /\ f[Size(c) + 2] = DOT
      BY <1>2, <1>4, <2>1, DottedType
    <3>2. Size(c) + 2 = 4
      BY <2>1
    <3> HIDE DEF f
    <3> QED  BY <3>1, <3>2
  <2> HIDE DEF f
  <2>5. Written(b, f).buf[at + 3] = DOT
    <3>1. at + 3 < Size(f) /\ at + 3 + 1 = 4
      BY <2>1, <2>4
    <3> QED  BY <1>1, <2>4, <3>1, ReadWritten
  <2>6. g \in Text /\ Size(g) = 5 /\ g[5] = DOT
    <3>1. g = Append(f, DOT)
      BY DEF Add, DOT, SPACE
    <3>2. g \in Text /\ Size(g) = Size(f) + 1 /\ g[Size(f) + 1] = DOT
      <4>1. /\ Append(f, DOT) \in Text /\ Size(Append(f, DOT)) = Size(f) + 1
            /\ Append(f, DOT)[Size(f) + 1] = DOT
        BY ONLY <1>4, <2>4, AppendText
      <4> QED  BY ONLY <3>1, <4>1, Zenon
    <3>3. Size(f) + 1 = 5
      BY <2>4
    <3> HIDE DEF g
    <3> QED  BY <3>2, <3>3
  <2> HIDE DEF g
  <2>7. Written(b, g).buf[at + 4] = DOT
    <3>1. at + 4 < Size(g) /\ at + 4 + 1 = 5
      BY <2>1, <2>6
    <3> QED  BY <1>1, <2>6, <3>1, ReadWritten
  <2>8. Size(f) <= 4
    BY <2>4
  <2>9. StoreName(b, j) = Part(b, Append(Add(Add(f, DOT), DOT), 0))
    BY <1>4, <2>3, <2>4, <2>5, <2>7, <2>8, RestStored DEF g
  <2> QED  BY <1>8, <2>9 DEF Taken, Chars, f, c
<1>9. CASE ~Over(x, y, z, j)
  <2> DEFINE f == Dotted(c, z, z)
             g == Add(f, u)
  <2>1. Stored(b, j, 3) = Written(b, f)
    <3>1. Size(c) <= 2
      BY <1>2
    <3>2. CASE z = SPACE
      <4> DEFINE st == Written(b, c)
      <4>1. st \in Storing /\ st.buf[at + 2] = SPACE
        BY <1>2, <1>7, <3>2, WrittenType
      <4> HIDE DEF st
      <4>2. StoreChar(j, 2)[st] = st
        BY <4>1, StoreCharIs
      <4> QED  BY <1>3, <3>2, <4>2, StoredNext DEF Dotted, st
    <3>3. CASE z # SPACE
      <4>1. at + 2 >= Size(d)
        BY <1>1, <1>2, <1>6, <1>9, <3>3 DEF Over
      <4>2. Written(b, d).buf[at + 2] = z
        BY <1>1, <1>5, <1>6, <4>1, ReadWritten
      <4>3. StoreChar(j, 2)[Written(b, c)] = Written(b, f)
        BY <1>2, <1>7, <3>1, <4>2, DottedIs DEF d
      <4> QED  BY <1>3, <4>3, StoredNext
    <3> QED  BY <3>2, <3>3
  <2>2. f \in Text /\ Size(f) = IF z = SPACE THEN Size(c) ELSE Size(c) + 2
    BY <1>2, DottedType
  <2>3. Size(f) <= at + 3 /\ Size(f) <= 4 /\ Size(f) \in Nat
    <3>1. at = 0 /\ z # SPACE => Size(c) # 2
      BY <1>1, <1>2, <1>9 DEF Over
    <3> HIDE DEF f
    <3> QED  BY <1>1, <1>2, <2>2, <3>1
  <2> HIDE DEF f
  <2>4. Written(b, f).buf[at + 3] = u
    <3>1. at + 3 >= Size(f)
      BY <1>1, <2>3
    <3> QED  BY <1>1, <1>5, <2>2, <3>1, ReadWritten
  <2>5. g \in Text /\ Size(g) <= at + 4
    <3>1. g \in Text /\ Size(g) = IF u = SPACE THEN Size(f) ELSE Size(f) + 1
      BY <2>2, AddType
    <3> HIDE DEF g
    <3> QED  BY <1>1, <2>3, <3>1
  <2> HIDE DEF g
  <2>6. Written(b, g).buf[at + 4] = v
    <3>1. at + 4 >= Size(g)
      BY <1>1, <2>5, TextType
    <3> QED  BY <1>1, <1>5, <2>5, <3>1, ReadWritten
  <2>7. StoreName(b, j) = Part(b, Append(Add(Add(f, u), v), 0))
    BY <2>1, <2>2, <2>3, <2>4, <2>6, RestStored DEF g
  <2> QED  BY <1>9, <2>7 DEF Taken, Chars, f, c
<1> QED  BY <1>8, <1>9

-----------------------------------------------------------------------------
(* Reading the directory. *)

Starting == {"cmd0", "cmd1", "mbr", "vbr", "bpb", "offset"}
After == {"listed", "fat", "read"}

(* The number of slots before block blk of the directory. *)
Slot == 2 * (blk - RootSec)

(* What has been listed is right. *)
Listed == \A i \in 1..Len(list) : \E j \in Files : Rank(j) = i /\ Describes(list[i], j)
ListDone == Len(list) = Least(Cardinality(Files), MaxList) /\ Listed

Seen(r) == {j \in Files : Rank(j) <= r /\ Plain(root[j]) = want /\ ~OverName(j)}
SearchDone == LET seen == Seen(MaxSearch)
              IN IF seen = {} THEN found = IF Cardinality(Files) < MaxSearch THEN <<0>> ELSE <<2>>
                 ELSE \E j \in seen : /\ \A h \in seen : j <= h
                                      /\ found = <<1, root[j][CLUS]>>

DirInv == fails = 0 =>
    /\ want \in Names \cup {<<>>}
    /\ pc \in Starting => want = <<>> /\ n = 0 /\ list = <<>>
    /\ pc \in {"dir", "scan"} => n <= Cardinality(Files)
    /\ pc = "scan" => /\ blk \in RootSec..DataSec - 1 /\ Slot <= Len(root)
                      /\ count = Rank(Slot) /\ count <= n
    /\ pc \in {"dir", "scan"} /\ want = <<>> => Listed
    /\ pc \in After \/ want # <<>> => ListDone
    /\ pc \in {"dir", "scan"} /\ want # <<>> => n < MaxSearch /\ Seen(n) = {}
    /\ pc \in After /\ want # <<>> => SearchDone

(* The slots of the card's root directory. *)
LEMMA EntryFacts ==
    ASSUME NEW e \in Entries
    PROVE  e \in [1..8 -> Byte] /\ \A i \in 1..5 : e[i] \in Byte \ {0, DOT}
<1>1. e \in [1..8 -> Byte] /\ \A i \in 1..5 : e[i] \notin {0, DOT}
  BY ImageAssumption, Numbers
<1>2. \A i \in 1..5 : i \in 1..8
  OBVIOUS
<1>3. \A i \in 1..5 : e[i] \in Byte
  BY ONLY <1>1, <1>2, Zenon
<1> QED  BY <1>1, <1>3

LEMMA RootFacts ==
    ASSUME ImageOK
    PROVE  /\ Len(root) \in 0..17
           /\ \A q \in 1..Len(root) : /\ root[q] \in [1..8 -> Byte]
                                      /\ \A i \in 1..5 : root[q][i] \in Byte \ {0, DOT}
<1>1. Len(root) \in 0..17
  <2>1. MaxEntries \in 0..17
    BY ImageAssumption, Numbers
  <2>2. \A m \in 0..17 : 0..m \subseteq 0..17
    OBVIOUS
  <2> QED  BY <2>1, <2>2, Zenon DEF ImageOK
<1>2. \A q \in 1..Len(root) : root[q] \in Entries
  BY ElementOfSeq DEF ImageOK
<1> QED  BY <1>1, <1>2, EntryFacts

LEMMA DirSector ==
    ASSUME NEW s \in 6..14, NEW j \in Slots, NEW p \in 0..8
    PROVE  LET q == 2 * (s - 6) + j + 1
           IN Sector(s)[j * ENTRY + p] = IF q <= Len(root) THEN EntryByte(root[q], p) ELSE 0
<1> DEFINE D(x) == LET i == 2 * (s - RootSec) + x \div ENTRY + 1
                   IN IF i <= Len(root) THEN EntryByte(root[i], x % ENTRY) ELSE 0
           y == j * 9 + p
<1>1. Sector(s) = [x \in Pos |-> D(x)]
  <2>1. /\ s # 0 /\ s # Volume /\ s \notin Volume + Rsvd..RootSec - 1 /\ s \in RootSec..DataSec - 1
    BY Numbers DEF Volume, Rsvd
  <2> QED  BY ONLY <2>1 DEF Sector
<1>2. y \in Pos /\ y \div ENTRY = j /\ y % ENTRY = p /\ RootSec = 6 /\ j * ENTRY + p = y
  BY Numbers
<1> HIDE DEF y
<1>3. D(y) = LET q == 2 * (s - 6) + j + 1
             IN IF q <= Len(root) THEN EntryByte(root[q], p) ELSE 0
  BY ONLY <1>2
<1> HIDE DEF D
<1> QED  BY ONLY <1>1, <1>2, <1>3

(* The bytes of slot j of a sector are those of an entry. *)
Holds(b, j, e) ==
    /\ b[j * ENTRY] = e[1] /\ b[j * ENTRY + 1] = e[2] /\ b[j * ENTRY + 2] = e[3]
    /\ b[j * ENTRY + 3] = e[4] /\ b[j * ENTRY + 4] = e[5]
    /\ b[j * ENTRY + ATTR] = e[ATTR + 1]
    /\ b[j * ENTRY + CLUS] = e[CLUS] /\ b[j * ENTRY + SIZE] = e[SIZE]

(* The slots a sector of the directory has, and those in use among them. *)
LEMMA SlotIs ==
    ASSUME ImageOK, NEW s \in 6..14, NEW j \in Slots
    PROVE  LET q == 2 * (s - 6) + j + 1
               b == Sector(s)
           IN /\ b[j * ENTRY] = 0 <=> q > Len(root)
              /\ q <= Len(root) => /\ q \in 1..Len(root) /\ (Live(b, j) <=> q \in Used)
                                   /\ Holds(b, j, root[q])
<1> DEFINE q == 2 * (s - 6) + j + 1
           b == Sector(s)
           at == j * ENTRY
<1>1. \A p \in 0..8 : b[at + p] = IF q <= Len(root) THEN EntryByte(root[q], p) ELSE 0
  BY DirSector
<1>2. at + 0 = at
  BY Numbers
<1>3. q \in Nat \ {0} /\ Len(root) \in Nat
  BY Numbers, RootFacts
<1> HIDE DEF q, b, at
<1>4. b[at] = IF q <= Len(root) THEN EntryByte(root[q], 0) ELSE 0
  BY <1>1, <1>2
<1>5. \A e : /\ EntryByte(e, 0) = e[1] /\ EntryByte(e, 1) = e[2] /\ EntryByte(e, 2) = e[3]
             /\ EntryByte(e, 3) = e[4] /\ EntryByte(e, 4) = e[5] /\ EntryByte(e, 5) = e[6]
             /\ EntryByte(e, 7) = e[7] /\ EntryByte(e, 8) = e[8]
  BY Numbers DEF EntryByte
<1>6. CASE q <= Len(root)
  <2>1. q \in 1..Len(root)
    BY <1>3, <1>6
  <2>2. root[q][1] # 0
    <3>1. 1 \in 1..5
      OBVIOUS
    <3> QED  BY <2>1, <3>1, RootFacts
  <2>3. /\ b[at] = root[q][1] /\ b[at + 1] = root[q][2] /\ b[at + 2] = root[q][3]
        /\ b[at + 3] = root[q][4] /\ b[at + 4] = root[q][5] /\ b[at + 5] = root[q][6]
        /\ b[at + 7] = root[q][7] /\ b[at + 8] = root[q][8]
    <3>1. \A p \in 0..8 : b[at + p] = EntryByte(root[q], p)
      BY ONLY <1>1, <1>6
    <3>2. b[at] = EntryByte(root[q], 0)
      BY ONLY <1>4, <1>6
    <3>3. /\ b[at + 1] = EntryByte(root[q], 1) /\ b[at + 2] = EntryByte(root[q], 2)
          /\ b[at + 3] = EntryByte(root[q], 3) /\ b[at + 4] = EntryByte(root[q], 4)
          /\ b[at + 5] = EntryByte(root[q], 5) /\ b[at + 7] = EntryByte(root[q], 7)
          /\ b[at + 8] = EntryByte(root[q], 8)
      BY ONLY <3>1
    <3> QED  BY ONLY <1>5, <3>2, <3>3
  <2>4. Holds(b, j, root[q])
    BY <2>3, Numbers DEF Holds, at
  <2>5. Live(b, j) <=> q \in Used
    <3>1. DOMAIN root = 1..Len(root)
      BY LenProperties DEF ImageOK
    <3> QED  BY ONLY <2>1, <2>4, <3>1 DEF Live, Used, Holds
  <2> QED  BY <1>3, <1>6, <2>1, <2>2, <2>3, <2>4, <2>5 DEF q, b, at
<1>7. CASE ~(q <= Len(root))
  BY <1>3, <1>4, <1>7 DEF q, b, at
<1> QED  BY <1>6, <1>7

(* The end of a name, if it has any character. *)
DotAtEnd(c) == c # <<>> /\ c[Size(c)] = DOT

LEMMA AddEnd ==
    ASSUME NEW c \in Text, NEW x \in Byte \ {0}, NEW z
    PROVE  /\ x # DOT /\ ~DotAtEnd(c) => ~DotAtEnd(Add(c, x))
           /\ DotAtEnd(Add(c, DOT))
           /\ z # SPACE /\ x # DOT => ~DotAtEnd(Dotted(c, z, x))
<1>1. DOT \in Byte \ {0} /\ DOT # SPACE
  BY DEF DOT, SPACE, Byte
<1>2. \A d \in Text, v \in Byte \ {0} : /\ Append(d, v) \in Text
                                        /\ DotAtEnd(Append(d, v)) <=> v = DOT
  BY AppendText DEF DotAtEnd
<1>3. x # DOT /\ ~DotAtEnd(c) => ~DotAtEnd(Add(c, x))
  BY ONLY <1>2, c \in Text, x \in Byte \ {0} DEF Add
<1>4. DotAtEnd(Add(c, DOT))
  BY ONLY <1>1, <1>2, c \in Text, Zenon DEF Add
<1>5. z # SPACE /\ x # DOT => ~DotAtEnd(Dotted(c, z, x))
  BY ONLY <1>1, <1>2, c \in Text, x \in Byte \ {0} DEF Dotted
<1> QED  BY ONLY <1>3, <1>4, <1>5, Zenon

(* No name that is searched for ends in a dot. *)
LEMMA NameEnd ==
    ASSUME NEW name \in Names
    PROVE  ~DotAtEnd(name)
<1>1. CASE name = <<1>>
  <2>1. Size(name) = 1 /\ name[1] # DOT
    BY <1>1 DEF Size, DOT
  <2>2. name[Size(name)] # DOT
    BY ONLY <2>1
  <2> QED  BY ONLY <2>2 DEF DotAtEnd
<1>2. CASE \E e \in Entries : name = Plain(e)
  <2>1. PICK e \in Entries : name = Plain(e)
    BY <1>2
  <2>2. \A i \in 1..5 : e[i] \in Byte \ {0} /\ e[i] # DOT
    BY EntryFacts
  <2>3. /\ e[1] \in Byte \ {0} /\ e[2] \in Byte \ {0} /\ e[3] \in Byte \ {0}
        /\ e[4] \in Byte \ {0} /\ e[5] \in Byte \ {0}
        /\ e[1] # DOT /\ e[2] # DOT /\ e[3] # DOT /\ e[4] # DOT /\ e[5] # DOT
    BY <2>2
  <2> DEFINE a == Add(<<>>, e[1])
             c == Base(e[1], e[2])
             d == Dotted(c, e[3], e[3])
             f == Add(d, e[4])
  <2>4. a \in Text /\ ~DotAtEnd(a)
    <3>1. ~DotAtEnd(<<>>)
      BY DEF DotAtEnd
    <3> QED  BY <2>3, <3>1, EmptyText, AddEnd, AddType
  <2> HIDE DEF a
  <2>5. c \in Text /\ ~DotAtEnd(c)
    BY <2>3, <2>4, AddEnd, AddType DEF Base, a
  <2> HIDE DEF c
  <2>6. d \in Text /\ ~DotAtEnd(d)
    <3>1. e[3] = SPACE => d = c
      BY DEF Dotted
    <3>2. e[3] # SPACE => ~DotAtEnd(d)
      BY <2>3, <2>5, AddEnd
    <3> QED  BY <2>3, <2>5, <3>1, <3>2, DottedType
  <2> HIDE DEF d
  <2>7. f \in Text /\ ~DotAtEnd(f)
    BY <2>3, <2>6, AddEnd, AddType
  <2> HIDE DEF f
  <2>8. ~DotAtEnd(Add(f, e[5]))
    BY <2>3, <2>7, AddEnd
  <2>9. name = Add(f, e[5])
    BY <2>1, <2>2, PlainIs DEF Chars, f, d, c
  <2> QED  BY <2>8, <2>9
<1> QED  BY <1>1, <1>2 DEF Names

(* What is stored of a name, and where it ends. *)
LEMMA TakenType ==
    ASSUME NEW x \in Byte \ {0}, NEW y \in Byte \ {0}, NEW z \in Byte \ {0},
           NEW u \in Byte \ {0}, NEW v \in Byte \ {0}, NEW j
    PROVE  /\ Taken(x, y, z, u, v, j) \in Text /\ Size(Taken(x, y, z, u, v, j)) \in 0..6
           /\ Over(x, y, z, j) => DotAtEnd(Taken(x, y, z, u, v, j))
<1>1. DOT \in Byte \ {0}
  BY DEF DOT, Byte
<1>2. Base(x, y) \in Text /\ Size(Base(x, y)) \in 0..2
  BY BaseType
<1>3. ASSUME NEW w \in Byte \ {0}, NEW r \in Byte \ {0}, NEW t \in Byte \ {0}
      PROVE  /\ Chars(x, y, z, w, r, t) \in Text /\ Size(Chars(x, y, z, w, r, t)) \in 0..6
             /\ t = DOT => DotAtEnd(Chars(x, y, z, w, r, t))
  <2> DEFINE c == Dotted(Base(x, y), z, w)
  <2>1. c \in Text /\ Size(c) <= 4
    BY <1>2, DottedType
  <2> HIDE DEF c
  <2>2. Add(c, r) \in Text /\ Add(Add(c, r), t) \in Text /\ Size(Add(Add(c, r), t)) <= 4 + 2
    BY <2>1, CharsType
  <2>3. Size(Add(Add(c, r), t)) \in 0..6
    BY <2>2, TextType
  <2>4. t = DOT => DotAtEnd(Add(Add(c, r), t))
    BY <1>1, <2>2, AddEnd
  <2> QED  BY <2>2, <2>3, <2>4 DEF Chars, c
<1> QED  BY <1>1, <1>3 DEF Taken

(* What Read_Dir_Ent returns of a slot.  A name that was overwritten ends   *)
(* in a dot, so it is none that is searched for.                            *)
LEMMA Returned ==
    ASSUME ImageOK, NEW s \in 6..14, NEW j \in Slots, 2 * (s - 6) + j + 1 <= Len(root)
    PROVE  LET q == 2 * (s - 6) + j + 1
               e == Dir_Entry(StoreName(Sector(s), j), j)
           IN /\ Describes(e, q)
              /\ OverName(q) => e.name \notin Names
<1> DEFINE q == 2 * (s - 6) + j + 1
           b == Sector(s)
           x == root[q][1]
           y == root[q][2]
           z == root[q][3]
           u == root[q][4]
           v == root[q][5]
           d == Taken(x, y, z, u, v, j)
           at == j * ENTRY
           B == StoreName(b, j)
           e == Dir_Entry(B, j)
<1>1. q \in 1..Len(root) /\ Holds(b, j, root[q])
  BY SlotIs
<1>2. q % 2 = 1 <=> j = 0
  BY Numbers
<1> HIDE DEF q
<1>3. /\ b[at] = x /\ b[at + 1] = y /\ b[at + 2] = z /\ b[at + 3] = u /\ b[at + 4] = v
      /\ b[at + ATTR] = root[q][ATTR + 1]
      /\ b[at + CLUS] = root[q][CLUS] /\ b[at + SIZE] = root[q][SIZE]
  BY <1>1 DEF Holds
<1>4. \A i \in 1..5 : root[q][i] \in Byte \ {0}
  BY <1>1, RootFacts
<1>5. /\ x \in Byte \ {0} /\ y \in Byte \ {0} /\ z \in Byte \ {0}
      /\ u \in Byte \ {0} /\ v \in Byte \ {0}
  BY <1>4
<1>6. Plain(root[q]) = Chars(x, y, z, z, u, v)
  BY <1>4, PlainIs
<1>7. OverName(q) <=> Over(x, y, z, j)
  <2>1. \A i \in 1..3 : i = 1 \/ i = 2 \/ i = 3
    OBVIOUS
  <2>2. 1 \in 1..3 /\ 2 \in 1..3 /\ 3 \in 1..3 /\ NB + 1 = 3
    BY DEF NB
  <2>3. (\A i \in 1..3 : root[q][i] # SPACE) <=> x # SPACE /\ y # SPACE /\ z # SPACE
    BY ONLY <2>1, <2>2
  <2> QED  BY <1>2, <2>2, <2>3 DEF OverName, Over
<1>8. b \in Sectors
  <2>1. s \in Nat /\ s < 256
    OBVIOUS
  <2>2. s \in 0..LastSec
    BY <2>1 DEF LastSec
  <2> QED  BY <2>2, SectorType
<1> HIDE DEF x, y, z, u, v, b
<1>9. B = Part(b, Append(d, 0))
  BY <1>3, <1>5, <1>8, StoredIs
<1>10. d \in Text /\ Size(d) \in 0..6 /\ (Over(x, y, z, j) => DotAtEnd(d))
  BY <1>5, TakenType
<1>11. ~OverName(q) => d = Plain(root[q])
  BY <1>6, <1>7 DEF Taken
<1> HIDE DEF d
<1>12. d \in Seq(Byte) /\ Len(d) = Size(d) /\ \A i \in 1..Size(d) : d[i] # 0
  BY <1>10, TextType
<1>13. e.name = d
  <2>1. Size(d) < 17
    BY ONLY <1>10
  <2>2. Len(d) < 17 /\ \A i \in 1..Len(d) : d[i] # 0
    BY ONLY <1>12, <2>1, Zenon
  <2>3. Str(B) = d
    BY <1>9, <1>12, <2>2, StrIs
  <2> QED  BY <2>3 DEF Dir_Entry
<1>14. \A p \in 0..17 : p > Size(d) => B[p] = b[p]
  <2>1. Len(Append(d, 0)) = Size(d) + 1
    <3>1. 0 \in Byte
      BY DEF Byte
    <3> QED  BY ONLY <1>12, <3>1, AppendProperties
  <2>2. \A p \in 0..17 : B[p] = IF p < Size(d) + 1 THEN Append(d, 0)[p + 1] ELSE b[p]
    BY <1>9, <2>1, Numbers DEF Part
  <2>3. \A p \in 0..17, m \in 0..6 : p > m => ~(p < m + 1)
    OBVIOUS
  <2> HIDE DEF B
  <2> QED  BY ONLY <2>2, <2>3, <1>10, Zenon
<1> HIDE DEF B
<1>15. Describes(e, q)
  <2>1. e.cluster = root[q][CLUS] /\ e.size = root[q][SIZE]
    <3>1. \A m \in 0..6 : /\ at + CLUS \in 0..17 /\ at + SIZE \in 0..17
                          /\ at + CLUS > m /\ at + SIZE > m
      BY Numbers
    <3>2. B[at + CLUS] = b[at + CLUS] /\ B[at + SIZE] = b[at + SIZE]
      BY ONLY <3>1, <1>10, <1>14, Zenon
    <3> QED  BY <1>3, <3>2 DEF Dir_Entry
  <2>2. OverAttr(q) \/ e.attr = root[q][ATTR + 1]
    <3> SUFFICES ASSUME ~OverAttr(q)  PROVE B[at + ATTR] = b[at + ATTR]
      BY <1>3 DEF Dir_Entry
    <3>1. ~(j = 0 /\ Size(d) >= 5)
      <4>1. ~OverName(q) /\ (j = 0 => ~(Len(Plain(root[q])) >= 5))
        BY <1>2, Numbers DEF OverAttr
      <4>2. d = Plain(root[q]) /\ Len(d) = Size(d)
        BY <1>11, <1>12, <4>1
      <4> QED  BY ONLY <4>1, <4>2, Zenon
    <3>2. \A m \in 0..6 : ~(j = 0 /\ m >= 5) => at + ATTR \in 0..17 /\ at + ATTR > m
      BY Numbers
    <3>3. at + ATTR \in 0..17 /\ at + ATTR > Size(d)
      BY ONLY <3>1, <3>2, <1>10, Zenon
    <3> QED  BY ONLY <3>3, <1>14, Zenon
  <2>3. OverName(q) \/ e.name = Plain(root[q])
    BY <1>11, <1>13
  <2> QED  BY <2>1, <2>2, <2>3 DEF Describes
<1>16. OverName(q) => e.name \notin Names
  BY <1>7, <1>10, <1>13, NameEnd
<1> QED  BY <1>15, <1>16 DEF q, b, B

(* The place of a slot among those in use. *)
LEMMA RankFacts ==
    ASSUME ImageOK
    PROVE  /\ Cardinality(Used) \in Nat /\ Rank(Len(root)) = Cardinality(Used)
           /\ Rank(0) = 0
           /\ \A m \in 0..Len(root) : Rank(m) \in Nat
           /\ \A i, j \in 0..Len(root) : i <= j => Rank(i) <= Rank(j)
           /\ \A m \in 0..Len(root) :
                 m + 1 \in 1..Len(root) =>
                     Rank(m + 1) = IF m + 1 \in Used THEN Rank(m) + 1 ELSE Rank(m)
<1> DEFINE L == Len(root)
           F(m) == {h \in Used : h <= m}
<1>1. L \in Nat /\ Used \subseteq 1..L
  <2>1. DOMAIN root = 1..Len(root) /\ L \in Nat
    BY LenProperties DEF ImageOK
  <2> QED  BY <2>1 DEF Used
<1> HIDE DEF L
<1>0. \A h \in Used : h \in Nat \ {0} /\ h <= L
  BY <1>1
<1>2. IsFiniteSet(Used)
  <2>1. IsFiniteSet(1..L)
    BY <1>1, FS_Interval
  <2> QED  BY <1>1, <2>1, FS_Subset
<1>3. \A m : IsFiniteSet(F(m)) /\ Cardinality(F(m)) \in Nat
  BY <1>2, FS_Subset, FS_CardinalityType
<1>4. Rank(L) = Cardinality(Used) /\ Cardinality(Used) \in Nat
  <2>1. F(L) = Used
    BY <1>0, Zenon
  <2> QED  BY <1>2, <2>1, FS_CardinalityType DEF Rank
<1>5. Rank(0) = 0
  <2>1. F(0) = {}
    <3>1. \A h \in Nat \ {0} : ~(h <= 0)
      OBVIOUS
    <3> QED  BY <1>0, <3>1, Zenon
  <2> QED  BY <2>1, FS_EmptySet DEF Rank
<1>6. ASSUME NEW i \in 0..L, NEW j \in 0..L, i <= j
      PROVE  Rank(i) <= Rank(j)
  <2>1. F(i) \subseteq F(j)
    <3>1. \A h \in Nat : h <= i => h <= j
      BY <1>1, <1>6
    <3> QED  BY <1>0, <3>1, Zenon
  <2> HIDE DEF F
  <2>2. Cardinality(F(i)) <= Cardinality(F(j))
    BY <1>3, <2>1, FS_Subset
  <2> QED  BY <2>2 DEF Rank, F
<1>7. ASSUME NEW m \in 0..L, m + 1 \in 1..L
      PROVE  Rank(m + 1) = IF m + 1 \in Used THEN Rank(m) + 1 ELSE Rank(m)
  <2>1. m + 1 \notin F(m)
    BY <1>7
  <2>4. \A h \in Nat : h <= m + 1 <=> (h <= m \/ h = m + 1)
    BY <1>7, <1>1
  <2>2. CASE m + 1 \in Used
    <3>1. F(m + 1) = F(m) \cup {m + 1}
      <4>1. \A h \in Used : h <= m + 1 <=> (h <= m \/ h = m + 1)
        BY <1>0, <2>4, Zenon
      <4> QED  BY <4>1, <2>2, Zenon
    <3> HIDE DEF F
    <3>2. Cardinality(F(m + 1)) = Cardinality(F(m)) + 1
      BY <1>3, <2>1, <3>1, FS_AddElement
    <3> QED  BY <2>2, <3>2 DEF Rank, F
  <2>3. CASE m + 1 \notin Used
    <3>1. F(m + 1) = F(m)
      <4>1. \A h \in Used : h <= m + 1 <=> (h <= m \/ h = m + 1)
        BY <1>0, <2>4, Zenon
      <4> QED  BY <4>1, <2>3, Zenon
    <3> QED  BY <2>3, <3>1 DEF Rank
  <2> QED  BY <2>2, <2>3
<1>8. \A m \in 0..L : Rank(m) \in Nat
  BY <1>3 DEF Rank
<1> QED  BY <1>4, <1>5, <1>6, <1>7, <1>8 DEF L

(* Two slots in use have different places, in their order. *)
LEMMA RankOrder ==
    ASSUME ImageOK, NEW i \in Used, NEW j \in Used, i < j
    PROVE  Rank(i) < Rank(j) /\ Rank(i) <= Rank(j - 1)
<1>1. i \in 1..Len(root) /\ j \in 1..Len(root) /\ Len(root) \in Nat
  <2>1. DOMAIN root = 1..Len(root) /\ Len(root) \in Nat
    BY LenProperties DEF ImageOK
  <2> QED  BY <2>1 DEF Used
<1> DEFINE L == Len(root)
           m == j - 1
<1>2. m \in 0..L /\ i \in 0..L /\ i <= m /\ m + 1 \in 1..L /\ m + 1 = j
  BY <1>1
<1> HIDE DEF m
<1>3. Rank(i) <= Rank(m) /\ Rank(m) \in Nat /\ Rank(i) \in Nat
  BY <1>2, RankFacts
<1>4. Rank(j) = Rank(m) + 1
  BY <1>2, RankFacts
<1>5. \A u, v, t \in Nat : u <= v /\ t = v + 1 => u < t
  OBVIOUS
<1>6. Rank(j) \in Nat
  BY <1>3, <1>4
<1> QED  BY <1>3, <1>4, <1>5, <1>6 DEF m

(* The files are slots in use, each with a place up to their number. *)
LEMMA FilesFacts ==
    ASSUME ImageOK
    PROVE  /\ Files \subseteq Used /\ Used \subseteq 1..Len(root) /\ IsFiniteSet(Used)
           /\ IsFiniteSet(Files) /\ Cardinality(Files) \in Nat
           /\ Cardinality(Files) <= Cardinality(Used)
<1>1. DOMAIN root = 1..Len(root) /\ Len(root) \in Nat
  BY LenProperties DEF ImageOK
<1>2. Files \subseteq Used /\ Used \subseteq 1..Len(root)
  BY <1>1 DEF Files, Used
<1>3. IsFiniteSet(1..Len(root))
  BY <1>1, FS_Interval
<1>4. IsFiniteSet(Used) /\ IsFiniteSet(Files)
  BY ONLY <1>2, <1>3, FS_Subset
<1>5. Cardinality(Files) \in Nat /\ Cardinality(Files) <= Cardinality(Used)
  BY ONLY <1>2, <1>4, FS_Subset, FS_CardinalityType
<1> QED  BY <1>2, <1>4, <1>5

LEMMA RankLimit ==
    ASSUME ImageOK, NEW j \in Files
    PROVE  Rank(j) \in 1..Cardinality(Files) /\ j \in 1..Len(root)
<1>1. j \in 1..Len(root) /\ Len(root) \in Nat /\ j \in Used
  <2>1. Len(root) \in Nat
    BY LenProperties DEF ImageOK
  <2> QED  BY <2>1, FilesFacts
<1> DEFINE L == Len(root)
           m == j - 1
           F == {h \in Used : h <= j}
<1>2. m \in 0..L /\ m + 1 \in 1..L /\ m + 1 = j /\ j \in 0..L
  BY <1>1
<1> HIDE DEF m
<1>3. Rank(j) = Rank(m) + 1 /\ Rank(m) \in Nat
  BY <1>1, <1>2, RankFacts
<1>4. F \subseteq Files
  <2> SUFFICES ASSUME NEW h \in Used, h <= j  PROVE h \in Files
    OBVIOUS
  <2>1. \A g \in Used : g <= h => g <= j
    <3>1. \A g, v \in Nat : g <= v /\ v <= j => g <= j
      BY <1>1
    <3>2. \A g \in Used : g \in Nat
      BY FilesFacts
    <3> QED  BY ONLY <3>1, <3>2, h \in Used, h <= j, Zenon
  <2> QED  BY <2>1 DEF Files
<1>5. Cardinality(F) <= Cardinality(Files)
  BY ONLY <1>4, ImageOK, FilesFacts, FS_Subset
<1>6. Rank(j) <= Cardinality(Files)
  BY <1>5 DEF Rank
<1> QED  BY <1>1, <1>3, <1>6, FilesFacts

(* No file comes after a slot with the cluster 0xFFFF, and a slot that as   *)
(* many slots in use precede as there may be files is one of them, unless   *)
(* it has that cluster.                                                     *)
LEMMA FilesBelow ==
    ASSUME ImageOK, NEW h \in Used, root[h][CLUS] = EOF
    PROVE  Cardinality(Files) <= Rank(h - 1)
<1> DEFINE F == {g \in Used : g <= h - 1}
<1>1. \A g \in Used : g \in Nat
  BY FilesFacts
<1>2. \A f \in Nat : ~(h <= f) => f <= h - 1
  BY <1>1
<1>3. \A f \in Files : f \in Used /\ ~(h <= f)
  BY DEF Files
<1>4. Files \subseteq F
  BY <1>1, <1>2, <1>3
<1>5. IsFiniteSet(F)
  BY FilesFacts, FS_Subset
<1>6. Cardinality(Files) <= Cardinality(F)
  BY ONLY <1>4, <1>5, FS_Subset
<1> QED  BY <1>6 DEF Rank

LEMMA IsFile ==
    ASSUME ImageOK, NEW q \in Used, root[q][CLUS] # EOF, Rank(q - 1) <= Cardinality(Files)
    PROVE  q \in Files
<1> SUFFICES ASSUME NEW h \in Used, h <= q, root[h][CLUS] = EOF  PROVE FALSE
  BY DEF Files
<1>1. h \in 1..Len(root) /\ q \in 1..Len(root) /\ Len(root) \in Nat
  BY FilesFacts, LenProperties DEF ImageOK
<1>2. h < q
  BY <1>1
<1>3. Rank(h) <= Rank(q - 1)
  BY <1>2, RankOrder
<1> DEFINE m == h - 1
           L == Len(root)
<1>4. m \in 0..L /\ m + 1 \in 1..L /\ m + 1 = h
  BY <1>1
<1>5. Cardinality(Files) <= Rank(m)
  BY FilesBelow
<1> HIDE DEF m
<1>6. Rank(h) = Rank(m) + 1 /\ Rank(m) \in Nat
  BY <1>4, RankFacts
<1>7. Cardinality(Files) \in Nat /\ Rank(q - 1) \in Nat
  <2> DEFINE r == q - 1
  <2>1. r \in 0..L
    BY <1>1
  <2> HIDE DEF r
  <2>2. Rank(r) \in Nat
    BY <2>1, RankFacts
  <2> QED  BY <2>2, FilesFacts DEF r
<1>8. \A c, a, v, w \in Nat : ~(c <= a /\ v = a + 1 /\ v <= w /\ w <= c)
  OBVIOUS
<1>9. Rank(h) \in Nat
  BY <1>6
<1> QED  BY ONLY <1>3, <1>5, <1>6, <1>7, <1>8, <1>9, Rank(q - 1) <= Cardinality(Files), Zenon

(* The files that Read_Dir_Ent counts in a sector. *)
LEMMA LiveCount ==
    ASSUME NEW b
    PROVE  /\ LiveBefore(b, 0) = 0
           /\ LiveBefore(b, 1) = IF Live(b, 0) THEN 1 ELSE 0
           /\ LiveBefore(b, 2) = IF Live(b, 1) THEN LiveBefore(b, 1) + 1 ELSE LiveBefore(b, 1)
<1> DEFINE S(m) == {i \in Slots : i < m /\ Live(b, i)}
<1>1. S(0) = {}
  BY Numbers
<1>2. S(1) = IF Live(b, 0) THEN {0} ELSE {}
  BY Numbers
<1>3. S(2) = IF Live(b, 1) THEN S(1) \cup {1} ELSE S(1)
  BY Numbers
<1>4. 1 \notin S(1)
  OBVIOUS
<1>5. IsFiniteSet(S(1))
  BY <1>2, FS_EmptySet, FS_Singleton
<1> HIDE DEF S
<1>6. Cardinality(S(0)) = 0
  BY <1>1, FS_EmptySet
<1>7. Cardinality(S(1)) = IF Live(b, 0) THEN 1 ELSE 0
  BY <1>2, FS_EmptySet, FS_Singleton
<1>8. Cardinality(S(2)) = IF Live(b, 1) THEN Cardinality(S(1)) + 1 ELSE Cardinality(S(1))
  BY <1>3, <1>4, <1>5, FS_AddElement
<1> QED  BY <1>6, <1>7, <1>8 DEF LiveBefore, S

(* What Read_Dir_Ent finds in a block of the directory: the slot of entry   *)
(* n, the end of the directory, or neither.                                 *)
LEMMA ScanFacts ==
    ASSUME ImageOK, n \in Nat, blk \in 6..14, Slot <= Len(root), count = Rank(Slot), count <= n
    PROVE  LET b == Sector(blk)
           IN /\ \A j \in Hits(b) : /\ Slot + j + 1 \in Used /\ Slot + j \in 0..Len(root)
                                    /\ Rank(Slot + j) = n /\ Rank(Slot + j + 1) = n + 1
              /\ Hits(b) = {} /\ Ended(b, 1) => Cardinality(Used) <= n
              /\ Hits(b) = {} /\ ~Ended(b, 1) =>
                    /\ Slot + 2 <= Len(root) /\ blk + 1 \in 6..14
                    /\ count + LiveBefore(b, 2) = Rank(Slot + 2) /\ Rank(Slot + 2) <= n
<1> DEFINE b == Sector(blk)
           m == Slot
           L == Len(root)
           r0 == Rank(m)
           r1 == Rank(m + 1)
           r2 == Rank(m + 2)
<1>1. m = 2 * (blk - 6) /\ L \in 0..17
  BY Numbers, RootFacts DEF Slot
<1>2. m \in 0..16 /\ m <= L /\ m \in 0..L
  BY <1>1
<1>3. \A j \in {0, 1} :
         /\ b[j * ENTRY] = 0 <=> m + j + 1 > L
         /\ m + j + 1 <= L => (Live(b, j) <=> m + j + 1 \in Used) /\ m + j + 1 \in 1..L
  <2> SUFFICES ASSUME NEW j \in {0, 1}
               PROVE  /\ b[j * ENTRY] = 0 <=> m + j + 1 > L
                      /\ m + j + 1 <= L => /\ Live(b, j) <=> m + j + 1 \in Used
                                          /\ m + j + 1 \in 1..L
    OBVIOUS
  <2>1. j \in Slots
    BY Numbers
  <2> DEFINE q == 2 * (blk - 6) + j + 1
  <2>2. /\ b[j * ENTRY] = 0 <=> q > L
        /\ q <= L => q \in 1..L /\ (Live(b, j) <=> q \in Used)
    BY <2>1, SlotIs
  <2>3. q = m + j + 1
    BY <1>1
  <2> QED  BY ONLY <2>2, <2>3
<1> HIDE DEF m, L, b
<1>4. /\ m + 0 + 1 = m + 1 /\ m + 1 + 1 = m + 2
      /\ m + 1 <= L => m + 1 \in 0..L
      /\ m + 2 <= L => m + 1 <= L /\ m + 2 \in 0..L
  BY <1>1, <1>2
<1>5. Ended(b, 0) <=> m + 1 > L
  BY <1>3, <1>4 DEF Ended
<1>6. Ended(b, 1) <=> m + 2 > L
  <2>1. Ended(b, 1) <=> b[0 * ENTRY] = 0 \/ b[1 * ENTRY] = 0
    BY DEF Ended
  <2>2. Ended(b, 1) <=> m + 1 > L \/ m + 2 > L
    BY <1>3, <1>4, <2>1
  <2> QED  BY <1>1, <1>2, <2>2
<1>7. m + 1 <= L => (Live(b, 0) <=> m + 1 \in Used)
  BY <1>3, <1>4
<1>8. m + 2 <= L => (Live(b, 1) <=> m + 2 \in Used)
  BY <1>3, <1>4
<1>9. /\ LiveBefore(b, 0) = 0
      /\ LiveBefore(b, 1) = IF Live(b, 0) THEN 1 ELSE 0
      /\ LiveBefore(b, 2) = IF Live(b, 1) THEN LiveBefore(b, 1) + 1 ELSE LiveBefore(b, 1)
  BY LiveCount
<1>10. r0 \in Nat /\ count = r0 /\ r0 <= n
  BY <1>2, RankFacts DEF m, L
<1>11. m + 1 <= L => r1 = (IF m + 1 \in Used THEN r0 + 1 ELSE r0) /\ r1 \in Nat
  <2>1. m + 1 <= L => m + 1 \in 1..L
    BY <1>1, <1>2
  <2> QED  BY <1>2, <1>10, <2>1, RankFacts DEF L
<1>12. m + 2 <= L => r2 = (IF m + 2 \in Used THEN r1 + 1 ELSE r1) /\ r2 \in Nat
  <2>1. m + 2 <= L => (m + 1) + 1 \in 1..L /\ m + 1 \in 0..L /\ (m + 1) + 1 = m + 2
    BY <1>1, <1>2
  <2>2. m + 2 <= L => r2 = (IF m + 2 \in Used THEN r1 + 1 ELSE r1)
    BY <2>1, RankFacts DEF L
  <2> HIDE DEF r1, r2
  <2> QED  BY <1>4, <1>11, <2>2
<1> DEFINE l1 == LiveBefore(b, 1)
           l2 == LiveBefore(b, 2)
<1>13. m + 1 <= L => count + l1 = r1
  <2> HIDE DEF r0, r1
  <2> QED  BY <1>7, <1>9, <1>10, <1>11
<1>14. m + 2 <= L => count + l2 = r2
  <2>1. m + 2 <= L => count + l1 = r1 /\ r1 \in Nat /\ l1 \in 0..1
    BY <1>4, <1>9, <1>11, <1>13
  <2>2. l2 = IF Live(b, 1) THEN l1 + 1 ELSE l1
    BY <1>9
  <2> HIDE DEF l1, l2, r0, r1, r2
  <2> QED  BY <1>8, <1>10, <1>12, <2>1, <2>2
<1>15. 0 \in Hits(b) <=> m + 1 <= L /\ m + 1 \in Used /\ r0 = n
  <2>1. 0 \in Hits(b) <=> ~Ended(b, 0) /\ Live(b, 0) /\ count + LiveBefore(b, 0) = n
    BY Numbers DEF Hits
  <2>2. ~(m + 1 > L) <=> m + 1 <= L
    BY <1>1, <1>2
  <2>3. count + LiveBefore(b, 0) = r0
    <3> HIDE DEF r0
    <3> QED  BY <1>9, <1>10
  <2> QED  BY <1>5, <1>7, <2>1, <2>2, <2>3
<1>16. 1 \in Hits(b) <=> m + 2 <= L /\ m + 2 \in Used /\ r1 = n
  <2>1. 1 \in Hits(b) <=> ~Ended(b, 1) /\ Live(b, 1) /\ count + LiveBefore(b, 1) = n
    BY Numbers DEF Hits
  <2>2. ~(m + 2 > L) <=> m + 2 <= L
    BY <1>1, <1>2
  <2> QED  BY <1>4, <1>6, <1>8, <1>13, <2>1, <2>2
<1>17. \A j \in Hits(b) : j = 0 \/ j = 1
  BY Numbers DEF Hits
<1>18. m + 0 = m
  BY <1>2
<1>19. \A j \in Hits(b) : /\ m + j + 1 \in Used /\ m + j \in 0..L
                          /\ Rank(m + j) = n /\ Rank(m + j + 1) = n + 1
  <2>1. ASSUME 0 \in Hits(b)
        PROVE  m + 1 \in Used /\ m \in 0..L /\ r0 = n /\ r1 = n + 1
    BY <1>2, <1>11, <1>15, <2>1
  <2>2. ASSUME 1 \in Hits(b)
        PROVE  m + 2 \in Used /\ m + 1 \in 0..L /\ r1 = n /\ r2 = n + 1
    BY <1>4, <1>12, <1>16, <2>2
  <2> QED  BY <1>4, <1>17, <1>18, <2>1, <2>2
<1>20. ASSUME Hits(b) = {}, m + 1 <= L  PROVE r1 <= n
  <2>1. ~(m + 1 \in Used /\ r0 = n)
    BY <1>15, <1>20
  <2> HIDE DEF r0, r1
  <2> QED  BY <1>10, <1>11, <1>20, <2>1
<1>21. ASSUME Hits(b) = {}, m + 2 <= L  PROVE r2 <= n
  <2>1. ~(m + 2 \in Used /\ r1 = n)
    BY <1>16, <1>21
  <2>2. r1 <= n /\ r1 \in Nat
    BY <1>4, <1>11, <1>20, <1>21
  <2> HIDE DEF r1, r2
  <2> QED  BY <1>12, <1>21, <2>1, <2>2
<1>22. ASSUME Hits(b) = {}, Ended(b, 1)  PROVE Cardinality(Used) <= n
  <2>1. L = m \/ L = m + 1
    BY <1>1, <1>2, <1>6, <1>22
  <2>2. Cardinality(Used) = Rank(L)
    BY RankFacts DEF L
  <2>3. m + 1 <= m + 1
    BY <1>2
  <2>4. CASE L = m
    BY <1>10, <2>2, <2>4
  <2>5. CASE L = m + 1
    BY <1>20, <1>22, <2>2, <2>3, <2>5
  <2> QED  BY <2>1, <2>4, <2>5
<1>23. ASSUME Hits(b) = {}, ~Ended(b, 1)
       PROVE  m + 2 <= L /\ blk + 1 \in 6..14 /\ count + LiveBefore(b, 2) = r2 /\ r2 <= n
  <2>1. m + 2 <= L
    BY <1>1, <1>2, <1>6, <1>23
  <2>2. blk + 1 \in 6..14
    BY <1>1, <2>1
  <2> QED  BY <1>14, <1>21, <1>23, <2>1, <2>2
<1> QED  BY <1>19, <1>22, <1>23 DEF b, m, L

(* The card's contents do not change: what the next state says of them. *)
LEMMA SameRoot ==
    ASSUME root' = root
    PROVE  /\ Len(root)' = Len(root) /\ Cardinality(Files)' = Cardinality(Files)
           /\ Rank(Slot)' = Rank(Slot')
           /\ Listed' <=> \A i \in 1..Len(list') :
                             \E j \in Files : Rank(j) = i /\ Describes(list'[i], j)
           /\ ListDone' <=> Len(list') = Least(Cardinality(Files), MaxList) /\ Listed'
           /\ Seen(n)' = {j \in Files : Rank(j) <= n' /\ Plain(root[j]) = want' /\ ~OverName(j)}
           /\ SearchDone' <=>
                 LET seen == {j \in Files : /\ Rank(j) <= MaxSearch /\ Plain(root[j]) = want'
                                            /\ ~OverName(j)}
                 IN IF seen = {}
                    THEN found' = IF Cardinality(Files) < MaxSearch THEN <<0>> ELSE <<2>>
                    ELSE \E j \in seen : /\ \A h \in seen : j <= h
                                         /\ found' = <<1, root[j][CLUS]>>
<1>1. Len(root)' = Len(root) /\ Cardinality(Files)' = Cardinality(Files)
  BY DEF Files, Used
<1>2. Rank(Slot)' = Rank(Slot')
  BY DEF Files, Used, Rank
<1>3. Listed' <=> \A i \in 1..Len(list') :
                      \E j \in Files : Rank(j) = i /\ Describes(list'[i], j)
  BY DEF Listed, Files, Used, Rank, Describes, OverName, OverAttr
<1>4. ListDone' <=> Len(list') = Least(Cardinality(Files), MaxList) /\ Listed'
  BY DEF ListDone, Files, Used
<1>5. Seen(n)' = {j \in Files : Rank(j) <= n' /\ Plain(root[j]) = want' /\ ~OverName(j)}
  BY DEF Seen, Files, Used, Rank, OverName
<1>6. SearchDone' <=>
         LET seen == {j \in Files : /\ Rank(j) <= MaxSearch /\ Plain(root[j]) = want'
                                    /\ ~OverName(j)}
         IN IF seen = {}
            THEN found' = IF Cardinality(Files) < MaxSearch THEN <<0>> ELSE <<2>>
            ELSE \E j \in seen : /\ \A h \in seen : j <= h
                                 /\ found' = <<1, root[j][CLUS]>>
  BY DEF SearchDone, Seen, Files, Used, Rank, OverName
<1> QED  BY <1>1, <1>2, <1>3, <1>4, <1>5, <1>6

LEMMA InitDir == Init => DirInv
  BY DEF Init, DirInv, Starting, After

(* Steps outside Read_Dir_Ent and its callers. *)
LEMMA SameDir ==
    ASSUME DirInv, UNCHANGED <<root, dirVars>>, fails' = 0 => fails = 0,
           \/ pc' = pc
           \/ pc \in Starting /\ pc' \in Starting
           \/ pc \in After /\ pc' \in After
    PROVE  DirInv'
<1> SUFFICES ASSUME fails' = 0  PROVE DirInv'
  BY DEF DirInv
<1>1. UNCHANGED <<root, n, blk, count, want, list, found>> /\ fails = 0
  BY DEF dirVars
<1>2. /\ pc' \in Starting <=> pc \in Starting
      /\ pc' \in {"dir", "scan"} <=> pc \in {"dir", "scan"}
      /\ pc' = "scan" <=> pc = "scan"
      /\ pc' \in After <=> pc \in After
  BY DEF Starting, After
<1>3. /\ Cardinality(Files)' = Cardinality(Files) /\ Slot' = Slot /\ Rank(Slot)' = Rank(Slot)
      /\ Listed' = Listed /\ ListDone' = ListDone
      /\ Seen(n)' = Seen(n) /\ SearchDone' = SearchDone
  <2>1. Files' = Files /\ Slot' = Slot
    BY <1>1 DEF Files, Used, Slot
  <2>2. Rank(Slot)' = Rank(Slot)
    BY <1>1, <2>1 DEF Rank, Used
  <2>3. Listed' = Listed
    BY <1>1 DEF Listed, Files, Used, Rank, Describes, OverName, OverAttr
  <2>4. Seen(n)' = Seen(n) /\ SearchDone' = SearchDone
    BY <1>1 DEF SearchDone, Seen, Files, Used, Rank, OverName
  <2> QED  BY <1>1, <2>1, <2>2, <2>3, <2>4 DEF ListDone
<1> QED  BY <1>1, <1>2, <1>3 DEF DirInv

(* The listing begins. *)
LEMMA StartDirFirst ==
    ASSUME Types, DirInv, Cmd0 \/ Cmd1 \/ FAT_Addr \/ Cluster_Data_Store
    PROVE  DirInv'
<1>1. UNCHANGED <<root, dirVars>>
  BY DEF Cmd0, Cmd1, FAT_Addr, Cluster_Data_Store, image
<1>2. fails' = 0 => fails = 0
  BY ReadType DEF Cmd0, Cmd1, FAT_Addr, Cluster_Data_Store, ReadVolume, VolumeReads
<1>3. CASE pc # "offset"
  <2>1. pc \in Starting /\ pc' \in Starting
    BY <1>3 DEF Cmd0, Cmd1, FAT_Addr, Cluster_Data_Store, Repeat, Starting
  <2> QED  BY <1>1, <1>2, <2>1, SameDir
<1>4. CASE pc = "offset"
  <2>1. pc' = "dir"
    BY <1>4 DEF Cmd0, Cmd1, FAT_Addr, Cluster_Data_Store
  <2>2. SUFFICES ASSUME fails' = 0  PROVE DirInv'
    BY DEF DirInv
  <2>3. root' = root /\ want' = <<>> /\ n' = 0 /\ list' = <<>>
    BY <1>1, <1>2, <1>4, <2>2 DEF DirInv, Starting, dirVars
  <2>4. Listed'
    BY <2>3, SameRoot
  <2>5. n' <= Cardinality(Files)'
    <3>1. Cardinality(Files) \in Nat /\ Cardinality(Files)' = Cardinality(Files)
      BY <2>3, SameRoot, FilesFacts DEF Types
    <3> QED  BY <2>3, <3>1
  <2> QED  BY <2>1, <2>3, <2>4, <2>5 DEF DirInv, Starting, After
<1> QED  BY <1>3, <1>4

(* Read_Dir_Ent begins at the first block of the directory. *)
LEMMA StartDirStep ==
    ASSUME Types, FileInv, DirInv, StartDir
    PROVE  DirInv'
<1> SUFFICES ASSUME fails' = 0  PROVE DirInv'
  BY DEF DirInv
<1>1. /\ pc = "dir" /\ pc' = "scan" /\ count' = 0
      /\ UNCHANGED <<root, n, want, list, found>>
  BY DEF StartDir, image
<1>2. PICK b \in VolumeReads : ReadVolume(b) /\ blk' = Root_Dir_Addr(b)
  BY DEF StartDir
<1>3. fails = 0
  BY <1>2, ReadType DEF ReadVolume, VolumeReads
<1>4. Volume_Boot_Record_Addr = Volume
  BY <1>1, <1>3 DEF FileInv, Geometry
<1>5. b = Sector(Volume)
  <2>1. Volume \in 0..LastSec
    BY DEF Volume, LastSec
  <2> QED  BY <1>2, <1>4, <2>1, ReadType DEF ReadVolume, VolumeReads
<1>6. blk' = 6
  <2>1. b[2] = 1 /\ b[3] = 1 /\ b[4] = 2
    BY <1>5, BootSectors DEF Rsvd, FATSz
  <2> QED  BY <1>2, <1>4, <2>1 DEF Root_Dir_Addr, Short, LastSec, Volume, BPB_RsvdSecCnt,
                                BPB_NumFATs, BPB_FATSz16
<1>7. Slot' = 0 /\ blk' \in RootSec..DataSec - 1
  BY <1>6, Numbers DEF Slot
<1>8. /\ Slot' <= Len(root)' /\ count' = Rank(Slot)' /\ count' <= n'
  <2>1. /\ Rank(Slot)' = Rank(0) /\ Len(root)' = Len(root)
    BY <1>1, <1>7, SameRoot
  <2>2. Rank(0) = 0 /\ Len(root) \in Nat /\ n \in Nat
    BY RankFacts, LenProperties DEF Types, ImageOK, Listing
  <2> QED  BY <1>1, <1>7, <2>1, <2>2
<1>9. /\ Cardinality(Files)' = Cardinality(Files) /\ Listed' = Listed /\ ListDone' = ListDone
      /\ Seen(n)' = Seen(n)
  <2>1. Listed' = Listed
    BY <1>1 DEF Listed, Files, Used, Rank, Describes, OverName, OverAttr
  <2>2. Seen(n)' = Seen(n) /\ Files' = Files
    BY <1>1 DEF Seen, Files, Used, Rank, OverName
  <2> QED  BY <1>1, <2>1, <2>2 DEF ListDone
<1> QED  BY <1>1, <1>3, <1>7, <1>8, <1>9 DEF DirInv, Starting, After

(* A search begins after the list. *)
LEMMA SearchStep ==
    ASSUME Types, DirInv, NEW name \in Names, Search_File(name)
    PROVE  DirInv'
<1> SUFFICES ASSUME fails' = 0  PROVE DirInv'
  BY DEF DirInv
<1>1. /\ pc = "listed" /\ pc' = "dir" /\ n' = 0 /\ want' = name /\ fails = 0
      /\ UNCHANGED <<root, list>>
  BY DEF Search_File, image
<1>2. name # <<>>
  BY DEF Names
<1>3. ImageOK
  BY DEF Types
<1>4. n' <= Cardinality(Files)' /\ n' < MaxSearch
  <2>1. /\ Cardinality(Files) \in Nat /\ Cardinality(Files)' = Cardinality(Files)
        /\ MaxSearch \in Nat \ {0}
    BY <1>1, <1>3, SameRoot, FilesFacts, ImageAssumption
  <2> QED  BY <1>1, <2>1
<1>5. Seen(n)' = {}
  <2>1. \A j \in Files : ~(Rank(j) <= 0)
    <3>1. \A m, r \in Nat : r \in 1..m => ~(r <= 0)
      OBVIOUS
    <3>2. \A j \in Files : Rank(j) \in 1..Cardinality(Files) /\ Cardinality(Files) \in Nat
      BY <1>3, RankLimit, FilesFacts
    <3> QED  BY <3>1, <3>2
  <2>2. Seen(n)' = {j \in Files : Rank(j) <= 0 /\ Plain(root[j]) = want' /\ ~OverName(j)}
    BY <1>1, SameRoot
  <2> QED  BY <2>1, <2>2
<1>6. ListDone'
  <2>1. Listed' = Listed
    BY <1>1 DEF Listed, Files, Used, Rank, Describes, OverName, OverAttr
  <2>2. Files' = Files
    BY <1>1 DEF Files, Used
  <2> QED  BY <1>1, <2>1, <2>2 DEF ListDone, DirInv, After
<1> QED  BY <1>1, <1>2, <1>4, <1>5, <1>6 DEF DirInv, Starting, After

(* Entry n is found: main lists it. *)
LEMMA ListEntry ==
    ASSUME Types, DirInv, pc = "scan", fails = 0, root' = root, want' = want, want = <<>>,
           NEW e, Return(e), e.cluster # EOF, NEW q \in Files, Rank(q) = n + 1, Describes(e, q)
    PROVE  DirInv'
<1>1. /\ n \in Nat /\ IsSeq(list) /\ Len(list) = n /\ n < MaxList /\ MaxList \in Nat
  BY ImageAssumption DEF Types, Listing
<1>2. Listed
  BY DEF DirInv
<1>3. n' = n + 1 /\ list' = Append(list, e) /\ pc' = IF n' < MaxList THEN "dir" ELSE "listed"
  BY DEF Return
<1>4. /\ Len(list') = n + 1 /\ list'[n + 1] = e /\ \A i \in 1..n : list'[i] = list[i]
  <2>1. PICK S : list \in Seq(S)
    BY <1>1 DEF IsSeq
  <2>2. list \in Seq(S \cup {e}) /\ e \in S \cup {e}
    BY <2>1
  <2> QED  BY ONLY <1>1, <1>3, <2>2, AppendProperties
<1>5. Listed'
  <2>1. \A i \in 1..n + 1 : i \in 1..n \/ i = n + 1
    BY <1>1
  <2>2. \A i \in 1..n : \E j \in Files : Rank(j) = i /\ Describes(list[i], j)
    BY <1>1, <1>2 DEF Listed
  <2>3. \A i \in 1..n + 1 : \E j \in Files : Rank(j) = i /\ Describes(list'[i], j)
    <3> SUFFICES ASSUME NEW i \in 1..n + 1
                 PROVE  \E j \in Files : Rank(j) = i /\ Describes(list'[i], j)
      OBVIOUS
    <3>1. CASE i \in 1..n
      <4>1. PICK j \in Files : Rank(j) = i /\ Describes(list[i], j)
        BY <2>2, <3>1
      <4>2. list'[i] = list[i]
        BY <1>4, <3>1
      <4> QED  BY ONLY <4>1, <4>2, Zenon
    <3>2. CASE i = n + 1
      BY ONLY <1>4, <3>2, q \in Files, Rank(q) = n + 1, Describes(e, q), Zenon
    <3> QED  BY <2>1, <3>1, <3>2
  <2> QED  BY <1>4, <2>3, SameRoot
<1>6. n + 1 <= Cardinality(Files) /\ Cardinality(Files) \in Nat
      /\ Cardinality(Files)' = Cardinality(Files)
  <2>1. Rank(q) \in 1..Cardinality(Files) /\ Cardinality(Files) \in Nat
    BY RankLimit, FilesFacts DEF Types
  <2> DEFINE r == Rank(q)
  <2>2. r \in 1..Cardinality(Files) /\ r = n + 1
    BY <2>1
  <2> HIDE DEF r
  <2> QED  BY <2>1, <2>2, SameRoot
<1>7. pc' = "listed" => ListDone'
  <2> SUFFICES ASSUME pc' = "listed"  PROVE ListDone'
    OBVIOUS
  <2>1. n + 1 = MaxList
    BY <1>1, <1>3
  <2>2. Len(list') = Least(Cardinality(Files), MaxList)
    BY <1>4, <1>6, <2>1 DEF Least
  <2> QED  BY <1>5, <2>2, SameRoot
<1> QED  BY <1>3, <1>5, <1>6, <1>7 DEF DirInv, Starting, After

(* Entry n is found: Search_File compares its name. *)
LEMMA SearchEntry ==
    ASSUME Types, DirInv, pc = "scan", fails = 0, root' = root, want' = want, want # <<>>,
           NEW e, Return(e), e.cluster # EOF, NEW q \in Files, Rank(q) = n + 1, Rank(q - 1) = n,
           Describes(e, q), OverName(q) => e.name \notin Names
    PROVE  DirInv'
<1>1. /\ n \in Nat /\ n < MaxSearch /\ MaxSearch \in Nat /\ want \in Names /\ ImageOK
      /\ Seen(n) = {} /\ ListDone
  BY ImageAssumption DEF Types, Listing, DirInv
<1>2. n' = n + 1 /\ list' = list
  BY DEF Return
<1>3. ListDone'
  <2>1. Listed' = Listed
    BY <1>2 DEF Listed, Files, Used, Rank, Describes, OverName, OverAttr
  <2>2. Files' = Files
    BY DEF Files, Used
  <2> QED  BY <1>1, <1>2, <2>1, <2>2 DEF ListDone
<1>4. n + 1 <= Cardinality(Files) /\ Cardinality(Files) \in Nat
      /\ Cardinality(Files)' = Cardinality(Files)
  <2>1. Rank(q) \in 1..Cardinality(Files) /\ Cardinality(Files) \in Nat
    BY RankLimit, FilesFacts DEF Types
  <2> DEFINE r == Rank(q)
  <2>2. r \in 1..Cardinality(Files) /\ r = n + 1
    BY <2>1
  <2> HIDE DEF r
  <2> QED  BY <2>1, <2>2, SameRoot
<1>5. q \in Nat /\ \A j \in Files : j \in Nat /\ Rank(j) \in Nat
  <2>1. \A j \in Files : j \in 1..Len(root) /\ Rank(j) \in 1..Cardinality(Files)
    BY <1>1, RankLimit
  <2>2. Len(root) \in Nat
    BY <1>1, LenProperties DEF ImageOK
  <2> QED  BY <1>4, <2>1, <2>2
(* The files before q have been seen, and none was it. *)
<1>6. ASSUME NEW j \in Files, Plain(root[j]) = want, ~OverName(j)
      PROVE  ~(j < q) /\ ~(Rank(j) <= n)
  <2>1. ~(Rank(j) <= n)
    BY <1>1, <1>6 DEF Seen
  <2>2. j < q => Rank(j) <= Rank(q - 1)
    BY <1>1, FilesFacts, RankOrder
  <2> QED  BY <2>1, <2>2
<1>7. \A j \in Files : j # q /\ ~(j < q) => ~(Rank(j) <= n + 1)
  <2> SUFFICES ASSUME NEW j \in Files, j # q, ~(j < q)  PROVE ~(Rank(j) <= n + 1)
    OBVIOUS
  <2>1. q < j
    BY <1>5
  <2>2. Rank(q) < Rank(j)
    BY <1>1, <2>1, FilesFacts, RankOrder
  <2> DEFINE r == Rank(j)
  <2>3. r \in Nat /\ n + 1 < r
    BY <1>5, <2>2
  <2> HIDE DEF r
  <2>4. ~(r <= n + 1)
    BY <1>1, <2>3
  <2> QED  BY <2>4 DEF r
<1> DEFINE M(r) == {j \in Files : Rank(j) <= r /\ Plain(root[j]) = want /\ ~OverName(j)}
<1>8. CASE e.name = want
  <2>1. ~OverName(q) /\ Plain(root[q]) = want /\ e.cluster = root[q][CLUS]
    BY <1>1, <1>8 DEF Describes
  <2>2. found' = <<1, root[q][CLUS]>> /\ pc' = "listed"
    BY <1>8, <2>1 DEF Return
  <2>3. q \in M(MaxSearch)
    <3>1. n + 1 <= MaxSearch
      BY <1>1
    <3> QED  BY <2>1, <3>1
  <2>4. \A h \in M(MaxSearch) : q <= h
    <3> SUFFICES ASSUME NEW h \in M(MaxSearch)  PROVE q <= h
      OBVIOUS
    <3>1. ~(h < q)
      BY <1>6
    <3> QED  BY <1>5, <3>1
  <2>5. SearchDone'
    BY <2>2, <2>3, <2>4, SameRoot
  <2> QED  BY <1>1, <1>3, <2>2, <2>5 DEF DirInv, Starting, After
<1>9. CASE e.name # want
  <2>1. OverName(q) \/ Plain(root[q]) # want
    BY <1>9 DEF Describes
  <2>2. M(n + 1) = {}
    <3> SUFFICES ASSUME NEW j \in M(n + 1)  PROVE FALSE
      OBVIOUS
    <3>1. j \in Files /\ Rank(j) <= n + 1 /\ Plain(root[j]) = want /\ ~OverName(j)
      OBVIOUS
    <3>2. j # q
      BY <2>1, <3>1
    <3> QED  BY <1>6, <1>7, <3>1, <3>2
  <2>3. CASE n + 1 < MaxSearch
    <3>1. pc' = "dir"
      BY <1>2, <1>9, <2>3 DEF Return
    <3>2. Seen(n)' = {}
      BY <1>2, <2>2, SameRoot
    <3> QED  BY <1>1, <1>2, <1>3, <1>4, <2>3, <3>1, <3>2 DEF DirInv, Starting, After
  <2>4. CASE ~(n + 1 < MaxSearch)
    <3>1. found' = <<2>> /\ pc' = "listed"
      BY <1>2, <1>9, <2>4 DEF Return
    <3>2. n + 1 = MaxSearch /\ ~(Cardinality(Files) < MaxSearch)
      BY <1>1, <1>4, <2>4
    <3>3. SearchDone'
      BY <2>2, <3>1, <3>2, SameRoot
    <3> QED  BY <1>1, <1>3, <3>1, <3>3 DEF DirInv, Starting, After
  <2> QED  BY <2>3, <2>4
<1> QED  BY <1>8, <1>9

(* The directory ends before entry n. *)
LEMMA NoEntry ==
    ASSUME Types, DirInv, pc = "scan", fails = 0, root' = root, want' = want,
           ReturnNone, Cardinality(Files) <= n
    PROVE  DirInv'
<1>1. /\ pc' = "listed" /\ found' = (IF want = <<>> THEN found ELSE <<0>>)
      /\ n' = n /\ list' = list
  BY DEF ReturnNone
<1>2. n \in Nat /\ n = Cardinality(Files) /\ want \in Names \cup {<<>>} /\ ImageOK
  <2>1. n \in Nat /\ n <= Cardinality(Files) /\ Cardinality(Files) \in Nat
    BY FilesFacts DEF Types, Listing, DirInv
  <2>2. n = Cardinality(Files)
    BY <2>1
  <2> QED  BY <2>1, <2>2 DEF DirInv, Types
<1>3. Listed' = Listed /\ Files' = Files
  BY <1>1 DEF Listed, Files, Used, Rank, Describes, OverName, OverAttr
<1>4. ListDone'
  <2>1. CASE want = <<>>
    <3>1. Len(list) = n /\ n < MaxList /\ Listed
      BY <2>1 DEF Types, Listing, DirInv
    <3> QED  BY <1>1, <1>2, <1>3, <3>1 DEF ListDone, Least
  <2>2. CASE want # <<>>
    BY <1>1, <1>3, <2>2 DEF ListDone, DirInv
  <2> QED  BY <2>1, <2>2
<1>5. want # <<>> => SearchDone'
  <2> SUFFICES ASSUME want # <<>>  PROVE SearchDone'
    OBVIOUS
  <2>1. n < MaxSearch /\ Seen(n) = {} /\ found' = <<0>>
    BY <1>1 DEF DirInv
  <2>2. \A j \in Files : Rank(j) <= n
    <3>1. \A j \in Files : Rank(j) \in 1..n
      BY <1>2, RankLimit
    <3>2. \A r \in 1..n : r <= n
      BY <1>2
    <3> QED  BY <3>1, <3>2
  <2>3. {j \in Files : Rank(j) <= MaxSearch /\ Plain(root[j]) = want' /\ ~OverName(j)} = {}
    BY <2>1, <2>2 DEF Seen
  <2>4. Cardinality(Files) < MaxSearch
    BY <1>2, <2>1
  <2> QED  BY <2>1, <2>3, <2>4, SameRoot
<1> QED  BY <1>1, <1>2, <1>4, <1>5 DEF DirInv, Starting, After

LEMMA ScanStep ==
    ASSUME Types, DirInv, ScanBlock
    PROVE  DirInv'
<1> SUFFICES ASSUME fails' = 0  PROVE DirInv'
  BY DEF DirInv
<1>1. PICK b \in Reads(blk) :
         /\ mmc_read_sector(blk, b)
         /\ \/ \E j \in Hits(b) : buffer' = StoreName(b, j) /\ Return(Dir_Entry(buffer', j))
            \/ Hits(b) = {} /\ Ended(b, 1) /\ ReturnNone
            \/ /\ Hits(b) = {} /\ ~Ended(b, 1)
               /\ blk' = Short(blk + 1) /\ count' = count + LiveBefore(b, 2)
               /\ pc' = "scan" /\ UNCHANGED <<n, list, found>>
  BY DEF ScanBlock
<1>2. pc = "scan" /\ root' = root /\ want' = want
  BY DEF ScanBlock, image
<1>3. fails = 0
  BY <1>1, ReadType
<1>4. /\ blk \in 6..14 /\ Slot <= Len(root) /\ count = Rank(Slot) /\ count <= n
      /\ n \in Nat /\ ImageOK /\ Slot = 2 * (blk - 6)
  BY <1>2, <1>3, Numbers DEF DirInv, Types, Listing, Slot
<1>5. b = Sector(blk)
  <2>1. blk \in 0..LastSec
    BY <1>4 DEF LastSec
  <2> QED  BY <1>1, <2>1, ReadType
<1>6. /\ \A j \in Hits(b) : /\ Slot + j + 1 \in Used /\ Slot + j \in 0..Len(root)
                            /\ Rank(Slot + j) = n /\ Rank(Slot + j + 1) = n + 1
      /\ Hits(b) = {} /\ Ended(b, 1) => Cardinality(Used) <= n
      /\ Hits(b) = {} /\ ~Ended(b, 1) =>
            /\ Slot + 2 <= Len(root) /\ blk + 1 \in 6..14
            /\ count + LiveBefore(b, 2) = Rank(Slot + 2) /\ Rank(Slot + 2) <= n
  BY <1>4, <1>5, ScanFacts
<1>7. ASSUME NEW j \in Hits(b), buffer' = StoreName(b, j), Return(Dir_Entry(buffer', j))
      PROVE  DirInv'
  <2> DEFINE e == Dir_Entry(StoreName(b, j), j)
             q == Slot + j + 1
  <2>1. /\ q \in Used /\ Rank(Slot + j) = n /\ Rank(q) = n + 1
    BY <1>6, <1>7
  <2>2. j \in 0..1 /\ j \in Slots
    BY <1>7, Numbers DEF Hits
  <2>3. q = 2 * (blk - 6) + j + 1 /\ q - 1 = Slot + j
    BY <1>4, <2>2
  <2>4. q <= Len(root)
    <3>1. q \in 1..Len(root)
      BY <1>4, <2>1, FilesFacts
    <3>2. Len(root) \in Nat
      BY <1>4, LenProperties DEF ImageOK
    <3> HIDE DEF q
    <3> QED  BY <3>1, <3>2
  <2>5. Describes(e, q) /\ (OverName(q) => e.name \notin Names)
    BY <1>4, <1>5, <2>2, <2>3, <2>4, Returned
  <2>6. Return(e)
    BY <1>7
  <2> HIDE DEF e, q
  <2>7. Rank(q - 1) = n
    BY <2>1, <2>3
  <2>8. e.cluster = root[q][CLUS]
    BY <2>5 DEF Describes
  <2>9. CASE e.cluster = EOF
    <3>1. ReturnNone
      BY <2>6, <2>9 DEF Return
    <3>2. Cardinality(Files) <= n
      BY <1>4, <2>1, <2>7, <2>8, <2>9, FilesBelow
    <3> QED  BY <1>2, <1>3, <3>1, <3>2, NoEntry
  <2>10. CASE e.cluster # EOF
    <3>1. q \in Files
      <4>1. n <= Cardinality(Files)
        BY <1>2, <1>3 DEF DirInv
      <4> QED  BY <1>4, <2>1, <2>7, <2>8, <2>10, <4>1, IsFile
    <3>2. CASE want = <<>>
      BY <1>2, <1>3, <2>1, <2>5, <2>6, <2>10, <3>1, <3>2, ListEntry
    <3>3. CASE want # <<>>
      BY <1>2, <1>3, <2>1, <2>5, <2>6, <2>7, <2>10, <3>1, <3>3, SearchEntry
    <3> QED  BY <3>2, <3>3
  <2> QED  BY <2>9, <2>10
<1>8. ASSUME Hits(b) = {}, Ended(b, 1), ReturnNone  PROVE DirInv'
  <2>1. Cardinality(Files) <= n
    <3>1. /\ Cardinality(Files) <= Cardinality(Used) /\ Cardinality(Used) <= n
          /\ Cardinality(Files) \in Nat /\ Cardinality(Used) \in Nat /\ n \in Nat
      BY <1>4, <1>6, <1>8, FilesFacts, RankFacts
    <3> QED  BY ONLY <3>1
  <2> QED  BY <1>2, <1>3, <1>8, <2>1, NoEntry
<1>9. ASSUME Hits(b) = {}, ~Ended(b, 1), blk' = Short(blk + 1),
             count' = count + LiveBefore(b, 2), pc' = "scan", UNCHANGED <<n, list, found>>
      PROVE  DirInv'
  <2>1. blk' = blk + 1
    BY <1>4, <1>6, <1>9 DEF Short, LastSec
  <2>2. Slot' = Slot + 2 /\ blk' \in RootSec..DataSec - 1
    BY <1>4, <1>6, <1>9, <2>1, Numbers DEF Slot
  <2>3. Rank(Slot)' = Rank(Slot + 2) /\ Len(root)' = Len(root)
    BY <1>2, <2>2, SameRoot
  <2>4. Slot' <= Len(root)' /\ count' = Rank(Slot)' /\ count' <= n'
    BY <1>6, <1>9, <2>2, <2>3
  <2>5. /\ Cardinality(Files)' = Cardinality(Files) /\ Listed' = Listed /\ ListDone' = ListDone
        /\ Seen(n)' = Seen(n)
    <3>1. Listed' = Listed
      BY <1>2, <1>9 DEF Listed, Files, Used, Rank, Describes, OverName, OverAttr
    <3>2. Seen(n)' = Seen(n) /\ Files' = Files
      BY <1>2, <1>9 DEF Seen, Files, Used, Rank, OverName
    <3> QED  BY <1>9, <3>1, <3>2 DEF ListDone
  <2> QED  BY <1>2, <1>3, <1>9, <2>2, <2>4, <2>5 DEF DirInv, Starting, After
<1> QED  BY <1>1, <1>7, <1>8, <1>9

LEMMA DirStep == ASSUME Types, FileInv, DirInv, [Next]_vars  PROVE DirInv'
<1>1. CASE \/ Load_FAT \/ ReadBlock \/ Use \/ HwInsert \/ HwReady \/ HwSilent \/ UNCHANGED vars
           \/ \E c \in 0..Len(chain) * SecPerClus - 1 : Read_File(c)
  <2>1. UNCHANGED <<root, dirVars>>
    BY <1>1 DEF Load_FAT, ReadBlock, Use, HwInsert, HwReady, HwSilent, Read_File, vars, image
  <2>2. pc' = pc \/ (pc \in After /\ pc' \in After)
    BY <1>1 DEF Load_FAT, ReadBlock, Use, HwInsert, HwReady, HwSilent, Read_File, vars, After
  <2>3. fails' = 0 => fails = 0
    BY <1>1, ReadType DEF Load_FAT, ReadBlock, Use, HwInsert, HwReady, HwSilent, Read_File, vars
  <2> QED  BY <2>1, <2>2, <2>3, SameDir
<1> QED  BY <1>1, StartDirFirst, StartDirStep, ScanStep, SearchStep DEF Next, Main, Client

LEMMA DirInvHolds == Spec => []DirInv
<1>1. Spec => []Types
  BY InitTypes, TypesStep, PTL DEF Spec
<1>2. Spec => []FileInv
  BY <1>1, InitFile, FileStep, PTL DEF Spec
<1> QED  BY <1>1, <1>2, InitDir, DirStep, PTL DEF Spec

(* For every root directory that fits, and every limit, main lists the      *)
(* files once and in order, each as Read_Dir_Ent's overwriting of its own   *)
(* buffer leaves it, as long as the card refuses no read.                   *)
THEOREM ListRightHolds == Spec => []ListRight
<1>1. DirInv => ListRight
  BY DEF DirInv, After, ListRight, ListDone, Listed
<1> QED  BY <1>1, DirInvHolds, PTL

(* For every root directory that fits, and every limit, Search_File returns *)
(* the first file of the name whose name was not overwritten, 0 after the   *)
(* whole directory, and 2 after MaxSearch files: an overwritten name ends   *)
(* in a dot and is never taken for the one that is searched for.            *)
THEOREM SearchRightHolds == Spec => []SearchRight
<1>1. DirInv => SearchRight
  BY DEF DirInv, After, SearchRight, SearchDone, Seen
<1> QED  BY <1>1, DirInvHolds, PTL
=============================================================================
