---------------------------- MODULE LanRxProofs ----------------------------
(***************************************************************************)
(* What LanRx promises for every number of buffers, all frame lengths and  *)
(* all sizes of the chip's FIFOs.                                          *)
(***************************************************************************)
EXTENDS LanRx, SequenceTheorems, WellFoundedInduction, TLAPS

USE DEF vars, drvVars, chipVars

(* Words of a frame in the data FIFO. *)
Words(len) == (len + 3) \div 4

(* The number the chip gives the frame after frame id. *)
Succ(id) == (id + 1) % NIds

(* Steps from slot a of a ring of buffers to slot b. *)
Dist(a, b) == IF a <= b THEN b - a ELSE b - a + NUM_RX_BUFF

InLoop == pc \in {"read", "ffwd"}
Occupied(s) == rxAvlQue[s].index # -1
Clean == seen \cap {"ffwd", "runt"} = {}

(* n packets wait in the slots from rxNdxOut up to rxNdxIn. *)
Waiting(n) ==
    /\ rxNdxIn = IF rxNdxOut + n >= NUM_RX_BUFF THEN rxNdxOut + n - NUM_RX_BUFF
                                                ELSE rxNdxOut + n
    /\ \A s \in Slots : Occupied(s) <=> Dist(rxNdxOut, s) < n
    /\ pc = "idle" => n = 0
    /\ InLoop => n <= loopCount /\ (~handled => n = 0)

(* The packets of one call fill adjacent slots of the queue, at most one    *)
(* for each turn of the loop, and none is left when the call returns.  The  *)
(* uIP copy never uses the queue.                                           *)
Ring == IF copy = "lan" THEN \E n \in 0..NUM_RX_BUFF : Waiting(n)
        ELSE pc # "deliver" /\ (InLoop => ~handled) /\ \A s \in Slots : ~Occupied(s)

(* No two packets that wait share a buffer, and the buffer of this turn is  *)
(* none of theirs: theirs were those of earlier turns of the same call.     *)
Buffers ==
    /\ \A s, t \in Slots : Occupied(s) /\ Occupied(t) /\ s # t
                                => rxAvlQue[s].index # rxAvlQue[t].index
    /\ InLoop /\ loopCount < NUM_RX_BUFF =>
            \A s \in Slots : Occupied(s) => Dist(rxAvlQue[s].index, rxNdx) \in 1..loopCount

(* Adjacent frames have different numbers. *)
Chain ==
    /\ \A k \in 1..Len(rxStatus) - 1 : rxStatus[k + 1].id = Succ(rxStatus[k].id)
    /\ rxStatus # <<>> => nextId = Succ(rxStatus[Len(rxStatus)].id)

(* Number of the frame that comes after the one being skipped. *)
Following == IF rxStatus = <<>> THEN nextId ELSE rxStatus[1].id

(* The data FIFO holds the frames the status FIFO announces, the words of   *)
(* frame k from off[k - 1] + 1 to off[k], behind what a fast forward under  *)
(* way has still to skip.                                                   *)
Aligned(off) ==
    /\ off[Len(rxStatus)] = Len(rxData)
    /\ \A j, k \in 0..Len(rxStatus) : j <= k => off[j] <= off[k]
    /\ \A k \in 1..Len(rxStatus) :
            /\ off[k] = off[k - 1] + Words(rxStatus[k].len)
            /\ \A j \in off[k - 1] + 1..off[k] : rxData[j] = rxStatus[k].id
    /\ IF ffwd THEN /\ off[0] > 0 /\ rxData[1] # Following
                    /\ \A j \in 1..off[0] : rxData[j] = rxData[1]
               ELSE off[0] = 0

InStep ==
    Clean => /\ intact
             /\ ffwd => pc = "ffwd"
             /\ \A s \in Slots : Occupied(s) =>
                    rxbp[rxAvlQue[s].index] = FrameWords(rxAvlQue[s].id, rxAvlQue[s].len)
             /\ \E off \in [0..Len(rxStatus) -> 0..Len(rxData)] : Aligned(off)

-----------------------------------------------------------------------------
(* Numbers and sequences. *)

(* The sizes, one by one. *)
LEMMA Sizes ==
    /\ ENET_MAX_MTU \in Nat \ {0} /\ FFWD_MIN \in Nat \ {0} /\ NUM_RX_BUFF \in Nat \ {0}
    /\ RxDepth \in Nat \ {0} /\ RxWords \in Nat \ {0} /\ NIds \in Nat /\ NIds > 1
    /\ \A len \in Lengths : len \in Nat \ {0}
BY SizeAssumption DEF NIds

(* A frame has at least one word. *)
LEMMA WordsType == ASSUME NEW len \in Nat \ {0} PROVE Words(len) \in Nat \ {0}
BY DEF Words

(* Succ stays among the numbers and moves on. *)
LEMMA SuccType == ASSUME NEW id \in Ids PROVE Succ(id) \in Ids /\ Succ(id) # id
<1>1. NIds \in Nat /\ NIds > 1 /\ id \in 0..NIds - 1
    BY Sizes DEF Ids
<1>2. CASE id + 1 = NIds
    <2>1. (id + 1) % NIds = 0
        BY ONLY <1>1, <1>2, SMT
    <2> QED BY <1>1, <1>2, <2>1 DEF Succ, Ids
<1>3. CASE id + 1 # NIds
    <2>1. (id + 1) % NIds = id + 1
        BY ONLY <1>1, <1>3, SMT
    <2> QED BY <1>1, <1>3, <2>1 DEF Succ, Ids
<1> QED BY <1>2, <1>3

(* Every set of numbers that is not empty has a least one ... *)
LEMMA Least == ASSUME NEW T, T \subseteq Nat, T # {} PROVE \E x \in T : \A y \in T : x <= y
<1> DEFINE R == OpToRel(<, Nat)
<1>1. IsWellFoundedOn(R, Nat)
    BY NatLessThanWellFounded
<1>2. \A x, y \in Nat : <<y, x>> \in R <=> y < x
    BY DEF OpToRel
<1> HIDE DEF R
<1>3. PICK x \in T : \A y \in T : ~ (<<y, x>> \in R)
    BY <1>1, WFMin
<1>4. \A y \in T : x <= y
    <2> TAKE y \in T
    <2>1. x \in Nat /\ y \in Nat /\ ~ (y < x)
        BY <1>2, <1>3
    <2> QED BY <2>1
<1> QED BY <1>4

(* ... and if it is bounded a greatest one, which is what Max chooses. *)
LEMMA MaxRight ==
    ASSUME NEW n \in Nat, NEW T, T \subseteq 0..n, T # {}
    PROVE  Max(T) \in T /\ \A y \in T : y <= Max(T)
<1> DEFINE U == {n - x : x \in T}
<1>1. U \subseteq Nat /\ U # {}
    OBVIOUS
<1>2. PICK u \in U : \A v \in U : u <= v
    BY <1>1, Least
<1>3. PICK x \in T : u = n - x
    OBVIOUS
<1>4. \A y \in T : x >= y
    <2> TAKE y \in T
    <2>1. u <= n - y /\ x \in 0..n /\ y \in 0..n
        BY <1>2
    <2> QED BY <1>3, <2>1
<1>5. Max(T) \in T /\ \A y \in T : Max(T) >= y
    BY <1>4 DEF Max
<1> QED BY <1>5

(* What Min chooses from two numbers. *)
LEMMA MinRight ==
    ASSUME NEW a \in Nat, NEW b \in Nat PROVE Min({a, b}) = IF a <= b THEN a ELSE b
BY DEF Min

(* A sequence without elements is the empty one. *)
LEMMA NoElements == ASSUME NEW S, NEW s \in Seq(S), Len(s) = 0 PROVE s = <<>>
BY EmptySeq

(* What is left of a sequence without its first n elements. *)
LEMMA Drop ==
    ASSUME NEW S, NEW s \in Seq(S), NEW n \in Nat
    PROVE  LET t == SubSeq(s, n + 1, Len(s))
           IN  /\ t \in Seq(S) /\ Len(t) = IF n <= Len(s) THEN Len(s) - n ELSE 0
               /\ \A i \in 1..Len(s) - n : t[i] = s[n + i]
<1>1. Len(s) \in Nat /\ \A i \in n + 1..Len(s) : s[i] \in S
    BY LenProperties
<1>2. LET t == SubSeq(s, n + 1, Len(s))
      IN  /\ t \in Seq(S)
          /\ Len(t) = IF n + 1 <= Len(s) THEN Len(s) - (n + 1) + 1 ELSE 0
          /\ \A i \in 1..Len(s) - (n + 1) + 1 : t[i] = s[n + 1 + i - 1]
    BY <1>1, SubSeqProperties
<1> QED BY <1>1, <1>2

(* The words CopyWords reads, and those it leaves. *)
LEMMA CopyType ==
    ASSUME TypeOK, NEW len \in Nat \ {0}
    PROVE  LET words == CopyWords(len)
           IN  /\ words \in Seq(Ids)
               /\ Len(words) = IF Words(len) <= Len(rxData) THEN Words(len) ELSE Len(rxData)
               /\ \A i \in 1..Len(words) : words[i] = rxData[i]
<1> DEFINE m == IF Words(len) <= Len(rxData) THEN Words(len) ELSE Len(rxData)
<1>1. Len(rxData) \in Nat /\ Words(len) \in Nat \ {0} /\ rxData \in Seq(Ids)
    BY WordsType DEF TypeOK
<1>2. CopyWords(len) = SubSeq(rxData, 1, m)
    BY <1>1, MinRight DEF CopyWords, Words
<1>3. m \in 0..Len(rxData)
    BY <1>1
<1> HIDE DEF m
<1>4. \A i \in 1..m : rxData[i] \in Ids
    BY <1>1, <1>3, LenProperties
<1>5. /\ SubSeq(rxData, 1, m) \in Seq(Ids)
      /\ Len(SubSeq(rxData, 1, m)) = IF 1 <= m THEN m - 1 + 1 ELSE 0
      /\ \A i \in 1..m - 1 + 1 : SubSeq(rxData, 1, m)[i] = rxData[1 + i - 1]
    BY <1>3, <1>4, SubSeqProperties
<1>6. Len(SubSeq(rxData, 1, m)) = m /\ \A i \in 1..m : SubSeq(rxData, 1, m)[i] = rxData[i]
    BY <1>3, <1>5
<1> QED BY <1>2, <1>5, <1>6 DEF m

(* The words of a frame. *)
LEMMA FrameType ==
    ASSUME NEW len \in Nat \ {0}, NEW id \in Ids
    PROVE  /\ FrameWords(id, len) \in Seq(Ids) /\ Len(FrameWords(id, len)) = Words(len)
           /\ \A i \in 1..Words(len) : FrameWords(id, len)[i] = id
<1>1. Words(len) \in Nat
    BY WordsType
<1>2. FrameWords(id, len) = [i \in 1..Words(len) |-> id]
    BY DEF FrameWords, Words
<1> QED BY <1>1, <1>2

-----------------------------------------------------------------------------
(* TypeOK. *)

StatusType == [id : Ids, len : Lengths, es : BOOLEAN]

(* The next slot of the ring. *)
LEMMA WrapType == ASSUME NEW n \in Slots PROVE Wrap(n) \in Slots
BY Sizes DEF Wrap, Slots

(* Taking a status changes the counters and the status FIFO only. *)
LEMMA PopType ==
    ASSUME TypeOK, PopStatus
    PROVE  /\ pc = "read" /\ rxStatus # <<>> /\ loopCount < NUM_RX_BUFF
           /\ loopCount' = loopCount + 1 /\ loopCount' \in 0..NUM_RX_BUFF
           /\ rxNdx' = Wrap(rxNdx) /\ rxNdx' \in Slots
           /\ Head(rxStatus) = rxStatus[1] /\ Head(rxStatus) \in StatusType
           /\ Head(rxStatus).len \in Nat \ {0} /\ Head(rxStatus).id \in Ids
           /\ rxStatus' = Tail(rxStatus) /\ rxStatus' \in Seq(StatusType)
           /\ Len(rxStatus) \in Nat \ {0} /\ Len(rxStatus') = Len(rxStatus) - 1
           /\ \A i \in 1..Len(rxStatus) - 1 : rxStatus'[i] = rxStatus[i + 1]
           /\ Len(rxStatus') <= RxDepth
           /\ UNCHANGED <<copy, rxNdxOut, nextId>>
<1>1. rxStatus \in Seq(StatusType) /\ rxStatus # <<>> /\ rxStatus' = Tail(rxStatus)
    BY DEF TypeOK, PopStatus, MayRead, StatusType
<1>2. /\ Head(rxStatus) \in StatusType /\ Tail(rxStatus) \in Seq(StatusType)
      /\ Len(Tail(rxStatus)) = Len(rxStatus) - 1
      /\ \A i \in 1..Len(Tail(rxStatus)) : Tail(rxStatus)[i] = rxStatus[i + 1]
    BY ONLY <1>1, HeadTailProperties
<1>3. Len(rxStatus) \in Nat \ {0} /\ Head(rxStatus) = rxStatus[1]
    BY ONLY <1>1, EmptySeq
<1>4. Head(rxStatus).len \in Nat \ {0} /\ Head(rxStatus).id \in Ids
    BY <1>2, Sizes DEF StatusType
<1>5. loopCount' \in 0..NUM_RX_BUFF /\ rxNdx' \in Slots
    BY WrapType, Sizes DEF PopStatus, MayRead, TypeOK
<1>6. Len(rxStatus') <= RxDepth
    BY <1>1, <1>2, <1>3, Sizes DEF TypeOK
<1>7. \A i \in 1..Len(rxStatus) - 1 : rxStatus'[i] = rxStatus[i + 1]
    BY <1>1, <1>2
<1> QED BY <1>1, <1>2, <1>3, <1>4, <1>5, <1>6, <1>7 DEF PopStatus, MayRead

(* Reading from the data FIFO leaves words of it. *)
LEMMA DropData ==
    ASSUME TypeOK, NEW n \in Nat
    PROVE  LET rest == SubSeq(rxData, n + 1, Len(rxData))
           IN  rest \in Seq(Ids) /\ Len(rest) <= RxWords
<1>1. rxData \in Seq(Ids) /\ Len(rxData) \in Nat /\ Len(rxData) <= RxWords
    BY DEF TypeOK
<1>2. LET rest == SubSeq(rxData, n + 1, Len(rxData))
      IN  rest \in Seq(Ids) /\ Len(rest) = IF n <= Len(rxData) THEN Len(rxData) - n ELSE 0
    BY <1>1, Drop
<1> QED BY <1>1, <1>2, Sizes

(* The words a fast forward skips. *)
Own == {i \in 1..Len(rxData) : \A j \in 1..i : rxData[j] = rxData[1]}

(* It skips as many of them as there are. *)
LEMMA OwnRight ==
    ASSUME TypeOK
    PROVE  LET m == Max(Own \cup {0})
           IN  m \in 0..Len(rxData) /\ m \in Own \cup {0} /\ \A i \in Own : i <= m
<1>1. Len(rxData) \in Nat
    BY DEF TypeOK
<1>2. Own \cup {0} \subseteq 0..Len(rxData) /\ Own \cup {0} # {}
    BY <1>1 DEF Own
<1> QED BY <1>1, <1>2, MaxRight

(* TypeOK is inductive. *)
LEMMA TypeStep == TypeOK /\ [Next]_vars => TypeOK'
<1> SUFFICES ASSUME TypeOK, [Next]_vars PROVE TypeOK'
    OBVIOUS
<1> USE DEF StatusType
<1>1. CASE lan9118_read
    <2>1. 0 \in 0..NUM_RX_BUFF
        BY Sizes
    <2> QED BY <1>1, <2>1 DEF lan9118_read, TypeOK
<1>2. CASE DiscardFast
    BY <1>2, PopType DEF DiscardFast, TypeOK
<1>3. CASE FastDone \/ FastTimeout \/ NoMore \/ DeliverEnd
    BY <1>3 DEF FastDone, FastTimeout, NoMore, Leave, DeliverEnd, TypeOK
<1>4. CASE DiscardManually
    <2>1. PopStatus /\ rxData' = SubSeq(rxData, Head(rxStatus).len + 1, Len(rxData))
        BY <1>4 DEF DiscardManually
    <2>2. rxData' \in Seq(Ids) /\ Len(rxData') <= RxWords
        BY <2>1, PopType, DropData
    <2> QED BY <1>4, <2>1, <2>2, PopType DEF DiscardManually, TypeOK
<1>5. CASE StoreUip
    <2> DEFINE words == CopyWords(Head(rxStatus).len)
    <2>1. PopStatus /\ rxData' = SubSeq(rxData, Len(words) + 1, Len(rxData))
        BY <1>5 DEF StoreUip
    <2>2. Len(words) \in Nat
        BY <2>1, PopType, CopyType
    <2>3. rxData' \in Seq(Ids) /\ Len(rxData') <= RxWords
        BY <2>1, <2>2, DropData
    <2>4. rxNdxIn' \in Slots
        BY <1>5, WrapType DEF StoreUip, TypeOK
    <2>5. intact' \in BOOLEAN
        BY <1>5 DEF StoreUip
    <2> HIDE DEF words
    <2> QED BY <1>5, <2>1, <2>3, <2>4, <2>5, PopType DEF StoreUip, TypeOK
<1>6. CASE StoreLan
    <2> DEFINE words == CopyWords(Head(rxStatus).len)
    <2>1. PopStatus
        BY <1>6 DEF StoreLan
    <2>2. CASE Occupied(rxNdxIn)
        BY <1>6, <2>1, <2>2, PopType DEF StoreLan, TypeOK, Occupied
    <2>3. CASE ~Occupied(rxNdxIn)
        <3>1. words \in Seq(Ids) /\ Len(words) \in Nat
            BY <2>1, PopType, CopyType
        <3> DEFINE e == [index |-> rxNdx, len |-> Head(rxStatus).len, id |-> Head(rxStatus).id]
        <3>2. /\ rxData' = SubSeq(rxData, Len(words) + 1, Len(rxData))
              /\ rxNdxIn' = Wrap(rxNdxIn)
              /\ rxbp' = [rxbp EXCEPT ![rxNdx] = words]
              /\ rxAvlQue' = [rxAvlQue EXCEPT ![rxNdxIn] = e]
              /\ ~Unwanted(Head(rxStatus))
              /\ UNCHANGED <<ffwd, intact, pc, seen>> /\ handled' = TRUE
            BY <1>6, <2>3 DEF StoreLan, Occupied
        <3>3. rxData' \in Seq(Ids) /\ Len(rxData') <= RxWords
            BY <3>1, <3>2, DropData
        <3>4. rxNdxIn' \in Slots
            BY <3>2, WrapType DEF TypeOK
        <3>5. DOMAIN rxbp' = Slots /\ \A i \in Slots : rxbp'[i] \in Seq(Ids)
            BY <3>1, <3>2 DEF TypeOK
        <3>6. Head(rxStatus).len \in 0..ENET_MAX_MTU
            BY <2>1, <3>2, PopType, Sizes DEF Unwanted
        <3>7. e \in [index : Slots \cup {-1}, len : 0..ENET_MAX_MTU, id : Ids]
            BY <2>1, <3>6, PopType DEF TypeOK
        <3> HIDE DEF e, words
        <3>8. rxAvlQue' \in [Slots -> [index : Slots \cup {-1}, len : 0..ENET_MAX_MTU, id : Ids]]
            BY <3>2, <3>7 DEF TypeOK
        <3> QED BY <2>1, <3>2, <3>3, <3>4, <3>5, <3>8, PopType DEF TypeOK
    <2> QED BY <2>2, <2>3
<1>7. CASE Deliver
    <2> DEFINE q == rxAvlQue[rxNdxOut]
    <2>1. /\ q.index # -1 /\ intact' \in BOOLEAN
          /\ rxAvlQue' = [rxAvlQue EXCEPT ![rxNdxOut] = Free]
          /\ rxbp' = [rxbp EXCEPT ![q.index] = <<>>]
          /\ rxNdxOut' = Wrap(rxNdxOut)
        BY <1>7 DEF Deliver
    <2>2. Free \in [index : Slots \cup {-1}, len : 0..ENET_MAX_MTU, id : Ids]
        BY Sizes DEF Free, Ids
    <2>3. rxAvlQue' \in [Slots -> [index : Slots \cup {-1}, len : 0..ENET_MAX_MTU, id : Ids]]
        BY <2>1, <2>2 DEF TypeOK
    <2>4. DOMAIN rxbp' = Slots /\ \A i \in Slots : rxbp'[i] \in Seq(Ids)
        BY <2>1, EmptySeq DEF TypeOK
    <2>5. rxNdxOut' \in Slots
        BY <2>1, WrapType DEF TypeOK
    <2> QED BY <1>7, <2>1, <2>3, <2>4, <2>5 DEF Deliver, TypeOK
<1>8. ASSUME NEW len \in Lengths, NEW es \in BOOLEAN, HwArrive(len, es) PROVE TypeOK'
    <2> DEFINE e == [id |-> nextId, len |-> len, es |-> es]
    <2>1. /\ rxStatus' = Append(rxStatus, e) /\ e \in StatusType
          /\ rxStatus \in Seq(StatusType) /\ Len(rxStatus) < RxDepth
        BY <1>8 DEF HwArrive, TypeOK
    <2> HIDE DEF e
    <2>2. rxStatus' \in Seq(StatusType) /\ Len(rxStatus') = Len(rxStatus) + 1
        BY <2>1
    <2>3. Len(rxStatus') <= RxDepth
        BY <2>1, <2>2, Sizes
    <2>4. /\ FrameWords(nextId, len) \in Seq(Ids) /\ rxData \in Seq(Ids)
          /\ rxData' = rxData \o FrameWords(nextId, len) /\ Len(rxData') <= RxWords
        BY <1>8, FrameType, Sizes DEF HwArrive, TypeOK
    <2>5. rxData' \in Seq(Ids)
        BY <2>4, ConcatProperties
    <2>6. nextId' \in Ids
        BY <1>8, SuccType DEF HwArrive, TypeOK, Succ
    <2> QED BY <1>8, <2>2, <2>3, <2>4, <2>5, <2>6 DEF HwArrive, TypeOK
<1>9. CASE HwFastForward
    <2>1. rxData' = SubSeq(rxData, Max(Own \cup {0}) + 1, Len(rxData)) /\ ffwd' = FALSE
        BY <1>9 DEF HwFastForward, Own
    <2>2. Max(Own \cup {0}) \in Nat
        BY OwnRight DEF TypeOK
    <2>3. rxData' \in Seq(Ids) /\ Len(rxData') <= RxWords
        BY <2>1, <2>2, DropData
    <2> QED BY <1>9, <2>3 DEF HwFastForward, TypeOK
<1>10. CASE UNCHANGED vars
    BY <1>10 DEF TypeOK
<1> QED BY <1>1, <1>2, <1>3, <1>4, <1>5, <1>6, <1>7, <1>8, <1>9, <1>10
        DEF Next, Driver, Arrive

(* The indices stay inside the ring, the FIFOs hold what they can, and      *)
(* every packet queued is one the driver keeps.                             *)
THEOREM TypeCorrect == Spec => []TypeOK
<1>1. Init => TypeOK
    <2>1. 0 \in Slots /\ 0 \in Ids /\ 0 \in 0..NUM_RX_BUFF /\ 0 \in 0..ENET_MAX_MTU
        BY Sizes DEF Slots, Ids
    <2>2. Free \in [index : Slots \cup {-1}, len : 0..ENET_MAX_MTU, id : Ids]
        BY <2>1 DEF Free
    <2>3. <<>> \in Seq(Ids) /\ <<>> \in Seq(StatusType) /\ Len(<<>>) = 0
        BY EmptySeq
    <2>4. 0 <= RxDepth /\ 0 <= RxWords
        BY Sizes
    <2> QED BY <2>1, <2>2, <2>3, <2>4 DEF Init, TypeOK, StatusType
<1> QED BY <1>1, TypeStep, PTL DEF Spec

-----------------------------------------------------------------------------
(* The queue of packets is never full. *)

(* The slot n steps after slot a. *)
Ahead(a, n) == IF a + n >= NUM_RX_BUFF THEN a + n - NUM_RX_BUFF ELSE a + n

(* Dist and Ahead fit each other and Wrap. *)
LEMMA RingSteps ==
    ASSUME NEW a \in Slots, NEW n \in 0..NUM_RX_BUFF
    PROVE  /\ \A s \in Slots : Dist(a, s) \in 0..NUM_RX_BUFF - 1
           /\ n < NUM_RX_BUFF => /\ Dist(a, Ahead(a, n)) = n
                                 /\ \A s \in Slots : Dist(a, s) = n <=> s = Ahead(a, n)
                                 /\ Wrap(Ahead(a, n)) = Ahead(a, n + 1)
           /\ n > 0 => Ahead(Wrap(a), n - 1) = Ahead(a, n)
           /\ \A s \in Slots : s # a => Dist(Wrap(a), s) = Dist(a, s) - 1
           /\ Dist(Wrap(a), a) = NUM_RX_BUFF - 1 /\ Dist(a, a) = 0 /\ Ahead(a, 0) = a
BY Sizes DEF Slots, Dist, Ahead, Wrap

(* A packet to be queued finds its slot free: a call takes no more statuses *)
(* than there are slots, and started with none in use.                      *)
LEMMA SlotFree ==
    ASSUME TypeOK, Ring, StoreLan PROVE ~Occupied(rxNdxIn)
<1>1. copy = "lan" /\ PopStatus
    BY DEF StoreLan
<1>2. PICK n \in 0..NUM_RX_BUFF : Waiting(n)
    BY <1>1 DEF Ring
<1>3. n <= loopCount /\ loopCount < NUM_RX_BUFF /\ loopCount \in Nat
    BY <1>1, <1>2, PopType DEF Waiting, InLoop, TypeOK
<1>4. n < NUM_RX_BUFF /\ n \in Nat /\ rxNdxIn = Ahead(rxNdxOut, n)
    BY <1>2, <1>3, Sizes DEF Waiting, Ahead
<1>5. rxNdxOut \in Slots /\ rxNdxIn \in Slots
    BY DEF TypeOK
<1>6. Dist(rxNdxOut, rxNdxIn) = n
    BY <1>4, <1>5, RingSteps
<1> QED BY <1>2, <1>4, <1>5, <1>6 DEF Waiting

(* So StoreLan always stores. *)
LEMMA StoreRight ==
    ASSUME TypeOK, Ring, StoreLan
    PROVE  /\ copy = "lan" /\ PopStatus /\ ~Unwanted(Head(rxStatus)) /\ ~Occupied(rxNdxIn)
           /\ rxAvlQue' = [rxAvlQue EXCEPT ![rxNdxIn] =
                   [index |-> rxNdx, len |-> Head(rxStatus).len, id |-> Head(rxStatus).id]]
           /\ rxNdxIn' = Wrap(rxNdxIn) /\ handled' = TRUE
           /\ rxbp' = [rxbp EXCEPT ![rxNdx] = CopyWords(Head(rxStatus).len)]
           /\ rxData' = SubSeq(rxData, Len(CopyWords(Head(rxStatus).len)) + 1, Len(rxData))
           /\ UNCHANGED <<pc, seen, ffwd, intact>>
<1>1. ~Occupied(rxNdxIn)
    BY SlotFree
<1> QED BY <1>1 DEF StoreLan, Occupied

(* Ring is inductive. *)
LEMMA RingStep == TypeOK /\ Ring /\ [Next]_vars => Ring'
<1> SUFFICES ASSUME TypeOK, Ring, [Next]_vars PROVE Ring'
    OBVIOUS
<1>1. CASE lan9118_read
    <2>1. UNCHANGED <<copy, rxAvlQue, rxNdxIn, rxNdxOut>> /\ pc' = "read" /\ pc = "idle"
          /\ loopCount' = 0 /\ handled' = FALSE
        BY <1>1 DEF lan9118_read
    <2>2. CASE copy = "lan"
        <3>1. PICK n \in 0..NUM_RX_BUFF : Waiting(n)
            BY <2>2 DEF Ring
        <3>2. n = 0 /\ Waiting(n)'
            BY <2>1, <3>1 DEF Waiting, Occupied, Dist, InLoop, TypeOK
        <3> QED BY <2>1, <2>2, <3>1, <3>2 DEF Ring
    <2>3. CASE copy # "lan"
        BY <2>1, <2>3 DEF Ring, Occupied
    <2> QED BY <2>2, <2>3
<1>2. CASE DiscardFast \/ DiscardManually
    <2>1. /\ PopStatus /\ UNCHANGED <<copy, rxAvlQue, rxNdxIn, rxNdxOut, handled>>
          /\ pc = "read" /\ pc' \in {"read", "ffwd"} /\ loopCount' = loopCount + 1
          /\ loopCount \in Nat
        BY <1>2 DEF DiscardFast, DiscardManually, PopStatus, TypeOK
    <2>2. CASE copy = "lan"
        <3>1. PICK n \in 0..NUM_RX_BUFF : Waiting(n)
            BY <2>2 DEF Ring
        <3>2. Waiting(n)'
            BY <2>1, <3>1, Sizes DEF Waiting, Occupied, Dist, InLoop
        <3> QED BY <2>1, <2>2, <3>1, <3>2 DEF Ring
    <2>3. CASE copy # "lan"
        BY <2>1, <2>3 DEF Ring, Occupied, InLoop
    <2> QED BY <2>2, <2>3
<1>3. CASE FastDone \/ FastTimeout \/ NoMore
    <2>1. /\ UNCHANGED <<copy, rxAvlQue, rxNdxIn, rxNdxOut, handled, loopCount>>
          /\ pc \in {"read", "ffwd"}
          /\ pc' = "read" \/ pc' = IF handled THEN "deliver" ELSE "idle"
        BY <1>3 DEF FastDone, FastTimeout, NoMore, Leave
    <2>2. CASE copy = "lan"
        <3>1. PICK n \in 0..NUM_RX_BUFF : Waiting(n)
            BY <2>2 DEF Ring
        <3>2. Waiting(n)'
            BY <2>1, <3>1 DEF Waiting, Occupied, Dist, InLoop
        <3> QED BY <2>1, <2>2, <3>1, <3>2 DEF Ring
    <2>3. CASE copy # "lan"
        BY <2>1, <2>3 DEF Ring, Occupied, InLoop
    <2> QED BY <2>2, <2>3
<1>4. CASE StoreUip
    BY <1>4 DEF StoreUip, PopStatus, Ring, Occupied, InLoop
<1>5. CASE StoreLan
    <2>1. /\ copy = "lan" /\ PopStatus /\ rxNdxIn' = Wrap(rxNdxIn) /\ UNCHANGED pc
          /\ rxAvlQue' = [rxAvlQue EXCEPT ![rxNdxIn] =
                  [index |-> rxNdx, len |-> Head(rxStatus).len, id |-> Head(rxStatus).id]]
          /\ handled'
        BY <1>5, StoreRight
    <2>2. PICK n \in 0..NUM_RX_BUFF : Waiting(n)
        BY <2>1 DEF Ring
    <2>3. /\ n <= loopCount /\ loopCount < NUM_RX_BUFF /\ loopCount \in Nat /\ pc = "read"
          /\ loopCount' = loopCount + 1 /\ UNCHANGED <<copy, rxNdxOut>>
        BY <2>1, <2>2, PopType DEF Waiting, InLoop, TypeOK
    <2>4. /\ n < NUM_RX_BUFF /\ n \in Nat /\ rxNdxIn = Ahead(rxNdxOut, n)
          /\ n + 1 \in 0..NUM_RX_BUFF
        BY <2>2, <2>3, Sizes DEF Waiting, Ahead
    <2>5. rxNdxOut \in Slots /\ rxNdxIn \in Slots /\ rxNdx \in Slots /\ -1 \notin Slots
        BY DEF TypeOK, Slots
    <2>6. rxNdxIn' = Ahead(rxNdxOut', n + 1)
        BY <2>1, <2>3, <2>4, <2>5, RingSteps
    <2>7. ASSUME NEW t \in Slots PROVE Occupied(t)' <=> Dist(rxNdxOut', t) < n + 1
        <3>1. Dist(rxNdxOut, t) \in Nat /\ (Dist(rxNdxOut, t) = n <=> t = rxNdxIn)
            BY <2>4, <2>5, RingSteps, Sizes
        <3>2. Occupied(t)' <=> t = rxNdxIn \/ Occupied(t)
            BY <2>1, <2>5 DEF Occupied, TypeOK
        <3>3. Occupied(t) <=> Dist(rxNdxOut, t) < n
            BY <2>2 DEF Waiting
        <3>4. Dist(rxNdxOut', t) = Dist(rxNdxOut, t)
            BY <2>3 DEF Dist
        <3> QED BY <2>4, <3>1, <3>2, <3>3, <3>4
    <2>8. Waiting(n + 1)'
        BY <2>1, <2>3, <2>4, <2>6, <2>7 DEF Waiting, InLoop, Ahead
    <2> QED BY <2>1, <2>3, <2>4, <2>8 DEF Ring
<1>6. CASE Deliver
    <2>1. /\ pc = "deliver" /\ Occupied(rxNdxOut) /\ rxNdxOut' = Wrap(rxNdxOut)
          /\ rxAvlQue' = [rxAvlQue EXCEPT ![rxNdxOut] = Free]
          /\ UNCHANGED <<copy, pc, rxNdxIn, loopCount, handled>>
        BY <1>6 DEF Deliver, Occupied
    <2>2. copy = "lan"
        BY <2>1 DEF Ring
    <2>3. PICK n \in 0..NUM_RX_BUFF : Waiting(n)
        BY <2>2 DEF Ring
    <2>4. rxNdxOut \in Slots
        BY DEF TypeOK
    <2>5. n > 0 /\ n \in Nat /\ n - 1 \in 0..NUM_RX_BUFF /\ rxNdxIn = Ahead(rxNdxOut, n)
        BY <2>1, <2>3, <2>4, RingSteps, Sizes DEF Waiting, Ahead
    <2>6. rxNdxIn' = Ahead(rxNdxOut', n - 1)
        BY <2>1, <2>4, <2>5, RingSteps
    <2>7. ASSUME NEW t \in Slots PROVE Occupied(t)' <=> Dist(rxNdxOut', t) < n - 1
        <3>1. Occupied(t) <=> Dist(rxNdxOut, t) < n
            BY <2>3 DEF Waiting
        <3>2. Occupied(t)' <=> t # rxNdxOut /\ Occupied(t)
            BY <2>1, <2>4 DEF Occupied, TypeOK, Free
        <3>3. /\ Dist(rxNdxOut, t) \in Nat
              /\ Dist(rxNdxOut', t) = IF t = rxNdxOut THEN NUM_RX_BUFF - 1
                                      ELSE Dist(rxNdxOut, t) - 1
            <4>1. Dist(rxNdxOut', t) = Dist(Wrap(rxNdxOut), t)
                BY <2>1 DEF Dist
            <4> QED BY <2>4, <4>1, RingSteps, Sizes
        <3> QED BY <2>5, <3>1, <3>2, <3>3, Sizes
    <2>8. Waiting(n - 1)'
        BY <2>1, <2>5, <2>6, <2>7 DEF Waiting, InLoop, Ahead
    <2> QED BY <2>1, <2>2, <2>5, <2>8 DEF Ring
<1>7. CASE DeliverEnd
    <2>1. /\ pc = "deliver" /\ ~Occupied(rxNdxOut) /\ pc' = "idle"
          /\ UNCHANGED <<copy, rxAvlQue, rxNdxIn, rxNdxOut, handled, loopCount>>
        BY <1>7 DEF DeliverEnd, Occupied
    <2>2. PICK n \in 0..NUM_RX_BUFF : Waiting(n)
        BY <2>1 DEF Ring
    <2>3. n = 0
        BY <2>1, <2>2, RingSteps, Sizes DEF Waiting, TypeOK
    <2>4. Waiting(n)'
        BY <2>1, <2>2, <2>3 DEF Waiting, Occupied, Dist, InLoop
    <2> QED BY <2>1, <2>2, <2>4 DEF Ring
<1>8. CASE UNCHANGED <<copy, pc, drvVars>>
    BY <1>8 DEF Ring, Waiting, Occupied, Dist, InLoop
<1> QED BY <1>1, <1>2, <1>3, <1>4, <1>5, <1>6, <1>7, <1>8
        DEF Next, Driver, Arrive, HwArrive, HwFastForward

(* Ring holds initially. *)
LEMMA RingInit == Init => Ring
<1> SUFFICES ASSUME Init PROVE Ring
    OBVIOUS
<1>1. \A s \in Slots : ~Occupied(s)
    BY DEF Init, Occupied, Free
<1>2. 0 \in 0..NUM_RX_BUFF /\ Waiting(0)
    BY <1>1, Sizes DEF Init, Waiting, Slots, Dist, InLoop
<1> QED BY <1>1, <1>2 DEF Init, Ring, InLoop

(* The branch for a full queue is never taken, for every number of buffers. *)
THEOREM NeverFullHolds == Spec => []NeverFull
<1>1. Init => NeverFull
    BY DEF Init, NeverFull
<1>2. TypeOK /\ Ring /\ NeverFull /\ [Next]_vars => NeverFull'
    <2> SUFFICES ASSUME TypeOK, Ring, NeverFull, [Next]_vars PROVE NeverFull'
        OBVIOUS
    <2>1. CASE StoreLan
        BY <2>1, StoreRight DEF NeverFull
    <2>2. CASE FastTimeout \/ DiscardManually
        BY <2>2 DEF FastTimeout, DiscardManually, NeverFull
    <2>3. CASE UNCHANGED seen
        BY <2>3 DEF NeverFull
    <2> QED BY <2>1, <2>2, <2>3
            DEF Next, lan9118_read, Driver, DiscardFast, FastDone, StoreUip, NoMore, Deliver,
                DeliverEnd, Arrive, HwArrive, HwFastForward
<1> QED BY <1>1, <1>2, TypeCorrect, RingInit, RingStep, PTL DEF Spec

-----------------------------------------------------------------------------
(* Buffers and numbers of frames. *)

(* Dist under a step of its second argument. *)
LEMMA DistWrap ==
    ASSUME NEW a \in Slots, NEW b \in Slots
    PROVE  /\ Dist(a, b) + 1 < NUM_RX_BUFF => Dist(a, Wrap(b)) = Dist(a, b) + 1
           /\ Dist(a, b) = 0 <=> a = b
BY Sizes DEF Slots, Dist, Wrap

(* Between calls no packet waits. *)
LEMMA NoneIdle == ASSUME TypeOK, Ring, pc = "idle" PROVE \A s \in Slots : ~Occupied(s)
<1>1. CASE copy = "lan"
    <2>1. Waiting(0)
        BY <1>1 DEF Ring, Waiting
    <2>2. \A s \in Slots : ~(Dist(rxNdxOut, s) < 0)
        BY RingSteps DEF TypeOK, Dist, Slots
    <2> QED BY <2>1, <2>2 DEF Waiting
<1> QED BY <1>1 DEF Ring

(* Buffers is inductive. *)
LEMMA BuffersStep == TypeOK /\ Ring /\ Buffers /\ [Next]_vars => Buffers'
<1> SUFFICES ASSUME TypeOK, Ring, Buffers, [Next]_vars PROVE Buffers'
    OBVIOUS
<1>t. /\ rxNdx \in Slots /\ loopCount \in Nat /\ NUM_RX_BUFF \in Nat
      /\ \A s \in Slots : Occupied(s) => rxAvlQue[s].index \in Slots
    BY Sizes DEF TypeOK, Occupied
<1>1. CASE lan9118_read
    BY <1>1, NoneIdle DEF lan9118_read, Buffers, Occupied
<1>2. CASE DiscardFast \/ DiscardManually
    <2>1. PopStatus /\ UNCHANGED rxAvlQue /\ rxNdx' = Wrap(rxNdx) /\ InLoop
          /\ loopCount' = loopCount + 1
        BY <1>2 DEF DiscardFast, DiscardManually, PopStatus, InLoop
    <2>2. ASSUME loopCount' < NUM_RX_BUFF, NEW s \in Slots, Occupied(s)'
          PROVE  Dist(rxAvlQue[s].index, rxNdx)' \in 1..loopCount'
        <3>1. Occupied(s) /\ Dist(rxAvlQue[s].index, rxNdx) \in 1..loopCount
            BY <1>t, <2>1, <2>2 DEF Buffers, Occupied
        <3>2. Dist(rxAvlQue[s].index, Wrap(rxNdx)) = Dist(rxAvlQue[s].index, rxNdx) + 1
            BY <1>t, <2>1, <2>2, <3>1, DistWrap
        <3>3. Dist(rxAvlQue[s].index, rxNdx)' = Dist(rxAvlQue[s].index, Wrap(rxNdx))
            BY <2>1 DEF Dist
        <3> QED BY <1>t, <2>1, <3>1, <3>2, <3>3
    <2> QED BY <2>1, <2>2 DEF Buffers, Occupied
<1>3. CASE FastDone \/ FastTimeout \/ NoMore
    <2>1. UNCHANGED <<rxAvlQue, rxNdx, loopCount>> /\ InLoop
        BY <1>3 DEF FastDone, FastTimeout, NoMore, Leave, InLoop
    <2> QED BY <2>1 DEF Buffers, Occupied, Dist
<1>4. CASE StoreUip
    BY <1>4 DEF StoreUip, Buffers, Occupied, InLoop
<1>5. CASE StoreLan
    <2> DEFINE e == [index |-> rxNdx, len |-> Head(rxStatus).len, id |-> Head(rxStatus).id]
    <2>1. /\ PopStatus /\ InLoop /\ loopCount < NUM_RX_BUFF /\ loopCount' = loopCount + 1
          /\ rxNdx' = Wrap(rxNdx) /\ rxAvlQue' = [rxAvlQue EXCEPT ![rxNdxIn] = e]
        BY <1>5, StoreRight, PopType DEF InLoop
    <2>2. e.index = rxNdx
        OBVIOUS
    <2> HIDE DEF e
    <2>3. ASSUME NEW s \in Slots
          PROVE  rxAvlQue'[s] = IF s = rxNdxIn THEN e ELSE rxAvlQue[s]
        BY <2>1 DEF TypeOK
    <2>4. ASSUME NEW s \in Slots, Occupied(s)
          PROVE  /\ Dist(rxAvlQue[s].index, rxNdx) \in 1..loopCount
                 /\ rxAvlQue[s].index # rxNdx /\ rxAvlQue[s].index \in Slots
        BY <1>t, <2>1, <2>4, DistWrap DEF Buffers
    <2>5. \A s, t \in Slots : Occupied(s)' /\ Occupied(t)' /\ s # t
                                  => rxAvlQue'[s].index # rxAvlQue'[t].index
        BY <2>2, <2>3, <2>4 DEF Occupied, Buffers
    <2>6. ASSUME loopCount' < NUM_RX_BUFF, NEW s \in Slots, Occupied(s)'
          PROVE  Dist(rxAvlQue[s].index, rxNdx)' \in 1..loopCount'
        <3>1. Dist(rxAvlQue[s].index, rxNdx)' = Dist(rxAvlQue'[s].index, Wrap(rxNdx))
            BY <2>1 DEF Dist
        <3>2. CASE s = rxNdxIn
            BY <1>t, <2>1, <2>2, <2>3, <2>6, <3>1, <3>2, DistWrap
        <3>3. CASE s # rxNdxIn
            <4>1. Occupied(s) /\ rxAvlQue'[s] = rxAvlQue[s]
                BY <2>3, <2>6, <3>3 DEF Occupied
            <4> QED BY <1>t, <2>1, <2>4, <2>6, <3>1, <4>1, DistWrap
        <3> QED BY <3>2, <3>3
    <2> QED BY <2>5, <2>6 DEF Buffers
<1>6. CASE Deliver
    <2>1. pc' = "deliver" /\ rxAvlQue' = [rxAvlQue EXCEPT ![rxNdxOut] = Free]
        BY <1>6 DEF Deliver
    <2>2. ASSUME NEW s \in Slots, Occupied(s)'
          PROVE  Occupied(s) /\ rxAvlQue'[s] = rxAvlQue[s]
        BY <2>1, <2>2 DEF Occupied, Free, TypeOK
    <2> QED BY <2>1, <2>2 DEF Buffers, InLoop
<1>7. CASE DeliverEnd
    BY <1>7 DEF DeliverEnd, Buffers, Occupied, InLoop
<1>8. CASE UNCHANGED <<pc, drvVars>>
    BY <1>8 DEF Buffers, Occupied, InLoop, Dist
<1> QED BY <1>1, <1>2, <1>3, <1>4, <1>5, <1>6, <1>7, <1>8
        DEF Next, Driver, Arrive, HwArrive, HwFastForward

(* Chain is inductive. *)
LEMMA ChainStep == TypeOK /\ Chain /\ [Next]_vars => Chain'
<1> SUFFICES ASSUME TypeOK, Chain, [Next]_vars PROVE Chain'
    OBVIOUS
<1>1. CASE PopStatus
    <2>1. /\ Len(rxStatus) \in Nat \ {0} /\ Len(rxStatus') = Len(rxStatus) - 1
          /\ \A i \in 1..Len(rxStatus) - 1 : rxStatus'[i] = rxStatus[i + 1]
          /\ rxStatus' \in Seq(StatusType) /\ rxStatus # <<>> /\ nextId' = nextId
        BY <1>1, PopType
    <2>2. ASSUME NEW k \in 1..Len(rxStatus') - 1
          PROVE  rxStatus'[k + 1].id = Succ(rxStatus'[k].id)
        <3>1. /\ k + 1 \in 1..Len(rxStatus) - 1 /\ k \in 1..Len(rxStatus) - 1
              /\ rxStatus'[k + 1] = rxStatus[k + 1 + 1] /\ rxStatus'[k] = rxStatus[k + 1]
            BY <2>1
        <3> QED BY <3>1 DEF Chain
    <2>3. ASSUME rxStatus' # <<>>
          PROVE  nextId' = Succ(rxStatus'[Len(rxStatus')].id)
        <3>1. Len(rxStatus') > 0
            BY <2>1, <2>3, EmptySeq
        <3>2. rxStatus'[Len(rxStatus')] = rxStatus[Len(rxStatus)]
            BY <2>1, <3>1
        <3> QED BY <2>1, <3>2 DEF Chain
    <2> QED BY <2>2, <2>3 DEF Chain, Succ
<1>2. ASSUME NEW len \in Lengths, NEW es \in BOOLEAN, HwArrive(len, es) PROVE Chain'
    <2> DEFINE e == [id |-> nextId, len |-> len, es |-> es]
    <2>1. /\ rxStatus' = Append(rxStatus, e) /\ nextId' = Succ(nextId) /\ e \in StatusType
          /\ rxStatus \in Seq(StatusType) /\ e.id = nextId
        BY <1>2 DEF HwArrive, Succ, StatusType, TypeOK
    <2> HIDE DEF e
    <2>2. /\ Len(rxStatus) \in Nat /\ Len(rxStatus') = Len(rxStatus) + 1
          /\ rxStatus'[Len(rxStatus) + 1] = e
          /\ \A k \in 1..Len(rxStatus) : rxStatus'[k] = rxStatus[k]
        BY <2>1
    <2>3. ASSUME NEW k \in 1..Len(rxStatus') - 1
          PROVE  rxStatus'[k + 1].id = Succ(rxStatus'[k].id)
        <3>1. CASE k = Len(rxStatus)
            <4>1. rxStatus # <<>>
                BY <2>2, <2>3, <3>1
            <4> QED BY <2>1, <2>2, <2>3, <3>1, <4>1 DEF Chain
        <3>2. CASE k # Len(rxStatus)
            BY <2>2, <2>3, <3>2 DEF Chain
        <3> QED BY <3>1, <3>2
    <2> QED BY <2>1, <2>2, <2>3 DEF Chain, Succ
<1>3. CASE UNCHANGED <<rxStatus, nextId>>
    BY <1>3 DEF Chain, Succ
<1> QED BY <1>1, <1>2, <1>3
        DEF Next, lan9118_read, Driver, DiscardFast, FastDone, FastTimeout, DiscardManually,
            StoreUip, StoreLan, NoMore, Leave, Deliver, DeliverEnd, Arrive, HwFastForward

-----------------------------------------------------------------------------
(* The two receive FIFOs stay in step. *)

Offsets == [0..Len(rxStatus) -> 0..Len(rxData)]

(* A range of words, seen from word c. *)
LEMMA ShiftRange ==
    ASSUME NEW a \in Int, NEW b \in Int, NEW c \in Int, NEW m \in Int,
           c <= a, b <= m, NEW j \in a - c + 1..b - c
    PROVE  j \in 1..m - c /\ c + j \in a + 1..b
OBVIOUS

(* When the first d statuses are gone and with them the words before their  *)
(* end, the rest is still aligned.                                          *)
LEMMA DropFront ==
    ASSUME TypeOK, TypeOK', NEW off \in Offsets, Aligned(off), ~ffwd',
           NEW d \in {0, 1}, Len(rxStatus') = Len(rxStatus) - d,
           \A k \in 1..Len(rxStatus) - d : rxStatus'[k] = rxStatus[k + d],
           rxData' = SubSeq(rxData, off[d] + 1, Len(rxData))
    PROVE  \E o \in Offsets' : Aligned(o)'
<1> DEFINE n == Len(rxStatus)
           o == [k \in 0..n - d |-> off[k + d] - off[d]]
<1>t. /\ rxStatus \in Seq(StatusType) /\ rxStatus' \in Seq(StatusType)
      /\ rxData \in Seq(Ids)
    BY DEF TypeOK, StatusType
<1>1. n \in Nat /\ d \in 0..n /\ Len(rxData) \in Nat /\ rxData \in Seq(Ids)
    BY ONLY <1>t, d \in {0, 1}, Len(rxStatus') = Len(rxStatus) - d
<1>2. /\ off \in [0..n -> 0..Len(rxData)] /\ off[n] = Len(rxData)
      /\ \A j, k \in 0..n : j <= k => off[j] <= off[k]
      /\ \A k \in 1..n : /\ off[k] = off[k - 1] + Words(rxStatus[k].len)
                         /\ \A j \in off[k - 1] + 1..off[k] : rxData[j] = rxStatus[k].id
    BY DEF Aligned, Offsets
<1>3. /\ off[d] \in 0..Len(rxData) /\ off[d] \in Nat
      /\ Len(rxData') = Len(rxData) - off[d]
      /\ \A i \in 1..Len(rxData) - off[d] : rxData'[i] = rxData[off[d] + i]
    <2>1. off[d] \in 0..Len(rxData) /\ off[d] \in Nat
        BY <1>1, <1>2
    <2> QED BY <1>1, <2>1, Drop
<1>4. ASSUME NEW k \in 0..n - d
      PROVE  /\ k + d \in 0..n /\ off[k + d] \in off[d]..Len(rxData)
             /\ o[k] = off[k + d] - off[d] /\ o[k] \in 0..Len(rxData')
    <2>1. k + d \in 0..n /\ d \in 0..n /\ d <= k + d
        BY <1>1
    <2>2. off[k + d] \in 0..Len(rxData) /\ off[d] <= off[k + d]
        BY <1>2, <2>1
    <2>3. o[k] = off[k + d] - off[d]
        OBVIOUS
    <2> HIDE DEF o, n
    <2>4. /\ off[k + d] \in off[d]..Len(rxData)
          /\ off[k + d] - off[d] \in 0..Len(rxData')
        BY ONLY <1>1, <1>3, <2>2
    <2> QED BY ONLY <2>1, <2>3, <2>4
<1>5. o \in [0..n - d -> 0..Len(rxData')]
    BY <1>4
<1>6. o[n - d] = Len(rxData') /\ o[0] = 0
    BY <1>1, <1>2, <1>3, <1>4
<1>7. ASSUME NEW j \in 0..n - d, NEW k \in 0..n - d, j <= k PROVE o[j] <= o[k]
    <2>1. j + d \in 0..n /\ k + d \in 0..n /\ j + d <= k + d
        BY <1>1, <1>7
    <2>2. off[j + d] <= off[k + d]
        BY <1>2, <2>1
    <2>3. /\ o[j] = off[j + d] - off[d] /\ o[k] = off[k + d] - off[d]
          /\ off[j + d] \in off[d]..Len(rxData) /\ off[k + d] \in off[d]..Len(rxData)
        BY <1>4
    <2> HIDE DEF o, n
    <2> QED BY ONLY <1>1, <1>3, <2>2, <2>3
<1> HIDE DEF o
<1>8. ASSUME NEW k \in 1..n - d
      PROVE  /\ o[k] = o[k - 1] + Words(rxStatus'[k].len)
             /\ \A j \in o[k - 1] + 1..o[k] : rxData'[j] = rxStatus'[k].id
    <2>1. /\ k + d \in 1..n /\ k - 1 \in 0..n - d /\ k \in 0..n - d
          /\ k - 1 + d = k + d - 1 /\ rxStatus'[k] = rxStatus[k + d]
        BY <1>1
    <2>2. /\ off[k + d] = off[k + d - 1] + Words(rxStatus[k + d].len)
          /\ \A j \in off[k + d - 1] + 1..off[k + d] : rxData[j] = rxStatus[k + d].id
        BY <1>2, <2>1
    <2>3. /\ o[k] = off[k + d] - off[d] /\ o[k - 1] = off[k + d - 1] - off[d]
          /\ off[k + d] \in off[d]..Len(rxData) /\ off[k + d - 1] \in off[d]..Len(rxData)
        BY <1>4, <2>1
    <2>4. Words(rxStatus[k + d].len) = off[k + d] - off[k + d - 1]
        <3>1. rxStatus[k + d] \in StatusType
            BY <1>t, <2>1, ElementOfSeq
        <3>2. rxStatus[k + d].len \in Nat \ {0}
            BY <3>1, Sizes DEF StatusType
        <3>3. Words(rxStatus[k + d].len) \in Int
            BY <3>2, WordsType
        <3> QED BY <1>3, <2>2, <2>3, <3>3
    <2>5. ASSUME NEW j \in o[k - 1] + 1..o[k] PROVE rxData'[j] = rxStatus'[k].id
        <3>1. j \in 1..Len(rxData) - off[d] /\ off[d] + j \in off[k + d - 1] + 1..off[k + d]
            <4>1. j \in off[k + d - 1] - off[d] + 1..off[k + d] - off[d]
                BY <2>3, <2>5
            <4>2. /\ off[k + d - 1] \in Int /\ off[k + d] \in Int /\ off[d] \in Int
                  /\ Len(rxData) \in Int
                  /\ off[d] <= off[k + d - 1] /\ off[k + d] <= Len(rxData)
                BY ONLY <1>1, <1>3, <2>3
            <4> QED BY ONLY <4>1, <4>2, ShiftRange
        <3> QED BY <1>3, <2>1, <2>2, <3>1
    <2>6. o[k] = o[k - 1] + Words(rxStatus'[k].len)
        BY ONLY <1>1, <1>3, <2>1, <2>3, <2>4
    <2> QED BY <2>5, <2>6
<1>9. PICK p : p = o
    OBVIOUS
<1>10. p \in Offsets'
    BY <1>5, <1>9 DEF Offsets
<1>11. Aligned(p)'
    BY <1>6, <1>7, <1>8, <1>9 DEF Aligned, Words
<1> QED BY <1>10, <1>11

(* What the driver reads after a status is the frame of that status. *)
LEMMA CopyRight ==
    ASSUME TypeOK, NEW off \in Offsets, Aligned(off), ~ffwd, PopStatus
    PROVE  LET s == Head(rxStatus)
           IN  /\ Len(CopyWords(s.len)) = off[1]
               /\ CopyWords(s.len) = FrameWords(s.id, s.len)
<1> DEFINE s == Head(rxStatus) words == CopyWords(s.len)
<1>1. /\ s = rxStatus[1] /\ s.len \in Nat \ {0} /\ s.id \in Ids /\ Len(rxStatus) \in Nat \ {0}
    BY PopType
<1>2. /\ off[0] = 0 /\ off[1] = off[0] + Words(s.len)
      /\ \A j \in off[0] + 1..off[1] : rxData[j] = s.id
      /\ off[1] \in 0..Len(rxData)
    BY <1>1 DEF Aligned, Offsets
<1>3. Words(s.len) \in Nat \ {0}
    BY <1>1, WordsType
<1>4. off[1] = Words(s.len) /\ Words(s.len) <= Len(rxData)
    BY <1>2, <1>3 DEF TypeOK
<1>5. /\ words \in Seq(Ids) /\ Len(words) = Words(s.len)
      /\ \A i \in 1..Len(words) : words[i] = rxData[i]
    BY <1>1, <1>4, CopyType
<1>6. \A i \in 1..Len(words) : words[i] = s.id
    BY <1>2, <1>3, <1>4, <1>5
<1>7. /\ FrameWords(s.id, s.len) \in Seq(Ids) /\ Len(FrameWords(s.id, s.len)) = Words(s.len)
      /\ \A i \in 1..Words(s.len) : FrameWords(s.id, s.len)[i] = s.id
    BY <1>1, FrameType
<1> HIDE DEF words, s
<1>8. words = FrameWords(s.id, s.len)
    BY <1>5, <1>6, <1>7, SeqEqual
<1> QED BY <1>4, <1>5, <1>8 DEF words, s

(* InStep is inductive. *)
LEMMA InStepStep ==
    TypeOK /\ TypeOK' /\ Ring /\ Buffers /\ Chain /\ InStep /\ [Next]_vars => InStep'
<1> SUFFICES ASSUME TypeOK, TypeOK', Ring, Buffers, Chain, InStep, [Next]_vars, Clean'
             PROVE  InStep'
    BY DEF InStep
<1>c. Clean
    BY DEF Clean, Next, lan9118_read, Driver, DiscardFast, FastDone, FastTimeout,
           DiscardManually, StoreUip, StoreLan, NoMore, Deliver, DeliverEnd, Arrive,
           HwArrive, HwFastForward
<1>o. PICK off \in Offsets : Aligned(off)
    BY <1>c DEF InStep, Offsets
<1>i. /\ intact /\ (ffwd => pc = "ffwd")
      /\ \A s \in Slots : Occupied(s) =>
             rxbp[rxAvlQue[s].index] = FrameWords(rxAvlQue[s].id, rxAvlQue[s].len)
    BY <1>c DEF InStep
<1> SUFFICES /\ intact' /\ (ffwd' => pc' = "ffwd")
             /\ \A s \in Slots : Occupied(s)' =>
                    rxbp'[rxAvlQue'[s].index] = FrameWords(rxAvlQue'[s].id, rxAvlQue'[s].len)
             /\ \E o \in Offsets' : Aligned(o)'
    BY DEF InStep, Offsets, FrameWords
<1> DEFINE Quiet == UNCHANGED <<rxAvlQue, rxbp>>
<1>q. Quiet => \A s \in Slots : Occupied(s)' =>
                   rxbp'[rxAvlQue'[s].index] = FrameWords(rxAvlQue'[s].id, rxAvlQue'[s].len)
    BY <1>i DEF Occupied
<1>a. UNCHANGED chipVars => \E o \in Offsets' : Aligned(o)'
    BY <1>o DEF Aligned, Offsets, Following
<1> HIDE DEF Quiet
<1>1. CASE lan9118_read \/ FastDone \/ NoMore \/ DeliverEnd
    <2>1. Quiet /\ UNCHANGED chipVars /\ intact' = intact /\ (pc = "ffwd" => ~ffwd)
        BY <1>1 DEF lan9118_read, FastDone, NoMore, Leave, DeliverEnd, Quiet
    <2> QED BY <2>1, <1>i, <1>q, <1>a
<1>2. CASE FastTimeout \/ DiscardManually
    BY <1>2 DEF FastTimeout, DiscardManually, Clean
<1>3. CASE DiscardFast
    <2> DEFINE n == Len(rxStatus) o == [k \in 0..n - 1 |-> off[k + 1]]
    <2>1. /\ PopStatus /\ Quiet /\ UNCHANGED <<rxData, intact>> /\ ffwd' /\ pc' = "ffwd"
        BY <1>3 DEF DiscardFast, Quiet
    <2>2. /\ ~ffwd /\ n \in Nat \ {0} /\ Len(rxStatus') = n - 1
          /\ \A i \in 1..n - 1 : rxStatus'[i] = rxStatus[i + 1]
          /\ rxStatus[1].len \in Nat \ {0} /\ rxStatus[1].id \in Ids
          /\ nextId' = nextId /\ rxStatus' \in Seq(StatusType)
        BY <1>i, <2>1, PopType
    <2>3. Words(rxStatus[1].len) \in Nat \ {0}
        BY ONLY <2>2, WordsType
    <2>l. Len(rxData) \in Nat
        BY DEF TypeOK
    <2>4. /\ off \in [0..n -> 0..Len(rxData)] /\ off[n] = Len(rxData) /\ off[0] = 0
          /\ \A j, k \in 0..n : j <= k => off[j] <= off[k]
          /\ \A k \in 1..n : /\ off[k] = off[k - 1] + Words(rxStatus[k].len)
                             /\ \A j \in off[k - 1] + 1..off[k] : rxData[j] = rxStatus[k].id
        BY <1>o, <2>2 DEF Aligned, Offsets
    <2>5. o \in Offsets' /\ o[n - 1] = Len(rxData)
        BY <2>1, <2>2, <2>4 DEF Offsets
    <2>6. \A j, k \in 0..n - 1 : j <= k => o[j] <= o[k]
        BY <2>2, <2>4
    <2>7. ASSUME NEW k \in 1..n - 1
          PROVE  /\ o[k] = o[k - 1] + Words(rxStatus'[k].len)
                 /\ \A j \in o[k - 1] + 1..o[k] : rxData[j] = rxStatus'[k].id
        <3>1. /\ k + 1 \in 1..n /\ k + 1 - 1 = k /\ k - 1 + 1 = k
              /\ k \in 0..n - 1 /\ k - 1 \in 0..n - 1 /\ rxStatus'[k] = rxStatus[k + 1]
            BY <2>2
        <3>2. /\ off[k + 1] = off[k] + Words(rxStatus[k + 1].len)
              /\ \A j \in off[k] + 1..off[k + 1] : rxData[j] = rxStatus[k + 1].id
            BY <2>4, <3>1
        <3> QED BY <3>1, <3>2
    <2>8. /\ o[0] = Words(rxStatus[1].len) /\ o[0] > 0
          /\ \A j \in 1..o[0] : rxData[j] = rxStatus[1].id
        <3>1. o[0] = off[1] /\ off[1] = off[0] + Words(rxStatus[1].len)
              /\ \A j \in off[0] + 1..off[1] : rxData[j] = rxStatus[1].id
            BY <2>2, <2>4
        <3> QED BY <2>3, <2>4, <3>1
    <2>9. rxData[1] = rxStatus[1].id
        <3> HIDE DEF o
        <3>1. 1 \in 1..o[0]
            BY ONLY <2>3, <2>8
        <3> QED BY ONLY <2>8, <3>1
    <2>10. Following' = Succ(rxStatus[1].id)
        <3>1. CASE n = 1
            <4>1. Len(rxStatus') = 0 /\ rxStatus # <<>>
                BY <2>1, <2>2, <3>1, PopType
            <4>2. rxStatus' = <<>>
                BY ONLY <2>2, <4>1, NoElements
            <4> QED BY <2>2, <3>1, <4>1, <4>2 DEF Following, Chain
        <3>2. CASE n > 1
            <4>1. rxStatus' # <<>> /\ rxStatus'[1] = rxStatus[2]
                BY <2>2, <3>2
            <4>2. rxStatus[1 + 1].id = Succ(rxStatus[1].id)
                BY <2>2, <3>2 DEF Chain
            <4> QED BY <4>1, <4>2 DEF Following
        <3> QED BY <2>2, <3>1, <3>2
    <2>11. rxData'[1] # Following'
        BY <2>1, <2>2, <2>9, <2>10, SuccType
    <2> HIDE DEF o
    <2>12. PICK p : p = o
        OBVIOUS
    <2>13. p \in Offsets' /\ Aligned(p)'
        BY <2>1, <2>2, <2>5, <2>6, <2>7, <2>8, <2>9, <2>11, <2>12 DEF Aligned, Words
    <2> QED BY <1>i, <1>q, <2>1, <2>13
<1>4. CASE StoreUip
    <2>1. /\ PopStatus /\ Quiet /\ ffwd' = ffwd /\ pc = "read"
          /\ rxData' = SubSeq(rxData, Len(CopyWords(Head(rxStatus).len)) + 1, Len(rxData))
          /\ intact' = (CopyWords(Head(rxStatus).len) =
                            FrameWords(Head(rxStatus).id, Head(rxStatus).len))
        BY <1>4, PopType DEF StoreUip, Quiet
    <2>2. ~ffwd /\ ~ffwd'
        BY <1>i, <2>1
    <2>3. intact' /\ rxData' = SubSeq(rxData, off[1] + 1, Len(rxData))
        BY <1>o, <2>1, <2>2, CopyRight
    <2>4. /\ Len(rxStatus') = Len(rxStatus) - 1
          /\ \A k \in 1..Len(rxStatus) - 1 : rxStatus'[k] = rxStatus[k + 1]
        BY <2>1, PopType
    <2>5. \E o \in Offsets' : Aligned(o)'
        BY <1>o, <2>2, <2>3, <2>4, DropFront
    <2> QED BY <1>q, <2>1, <2>2, <2>3, <2>5
<1>5. CASE StoreLan
    <2> DEFINE s == Head(rxStatus) words == CopyWords(s.len)
               e == [index |-> rxNdx, len |-> s.len, id |-> s.id]
    <2>1. /\ PopStatus /\ UNCHANGED <<ffwd, intact, pc>> /\ pc = "read"
          /\ rxAvlQue' = [rxAvlQue EXCEPT ![rxNdxIn] = e]
          /\ rxbp' = [rxbp EXCEPT ![rxNdx] = words]
          /\ rxData' = SubSeq(rxData, Len(words) + 1, Len(rxData))
          /\ loopCount < NUM_RX_BUFF
        BY <1>5, StoreRight, PopType
    <2>2. ~ffwd /\ ~ffwd'
        BY <1>i, <2>1
    <2>3. words = FrameWords(s.id, s.len) /\ rxData' = SubSeq(rxData, off[1] + 1, Len(rxData))
        BY <1>o, <2>1, <2>2, CopyRight
    <2>4. /\ Len(rxStatus') = Len(rxStatus) - 1
          /\ \A k \in 1..Len(rxStatus) - 1 : rxStatus'[k] = rxStatus[k + 1]
        BY <2>1, PopType
    <2>5. \E o \in Offsets' : Aligned(o)'
        BY <1>o, <2>2, <2>3, <2>4, DropFront
    <2>6. e.index = rxNdx /\ e.len = s.len /\ e.id = s.id
        OBVIOUS
    <2> HIDE DEF e, words, s
    <2>7. ASSUME NEW t \in Slots, Occupied(t)'
          PROVE  rxbp'[rxAvlQue'[t].index] = FrameWords(rxAvlQue'[t].id, rxAvlQue'[t].len)
        <3>1. rxNdx \in Slots /\ rxNdxIn \in Slots /\ DOMAIN rxbp = Slots
              /\ DOMAIN rxAvlQue = Slots
            BY DEF TypeOK
        <3>2. CASE t = rxNdxIn
            BY <2>1, <2>3, <2>6, <3>1, <3>2
        <3>3. CASE t # rxNdxIn
            <4>1. Occupied(t) /\ rxAvlQue'[t] = rxAvlQue[t] /\ rxAvlQue[t].index \in Slots
                BY <2>1, <2>7, <3>1, <3>3 DEF Occupied, TypeOK
            <4>2. Dist(rxAvlQue[t].index, rxNdx) # 0
                BY <2>1, <4>1 DEF Buffers, InLoop
            <4>3. rxAvlQue[t].index # rxNdx
                BY <3>1, <4>1, <4>2, DistWrap
            <4> QED BY <1>i, <2>1, <3>1, <4>1, <4>3
        <3> QED BY <3>2, <3>3
    <2> QED BY <1>i, <2>1, <2>2, <2>5, <2>7
<1>6. CASE Deliver
    <2> DEFINE q == rxAvlQue[rxNdxOut]
    <2>1. /\ UNCHANGED <<pc, chipVars>> /\ Occupied(rxNdxOut) /\ rxNdxOut \in Slots
          /\ intact' = (rxbp[q.index] = FrameWords(q.id, q.len))
          /\ rxAvlQue' = [rxAvlQue EXCEPT ![rxNdxOut] = Free]
          /\ rxbp' = [rxbp EXCEPT ![q.index] = <<>>]
        BY <1>6 DEF Deliver, Occupied, TypeOK
    <2>2. intact'
        BY <1>i, <2>1
    <2>3. ASSUME NEW t \in Slots, Occupied(t)'
          PROVE  rxbp'[rxAvlQue'[t].index] = FrameWords(rxAvlQue'[t].id, rxAvlQue'[t].len)
        <3>1. /\ t # rxNdxOut /\ Occupied(t) /\ rxAvlQue'[t] = rxAvlQue[t]
              /\ rxAvlQue[t].index \in Slots
            BY <2>1, <2>3 DEF Occupied, Free, TypeOK
        <3>2. rxAvlQue[t].index # q.index
            BY <2>1, <3>1 DEF Buffers
        <3>3. rxbp'[rxAvlQue[t].index] = rxbp[rxAvlQue[t].index]
            BY <2>1, <3>1, <3>2 DEF TypeOK
        <3> QED BY <1>i, <3>1, <3>3
    <2> QED BY <1>i, <1>a, <2>1, <2>2, <2>3
<1>7. ASSUME NEW len \in Lengths, NEW es \in BOOLEAN, HwArrive(len, es)
      PROVE  /\ intact' /\ (ffwd' => pc' = "ffwd") /\ Quiet
             /\ \E o \in Offsets' : Aligned(o)'
    <2> DEFINE n == Len(rxStatus) m == Len(rxData) f == FrameWords(nextId, len)
               e == [id |-> nextId, len |-> len, es |-> es]
               o == [k \in 0..n + 1 |-> IF k = n + 1 THEN m + Words(len) ELSE off[k]]
    <2>1. /\ Quiet /\ UNCHANGED <<intact, ffwd, pc>>
          /\ rxStatus' = Append(rxStatus, e) /\ rxData' = rxData \o f
        BY <1>7 DEF HwArrive, Quiet
    <2>2. /\ rxStatus \in Seq(StatusType) /\ e \in StatusType /\ rxData \in Seq(Ids)
          /\ nextId \in Ids /\ n \in Nat /\ m \in Nat
        <3>1. rxStatus \in Seq(StatusType) /\ rxData \in Seq(Ids) /\ nextId \in Ids
            BY DEF TypeOK, StatusType
        <3>2. e \in StatusType
            BY <3>1 DEF StatusType
        <3> QED BY <3>1, <3>2, LenProperties
    <2>l. len \in Nat \ {0}
        BY Sizes
    <2>3. /\ f \in Seq(Ids) /\ Len(f) = Words(len) /\ \A i \in 1..Words(len) : f[i] = nextId
          /\ Words(len) \in Nat \ {0}
        BY <2>2, <2>l, FrameType, WordsType
    <2>e. e.id = nextId /\ e.len = len
        OBVIOUS
    <2> HIDE DEF e, f
    <2>4. /\ Len(rxStatus') = n + 1 /\ rxStatus'[n + 1] = e
          /\ \A k \in 1..n : rxStatus'[k] = rxStatus[k]
        BY <2>1, <2>2
    <2>5. /\ Len(rxData') = m + Words(len)
          /\ \A j \in 1..m : rxData'[j] = rxData[j]
          /\ \A j \in m + 1..m + Words(len) : rxData'[j] = nextId
        <3>1. /\ Len(rxData \o f) = m + Len(f)
              /\ \A i \in 1..m + Len(f) : (rxData \o f)[i] =
                                            IF i <= m THEN rxData[i] ELSE f[i - m]
            BY <2>2, <2>3, ConcatProperties
        <3> HIDE DEF m
        <3>2. ASSUME NEW j \in 1..m PROVE rxData'[j] = rxData[j]
            BY <2>1, <2>2, <2>3, <3>1
        <3>3. ASSUME NEW j \in m + 1..m + Words(len) PROVE rxData'[j] = nextId
            <4>1. j \in 1..m + Len(f) /\ ~(j <= m) /\ j - m \in 1..Words(len)
                BY <2>2, <2>3
            <4> QED BY <2>1, <2>3, <3>1, <4>1
        <3> QED BY <2>1, <2>3, <3>1, <3>2, <3>3
    <2>6. /\ off \in [0..n -> 0..m] /\ off[n] = m
          /\ \A j, k \in 0..n : j <= k => off[j] <= off[k]
          /\ \A k \in 1..n : /\ off[k] = off[k - 1] + Words(rxStatus[k].len)
                             /\ \A j \in off[k - 1] + 1..off[k] : rxData[j] = rxStatus[k].id
          /\ IF ffwd THEN /\ off[0] > 0 /\ rxData[1] # Following
                          /\ \A j \in 1..off[0] : rxData[j] = rxData[1]
             ELSE off[0] = 0
        BY <1>o DEF Aligned, Offsets
    <2>7. /\ o \in [0..n + 1 -> 0..m + Words(len)] /\ o[n + 1] = m + Words(len)
          /\ \A k \in 0..n : o[k] = off[k] /\ off[k] \in 0..m
        <3> HIDE DEF n, m
        <3>1. \A k \in 0..n : off[k] \in 0..m
            BY ONLY <2>6
        <3>2. \A k \in 0..n + 1 : k # n + 1 => k \in 0..n
            BY ONLY <2>2
        <3>3. o \in [0..n + 1 -> 0..m + Words(len)]
            BY <2>2, <2>3, <3>1, <3>2
        <3> QED BY <2>2, <3>1, <3>3
    <2> HIDE DEF o
    <2>8. ASSUME NEW j \in 0..n + 1, NEW k \in 0..n + 1, j <= k PROVE o[j] <= o[k]
        <3> HIDE DEF n, m
        <3>1. CASE k = n + 1
            BY <2>2, <2>3, <2>7, <3>1
        <3>2. CASE k # n + 1
            <4>1. j \in 0..n /\ k \in 0..n
                BY <2>2, <2>8, <3>2
            <4> QED BY <2>6, <2>7, <2>8, <4>1
        <3> QED BY <3>1, <3>2
    <2>9. ASSUME NEW k \in 1..n + 1
          PROVE  /\ o[k] = o[k - 1] + Words(rxStatus'[k].len)
                 /\ \A j \in o[k - 1] + 1..o[k] : rxData'[j] = rxStatus'[k].id
        <3>1. CASE k = n + 1
            <4> HIDE DEF n, m
            <4>1. n \in 0..n /\ k - 1 = n
                BY <2>2, <3>1
            <4>2. o[k - 1] = m /\ o[k] = m + Words(len)
                BY <2>6, <2>7, <3>1, <4>1
            <4> QED BY <2>4, <2>5, <2>e, <3>1, <4>2
        <3>2. CASE k # n + 1
            <4>1. k \in 1..n /\ k - 1 \in 0..n /\ k \in 0..n
                BY <2>2, <3>2
            <4>2. o[k] = off[k] /\ o[k - 1] = off[k - 1] /\ off[k] \in 0..m /\ off[k - 1] \in 0..m
                BY <2>7, <4>1
            <4>3. /\ off[k] = off[k - 1] + Words(rxStatus[k].len)
                  /\ \A j \in off[k - 1] + 1..off[k] : rxData[j] = rxStatus[k].id
                BY <2>6, <4>1
            <4>4. rxStatus'[k] = rxStatus[k]
                BY <2>4, <4>1
            <4>5. ASSUME NEW j \in o[k - 1] + 1..o[k] PROVE rxData'[j] = rxStatus'[k].id
                <5>1. j \in 1..m /\ j \in off[k - 1] + 1..off[k]
                    BY <2>2, <4>2, <4>5
                <5> QED BY <2>5, <4>3, <4>4, <5>1
            <4> QED BY <4>2, <4>3, <4>4, <4>5
        <3> QED BY <3>1, <3>2
    <2>10. IF ffwd' THEN /\ o[0] > 0 /\ rxData'[1] # Following'
                         /\ \A j \in 1..o[0] : rxData'[j] = rxData'[1]
                    ELSE o[0] = 0
        <3>1. o[0] = off[0] /\ off[0] \in 0..m
            BY <2>2, <2>7
        <3>2. CASE ~ffwd
            BY <2>1, <2>6, <3>1, <3>2
        <3>3. CASE ffwd
            <4>1. Following' = Following
                <5>1. CASE n = 0
                    <6>0. rxStatus = <<>>
                        BY ONLY <2>2, <5>1, NoElements
                    <6>1. rxStatus = <<>> /\ rxStatus' # <<>> /\ rxStatus'[1] = e
                        BY <2>1, <2>4, <5>1, <6>0
                    <6> QED BY <2>e, <6>1 DEF Following
                <5>2. CASE n > 0
                    <6>1. rxStatus # <<>> /\ rxStatus' # <<>> /\ rxStatus'[1] = rxStatus[1]
                        BY <2>2, <2>4, <5>2, EmptySeq
                    <6> QED BY <6>1 DEF Following
                <5> QED BY <2>2, <5>1, <5>2
            <4>2. 1 \in 1..m /\ \A j \in 1..off[0] : j \in 1..m
                BY <2>2, <2>6, <3>1, <3>3
            <4> QED BY <2>1, <2>5, <2>6, <3>1, <3>3, <4>1, <4>2
        <3> QED BY <3>2, <3>3
    <2>11. PICK p : p = o
        OBVIOUS
    <2>12. p \in Offsets' /\ Aligned(p)'
        BY <2>4, <2>5, <2>7, <2>8, <2>9, <2>10, <2>11 DEF Aligned, Offsets, Words
    <2> QED BY <1>i, <2>1, <2>12
<1>8. CASE HwFastForward
    <2> DEFINE m == Max(Own \cup {0})
    <2>1. /\ Quiet /\ UNCHANGED <<intact, pc, rxStatus>> /\ ffwd /\ ~ffwd'
          /\ rxData' = SubSeq(rxData, m + 1, Len(rxData))
        BY <1>8 DEF HwFastForward, Quiet, Own
    <2>2. m \in 0..Len(rxData) /\ m \in Own \cup {0} /\ \A i \in Own : i <= m
        BY OwnRight
    <2> HIDE DEF m
    <2>3. /\ off[0] \in 1..Len(rxData) /\ rxData[1] # Following /\ Len(rxData) \in Nat
          /\ \A j \in 1..off[0] : rxData[j] = rxData[1]
        <3>1. /\ off[0] > 0 /\ rxData[1] # Following
              /\ \A j \in 1..off[0] : rxData[j] = rxData[1]
            BY <1>o, <2>1 DEF Aligned
        <3>2. Len(rxStatus) \in Nat /\ Len(rxData) \in Nat
            BY LenProperties DEF TypeOK
        <3>3. off[0] \in 0..Len(rxData)
            BY <1>o, <3>2 DEF Offsets
        <3> QED BY <3>1, <3>2, <3>3
    <2>4. off[0] <= m
        BY <2>2, <2>3 DEF Own
    <2>5. ~(off[0] < m)
        <3> SUFFICES ASSUME off[0] < m PROVE FALSE
            OBVIOUS
        <3>1. off[0] + 1 \in 1..m /\ m \in Own
            BY <2>2, <2>3
        <3>2. rxData[off[0] + 1] = rxData[1]
            BY <3>1 DEF Own
        <3>3. Len(rxStatus) \in Nat \ {0} /\ rxStatus # <<>>
            <4>1. rxStatus \in Seq(StatusType) /\ Len(rxStatus) \in Nat
                BY LenProperties DEF TypeOK, StatusType
            <4>2. off[Len(rxStatus)] = Len(rxData) /\ off[0] < Len(rxData)
                BY <1>o, <2>2, <2>3 DEF Aligned
            <4>3. Len(rxStatus) # 0
                BY <2>3, <4>2
            <4> QED BY <4>1, <4>3
        <3>4. /\ off[1] = off[1 - 1] + Words(rxStatus[1].len)
              /\ \A j \in off[1 - 1] + 1..off[1] : rxData[j] = rxStatus[1].id
            BY <1>o, <3>3 DEF Aligned
        <3>5. Words(rxStatus[1].len) \in Nat \ {0}
            <4>1. rxStatus \in Seq(StatusType)
                BY DEF TypeOK, StatusType
            <4>2. rxStatus[1] \in StatusType
                BY <3>3, <4>1, ElementOfSeq
            <4>3. rxStatus[1].len \in Nat \ {0}
                BY <4>2, Sizes DEF StatusType
            <4> QED BY <4>3, WordsType
        <3>6. off[0] + 1 \in off[1 - 1] + 1..off[1]
            BY <2>3, <3>4, <3>5
        <3> QED BY <2>3, <3>2, <3>3, <3>4, <3>6 DEF Following
    <2>6. off[0] = m
        BY <2>2, <2>3, <2>4, <2>5
    <2>7. /\ Len(rxStatus') = Len(rxStatus) - 0
          /\ \A k \in 1..Len(rxStatus) - 0 : rxStatus'[k] = rxStatus[k + 0]
        BY <2>1 DEF TypeOK
    <2>8. \E o \in Offsets' : Aligned(o)'
        BY <1>o, <2>1, <2>6, <2>7, DropFront
    <2> QED BY <1>i, <1>q, <2>1, <2>8
<1>9. CASE UNCHANGED vars
    <2>1. Quiet /\ UNCHANGED chipVars /\ UNCHANGED <<intact, pc>>
        BY <1>9 DEF Quiet
    <2> QED BY <2>1, <1>i, <1>q, <1>a
<1> QED BY <1>1, <1>2, <1>3, <1>4, <1>5, <1>6, <1>7, <1>8, <1>9, <1>q
        DEF Next, Driver, Arrive

(* Every packet lan9118_read passes up is the frame its status belongs to,  *)
(* as long as no fast forward timed out and no short frame was drained by   *)
(* hand: for every number of buffers, all lengths and all FIFO sizes.       *)
THEOREM RxInStepHolds == Spec => []RxInStep
<1>1. Init => Buffers /\ Chain
    BY DEF Init, Buffers, Chain, Occupied, Free, InLoop
<1>2. Init => InStep
    <2> SUFFICES ASSUME Init PROVE InStep
        OBVIOUS
    <2>1. \A s \in Slots : ~Occupied(s)
        BY DEF Init, Occupied, Free
    <2> DEFINE o == [k \in 0..0 |-> 0]
    <2>2. o \in [0..Len(rxStatus) -> 0..Len(rxData)] /\ Aligned(o)
        BY DEF Init, Aligned
    <2> QED BY <2>1, <2>2 DEF Init, InStep
<1>3. InStep => RxInStep
    BY DEF InStep, RxInStep, Clean
<1> QED BY <1>1, <1>2, <1>3, TypeCorrect, RingInit, RingStep, BuffersStep, ChainStep,
           InStepStep, PTL DEF Spec
=============================================================================
