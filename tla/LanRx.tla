-------------------------------- MODULE LanRx --------------------------------
(***************************************************************************)
(* lan9118_read, the receive side of the polled LAN9118 Ethernet driver,   *)
(* in its two copies: uip-1.0/smsc9118.c returns with the first packet,    *)
(* lan/smsc9118.c queues the packets of one call in its buffers and passes *)
(* them up at the end.  The chip (external) puts a status in one FIFO and  *)
(* the data in another, and does so between any two register accesses of   *)
(* the driver: the two FIFOs stay in step only if the driver takes from    *)
(* the second exactly what the statuses it took from the first announced.  *)
(* A frame's data is its number, repeated for every 32-bit word.           *)
(***************************************************************************)
EXTENDS Integers, Sequences, FiniteSetsExt

CONSTANTS
    ENET_MAX_MTU,   \* longest frame the driver keeps, in bytes
    FFWD_MIN,       \* shortest frame the chip can fast-forward over (16)
    NUM_RX_BUFF,    \* receive buffers, and frames taken in one call
    Lengths,        \* lengths of the frames that arrive
    RxDepth,        \* frames the chip's receive status FIFO holds
    RxWords         \* words its receive data FIFO holds

ASSUME SizeAssumption ==
    /\ {ENET_MAX_MTU, FFWD_MIN, NUM_RX_BUFF, RxDepth, RxWords} \subseteq Nat \ {0}
    /\ Lengths \subseteq Nat \ {0}

VARIABLES
    copy,         \* which copy of the driver: "uip" or "lan"
    pc,           \* "idle" between calls, else where lan9118_read is
    rxNdx, rxNdxIn, rxNdxOut, rxAvlQue, rxbp, loopCount, handled,
    rxStatus,     \* the chip's status FIFO
    rxData,       \* its data FIFO
    ffwd,         \* RX_DP_FFWD: a fast forward is under way
    nextId,       \* number of the next frame
    intact,       \* the packet passed up last had all of its own words and no other
    seen          \* what has happened that later packets suffer from

drvVars == <<rxNdx, rxNdxIn, rxNdxOut, rxAvlQue, rxbp, loopCount, handled>>
chipVars == <<rxStatus, rxData, ffwd, nextId>>
vars == <<copy, pc, drvVars, chipVars, intact, seen>>

NIds == RxDepth + NUM_RX_BUFF   \* enough numbers for the frames in flight
Slots == 0..NUM_RX_BUFF - 1
Free == [index |-> -1, len |-> 0, id |-> 0]

Init == /\ copy \in {"uip", "lan"} /\ pc = "idle"
        /\ rxNdx = 0 /\ rxNdxIn = 0 /\ rxNdxOut = 0 /\ loopCount = 0 /\ handled = FALSE
        /\ rxAvlQue = [i \in Slots |-> Free] /\ rxbp = [i \in Slots |-> <<>>]
        /\ rxStatus = <<>> /\ rxData = <<>> /\ ffwd = FALSE /\ nextId = 0
        /\ intact = TRUE /\ seen = {}

-----------------------------------------------------------------------------
(* The chip. *)

FrameWords(id, len) == [i \in 1..(len + 3) \div 4 |-> id]

(* A frame arrives, with or without an error; one that finds a FIFO full is *)
(* lost.                                                                    *)
HwArrive(len, es) ==
    /\ Len(rxStatus) < RxDepth /\ Len(rxData \o FrameWords(nextId, len)) <= RxWords
    /\ rxStatus' = Append(rxStatus, [id |-> nextId, len |-> len, es |-> es])
    /\ rxData' = rxData \o FrameWords(nextId, len)
    /\ nextId' = (nextId + 1) % NIds
    /\ UNCHANGED <<copy, pc, drvVars, ffwd, intact, seen>>

(* The rest of the frame at the head of the data FIFO goes. *)
HwFastForward ==
    /\ ffwd /\ ffwd' = FALSE
    /\ rxData' = LET own == {i \in 1..Len(rxData) : \A j \in 1..i : rxData[j] = rxData[1]}
                 IN  SubSeq(rxData, Max(own \cup {0}) + 1, Len(rxData))
    /\ UNCHANGED <<copy, pc, drvVars, rxStatus, nextId, intact, seen>>

-----------------------------------------------------------------------------
(* The driver. *)

lan9118_read == /\ pc = "idle" /\ pc' = "read"
                /\ loopCount' = 0 /\ handled' = FALSE
                /\ UNCHANGED <<copy, rxNdx, rxNdxIn, rxNdxOut, rxAvlQue, rxbp, chipVars, intact,
                               seen>>

Wrap(n) == IF n + 1 >= NUM_RX_BUFF THEN 0 ELSE n + 1

(* Mutant: one status too many is taken in a call. *)
MayRead_offByOne == rxStatus # <<>> /\ loopCount <= NUM_RX_BUFF

MayRead == rxStatus # <<>> /\ loopCount < NUM_RX_BUFF

PopStatus == /\ pc = "read" /\ MayRead
             /\ loopCount' = loopCount + 1
             /\ rxNdx' = Wrap(rxNdx)
             /\ rxStatus' = Tail(rxStatus)
             /\ UNCHANGED <<copy, rxNdxOut, nextId>>

Unwanted(s) == s.len > ENET_MAX_MTU \/ s.es

(* Drain it the fast way, and wait for the chip a while. *)
DiscardFast == /\ PopStatus
               /\ Unwanted(Head(rxStatus)) /\ Head(rxStatus).len >= FFWD_MIN
               /\ ffwd' = TRUE
               /\ pc' = "ffwd"
               /\ UNCHANGED <<rxNdxIn, rxAvlQue, rxbp, handled, rxData, intact, seen>>

FastDone == /\ pc = "ffwd" /\ ~ffwd
            /\ pc' = "read"
            /\ UNCHANGED <<copy, drvVars, chipVars, intact, seen>>

(* Drain it manually: one read of the data port for every byte of it. *)
DiscardManually ==
    /\ PopStatus
    /\ Unwanted(Head(rxStatus)) /\ Head(rxStatus).len < FFWD_MIN
    /\ rxData' = SubSeq(rxData, Head(rxStatus).len + 1, Len(rxData))
    /\ seen' = seen \cup {"runt"}
    /\ UNCHANGED <<pc, rxNdxIn, rxAvlQue, rxbp, handled, ffwd, intact>>

(* Mutant: the last, partial word is left behind. *)
CopyWords_truncated(count) == SubSeq(rxData, 1, Min({count \div 4, Len(rxData)}))

CopyWords(count) == SubSeq(rxData, 1, Min({(count + 3) \div 4, Len(rxData)}))

(* The uIP copy returns with the packet in uip_buf ... *)
StoreUip == LET s == Head(rxStatus) words == CopyWords(s.len)
            IN  /\ copy = "uip" /\ PopStatus /\ ~Unwanted(s)
                /\ rxNdxIn' = Wrap(rxNdxIn)
                /\ handled' = TRUE
                /\ rxData' = SubSeq(rxData, Len(words) + 1, Len(rxData))
                /\ intact' = (words = FrameWords(s.id, s.len))
                /\ pc' = "idle"
                /\ UNCHANGED <<rxAvlQue, rxbp, ffwd, seen>>

(* ... the other one queues it in the buffer of this turn and reads on,     *)
(* unless the queue is full.                                                *)
StoreLan ==
    LET s == Head(rxStatus) words == CopyWords(s.len)
    IN  /\ copy = "lan" /\ PopStatus /\ ~Unwanted(s)
        /\ IF rxAvlQue[rxNdxIn].index # -1
           THEN /\ pc' = (IF handled THEN "deliver" ELSE "idle")
                /\ seen' = seen \cup {"full"}
                /\ UNCHANGED <<rxNdxIn, rxAvlQue, rxbp, handled, rxData>>
           ELSE /\ rxAvlQue' = [rxAvlQue EXCEPT ![rxNdxIn] =
                                   [index |-> rxNdx, len |-> s.len, id |-> s.id]]
                /\ rxNdxIn' = Wrap(rxNdxIn)
                /\ handled' = TRUE
                /\ rxbp' = [rxbp EXCEPT ![rxNdx] = words]
                /\ rxData' = SubSeq(rxData, Len(words) + 1, Len(rxData))
                /\ UNCHANGED <<pc, seen>>
        /\ UNCHANGED <<ffwd, intact>>

(* Out of the loop: on to the queue if this call has put anything there. *)
Leave == /\ pc' = IF handled THEN "deliver" ELSE "idle"
         /\ UNCHANGED <<copy, drvVars, chipVars, intact>>

(* Mutant: the chip is waited for without a limit. *)
FastTimeout_never == FALSE /\ UNCHANGED vars

FastTimeout == /\ pc = "ffwd" /\ ffwd
               /\ Leave
               /\ seen' = seen \cup {"ffwd"}

NoMore == /\ pc = "read" /\ ~MayRead
          /\ Leave
          /\ UNCHANGED seen

(* Mutant: the buffer is not given back. *)
Deliver_keep == LET q == rxAvlQue[rxNdxOut]
                IN  /\ pc = "deliver"
                    /\ q.index # -1
                    /\ intact' = (rxbp[q.index] = FrameWords(q.id, q.len))
                    /\ rxNdxOut' = Wrap(rxNdxOut)
                    /\ pc' = IF rxNdxOut' = rxNdxIn THEN "idle" ELSE "deliver"
                    /\ UNCHANGED <<copy, rxNdx, rxNdxIn, rxAvlQue, rxbp, loopCount, handled,
                                   chipVars, seen>>

(* One packet of the queue is handed over and its buffer is free again; what *)
(* that holds is never looked at again.                                      *)
Deliver == LET q == rxAvlQue[rxNdxOut]
           IN  /\ pc = "deliver"
               /\ q.index # -1
               /\ intact' = (rxbp[q.index] = FrameWords(q.id, q.len))
               /\ rxAvlQue' = [rxAvlQue EXCEPT ![rxNdxOut] = Free]
               /\ rxbp' = [rxbp EXCEPT ![q.index] = <<>>]
               /\ rxNdxOut' = Wrap(rxNdxOut)
               /\ UNCHANGED <<copy, pc, rxNdx, rxNdxIn, loopCount, handled, chipVars, seen>>

DeliverEnd == /\ pc = "deliver"
              /\ rxAvlQue[rxNdxOut].index = -1
              /\ pc' = "idle"
              /\ UNCHANGED <<copy, drvVars, chipVars, intact, seen>>

-----------------------------------------------------------------------------
Driver == \/ DiscardFast \/ FastDone \/ FastTimeout \/ DiscardManually
          \/ StoreUip \/ StoreLan \/ NoMore \/ Deliver \/ DeliverEnd
Arrive == \E len \in Lengths, es \in BOOLEAN : HwArrive(len, es)

Next == lan9118_read \/ Driver \/ Arrive \/ HwFastForward

Spec == Init /\ [][Next]_vars

(* The processor runs the loop; the chip need not finish a fast forward. *)
FairSpec == Spec /\ WF_vars(Driver)

-----------------------------------------------------------------------------
(* Properties. *)

Ids == 0..NIds - 1

(* The values of the driver's and the chip's variables. *)
TypeOK ==
    /\ copy \in {"uip", "lan"} /\ pc \in {"idle", "read", "ffwd", "deliver"}
    /\ rxNdx \in Slots /\ rxNdxIn \in Slots /\ rxNdxOut \in Slots
    /\ loopCount \in 0..NUM_RX_BUFF /\ handled \in BOOLEAN
    /\ rxAvlQue \in [Slots -> [index : Slots \cup {-1}, len : 0..ENET_MAX_MTU, id : Ids]]
    /\ DOMAIN rxbp = Slots /\ \A i \in Slots : rxbp[i] \in Seq(Ids)
    /\ rxStatus \in Seq([id : Ids, len : Lengths, es : BOOLEAN]) /\ Len(rxStatus) <= RxDepth
    /\ rxData \in Seq(Ids) /\ Len(rxData) <= RxWords
    /\ ffwd \in BOOLEAN /\ nextId \in Ids /\ intact \in BOOLEAN
    /\ seen \subseteq {"runt", "ffwd", "full"}

(* Every packet lan9118_read passes up is the frame its status belongs to,  *)
(* whatever frames were discarded before it in the same call or an earlier  *)
(* one, and no buffer is filled again before its packet was passed up; as   *)
(* long as no fast forward timed out and no short frame was drained by hand. *)
RxInStep == seen \cap {"ffwd", "runt"} = {} => intact

(* The "read buffers full!" branch is never taken: the bound on loopCount   *)
(* and the delivery at the end of every call keep a slot free, although     *)
(* discarded frames make rxNdx and rxNdxIn drift apart.                     *)
NeverFull == "full" \notin seen

(* Every call returns, however fast frames arrive and whether or not the    *)
(* chip ever finishes a fast forward.                                       *)
ReadReturns == pc # "idle" ~> pc = "idle"
=============================================================================
