-------------------------------- MODULE LanTx --------------------------------
(***************************************************************************)
(* lan9118_write, the transmit side of the polled LAN9118 driver, and its  *)
(* callers: the uIP main loop of uip-1.0/main.c with its two timers, and   *)
(* whoever calls eth_send of lan/smsc9118.c, the second copy of the driver. *)
(* The chip and the uIP stack are external.  What lan9118_read does is in  *)
(* LanRx.tla; here a call of it returns with a packet or without.  Names   *)
(* that LanOpen has too begin with Tx: LanProofs extends both modules.     *)
(***************************************************************************)
EXTENDS Integers, Sequences

CONSTANTS
    TX_TIMEOUT,   \* ticks to wait for a transmit status
    UIP_CONNS,    \* connections uIP serves periodically
    TxDepth,      \* frames each of the chip's transmit FIFOs holds
    NTags         \* lastTxTag is a counter modulo this (2^16)

ASSUME SizeAssumption ==
    /\ TX_TIMEOUT \in Nat /\ UIP_CONNS \in Nat \ {0}
    /\ TxDepth \in Nat \ {0} /\ NTags \in Nat \ {0, 1}

VARIABLES
    copy,        \* which copy of the driver: "uip" or "lan"
    txPc,          \* "loop", the top of the main loop, or where the program is
    back,        \* where lan9118_write returns to
    lastTxTag,
    waited,      \* ticks since startTime, counted up to the timeout
    due, arp,    \* periodic_timer and arp_timer have expired
    i,           \* the connection the periodic processing is at
    packets,     \* frames wait in the chip's receive FIFO
    txStatus, txData,   \* the chip's transmit FIFOs
    tx,          \* its transmitter: "on", "stopping" or "off"
    report,      \* tag of the status the last write returned by; -1 for none
    late         \* a write has timed out

drvVars == <<txPc, back, lastTxTag, waited, report, late>>
uipVars == <<due, arp, i>>
chipVars == <<txStatus, txData, tx>>
txVars == <<copy, drvVars, uipVars, packets, chipVars>>

TxInit == /\ copy \in {"uip", "lan"} /\ txPc = "loop" /\ back = "loop"
          /\ lastTxTag = 0 /\ waited = 0 /\ report = 0 /\ late = FALSE
          /\ due = FALSE /\ arp = FALSE /\ i = 0 /\ packets = FALSE
          /\ txStatus = <<>> /\ txData = <<>> /\ tx = "off"

-----------------------------------------------------------------------------
(* The chip. *)

HwArrive == /\ packets' = TRUE
            /\ UNCHANGED <<copy, drvVars, uipVars, chipVars>>

(* A frame leaves, or fails (es).  A transmitter told to stop finishes the  *)
(* frame it is sending; one whose status FIFO is full waits.                *)
HwTransmit(es) ==
    /\ tx # "off" /\ txData # <<>> /\ Len(txStatus) < TxDepth
    /\ txStatus' = Append(txStatus, [tag |-> Head(txData), es |-> es])
    /\ txData' = Tail(txData)
    /\ tx' = IF tx = "stopping" THEN "off" ELSE tx
    /\ UNCHANGED <<copy, drvVars, uipVars, packets>>

HwTxStop == /\ tx = "stopping" /\ tx' = "off"
            /\ UNCHANGED <<copy, drvVars, uipVars, packets, txStatus, txData>>

-----------------------------------------------------------------------------
(* lan9118_write. *)

(* The loop that is to drain the status FIFO only looks at it and takes no  *)
(* status.  A frame for which the chip has no room is lost.                 *)
sendToNet(from) ==
    /\ lastTxTag' = (lastTxTag + 1) % NTags
    /\ txData' = IF Len(txData) < TxDepth THEN Append(txData, lastTxTag') ELSE txData
    /\ tx' = "on"
    /\ waited' = 0
    /\ txPc' = "wait" /\ back' = from
    /\ UNCHANGED <<report, late, txStatus>>

EthSend == /\ copy = "lan" /\ txPc = "loop"
           /\ sendToNet("loop")
           /\ UNCHANGED <<copy, uipVars, packets>>

(* Mutant: the status is looked at and left in the FIFO. *)
WaitStatus_peek ==
    /\ txPc = "wait" /\ txStatus # <<>>
    /\ report' = Head(txStatus).tag
    /\ tx' = IF ~Head(txStatus).es /\ tx = "on" THEN "stopping" ELSE tx
    /\ txPc' = back
    /\ UNCHANGED <<copy, back, lastTxTag, waited, late, uipVars, packets, txStatus, txData>>

(* The transmitter is stopped after a good status only. *)
WaitStatus == /\ txPc = "wait" /\ txStatus # <<>>
              /\ txStatus' = Tail(txStatus)
              /\ report' = Head(txStatus).tag
              /\ tx' = IF ~Head(txStatus).es /\ tx = "on" THEN "stopping" ELSE tx
              /\ txPc' = back
              /\ UNCHANGED <<copy, back, lastTxTag, waited, late, uipVars, packets, txData>>

(* Mutant: the time is never up. *)
TimeUp_never == FALSE

(* In the other copy get_timer always returns 0. *)
TimeUp == copy = "uip" /\ waited > TX_TIMEOUT

WaitTimeout == /\ txPc = "wait" /\ txStatus = <<>> /\ TimeUp
               /\ report' = -1 /\ late' = TRUE
               /\ txPc' = back
               /\ UNCHANGED <<copy, back, lastTxTag, waited, uipVars, packets, chipVars>>

-----------------------------------------------------------------------------
(* The uIP main loop.  Whether uIP has something to send is its own affair. *)

(* A packet is processed, and answered or not; it may or may not have been  *)
(* the last one.                                                            *)
Input(reply) == /\ copy = "uip" /\ txPc = "loop" /\ packets
                /\ packets' \in BOOLEAN
                /\ IF reply THEN sendToNet("loop") ELSE UNCHANGED <<drvVars, chipVars>>
                /\ UNCHANGED <<copy, uipVars>>

(* Mutant: the two timers exclude each other. *)
StartPeriodic_lost == /\ copy = "uip" /\ txPc = "loop" /\ ~packets /\ due /\ ~arp
                      /\ due' = FALSE
                      /\ i' = 0 /\ txPc' = "periodic"
                      /\ UNCHANGED <<copy, back, lastTxTag, waited, report, late, arp, packets,
                                     chipVars>>

(* Only a call of lan9118_read without a packet leads to the timers. *)
StartPeriodic == /\ copy = "uip" /\ txPc = "loop" /\ ~packets /\ due
                 /\ due' = FALSE
                 /\ i' = 0 /\ txPc' = "periodic"
                 /\ UNCHANGED <<copy, back, lastTxTag, waited, report, late, arp, packets,
                                chipVars>>

(* Mutant: one connection too many is served. *)
Periodic_offByOne(send) ==
    /\ txPc = "periodic" /\ i <= UIP_CONNS
    /\ i' = i + 1
    /\ IF send THEN sendToNet("periodic") ELSE UNCHANGED <<drvVars, chipVars>>
    /\ UNCHANGED <<copy, due, arp, packets>>

(* A connection is served.  The loop over the UDP connections that follows  *)
(* in main has the same form and is not compiled: uip-conf.h sets           *)
(* UIP_CONF_UDP to 0.                                                       *)
Periodic(send) ==
    /\ txPc = "periodic" /\ i < UIP_CONNS
    /\ i' = i + 1
    /\ IF send THEN sendToNet("periodic") ELSE UNCHANGED <<drvVars, chipVars>>
    /\ UNCHANGED <<copy, due, arp, packets>>

(* ... and the ARP timer, if it has expired too. *)
PeriodicEnd == /\ txPc = "periodic" /\ i >= UIP_CONNS
               /\ arp' = FALSE
               /\ txPc' = "loop"
               /\ UNCHANGED <<copy, back, lastTxTag, waited, report, late, due, i, packets,
                              chipVars>>

(* Every tick counts; with it a timer of the main loop may expire. *)
Timer0Handler ==
    /\ copy = "uip"
    /\ waited' = IF txPc = "wait" /\ waited <= TX_TIMEOUT THEN waited + 1 ELSE waited
    /\ due' \in {due, TRUE} /\ arp' \in {arp, TRUE}
    /\ UNCHANGED <<copy, txPc, back, lastTxTag, report, late, i, packets, chipVars>>

-----------------------------------------------------------------------------
Main == \/ \E reply \in BOOLEAN : Input(reply) \/ Periodic(reply)
        \/ StartPeriodic \/ PeriodicEnd
Wait == WaitStatus \/ WaitTimeout
Hardware == HwArrive \/ HwTxStop \/ \E es \in BOOLEAN : HwTransmit(es)

TxNext == EthSend \/ Wait \/ Main \/ Timer0Handler \/ Hardware

TxSpec == TxInit /\ [][TxNext]_txVars

(* The processor runs the main loop and time passes; nothing is assumed of  *)
(* the network, of the chip or of uIP.                                      *)
TxFairSpec == TxSpec /\ WF_txVars(Wait) /\ WF_txVars(Main)
                     /\ WF_txVars(Timer0Handler /\ waited' # waited)

-----------------------------------------------------------------------------
(* Properties. *)

Tags == 0..NTags - 1

(* The values of the program's and the chip's variables. *)
TxTypeOK ==
    /\ copy \in {"uip", "lan"}
    /\ txPc \in {"loop", "wait", "periodic"} /\ back \in {"loop", "periodic"}
    /\ lastTxTag \in Tags /\ waited \in 0..TX_TIMEOUT + 1 /\ report \in Tags \cup {-1}
    /\ late \in BOOLEAN /\ due \in BOOLEAN /\ arp \in BOOLEAN /\ packets \in BOOLEAN
    /\ i \in 0..UIP_CONNS
    /\ txStatus \in Seq([tag : Tags, es : BOOLEAN]) /\ txData \in Seq(Tags)
    /\ tx \in {"on", "stopping", "off"}

(* As long as no write timed out, the status lan9118_write returns by is    *)
(* that of the frame it sent, and that frame has left the chip.             *)
OwnStatus == ~late /\ txPc # "wait" => report = lastTxTag /\ txData = <<>>

(* The uIP main loop always gets back to its top, with the timers served or *)
(* another packet: a write whose status never comes does not stop it.       *)
MainLoopLive == copy = "uip" => []<>(txPc = "loop")

(* Once the network is quiet, an expired timer is served: the periodic      *)
(* processing runs, and that of the ARP table when both have expired.       *)
TimersServed == <>[]~packets /\ copy = "uip" => (due ~> ~due) /\ (due /\ arp ~> ~arp)

(* "Drain the TX status fifo just in case there are old (good) statuses":   *)
(* the status lan9118_write returns by is never that of an earlier frame.   *)
NoOldStatus == txPc # "wait" /\ report # -1 => report = lastTxTag
=============================================================================
