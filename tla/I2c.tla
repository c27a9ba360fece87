-------------------------------- MODULE I2c --------------------------------
(***************************************************************************)
(* The polled I2C master of accelerometer/accelerometer.c, which reads and *)
(* writes the registers of a LIS3L accelerometer, and its second copy in   *)
(* touchscreen/touchscreen.c, which only reads an A/D converter.  The I2C  *)
(* controller and the slave are external.  The controller holds the bus    *)
(* from the moment it reports a status until the driver clears SI, so the  *)
(* handling of one status is one step.                                     *)
(***************************************************************************)
EXTENDS Integers, Sequences

CONSTANTS
    NReg,     \* registers of the slave
    Val,      \* values a register holds
    Axes,     \* bytes LIS3LGetXYZ reads (6), also those GetADC reads (8)
    Calls,    \* the functions the program calls
    Faults    \* "nack", "arbitration": what can go wrong on the bus

Functions == {"LIS3LEnable", "LIS3LWhoAmI", "LIS3LGetXYZ", "GetADC"}

ASSUME DeviceAssumption ==
    /\ NReg \in Nat /\ Axes \in Nat \ {0} /\ Axes + 2 <= NReg
    /\ Val \subseteq Nat /\ 0 \in Val /\ 1 \in Val
ASSUME UseAssumption == Calls \subseteq Functions /\ Faults \subseteq {"nack", "arbitration"}

VARIABLES
    pc,                     \* "idle", "start" (SEND_START has read I2CONSET), "poll"
    call,                   \* the function that called i2c_transfer last
    conset,                 \* STO as SEND_START read it
    i2c_pos, i2c_bytesRemaining, i2c_buffer,
    i2c_rxWrPos, i2c_rxBytesRemaining, i2c_rxBuffer, i2c_rxComplete,
    i2c_RdnWr,
    stat,                   \* I2STAT, "F8" while SI is clear
    last,                   \* the status the driver handled last
    sta, sto, aa, dat,      \* bits of I2CON, and I2DAT
    master,                 \* the controller owns the bus
    reg,                    \* the slave's registers
    ptr, inc,               \* its sub-address, and whether that advances
    mode,                   \* what it takes the next byte for
    refused,                \* it has not acknowledged a byte of this transfer
    lost                    \* arbitration was lost after a byte of this transfer

drvVars == <<call, conset, i2c_pos, i2c_bytesRemaining, i2c_buffer, i2c_rxWrPos,
             i2c_rxBytesRemaining, i2c_rxBuffer, i2c_rxComplete, i2c_RdnWr>>
conVars == <<sta, sto, aa, dat>>
slaveVars == <<reg, ptr, inc, mode>>
hist == <<refused, lost>>
vars == <<pc, drvVars, stat, last, conVars, master, slaveVars, hist>>

CTRL_REG1 == 0
WHO_AM_I == 1
OUTX_L == 2
AUTOINC == NReg
Setting == 1

Status == {"08", "10", "18", "20", "28", "30", "38", "40", "48", "50", "58"}

Init == /\ pc = "idle" /\ call = "none" /\ conset = FALSE
        /\ i2c_pos = 0 /\ i2c_bytesRemaining = 0 /\ i2c_buffer = <<>>
        /\ i2c_rxWrPos = 0 /\ i2c_rxBytesRemaining = 0 /\ i2c_rxComplete = 0
        /\ i2c_rxBuffer = [i \in 0..Axes - 1 |-> 0]
        /\ i2c_RdnWr = 0
        /\ stat = "F8" /\ last = "58"
        /\ sta = FALSE /\ sto = FALSE /\ aa = FALSE /\ dat = 0 /\ master = FALSE
        /\ reg \in [0..NReg - 1 -> Val] /\ reg[CTRL_REG1] = 0
        /\ ptr = 0 /\ inc = FALSE /\ mode = "off" /\ refused = FALSE /\ lost = FALSE

-----------------------------------------------------------------------------
(* i2c_transfer(len, rx) as each function calls it.  SEND_START reads       *)
(* I2CONSET and writes it back with STA added; the STOP of the transfer     *)
(* before may end in between.                                               *)

i2c_transfer(f, bytes, rx) ==
    /\ pc = "idle" /\ f \in Calls
    /\ pc' = "start" /\ call' = f
    /\ i2c_buffer' = bytes /\ i2c_bytesRemaining' = Len(bytes)
    /\ i2c_rxBytesRemaining' = rx
    /\ i2c_pos' = 0 /\ i2c_rxWrPos' = 0 /\ i2c_RdnWr' = 0
    /\ conset' = sto
    /\ refused' = FALSE /\ lost' = FALSE
    /\ UNCHANGED <<i2c_rxBuffer, i2c_rxComplete, stat, last, conVars, master, slaveVars>>

LIS3LEnable == i2c_transfer("LIS3LEnable", <<CTRL_REG1, Setting>>, 0)
LIS3LWhoAmI == i2c_transfer("LIS3LWhoAmI", <<WHO_AM_I>>, 1)
LIS3LGetXYZ == i2c_transfer("LIS3LGetXYZ", <<OUTX_L + AUTOINC>>, Axes)
GetADC == i2c_transfer("GetADC", <<0>>, Axes)

SendStart == /\ pc = "start"
             /\ pc' = "poll"
             /\ sta' = TRUE /\ sto' = (sto \/ conset)
             /\ UNCHANGED <<drvVars, stat, last, aa, dat, master, slaveVars, hist>>

(* One turn of the polling loop that sees a status of "codes". *)
Handle(codes) == /\ pc = "poll" /\ stat \in codes
                 /\ last' = stat /\ stat' = "F8"
                 /\ UNCHANGED <<call, conset, i2c_buffer, master, slaveVars, hist>>

rxVars == <<i2c_rxWrPos, i2c_rxBytesRemaining, i2c_rxBuffer, i2c_rxComplete>>
txVars == <<i2c_pos, i2c_bytesRemaining, i2c_RdnWr>>

(* The touch screen's copy always sends the address with the read bit. *)
CaseStart == /\ Handle({"08", "10"})
             /\ dat' = IF call = "GetADC" THEN 1 ELSE i2c_RdnWr
             /\ UNCHANGED <<pc, txVars, rxVars, sta, sto, aa>>

TxStatus == {"18", "20", "28", "30"}

CaseSend == /\ Handle(TxStatus)
            /\ i2c_bytesRemaining > 0
            /\ dat' = i2c_buffer[i2c_pos + 1]
            /\ i2c_pos' = i2c_pos + 1
            /\ i2c_bytesRemaining' = i2c_bytesRemaining - 1
            /\ sta' = FALSE
            /\ UNCHANGED <<pc, i2c_RdnWr, rxVars, sto, aa>>

CaseSent == /\ Handle(TxStatus)
            /\ i2c_bytesRemaining <= 0 /\ i2c_rxBytesRemaining = 0
            /\ sto' = TRUE /\ sta' = FALSE
            /\ pc' = "idle"
            /\ UNCHANGED <<txVars, rxVars, aa, dat>>

(* Mutant: the direction bit is not turned over. *)
CaseTurn_sameDirection ==
    /\ Handle(TxStatus)
    /\ i2c_bytesRemaining <= 0 /\ i2c_rxBytesRemaining # 0
    /\ i2c_pos' = 0 /\ i2c_rxWrPos' = 0 /\ i2c_rxComplete' = 0
    /\ sta' = TRUE
    /\ UNCHANGED <<pc, i2c_bytesRemaining, i2c_RdnWr, i2c_rxBytesRemaining, i2c_rxBuffer,
                   sto, aa, dat>>

CaseTurn == /\ Handle(TxStatus)
            /\ i2c_bytesRemaining <= 0 /\ i2c_rxBytesRemaining # 0
            /\ i2c_RdnWr' = 1 - i2c_RdnWr
            /\ i2c_pos' = 0 /\ i2c_rxWrPos' = 0 /\ i2c_rxComplete' = 0
            /\ sta' = TRUE
            /\ UNCHANGED <<pc, i2c_bytesRemaining, i2c_rxBytesRemaining, i2c_rxBuffer,
                           sto, aa, dat>>

(* Arbitration lost, or the address not acknowledged for reading. *)
CaseRetry == /\ Handle({"38", "48"})
             /\ sta' = TRUE
             /\ UNCHANGED <<pc, txVars, rxVars, sto, aa, dat>>

CaseReading == /\ Handle({"40"})
               /\ aa' = (i2c_rxBytesRemaining # 0)
               /\ sta' = FALSE
               /\ UNCHANGED <<pc, txVars, rxVars, sto, dat>>

(* Mutant: acknowledging stops one byte too late. *)
CaseReceived_ackLast ==
    /\ Handle({"50"})
    /\ i2c_rxBuffer' = [i \in 0..i2c_rxWrPos \cup DOMAIN i2c_rxBuffer |->
                            IF i = i2c_rxWrPos THEN dat ELSE i2c_rxBuffer[i]]
    /\ i2c_rxWrPos' = i2c_rxWrPos + 1
    /\ i2c_rxBytesRemaining' = i2c_rxBytesRemaining - 1
    /\ aa' = (i2c_rxBytesRemaining' >= 0)
    /\ sta' = FALSE
    /\ UNCHANGED <<pc, txVars, i2c_rxComplete, sto, dat>>

(* Mutant: acknowledging stops one byte too early. *)
CaseReceived_ackShort ==
    /\ Handle({"50"})
    /\ i2c_rxBuffer' = [i2c_rxBuffer EXCEPT ![i2c_rxWrPos] = dat]
    /\ i2c_rxWrPos' = i2c_rxWrPos + 1
    /\ i2c_rxBytesRemaining' = i2c_rxBytesRemaining - 1
    /\ aa' = (i2c_rxBytesRemaining' > 1)
    /\ sta' = FALSE
    /\ UNCHANGED <<pc, txVars, i2c_rxComplete, sto, dat>>

CaseReceived == /\ Handle({"50"})
                /\ i2c_rxBuffer' = [i2c_rxBuffer EXCEPT ![i2c_rxWrPos] = dat]
                /\ i2c_rxWrPos' = i2c_rxWrPos + 1
                /\ i2c_rxBytesRemaining' = i2c_rxBytesRemaining - 1
                /\ aa' = (i2c_rxBytesRemaining' # 0)
                /\ sta' = FALSE
                /\ UNCHANGED <<pc, txVars, i2c_rxComplete, sto, dat>>

(* Mutant: the bus is not released. *)
CaseLast_noStop ==
    /\ Handle({"58"})
    /\ i2c_rxComplete' = 1
    /\ pc' = "idle"
    /\ sta' = FALSE
    /\ UNCHANGED <<txVars, i2c_rxWrPos, i2c_rxBytesRemaining, i2c_rxBuffer, sto, aa, dat>>

CaseLast == /\ Handle({"58"})
            /\ i2c_rxComplete' = 1
            /\ pc' = "idle"
            /\ sta' = FALSE /\ sto' = TRUE
            /\ UNCHANGED <<txVars, i2c_rxWrPos, i2c_rxBytesRemaining, i2c_rxBuffer, aa, dat>>

-----------------------------------------------------------------------------
(* The controller and the slave (external). *)

Bus == /\ stat = "F8"
       /\ UNCHANGED <<pc, drvVars, sta, aa, last>>

HwStop == /\ Bus /\ sto
          /\ sto' = FALSE /\ master' = FALSE
          /\ mode' = IF master THEN "off" ELSE mode
          /\ UNCHANGED <<stat, dat, reg, ptr, inc, hist>>

HwStart == /\ Bus /\ ~sto /\ sta /\ last \notin {"08", "10"}
           /\ stat' = IF master THEN "10" ELSE "08"
           /\ master' = TRUE /\ mode' = "address"
           /\ UNCHANGED <<sto, dat, reg, ptr, inc, hist>>

(* The address, with the read bit in dat. *)
HwAddress(ack) ==
    /\ Bus /\ ~sto /\ master /\ last \in {"08", "10"}
    /\ ack \/ "nack" \in Faults
    /\ stat' = IF dat = 0 THEN IF ack THEN "18" ELSE "20"
                          ELSE IF ack THEN "40" ELSE "48"
    /\ mode' = IF ~ack THEN "off" ELSE IF dat = 0 THEN "pointer" ELSE "read"
    /\ IF call = "GetADC" /\ ack THEN ptr' = 0 /\ inc' = TRUE ELSE UNCHANGED <<ptr, inc>>
    /\ refused' = (refused \/ (~ack /\ dat = 0))
    /\ UNCHANGED <<sto, dat, master, reg, lost>>

Advance(p) == IF inc THEN (p + 1) % NReg ELSE p

(* A byte to the slave: its sub-address, or the value of a register. *)
HwSend(ack) ==
    /\ Bus /\ ~sto /\ ~sta /\ master /\ last \in TxStatus
    /\ ack => mode \in {"pointer", "write"}
    /\ mode = "off" \/ ack \/ "nack" \in Faults
    /\ stat' = IF ack THEN "28" ELSE "30"
    /\ ptr' = IF ~ack THEN ptr ELSE IF mode = "pointer" THEN dat % NReg ELSE Advance(ptr)
    /\ inc' = IF ack /\ mode = "pointer" THEN dat >= NReg ELSE inc
    /\ reg' = IF ack /\ mode = "write" THEN [reg EXCEPT ![ptr] = dat] ELSE reg
    /\ mode' = IF ack THEN "write" ELSE "off"
    /\ refused' = (refused \/ ~ack)
    /\ UNCHANGED <<sto, dat, master, lost>>

(* A byte from the slave, which the controller acknowledges if AA is set. *)
HwReceive == /\ Bus /\ ~sto /\ ~sta /\ master /\ last \in {"40", "50"}
             /\ dat' = reg[ptr]
             /\ ptr' = Advance(ptr)
             /\ stat' = IF aa THEN "50" ELSE "58"
             /\ UNCHANGED <<sto, master, reg, inc, mode, hist>>

(* Another master wins the bus while this one sends. *)
HwLose == /\ Bus /\ ~sto /\ master /\ "arbitration" \in Faults
          /\ \/ last \in {"08", "10"}
             \/ last \in TxStatus /\ ~sta
          /\ stat' = "38"
          /\ master' = FALSE /\ mode' = "off"
          /\ lost' = (lost \/ (i2c_pos > 0))
          /\ UNCHANGED <<sto, dat, reg, ptr, inc, refused>>

-----------------------------------------------------------------------------
Call == LIS3LEnable \/ LIS3LWhoAmI \/ LIS3LGetXYZ \/ GetADC
Poll == \/ SendStart \/ CaseStart \/ CaseSend \/ CaseSent \/ CaseTurn
        \/ CaseRetry \/ CaseReading \/ CaseReceived \/ CaseLast
Answer == HwAddress(TRUE) \/ HwSend(TRUE)
Hardware == \/ HwStop \/ HwStart \/ HwReceive
            \/ \E ack \in BOOLEAN : HwAddress(ack) \/ HwSend(ack)

Next == Call \/ Poll \/ Hardware \/ HwLose

Spec == Init /\ [][Next]_vars

(* The loop polls, the controller goes on, and a slave that is addressed    *)
(* again and again answers at last.                                         *)
FairSpec == Spec /\ WF_vars(Poll) /\ WF_vars(Hardware) /\ SF_vars(Answer)

-----------------------------------------------------------------------------
(* Properties. *)

DrvTypeOK ==
    /\ pc \in {"idle", "start", "poll"} /\ call \in Functions \cup {"none"}
    /\ conset \in BOOLEAN
    /\ i2c_buffer \in Seq(Nat) /\ Len(i2c_buffer) <= 2
    /\ i2c_pos \in 0..2 /\ i2c_bytesRemaining \in 0..2
    /\ i2c_rxWrPos \in Nat /\ i2c_rxBytesRemaining \in Int
    /\ i2c_rxBuffer \in [0..Axes - 1 -> Nat]
    /\ i2c_rxComplete \in {0, 1} /\ i2c_RdnWr \in {0, 1}
ConTypeOK ==
    /\ stat \in Status \cup {"F8"} /\ last \in Status /\ dat \in Nat
    /\ sta \in BOOLEAN /\ sto \in BOOLEAN /\ aa \in BOOLEAN /\ master \in BOOLEAN
SlaveTypeOK ==
    /\ reg \in [0..NReg - 1 -> Nat] /\ ptr \in 0..NReg - 1 /\ inc \in BOOLEAN
    /\ mode \in {"off", "address", "pointer", "write", "read"}
    /\ refused \in BOOLEAN /\ lost \in BOOLEAN

(* The values of the driver's, the controller's and the slave's variables. *)
TypeOK == DrvTypeOK /\ ConTypeOK /\ SlaveTypeOK

(* What the caller of i2c_transfer asked for was done: the register has the *)
(* value, or the buffer holds the registers in order.                       *)
Done == /\ call = "LIS3LEnable" => reg[CTRL_REG1] = Setting
        /\ call = "LIS3LWhoAmI" => i2c_rxBuffer[0] = reg[WHO_AM_I]
        /\ call = "LIS3LGetXYZ" =>
                \A i \in 0..Axes - 1 : i2c_rxBuffer[i] = reg[OUTX_L + i]
        /\ call = "GetADC" => \A i \in 0..Axes - 1 : i2c_rxBuffer[i] = reg[i]

(* When i2c_transfer has returned and the slave acknowledged every byte of  *)
(* it, what the caller asked for was done: with a read address refused and  *)
(* sent again any number of times, and with arbitration lost and regained   *)
(* before the first byte or after the last one.  ~lost is needed: a retry   *)
(* from the middle of a transfer goes on with the next byte.                *)
TransferDone == pc = "idle" /\ ~refused /\ ~lost => Done

(* No byte is stored after the last one asked for, although the controller  *)
(* reads one more: it reports that one as not acknowledged.                 *)
RxFits == i2c_rxBytesRemaining >= 0 /\ i2c_rxWrPos <= Axes

(* Every transfer ends, if a slave that is asked again answers at last. *)
TransferEnds == pc # "idle" ~> pc = "idle"

(* Every transfer gives the bus back. *)
BusReleased == pc = "idle" ~> ~master
=============================================================================
