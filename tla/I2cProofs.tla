----------------------------- MODULE I2cProofs -----------------------------
(***************************************************************************)
(* What I2c promises for every number of registers, every length of a      *)
(* reading, every set of calls and all faults of the bus.                  *)
(***************************************************************************)
EXTENDS I2c, TLAPS

USE DEF vars, drvVars, conVars, slaveVars, hist, rxVars, txVars

(* What the function that called i2c_transfer sends, and how much it reads. *)
Bytes == CASE call = "LIS3LEnable" -> <<CTRL_REG1, Setting>>
           [] call = "LIS3LWhoAmI" -> <<WHO_AM_I>>
           [] call = "LIS3LGetXYZ" -> <<OUTX_L + AUTOINC>>
           [] call = "GetADC" -> <<0>>
           [] OTHER -> <<>>
Asked == CASE call = "LIS3LWhoAmI" -> 1
           [] call \in {"LIS3LGetXYZ", "GetADC"} -> Axes
           [] OTHER -> 0

(* The register byte i of a reading comes from. *)
From(i) == CASE call = "LIS3LWhoAmI" -> WHO_AM_I
             [] call = "LIS3LGetXYZ" -> OUTX_L + i
             [] OTHER -> i

(* The driver's counters: what is sent and what is left to send make up the *)
(* buffer, what is received and what is left to receive what was asked for. *)
Counts ==
    /\ i2c_buffer = Bytes
    /\ i2c_rxWrPos + i2c_rxBytesRemaining = Asked /\ i2c_rxBytesRemaining >= 0
    /\ IF i2c_RdnWr = 0 THEN i2c_pos + i2c_bytesRemaining = Len(i2c_buffer)
       ELSE /\ i2c_pos = 0 /\ i2c_bytesRemaining = 0
            /\ call \in {"LIS3LWhoAmI", "LIS3LGetXYZ"}
    /\ call = "GetADC" => i2c_pos = 0 /\ i2c_RdnWr = 0
    /\ pc = "start" => i2c_pos = 0 /\ i2c_rxWrPos = 0 /\ i2c_RdnWr = 0
    /\ pc # "idle" => call # "none"

(* The address to be sent has the read bit. *)
Reading == call = "GetADC" \/ i2c_RdnWr = 1

(* Between transfers nothing happens on the bus but a STOP. *)
QuietBus == pc # "poll" => /\ stat = "F8" /\ ~sta /\ (sto \/ ~master)
                           /\ last \in TxStatus \cup {"58"}

(* During a transfer, what the controller reports agrees with what the      *)
(* driver is doing.                                                         *)
BusInStep ==
    pc = "poll" =>
        /\ sto => stat = "F8" /\ i2c_pos = 0
        /\ stat = "F8" /\ last \in TxStatus /\ i2c_pos = 0 => sta
        /\ stat = "F8" /\ last \in {"40", "50"} =>
                ~sta /\ Reading /\ (aa <=> i2c_rxBytesRemaining # 0)
        /\ stat = "F8" /\ last \in {"08", "10"} => dat = IF Reading THEN 1 ELSE 0
        /\ stat \in TxStatus => ~Reading
        /\ stat \in {"40", "48", "50", "58"} => Reading
        /\ stat = "50" => i2c_rxBytesRemaining # 0
        /\ stat = "58" => i2c_rxBytesRemaining = 0
        /\ i2c_rxWrPos # 0 => stat \in {"50", "58"} \/ (stat = "F8" /\ last = "50")

(* The bytes of i2c_buffer reach the slave. *)
Sending ==
    pc = "poll" /\ ~Reading =>
        /\ stat \notin {"20", "30"}
        /\ stat = "18" => i2c_pos = 0 /\ mode = "pointer"
        /\ stat = "28" => i2c_pos > 0
        /\ i2c_pos > 0 => stat = "28" \/ (stat = "F8" /\ last \in TxStatus /\ ~sta)
        /\ stat = "F8" /\ i2c_pos = 1 => mode = "pointer" /\ dat = i2c_buffer[1]
        /\ stat = "28" /\ i2c_pos = 1 => /\ mode = "write" /\ ptr = i2c_buffer[1] % NReg
                                         /\ inc = (i2c_buffer[1] >= NReg)
        /\ stat = "F8" /\ i2c_pos = 2 => mode = "write" /\ dat = Setting /\ ptr = CTRL_REG1
        /\ stat = "28" /\ i2c_pos = 2 => reg[CTRL_REG1] = Setting

(* Data is on its way from the slave. *)
Fetching == stat \in {"40", "50", "58"} \/ (stat = "F8" /\ last \in {"40", "50"})

(* The slave's sub-address follows i2c_rxWrPos. *)
Receiving ==
    /\ pc = "poll" /\ i2c_RdnWr = 1 /\ ~Fetching =>
            ptr = From(0) /\ inc = (call # "LIS3LWhoAmI")
    /\ pc = "poll" /\ Fetching =>
            /\ inc = (call # "LIS3LWhoAmI")
            /\ \A i \in 0..i2c_rxWrPos - 1 : i2c_rxBuffer[i] = reg[From(i)]
            /\ stat \notin {"50", "58"} /\ i2c_rxWrPos < Asked => ptr = From(i2c_rxWrPos)
            /\ stat = "50" => /\ dat = reg[From(i2c_rxWrPos)]
                              /\ i2c_rxWrPos + 1 < Asked => ptr = From(i2c_rxWrPos + 1)

DataInStep == ~refused /\ ~lost => Sending /\ Receiving /\ (pc = "idle" => Done)

-----------------------------------------------------------------------------
(* TypeOK, with the driver's counters. *)

(* The constants of the slave. *)
LEMMA Device ==
    /\ NReg \in Nat \ {0} /\ NReg > 2 /\ Axes \in Nat \ {0} /\ Axes + 2 <= NReg
    /\ Val \subseteq Nat /\ AUTOINC = NReg /\ OUTX_L + AUTOINC \in Nat
    /\ CTRL_REG1 = 0 /\ WHO_AM_I = 1 /\ OUTX_L = 2 /\ Setting = 1
BY DeviceAssumption DEF AUTOINC, CTRL_REG1, WHO_AM_I, OUTX_L, Setting

(* A register number is one after a wrap. *)
LEMMA ModType == ASSUME NEW k \in Nat PROVE k % NReg \in 0..NReg - 1
<1>1. NReg \in Nat \ {0}
    BY Device
<1> QED BY ONLY <1>1, SMT

(* Below the wrap it is itself. *)
LEMMA ModSmall == ASSUME NEW k \in 0..NReg - 1 PROVE k % NReg = k
<1>1. NReg \in Nat \ {0}
    BY Device
<1> QED BY ONLY <1>1, SMT

(* Every call starts a transfer of its own bytes. *)
LEMMA CallRight ==
    ASSUME Call
    PROVE  /\ pc = "idle" /\ pc' = "start" /\ call' \in Functions
           /\ i2c_buffer' = Bytes' /\ i2c_buffer' \in Seq(Nat) /\ Len(i2c_buffer') \in 1..2
           /\ i2c_bytesRemaining' = Len(i2c_buffer')
           /\ i2c_rxBytesRemaining' = Asked' /\ Asked' \in Nat
           /\ i2c_pos' = 0 /\ i2c_rxWrPos' = 0 /\ i2c_RdnWr' = 0
           /\ conset' = sto /\ refused' = FALSE /\ lost' = FALSE
           /\ UNCHANGED <<i2c_rxBuffer, i2c_rxComplete, stat, last, conVars, master, slaveVars>>
<1> DEFINE Right(f, bytes, rx) == /\ i2c_transfer(f, bytes, rx) /\ f \in Functions
                                  /\ bytes = Bytes' /\ rx = Asked' /\ rx \in Nat
                                  /\ bytes \in Seq(Nat) /\ Len(bytes) \in 1..2
<1>1. ASSUME NEW f, NEW bytes, NEW rx, Right(f, bytes, rx)
      PROVE  /\ pc = "idle" /\ pc' = "start" /\ call' \in Functions
             /\ i2c_buffer' = Bytes' /\ i2c_buffer' \in Seq(Nat) /\ Len(i2c_buffer') \in 1..2
             /\ i2c_bytesRemaining' = Len(i2c_buffer')
             /\ i2c_rxBytesRemaining' = Asked' /\ Asked' \in Nat
             /\ i2c_pos' = 0 /\ i2c_rxWrPos' = 0 /\ i2c_RdnWr' = 0
             /\ conset' = sto /\ refused' = FALSE /\ lost' = FALSE
             /\ UNCHANGED <<i2c_rxBuffer, i2c_rxComplete, stat, last, conVars, master,
                            slaveVars>>
    BY <1>1 DEF i2c_transfer
<1>2. CASE LIS3LEnable
    <2>1. i2c_transfer("LIS3LEnable", <<CTRL_REG1, Setting>>, 0) /\ call' = "LIS3LEnable"
        BY <1>2 DEF LIS3LEnable, i2c_transfer
    <2>2. <<CTRL_REG1, Setting>> \in Seq(Nat) /\ Len(<<CTRL_REG1, Setting>>) \in 1..2 /\ 0 \in Nat
        BY Device
    <2>3. Bytes' = <<CTRL_REG1, Setting>> /\ Asked' = 0
        BY <2>1 DEF Bytes, Asked
    <2>4. Right("LIS3LEnable", <<CTRL_REG1, Setting>>, 0)
        BY <2>1, <2>2, <2>3 DEF Functions
    <2> HIDE DEF Right
    <2> QED BY ONLY <1>1, <2>4
<1>3. CASE LIS3LWhoAmI
    <2>1. i2c_transfer("LIS3LWhoAmI", <<WHO_AM_I>>, 1) /\ call' = "LIS3LWhoAmI"
        BY <1>3 DEF LIS3LWhoAmI, i2c_transfer
    <2>2. <<WHO_AM_I>> \in Seq(Nat) /\ Len(<<WHO_AM_I>>) \in 1..2 /\ 1 \in Nat
        BY Device
    <2>3. Bytes' = <<WHO_AM_I>> /\ Asked' = 1
        BY <2>1 DEF Bytes, Asked
    <2>4. Right("LIS3LWhoAmI", <<WHO_AM_I>>, 1)
        BY <2>1, <2>2, <2>3 DEF Functions
    <2> HIDE DEF Right
    <2> QED BY ONLY <1>1, <2>4
<1>4. CASE LIS3LGetXYZ
    <2>1. i2c_transfer("LIS3LGetXYZ", <<OUTX_L + AUTOINC>>, Axes) /\ call' = "LIS3LGetXYZ"
        BY <1>4 DEF LIS3LGetXYZ, i2c_transfer
    <2>2. <<OUTX_L + AUTOINC>> \in Seq(Nat) /\ Len(<<OUTX_L + AUTOINC>>) \in 1..2 /\ Axes \in Nat
        BY Device
    <2>3. Bytes' = <<OUTX_L + AUTOINC>> /\ Asked' = Axes
        BY <2>1 DEF Bytes, Asked
    <2>4. Right("LIS3LGetXYZ", <<OUTX_L + AUTOINC>>, Axes)
        BY <2>1, <2>2, <2>3 DEF Functions
    <2> HIDE DEF Right
    <2> QED BY ONLY <1>1, <2>4
<1>5. CASE GetADC
    <2>1. i2c_transfer("GetADC", <<0>>, Axes) /\ call' = "GetADC"
        BY <1>5 DEF GetADC, i2c_transfer
    <2>2. <<0>> \in Seq(Nat) /\ Len(<<0>>) \in 1..2 /\ Axes \in Nat
        BY Device
    <2>3. Bytes' = <<0>> /\ Asked' = Axes
        BY <2>1 DEF Bytes, Asked
    <2>4. Right("GetADC", <<0>>, Axes)
        BY <2>1, <2>2, <2>3 DEF Functions
    <2> HIDE DEF Right
    <2> QED BY ONLY <1>1, <2>4
<1> QED BY <1>2, <1>3, <1>4, <1>5 DEF Call

(* What one turn of the polling loop leaves alone. *)
LEMMA HandleRight ==
    ASSUME NEW codes, Handle(codes)
    PROVE  /\ pc = "poll" /\ stat \in codes /\ last' = stat /\ stat' = "F8"
           /\ UNCHANGED <<call, conset, i2c_buffer, master, slaveVars, hist>>
BY DEF Handle

(* The actions, by what they may change. *)
LEMMA Actions ==
    ASSUME [Next]_vars
    PROVE  \/ Call \/ SendStart \/ CaseStart \/ CaseSend \/ CaseSent \/ CaseTurn
           \/ CaseRetry \/ CaseReading \/ CaseReceived \/ CaseLast
           \/ HwStop \/ HwStart \/ HwReceive \/ HwLose
           \/ (\E ack \in BOOLEAN : HwAddress(ack)) \/ (\E ack \in BOOLEAN : HwSend(ack))
           \/ UNCHANGED vars
BY DEF Next, Poll, Hardware

(* The controller and the slave leave the driver's variables alone. *)
LEMMA HwRight ==
    ASSUME \/ HwStop \/ HwStart \/ HwReceive \/ HwLose
           \/ \E ack \in BOOLEAN : HwAddress(ack) \/ HwSend(ack)
    PROVE  stat = "F8" /\ UNCHANGED <<pc, drvVars, sta, aa, last>>
BY DEF HwStop, HwStart, HwReceive, HwLose, HwAddress, HwSend, Bus

(* The types of the driver's variables. *)
LEMMA DrvTypeStep == TypeOK /\ Counts /\ [Next]_vars => DrvTypeOK'
<1> SUFFICES ASSUME TypeOK, Counts, [Next]_vars PROVE DrvTypeOK'
    OBVIOUS
<1> USE DEF TypeOK, DrvTypeOK
<1>1. CASE Call
    <2>1. Len(i2c_buffer') <= 2 /\ i2c_bytesRemaining' \in 0..2 /\ i2c_rxBytesRemaining' \in Int
          /\ 0 \in 0..2
        BY <1>1, CallRight
    <2>2. conset' \in BOOLEAN
        BY <1>1, CallRight DEF ConTypeOK
    <2> QED BY <1>1, <2>1, <2>2, CallRight
<1>2. CASE SendStart \/ CaseStart \/ CaseSent \/ CaseRetry \/ CaseReading \/ CaseLast
    BY <1>2 DEF SendStart, CaseStart, CaseSent, CaseRetry, CaseReading, CaseLast, Handle
<1>3. CASE CaseSend
    <2>1. /\ i2c_pos \in 0..2 /\ i2c_bytesRemaining \in 0..2 /\ i2c_bytesRemaining > 0
          /\ i2c_buffer \in Seq(Nat) /\ Len(i2c_buffer) <= 2 /\ Len(i2c_buffer) \in Nat
          /\ i2c_pos + i2c_bytesRemaining = Len(i2c_buffer)
        BY <1>3 DEF CaseSend, Counts
    <2>2. i2c_pos + 1 \in 0..2 /\ i2c_bytesRemaining - 1 \in 0..2
        BY ONLY <2>1
    <2> QED BY <1>3, <2>2 DEF CaseSend, Handle
<1>4. CASE CaseTurn
    <2>1. 1 - i2c_RdnWr \in {0, 1} /\ 0 \in 0..2 /\ 0 \in Nat
        OBVIOUS
    <2> QED BY <1>4, <2>1 DEF CaseTurn, Handle
<1>5. CASE CaseReceived
    <2>1. i2c_rxWrPos + 1 \in Nat /\ i2c_rxBytesRemaining - 1 \in Int
        OBVIOUS
    <2>2. [i2c_rxBuffer EXCEPT ![i2c_rxWrPos] = dat] \in [0..Axes - 1 -> Nat]
        BY DEF ConTypeOK
    <2> QED BY <1>5, <2>1, <2>2 DEF CaseReceived, Handle
<1>6. CASE UNCHANGED <<pc, drvVars>>
    BY <1>6
<1> QED BY <1>1, <1>2, <1>3, <1>4, <1>5, <1>6, Actions
        DEF HwStop, HwStart, HwReceive, HwLose, HwAddress, HwSend, Bus

(* The types of the controller's. *)
LEMMA ConTypeStep == TypeOK /\ Counts /\ [Next]_vars => ConTypeOK'
<1> SUFFICES ASSUME TypeOK, Counts, [Next]_vars PROVE ConTypeOK'
    OBVIOUS
<1> USE DEF TypeOK, ConTypeOK, Status, TxStatus
<1>1. CASE Call
    BY <1>1, CallRight
<1>2. CASE SendStart
    BY <1>2 DEF SendStart, DrvTypeOK
<1>3. CASE CaseStart
    BY <1>3 DEF CaseStart, Handle, DrvTypeOK
<1>4. CASE CaseSend
    <2>1. /\ i2c_pos \in 0..2 /\ i2c_bytesRemaining \in 0..2 /\ i2c_bytesRemaining > 0
          /\ i2c_buffer \in Seq(Nat) /\ Len(i2c_buffer) <= 2 /\ Len(i2c_buffer) \in Nat
          /\ i2c_pos + i2c_bytesRemaining = Len(i2c_buffer)
        BY <1>4 DEF CaseSend, Counts, DrvTypeOK
    <2>2. i2c_pos + 1 \in 1..Len(i2c_buffer)
        BY ONLY <2>1
    <2>3. i2c_buffer[i2c_pos + 1] \in Nat
        BY ONLY <2>1, <2>2
    <2> QED BY <1>4, <2>3 DEF CaseSend, Handle
<1>5. CASE CaseSent \/ CaseTurn
    BY <1>5 DEF CaseSent, CaseTurn, Handle
<1>6. CASE CaseRetry \/ CaseReading
    BY <1>6 DEF CaseRetry, CaseReading, Handle
<1>7. CASE CaseReceived \/ CaseLast
    BY <1>7 DEF CaseReceived, CaseLast, Handle
<1>8. CASE HwStop \/ HwStart
    BY <1>8 DEF HwStop, HwStart, Bus
<1>9. CASE HwReceive
    <2>1. reg[ptr] \in Nat
        BY DEF SlaveTypeOK
    <2> QED BY <1>9, <2>1 DEF HwReceive, Bus
<1>10. CASE HwLose
    BY <1>10 DEF HwLose, Bus
<1>11. ASSUME NEW ack \in BOOLEAN, HwAddress(ack) PROVE ConTypeOK'
    BY <1>11 DEF HwAddress, Bus
<1>12. ASSUME NEW ack \in BOOLEAN, HwSend(ack) PROVE ConTypeOK'
    BY <1>12 DEF HwSend, Bus
<1>13. CASE UNCHANGED vars
    BY <1>13
<1> QED BY <1>1, <1>2, <1>3, <1>4, <1>5, <1>6, <1>7, <1>8, <1>9, <1>10, <1>11, <1>12, <1>13,
           Actions

(* The types of the slave's. *)
LEMMA SlaveTypeStep == TypeOK /\ [Next]_vars => SlaveTypeOK'
<1> SUFFICES ASSUME TypeOK, [Next]_vars PROVE SlaveTypeOK'
    OBVIOUS
<1> USE DEF TypeOK, SlaveTypeOK
<1>1. CASE Call
    BY <1>1, CallRight
<1>2. CASE UNCHANGED <<slaveVars, hist>>
    BY <1>2
<1>3. CASE HwStop \/ HwStart
    BY <1>3 DEF HwStop, HwStart
<1>4. CASE HwLose
    BY <1>4 DEF HwLose
<1>5. ASSUME NEW p \in 0..NReg - 1 PROVE Advance(p) \in 0..NReg - 1
    <2>1. p + 1 \in Nat
        BY Device
    <2>2. (p + 1) % NReg \in 0..NReg - 1
        BY ONLY <2>1, ModType
    <2> QED BY <2>2 DEF Advance
<1>6. CASE HwReceive
    <2>1. Advance(ptr) \in 0..NReg - 1
        BY <1>5
    <2> QED BY <1>6, <2>1 DEF HwReceive
<1>7. ASSUME NEW ack \in BOOLEAN, HwAddress(ack) PROVE SlaveTypeOK'
    <2>1. 0 \in 0..NReg - 1
        BY Device
    <2> QED BY <1>7, <2>1 DEF HwAddress
<1>8. ASSUME NEW ack \in BOOLEAN, HwSend(ack) PROVE SlaveTypeOK'
    <2>1. Advance(ptr) \in 0..NReg - 1 /\ dat % NReg \in 0..NReg - 1
        BY <1>5, ModType DEF ConTypeOK
    <2>2. ptr' \in 0..NReg - 1
        BY <1>8, <2>1 DEF HwSend
    <2>3. inc' \in BOOLEAN
        <3>1. inc' = inc \/ inc' = (dat >= NReg)
            BY <1>8 DEF HwSend
        <3>2. inc \in BOOLEAN /\ (dat >= NReg) \in BOOLEAN
            OBVIOUS
        <3> QED BY ONLY <3>1, <3>2, Zenon
    <2>4. reg' \in [0..NReg - 1 -> Nat]
        BY <1>8 DEF HwSend, ConTypeOK
    <2> QED BY <1>8, <2>2, <2>3, <2>4 DEF HwSend
<1> QED BY <1>1, <1>2, <1>3, <1>4, <1>6, <1>7, <1>8, Actions
        DEF SendStart, CaseStart, CaseSend, CaseSent, CaseTurn, CaseRetry, CaseReading,
            CaseReceived, CaseLast, Handle

(* Counts is inductive, with BusInStep: the driver turns to reading before  *)
(* the first byte is received, and no byte is received after the last one.  *)
LEMMA CountsStep == TypeOK /\ Counts /\ BusInStep /\ [Next]_vars => Counts'
<1> SUFFICES ASSUME TypeOK, Counts, BusInStep, [Next]_vars PROVE Counts'
    OBVIOUS
<1>1. CASE Call
    BY <1>1, CallRight DEF Counts, Functions
<1>2. CASE UNCHANGED <<call, i2c_buffer, i2c_rxWrPos, i2c_rxBytesRemaining, i2c_RdnWr,
                       i2c_pos, i2c_bytesRemaining>> /\ (pc' = "start" => pc = "start")
                    /\ (pc' # "idle" => pc # "idle")
    BY <1>2 DEF Counts, Bytes, Asked
<1>3. CASE CaseSend
    <2>1. /\ i2c_pos' = i2c_pos + 1 /\ i2c_bytesRemaining' = i2c_bytesRemaining - 1
          /\ i2c_bytesRemaining > 0 /\ i2c_pos \in Int /\ i2c_bytesRemaining \in Int
          /\ i2c_RdnWr = 0 /\ call # "GetADC" /\ pc' # "start" /\ pc' = pc
          /\ UNCHANGED <<call, i2c_buffer, i2c_rxWrPos, i2c_rxBytesRemaining, i2c_RdnWr>>
        BY <1>3, HandleRight DEF CaseSend, Counts, BusInStep, Reading, TypeOK, DrvTypeOK
    <2> QED BY <2>1 DEF Counts, Bytes, Asked
<1>4. CASE CaseTurn
    <2>1. /\ i2c_RdnWr = 0 /\ call # "GetADC" /\ i2c_rxWrPos = 0 /\ i2c_rxBytesRemaining # 0
          /\ i2c_bytesRemaining = 0 /\ i2c_RdnWr' = 1 /\ i2c_pos' = 0 /\ i2c_rxWrPos' = 0
          /\ pc' = "poll"
          /\ UNCHANGED <<call, i2c_buffer, i2c_bytesRemaining, i2c_rxBytesRemaining>>
        BY <1>4, HandleRight DEF CaseTurn, BusInStep, Reading, TypeOK, DrvTypeOK, TxStatus
    <2>2. call \in {"LIS3LWhoAmI", "LIS3LGetXYZ"}
        BY <2>1 DEF Counts, Asked, TypeOK, DrvTypeOK
    <2> QED BY <2>1, <2>2 DEF Counts, Bytes, Asked
<1>5. CASE CaseReceived
    <2>1. /\ i2c_rxWrPos' = i2c_rxWrPos + 1 /\ i2c_rxBytesRemaining' = i2c_rxBytesRemaining - 1
          /\ i2c_rxBytesRemaining # 0 /\ pc' = "poll" /\ pc = "poll"
          /\ i2c_rxWrPos \in Nat /\ i2c_rxBytesRemaining \in Int
          /\ UNCHANGED <<call, i2c_buffer, i2c_RdnWr, i2c_pos, i2c_bytesRemaining>>
        BY <1>5, HandleRight DEF CaseReceived, BusInStep, TypeOK, DrvTypeOK
    <2>2. i2c_rxWrPos' + i2c_rxBytesRemaining' = Asked' /\ i2c_rxBytesRemaining' >= 0
        BY <2>1 DEF Counts, Asked
    <2> QED BY <2>1, <2>2 DEF Counts, Bytes
<1>6. \/ Call \/ CaseSend \/ CaseTurn \/ CaseReceived
      \/ UNCHANGED <<call, i2c_buffer, i2c_rxWrPos, i2c_rxBytesRemaining, i2c_RdnWr,
                     i2c_pos, i2c_bytesRemaining>> /\ (pc' = "start" => pc = "start")
                    /\ (pc' # "idle" => pc # "idle")
    BY Actions, HandleRight, HwRight DEF SendStart, CaseStart, CaseSent, CaseRetry, CaseReading,
        CaseLast
<1> QED BY <1>1, <1>2, <1>3, <1>4, <1>5, <1>6

-----------------------------------------------------------------------------
(* The driver and the controller. *)

(* QuietBus is inductive. *)
LEMMA QuietStep == TypeOK /\ QuietBus /\ [Next]_vars => QuietBus'
<1> SUFFICES ASSUME TypeOK, QuietBus, [Next]_vars PROVE QuietBus'
    OBVIOUS
<1>1. CASE Call
    BY <1>1, CallRight DEF QuietBus
<1>2. CASE SendStart \/ CaseStart \/ CaseSend \/ CaseTurn \/ CaseRetry \/ CaseReading
           \/ CaseReceived
    BY <1>2 DEF SendStart, CaseStart, CaseSend, CaseTurn, CaseRetry, CaseReading,
                CaseReceived, Handle, QuietBus
<1>3. CASE CaseSent \/ CaseLast
    BY <1>3 DEF CaseSent, CaseLast, Handle, QuietBus
<1>4. CASE HwStop
    BY <1>4 DEF HwStop, Bus, QuietBus
<1>5. CASE HwStart \/ HwReceive \/ HwLose
    BY <1>5 DEF HwStart, HwReceive, HwLose, Bus, QuietBus, TxStatus
<1>6. ASSUME NEW ack \in BOOLEAN, HwAddress(ack) \/ HwSend(ack) PROVE QuietBus'
    BY <1>6 DEF HwAddress, HwSend, Bus, QuietBus, TxStatus
<1>7. CASE UNCHANGED vars
    BY <1>7 DEF QuietBus
<1> QED BY <1>1, <1>2, <1>3, <1>4, <1>5, <1>6, <1>7, Actions

(* BusInStep is inductive. *)
LEMMA BusStep == TypeOK /\ Counts /\ QuietBus /\ BusInStep /\ [Next]_vars => BusInStep'
<1> SUFFICES ASSUME TypeOK, Counts, QuietBus, BusInStep, [Next]_vars PROVE BusInStep'
    OBVIOUS
<1> USE DEF BusInStep, Reading, TxStatus
<1>t. /\ i2c_RdnWr \in {0, 1} /\ i2c_rxWrPos \in Nat /\ i2c_rxBytesRemaining \in Int
      /\ i2c_pos \in Nat
    BY DEF TypeOK, DrvTypeOK
<1>1. CASE Call
    BY <1>1, CallRight
<1>2. CASE SendStart
    BY <1>2 DEF SendStart, QuietBus, Counts
<1>3. CASE CaseStart
    BY <1>3, <1>t DEF CaseStart, Handle
<1>4. CASE CaseSend
    BY <1>4, <1>t DEF CaseSend, Handle
<1>5. CASE CaseSent \/ CaseLast
    BY <1>5 DEF CaseSent, CaseLast
<1>6. CASE CaseTurn
    BY <1>6, <1>t DEF CaseTurn, Handle
<1>7. CASE CaseRetry
    BY <1>7, <1>t DEF CaseRetry, Handle
<1>8. CASE CaseReading
    BY <1>8, <1>t DEF CaseReading, Handle
<1>9. CASE CaseReceived
    BY <1>9, <1>t DEF CaseReceived, Handle
<1>10. CASE HwStop
    BY <1>10 DEF HwStop, Bus
<1>11. CASE HwStart
    BY <1>11 DEF HwStart, Bus
<1>12. CASE HwReceive
    BY <1>12 DEF HwReceive, Bus
<1>13. CASE HwLose
    BY <1>13, <1>t DEF HwLose, Bus
<1>14. ASSUME NEW ack \in BOOLEAN, HwAddress(ack) PROVE BusInStep'
    BY <1>14 DEF HwAddress, Bus
<1>15. ASSUME NEW ack \in BOOLEAN, HwSend(ack) PROVE BusInStep'
    <2>1. pc = "poll" => i2c_pos # 0
        BY <1>15 DEF HwSend, Bus
    <2>2. pc = "poll" => ~Reading
        BY <2>1 DEF Counts
    <2> QED BY <1>15, <2>1, <2>2 DEF HwSend, Bus
<1>16. CASE UNCHANGED vars
    BY <1>16
<1> QED BY <1>1, <1>2, <1>3, <1>4, <1>5, <1>6, <1>7, <1>8, <1>9, <1>10, <1>11, <1>12, <1>13,
           <1>14, <1>15, <1>16, Actions

(* The invariant on the counters and the bus. *)
Control == TypeOK /\ Counts /\ QuietBus /\ BusInStep

(* Control holds initially. *)
LEMMA ControlInit == Init => Control
<1> SUFFICES ASSUME Init PROVE Control
    OBVIOUS
<1>1. DrvTypeOK
    <2>1. [i \in 0..Axes - 1 |-> 0] \in [0..Axes - 1 -> Nat] /\ 0 \in 0..2
        OBVIOUS
    <2>2. <<>> \in Seq(Nat) /\ Len(<<>>) <= 2
        OBVIOUS
    <2>3. /\ pc = "idle" /\ call = "none" /\ conset = FALSE /\ i2c_buffer = <<>>
          /\ i2c_pos = 0 /\ i2c_bytesRemaining = 0 /\ i2c_rxWrPos = 0
          /\ i2c_rxBytesRemaining = 0 /\ i2c_rxComplete = 0 /\ i2c_RdnWr = 0
          /\ i2c_rxBuffer = [i \in 0..Axes - 1 |-> 0]
        BY DEF Init
    <2>4. i2c_buffer \in Seq(Nat) /\ Len(i2c_buffer) <= 2
        BY ONLY <2>2, <2>3
    <2>5. i2c_rxBuffer \in [0..Axes - 1 -> Nat]
        BY ONLY <2>1, <2>3
    <2>6. 0 \in Nat /\ 0 \in Int
        OBVIOUS
    <2>7. /\ i2c_pos \in 0..2 /\ i2c_bytesRemaining \in 0..2
          /\ i2c_rxWrPos \in Nat /\ i2c_rxBytesRemaining \in Int
          /\ i2c_rxComplete \in {0, 1} /\ i2c_RdnWr \in {0, 1}
        BY ONLY <2>1, <2>3, <2>6
    <2>8. pc \in {"idle", "start", "poll"} /\ call \in Functions \cup {"none"}
        BY ONLY <2>3
    <2> QED BY <2>3, <2>4, <2>5, <2>7, <2>8 DEF DrvTypeOK
<1>2. ConTypeOK
    BY DEF Init, ConTypeOK, Status
<1>3. SlaveTypeOK
    <2>0. reg \in [0..NReg - 1 -> Val] /\ Val \subseteq Nat
        BY Device DEF Init
    <2>1. reg \in [0..NReg - 1 -> Nat]
        BY ONLY <2>0
    <2>2. 0 \in 0..NReg - 1
        BY Device
    <2> QED BY <2>1, <2>2 DEF Init, SlaveTypeOK
<1>4. Counts
    <2>1. Bytes = <<>> /\ Asked = 0
        BY DEF Init, Bytes, Asked
    <2> QED BY <2>1 DEF Init, Counts
<1>5. QuietBus /\ BusInStep
    BY DEF Init, QuietBus, BusInStep
<1> QED BY <1>1, <1>2, <1>3, <1>4, <1>5 DEF Control, TypeOK

(* Control is inductive. *)
LEMMA ControlStep == Control /\ [Next]_vars => Control'
BY DrvTypeStep, ConTypeStep, SlaveTypeStep, CountsStep, QuietStep, BusStep DEF Control, TypeOK

(* Control is an invariant. *)
LEMMA ControlHolds == Spec => []Control
BY ControlInit, ControlStep, PTL DEF Spec

(* The counters stay in their ranges, and so do the slave's sub-address and *)
(* what its registers hold.                                                 *)
THEOREM TypeCorrect == Spec => []TypeOK
<1>1. Control => TypeOK
    BY DEF Control
<1> QED BY <1>1, ControlHolds, PTL

(* i2c_transfer stores no more bytes than were asked for. *)
THEOREM RxFitsHolds == Spec => []RxFits
<1>1. Control => RxFits
    BY Device DEF Control, TypeOK, DrvTypeOK, Counts, Asked, RxFits
<1> QED BY <1>1, ControlHolds, PTL

-----------------------------------------------------------------------------
(* The bytes arrive. *)

(* Only a new transfer forgets a refused byte or a lost arbitration. *)
LEMMA StillGood ==
    ASSUME TypeOK, [Next]_vars, ~Call, ~refused', ~lost' PROVE ~refused /\ ~lost
<1>1. CASE UNCHANGED hist
    BY <1>1
<1>2. CASE HwLose
    BY <1>2 DEF HwLose
<1>3. ASSUME NEW ack \in BOOLEAN, HwAddress(ack) PROVE ~refused /\ ~lost
    BY <1>3 DEF HwAddress
<1>4. ASSUME NEW ack \in BOOLEAN, HwSend(ack) PROVE ~refused /\ ~lost
    BY <1>4 DEF HwSend
<1> QED BY <1>1, <1>2, <1>3, <1>4, Actions
        DEF SendStart, CaseStart, CaseSend, CaseSent, CaseTurn, CaseRetry, CaseReading,
            CaseReceived, CaseLast, Handle, HwStop, HwStart, HwReceive

(* What is in i2c_buffer. *)
LEMMA BufferRight ==
    ASSUME TypeOK, Counts, ~Reading, pc = "poll"
    PROVE  /\ i2c_pos \in Nat /\ i2c_bytesRemaining \in Nat
           /\ i2c_pos + i2c_bytesRemaining = Len(i2c_buffer) /\ i2c_buffer[1] \in Nat
           /\ call \in {"LIS3LEnable", "LIS3LWhoAmI", "LIS3LGetXYZ"}
           /\ IF call = "LIS3LEnable"
              THEN /\ Len(i2c_buffer) = 2 /\ Asked = 0
                   /\ i2c_buffer[1] = CTRL_REG1 /\ i2c_buffer[2] = Setting
              ELSE /\ Len(i2c_buffer) = 1 /\ Asked > 0
                   /\ i2c_buffer[1] % NReg = From(0)
                   /\ (i2c_buffer[1] >= NReg) = (call # "LIS3LWhoAmI")
<1>1. /\ call \in {"LIS3LEnable", "LIS3LWhoAmI", "LIS3LGetXYZ"} /\ i2c_buffer = Bytes
      /\ i2c_pos \in Nat /\ i2c_bytesRemaining \in Nat
      /\ i2c_pos + i2c_bytesRemaining = Len(i2c_buffer)
    BY DEF TypeOK, DrvTypeOK, Counts, Reading, Functions
<1>2. CASE call = "LIS3LEnable"
    <2>1. i2c_buffer = <<0, 1>> /\ Asked = 0
        BY <1>1, <1>2, Device DEF Bytes, Asked
    <2> QED BY <1>1, <1>2, <2>1, Device
<1>3. CASE call = "LIS3LWhoAmI"
    <2>1. i2c_buffer = <<1>> /\ Asked = 1 /\ From(0) = 1
        BY <1>1, <1>3, Device DEF Bytes, Asked, From
    <2>2. i2c_buffer[1] = 1 /\ Len(i2c_buffer) = 1
        BY <2>1
    <2>3. 1 \in 0..NReg - 1 /\ ~(1 >= NReg)
        BY Device
    <2>4. 1 % NReg = 1
        BY <2>3, ModSmall
    <2> QED BY <1>1, <1>3, <2>1, <2>2, <2>3, <2>4
<1>4. CASE call = "LIS3LGetXYZ"
    <2>1. i2c_buffer = <<2 + NReg>> /\ Asked = Axes /\ From(0) = 2 + 0
        BY <1>1, <1>4, Device DEF Bytes, Asked, From
    <2>2. i2c_buffer[1] = 2 + NReg /\ Len(i2c_buffer) = 1
        BY <2>1
    <2>3. NReg \in Nat \ {0} /\ NReg > 2 /\ Axes > 0
        BY Device
    <2>4. (2 + NReg) % NReg = 2
        BY ONLY <2>3, SMT
    <2>5. 2 + NReg >= NReg /\ 2 + NReg \in Nat
        BY ONLY <2>3
    <2> QED BY <1>1, <1>4, <2>1, <2>2, <2>3, <2>4, <2>5
<1> QED BY <1>1, <1>2, <1>3, <1>4

(* Where the bytes of a reading come from. *)
LEMMA FromRight ==
    ASSUME NEW i \in Nat, i < Asked, inc = (call # "LIS3LWhoAmI")
    PROVE  /\ From(i) \in 0..NReg - 1 /\ Asked \in Nat /\ Asked <= Axes
           /\ i + 1 < Asked => Advance(From(i)) = From(i + 1)
<1>1. /\ NReg \in Nat \ {0} /\ Axes \in Nat /\ Axes + 2 <= NReg
    BY Device
<1>2. CASE call = "LIS3LWhoAmI"
    BY <1>1, <1>2, Device DEF Asked, From
<1>3. CASE call = "LIS3LGetXYZ" \/ call = "GetADC"
    <2>1. Asked = Axes /\ (From(i) = i \/ From(i) = 2 + i) /\ From(i + 1) = From(i) + 1 /\ inc
        <3>1. CASE call = "LIS3LGetXYZ"
            <4>1. Asked = Axes /\ inc = TRUE
                BY <3>1 DEF Asked
            <4>2. From(i) = 2 + i /\ From(i + 1) = 2 + (i + 1)
                BY <3>1 DEF From, OUTX_L
            <4> QED BY <4>1, <4>2
        <3>2. CASE call = "GetADC"
            <4>1. Asked = Axes /\ inc = TRUE
                BY <3>2 DEF Asked
            <4>2. From(i) = i /\ From(i + 1) = i + 1
                BY <3>2 DEF From
            <4> QED BY <4>1, <4>2
        <3> QED BY <1>3, <3>1, <3>2
    <2>2. From(i) \in 0..NReg - 1 /\ (i + 1 < Asked => From(i) + 1 \in 0..NReg - 1)
        BY <1>1, <2>1
    <2>3. i + 1 < Asked => (From(i) + 1) % NReg = From(i) + 1
        BY <2>2, ModSmall
    <2> QED BY <1>1, <2>1, <2>2, <2>3 DEF Advance
<1>4. Asked # 0
    BY <1>1 DEF Asked
<1> QED BY <1>2, <1>3, <1>4 DEF Asked

(* Sending is kept. *)
LEMMA SendingStep ==
    ASSUME Control, Sending, [Next]_vars, ~refused', ~lost', ~refused, ~lost, ~Call
    PROVE  Sending'
<1> USE DEF Sending, Reading, TxStatus
<1>t. /\ i2c_RdnWr \in {0, 1} /\ i2c_pos \in 0..2 /\ TypeOK /\ Counts /\ BusInStep
      /\ QuietBus
    BY DEF Control, TypeOK, DrvTypeOK
<1>1. CASE SendStart
    BY <1>1, <1>t DEF SendStart, QuietBus, Counts
<1>2. CASE CaseStart \/ CaseRetry
    BY <1>2, <1>t DEF CaseStart, CaseRetry, Handle
<1>3. CASE CaseSend
    <2>1. /\ pc = "poll" /\ stat \in TxStatus /\ ~Reading /\ last' = stat /\ stat' = "F8"
          /\ pc' = "poll" /\ i2c_bytesRemaining > 0 /\ i2c_pos' = i2c_pos + 1
          /\ dat' = i2c_buffer[i2c_pos + 1] /\ sta' = FALSE
          /\ UNCHANGED <<i2c_buffer, mode, ptr, reg>>
        BY <1>3, <1>t DEF CaseSend, Handle, BusInStep
    <2>2. CASE i2c_pos = 0
        BY <2>1, <2>2
    <2>3. CASE i2c_pos = 1
        <3>1. stat = "28" /\ mode = "write" /\ ptr = i2c_buffer[1] % NReg
            BY <2>1, <2>3
        <3>2. call = "LIS3LEnable"
            BY <2>1, <2>3, <1>t, BufferRight
        <3>3. i2c_buffer[1] = 0 /\ i2c_buffer[2] = Setting /\ CTRL_REG1 = 0
            BY <1>t, <2>1, <3>2, BufferRight, Device
        <3>4. 0 % NReg = 0
            BY ModSmall, Device
        <3> QED BY <2>1, <2>3, <3>1, <3>3, <3>4
    <2>4. i2c_pos \in {0, 1}
        BY <1>t, <2>1, BufferRight
    <2> QED BY <2>2, <2>3, <2>4
<1>4. CASE CaseSent \/ CaseLast
    BY <1>4 DEF CaseSent, CaseLast
<1>5. CASE CaseTurn
    <2>1. ~Reading
        BY <1>5, <1>t DEF CaseTurn, Handle, BusInStep
    <2>2. i2c_RdnWr' = 1
        BY <1>5, <1>t, <2>1 DEF CaseTurn
    <2> QED BY <2>2
<1>6. CASE CaseReading \/ CaseReceived
    BY <1>6, <1>t DEF CaseReading, CaseReceived, Handle, BusInStep
<1>7. CASE HwStop
    BY <1>7, <1>t DEF HwStop, Bus, BusInStep
<1>8. CASE HwStart
    BY <1>8, <1>t DEF HwStart, Bus
<1>9. CASE HwReceive
    BY <1>9, <1>t DEF HwReceive, Bus, BusInStep
<1>10. CASE HwLose
    BY <1>10, <1>t DEF HwLose, Bus
<1>11. ASSUME NEW ack \in BOOLEAN, HwAddress(ack) PROVE Sending'
    <2> SUFFICES ASSUME pc = "poll", ~Reading PROVE Sending'
        BY <1>11 DEF HwAddress, Bus
    <2>1. stat = "F8" /\ last \in {"08", "10"} /\ dat = 0
        BY <1>11, <1>t DEF HwAddress, Bus, BusInStep
    <2>2. i2c_pos = 0
        BY <1>t, <2>1
    <2>3. ack = TRUE
        BY <1>11, <2>1 DEF HwAddress
    <2>4. stat' = "18" /\ mode' = "pointer" /\ i2c_pos' = 0
        BY <1>11, <2>1, <2>2, <2>3 DEF HwAddress, Bus
    <2> QED BY <2>4
<1>12. ASSUME NEW ack \in BOOLEAN, HwSend(ack) PROVE Sending'
    <2> SUFFICES ASSUME pc = "poll", ~Reading PROVE Sending'
        BY <1>12 DEF HwSend, Bus
    <2>1. /\ stat = "F8" /\ ack /\ stat' = "28" /\ mode' = "write" /\ i2c_pos > 0
          /\ ptr' = IF mode = "pointer" THEN dat % NReg ELSE Advance(ptr)
          /\ inc' = IF mode = "pointer" THEN dat >= NReg ELSE inc
          /\ reg' = IF mode = "write" THEN [reg EXCEPT ![ptr] = dat] ELSE reg
          /\ UNCHANGED <<pc, call, i2c_RdnWr, i2c_pos, i2c_buffer>>
        <3>1. ack = TRUE
            BY <1>12 DEF HwSend
        <3>2. i2c_pos > 0
            BY <1>12, <1>t DEF HwSend, Bus, BusInStep
        <3> QED BY <1>12, <3>1, <3>2 DEF HwSend, Bus
    <2>2. CASE i2c_pos = 1
        BY <2>1, <2>2
    <2>3. CASE i2c_pos = 2
        <3>1. reg' = [reg EXCEPT ![CTRL_REG1] = Setting]
            BY <2>1, <2>3
        <3>2. reg'[CTRL_REG1] = Setting
            BY <1>t, <3>1, Device DEF TypeOK, SlaveTypeOK
        <3> QED BY <2>1, <2>3, <3>2
    <2> QED BY <1>t, <2>1, <2>2, <2>3
<1>13. CASE UNCHANGED vars
    BY <1>13
<1> QED BY <1>1, <1>2, <1>3, <1>4, <1>5, <1>6, <1>7, <1>8, <1>9, <1>10, <1>11, <1>12, <1>13,
           Actions

(* Receiving is kept. *)
LEMMA ReceivingStep ==
    ASSUME Control, Sending, Receiving, [Next]_vars, ~refused', ~lost', ~Call
    PROVE  Receiving'
<1>t. /\ i2c_RdnWr \in {0, 1} /\ i2c_rxWrPos \in Nat /\ i2c_rxBytesRemaining \in Int
      /\ i2c_pos \in Nat /\ TypeOK /\ Counts /\ BusInStep /\ QuietBus
    BY DEF Control, TypeOK, DrvTypeOK
<1>f. ASSUME UNCHANGED call, NEW i PROVE From(i)' = From(i) /\ Asked' = Asked
    BY <1>f DEF From, Asked
<1>1. CASE SendStart
    BY <1>1, <1>t DEF SendStart, QuietBus, Counts, Receiving, Fetching, TxStatus
<1>2. CASE UNCHANGED <<pc, call, i2c_RdnWr, ptr, inc>> /\ ~Fetching /\ ~Fetching'
    BY <1>2, <1>f DEF Receiving
<1>3. CASE CaseStart \/ CaseRetry
    <2>1. UNCHANGED <<pc, call, i2c_RdnWr, ptr, inc>> /\ ~Fetching /\ ~Fetching'
        BY <1>3 DEF CaseStart, CaseRetry, Handle, Fetching
    <2> QED BY <1>2, <2>1
<1>4. CASE CaseSend
    <2>1. UNCHANGED <<pc, call, i2c_RdnWr, ptr, inc>> /\ ~Fetching /\ ~Fetching'
        BY <1>4 DEF CaseSend, Handle, Fetching, TxStatus
    <2> QED BY <1>2, <2>1
<1>5. CASE CaseTurn
    <2>1. /\ pc = "poll" /\ stat \in TxStatus /\ i2c_bytesRemaining <= 0
          /\ i2c_rxBytesRemaining # 0 /\ ~Reading /\ i2c_rxWrPos = 0
          /\ stat' = "F8" /\ last' \in TxStatus /\ UNCHANGED <<pc, call, ptr, inc>>
        BY <1>5, <1>t DEF CaseTurn, Handle, BusInStep, TxStatus
    <2>2. Asked # 0
        BY <1>t, <2>1 DEF Counts
    <2>3. /\ call # "LIS3LEnable" /\ i2c_pos = 1 /\ i2c_buffer[1] % NReg = From(0)
          /\ (i2c_buffer[1] >= NReg) = (call # "LIS3LWhoAmI")
        BY <1>t, <2>1, <2>2, BufferRight
    <2>4. stat = "28" /\ ptr = i2c_buffer[1] % NReg /\ inc = (i2c_buffer[1] >= NReg)
        BY <2>1, <2>3 DEF Sending, TxStatus
    <2>5. ptr' = From(0)' /\ inc' = (call' # "LIS3LWhoAmI")
        BY <2>1, <2>3, <2>4, <1>f
    <2>6. ~Fetching'
        BY <2>1 DEF Fetching, TxStatus
    <2> QED BY <2>5, <2>6 DEF Receiving
<1>6. CASE CaseSent \/ CaseLast
    BY <1>6 DEF CaseSent, CaseLast, Receiving
<1>7. CASE CaseReading
    <2>1. /\ pc = "poll" /\ Fetching /\ stat' = "F8" /\ last' = "40" /\ stat = "40"
          /\ UNCHANGED <<call, i2c_rxWrPos, i2c_rxBuffer, reg, ptr, inc>>
        BY <1>7 DEF CaseReading, Handle, Fetching
    <2>2. /\ inc = (call # "LIS3LWhoAmI")
          /\ \A i \in 0..i2c_rxWrPos - 1 : i2c_rxBuffer[i] = reg[From(i)]
          /\ i2c_rxWrPos < Asked => ptr = From(i2c_rxWrPos)
        BY <2>1 DEF Receiving
    <2>3. Fetching'
        BY <2>1 DEF Fetching
    <2> QED BY <2>1, <2>2, <2>3, <1>f DEF Receiving
<1>8. CASE CaseReceived
    <2>1. /\ pc = "poll" /\ Fetching /\ stat = "50" /\ stat' = "F8" /\ last' = "50"
          /\ i2c_rxBytesRemaining # 0 /\ i2c_rxWrPos' = i2c_rxWrPos + 1
          /\ i2c_rxBuffer' = [i2c_rxBuffer EXCEPT ![i2c_rxWrPos] = dat]
          /\ UNCHANGED <<call, reg, ptr, inc>>
        BY <1>8, <1>t DEF CaseReceived, Handle, Fetching, BusInStep
    <2>2. /\ inc = (call # "LIS3LWhoAmI")
          /\ \A i \in 0..i2c_rxWrPos - 1 : i2c_rxBuffer[i] = reg[From(i)]
          /\ dat = reg[From(i2c_rxWrPos)]
          /\ i2c_rxWrPos + 1 < Asked => ptr = From(i2c_rxWrPos + 1)
        BY <2>1 DEF Receiving
    <2>3. i2c_rxWrPos < Asked
        BY <1>t, <2>1 DEF Counts
    <2>4. i2c_rxBuffer \in [0..Axes - 1 -> Nat] /\ i2c_rxWrPos \in 0..Axes - 1
        BY <1>t, <2>2, <2>3, FromRight, Device DEF TypeOK, DrvTypeOK
    <2>5. ASSUME NEW i \in 0..i2c_rxWrPos' - 1
          PROVE  i2c_rxBuffer'[i] = reg'[From(i)']
        <3>1. From(i)' = From(i) /\ reg' = reg
            BY <2>1, <1>f
        <3>2. CASE i = i2c_rxWrPos
            BY <2>1, <2>2, <2>4, <3>1, <3>2
        <3>3. CASE i # i2c_rxWrPos
            <4>1. i \in 0..i2c_rxWrPos - 1 /\ i \in 0..Axes - 1
                <5>1. i \in 0..(i2c_rxWrPos + 1) - 1 /\ i2c_rxWrPos \in Nat
                    BY <1>t, <2>1
                <5>2. i2c_rxWrPos \in 0..Axes - 1 /\ Axes \in Nat
                    BY <2>4, Device
                <5> QED BY ONLY <5>1, <5>2, <3>3
            <4> QED BY <2>1, <2>2, <2>4, <3>1, <3>3, <4>1
        <3> QED BY <3>2, <3>3
    <2>6. (i2c_rxWrPos < Asked => ptr = From(i2c_rxWrPos))'
        BY <2>1, <2>2, <1>f DEF From
    <2>7. Fetching' /\ stat' # "50" /\ inc' = (call' # "LIS3LWhoAmI")
        BY <2>1, <2>2 DEF Fetching
    <2> QED BY <2>5, <2>6, <2>7 DEF Receiving
<1>9. CASE HwStop \/ UNCHANGED vars
    <2>1. UNCHANGED <<pc, call, i2c_RdnWr, i2c_rxWrPos, i2c_rxBuffer, stat, last, reg, ptr,
                      inc, dat>>
        BY <1>9 DEF HwStop, Bus
    <2> QED BY <2>1, <1>f DEF Receiving, Fetching
<1>10. CASE HwStart
    <2> SUFFICES ASSUME pc = "poll" PROVE Receiving'
        BY <1>10 DEF HwStart, Bus, Receiving
    <2>1. UNCHANGED <<pc, call, i2c_RdnWr, ptr, inc>> /\ ~Fetching /\ ~Fetching'
        BY <1>10, <1>t DEF HwStart, Bus, BusInStep, Fetching
    <2> QED BY <1>2, <2>1
<1>11. CASE HwLose
    <2>1. UNCHANGED <<pc, call, i2c_RdnWr, ptr, inc>> /\ ~Fetching /\ ~Fetching'
        BY <1>11 DEF HwLose, Bus, Fetching, TxStatus
    <2> QED BY <1>2, <2>1
<1>12. CASE HwReceive
    <2> SUFFICES ASSUME pc = "poll" PROVE Receiving'
        BY <1>12 DEF HwReceive, Bus, Receiving
    <2>1. /\ stat = "F8" /\ last \in {"40", "50"} /\ Fetching /\ dat' = reg[ptr]
          /\ ptr' = Advance(ptr) /\ stat' = IF aa THEN "50" ELSE "58"
          /\ aa <=> i2c_rxBytesRemaining # 0
          /\ UNCHANGED <<call, i2c_rxWrPos, i2c_rxBuffer, reg, inc>>
        BY <1>12, <1>t DEF HwReceive, Bus, BusInStep, Fetching
    <2>2. /\ inc = (call # "LIS3LWhoAmI")
          /\ \A i \in 0..i2c_rxWrPos - 1 : i2c_rxBuffer[i] = reg[From(i)]
          /\ i2c_rxWrPos < Asked => ptr = From(i2c_rxWrPos)
        BY <2>1 DEF Receiving
    <2>3. stat' = "50" => i2c_rxWrPos < Asked
        BY <1>t, <2>1 DEF Counts
    <2>4. stat' = "50" => /\ dat' = reg[From(i2c_rxWrPos)]
                          /\ i2c_rxWrPos + 1 < Asked => ptr' = From(i2c_rxWrPos + 1)
        BY <1>t, <2>1, <2>2, <2>3, FromRight
    <2>5. stat' \in {"50", "58"} /\ Fetching'
        BY <2>1 DEF Fetching
    <2> QED BY <2>1, <2>2, <2>4, <2>5, <1>f DEF Receiving
<1>13. ASSUME NEW ack \in BOOLEAN, HwAddress(ack) PROVE Receiving'
    <2> SUFFICES ASSUME pc = "poll" PROVE Receiving'
        BY <1>13 DEF HwAddress, Bus, Receiving
    <2>1. /\ stat = "F8" /\ last \in {"08", "10"} /\ dat = (IF Reading THEN 1 ELSE 0)
          /\ i2c_rxWrPos = 0 /\ ~Fetching
          /\ UNCHANGED <<pc, call, i2c_RdnWr, i2c_rxWrPos, last>>
        BY <1>13, <1>t DEF HwAddress, Bus, BusInStep, Fetching
    <2>2. CASE ~Reading
        <3>1. ~Fetching' /\ i2c_RdnWr' # 1
            BY <1>13, <2>1, <2>2 DEF HwAddress, Fetching, Reading
        <3> QED BY <3>1 DEF Receiving
    <2>3. CASE Reading /\ ~ack
        <3>1. ~Fetching' /\ UNCHANGED <<ptr, inc>>
            BY <1>13, <2>1, <2>3 DEF HwAddress, Fetching
        <3> QED BY <1>2, <2>1, <3>1
    <2>4. CASE Reading /\ ack
        <3>1. stat' = "40" /\ Fetching'
            BY <1>13, <2>1, <2>4 DEF HwAddress, Fetching
        <3>2. ptr' = From(0) /\ inc' = (call # "LIS3LWhoAmI")
            <4>1. CASE call = "GetADC"
                BY <1>13, <2>4, <4>1 DEF HwAddress, From
            <4>2. CASE call # "GetADC"
                <5>1. i2c_RdnWr = 1
                    BY <2>4, <4>2 DEF Reading
                <5>2. ptr = From(0) /\ inc = (call # "LIS3LWhoAmI")
                    BY <2>1, <5>1 DEF Receiving
                <5> QED BY <1>13, <4>2, <5>2 DEF HwAddress
            <4> QED BY <4>1, <4>2
        <3>3. 0..i2c_rxWrPos' - 1 = {} /\ i2c_rxWrPos' = 0
            BY <2>1
        <3>4. (ptr = From(i2c_rxWrPos))' /\ inc' = (call' # "LIS3LWhoAmI")
            BY <2>1, <3>2, <3>3 DEF From
        <3> QED BY <3>1, <3>3, <3>4 DEF Receiving
    <2> QED BY <2>2, <2>3, <2>4
<1>14. ASSUME NEW ack \in BOOLEAN, HwSend(ack) PROVE Receiving'
    <2> SUFFICES ASSUME pc = "poll" PROVE Receiving'
        BY <1>14 DEF HwSend, Bus, Receiving
    <2>1. i2c_pos # 0 /\ i2c_RdnWr' = i2c_RdnWr /\ stat' \in {"28", "30"}
        BY <1>14, <1>t DEF HwSend, Bus, BusInStep
    <2>2. i2c_RdnWr' # 1
        BY <1>t, <2>1 DEF Counts
    <2> QED BY <2>1, <2>2 DEF Receiving, Fetching
<1> QED BY <1>1, <1>3, <1>4, <1>5, <1>6, <1>7, <1>8, <1>9, <1>10, <1>11, <1>12, <1>13, <1>14,
           Actions

(* A transfer returns with its work done, and nothing undoes it. *)
LEMMA DoneStep ==
    ASSUME Control, Sending, Receiving, pc = "idle" => Done, [Next]_vars, ~Call, pc' = "idle"
    PROVE  Done'
<1>t. /\ i2c_rxWrPos \in Nat /\ i2c_rxBytesRemaining \in Int /\ i2c_RdnWr \in {0, 1}
      /\ i2c_pos \in Nat /\ TypeOK /\ Counts /\ BusInStep /\ QuietBus
    BY DEF Control, TypeOK, DrvTypeOK
<1>1. CASE pc = "idle"
    <2>1. UNCHANGED <<call, reg, i2c_rxBuffer>>
        <3>1. CASE HwStop \/ UNCHANGED vars
            BY <3>1 DEF HwStop, Bus
        <3>2. stat = "F8" /\ ~sta /\ (sto \/ ~master) /\ last \in TxStatus \cup {"58"}
            BY <1>1, <1>t DEF QuietBus
        <3>3. ~HwStart /\ ~HwReceive /\ ~HwLose
            BY <3>2 DEF HwStart, HwReceive, HwLose, TxStatus
        <3>4. ASSUME NEW ack \in BOOLEAN PROVE ~HwAddress(ack) /\ ~HwSend(ack)
            BY <3>2 DEF HwAddress, HwSend, TxStatus
        <3>5. ~SendStart /\ ~CaseStart /\ ~CaseSend /\ ~CaseSent /\ ~CaseTurn /\ ~CaseRetry
              /\ ~CaseReading /\ ~CaseReceived /\ ~CaseLast
            BY <1>1 DEF SendStart, CaseStart, CaseSend, CaseSent, CaseTurn, CaseRetry,
                CaseReading, CaseReceived, CaseLast, Handle
        <3> QED BY <3>1, <3>3, <3>4, <3>5, Actions
    <2> QED BY <1>1, <2>1 DEF Done
<1>2. CASE CaseSent
    <2>1. /\ pc = "poll" /\ stat \in TxStatus /\ ~Reading /\ i2c_bytesRemaining <= 0
          /\ i2c_rxBytesRemaining = 0 /\ i2c_rxWrPos = 0
          /\ UNCHANGED <<call, reg, i2c_rxBuffer>>
        BY <1>2, <1>t DEF CaseSent, Handle, BusInStep, TxStatus
    <2>2. Asked = 0
        BY <1>t, <2>1 DEF Counts
    <2>3. call = "LIS3LEnable" /\ i2c_pos = 2
        BY <1>t, <2>1, <2>2, BufferRight
    <2>4. stat = "28"
        BY <2>1, <2>3 DEF Sending, TxStatus
    <2>5. reg[CTRL_REG1] = Setting
        BY <2>1, <2>3, <2>4 DEF Sending
    <2> QED BY <2>1, <2>3, <2>5 DEF Done
<1>3. CASE CaseLast
    <2>1. /\ pc = "poll" /\ stat = "58" /\ Reading /\ i2c_rxBytesRemaining = 0
          /\ UNCHANGED <<call, reg, i2c_rxBuffer>>
        BY <1>3, <1>t DEF CaseLast, Handle, BusInStep
    <2>2. i2c_rxWrPos = Asked
        BY <1>t, <2>1 DEF Counts
    <2>3. \A i \in 0..Asked - 1 : i2c_rxBuffer[i] = reg[From(i)]
        BY <2>1, <2>2 DEF Receiving, Fetching
    <2>4. CASE call = "LIS3LWhoAmI"
        <3>1. Asked = 1 /\ From(0) = WHO_AM_I /\ 0 \in 0..1 - 1
            BY <2>4 DEF Asked, From
        <3> QED BY <2>1, <2>3, <2>4, <3>1 DEF Done
    <2>5. CASE call = "LIS3LGetXYZ"
        <3>1. Asked = Axes /\ \A i \in 0..Axes - 1 : From(i) = OUTX_L + i
            BY <2>5 DEF Asked, From
        <3> QED BY <2>1, <2>3, <2>5, <3>1 DEF Done
    <2>6. CASE call = "GetADC"
        <3>1. Asked = Axes /\ \A i \in 0..Axes - 1 : From(i) = i
            BY <2>6 DEF Asked, From
        <3> QED BY <2>1, <2>3, <2>6, <3>1 DEF Done
    <2> QED BY <1>t, <2>1, <2>4, <2>5, <2>6 DEF Reading, Counts
<1>4. pc # "idle" => CaseSent \/ CaseLast
    BY Actions DEF SendStart, CaseStart, CaseSend, CaseTurn, CaseRetry, CaseReading,
        CaseReceived, HwStop, HwStart, HwReceive, HwLose, HwAddress, HwSend, Bus, Handle
<1> QED BY <1>1, <1>2, <1>3, <1>4

(* DataInStep is inductive. *)
LEMMA DataStep == Control /\ DataInStep /\ [Next]_vars => DataInStep'
<1> SUFFICES ASSUME Control, DataInStep, [Next]_vars, ~refused', ~lost'
             PROVE  Sending' /\ Receiving' /\ (pc' = "idle" => Done')
    BY DEF DataInStep
<1>1. CASE Call
    BY <1>1, CallRight DEF Sending, Receiving
<1>2. CASE ~Call
    <2>1. ~refused /\ ~lost
        BY <1>2, StillGood DEF Control
    <2>2. Sending /\ Receiving /\ (pc = "idle" => Done)
        BY <2>1 DEF DataInStep
    <2> QED BY <1>2, <2>1, <2>2, SendingStep, ReceivingStep, DoneStep
<1> QED BY <1>1, <1>2

(* A transfer of which the slave acknowledged every byte, and that did not  *)
(* lose the bus in the middle, has done what its caller asked for.          *)
THEOREM TransferDoneHolds == Spec => []TransferDone
<1>1. Init => DataInStep
    BY DEF Init, DataInStep, Sending, Receiving, Done
<1>2. DataInStep => TransferDone
    BY DEF DataInStep, TransferDone
<1> QED BY <1>1, <1>2, DataStep, ControlHolds, PTL DEF Spec
=============================================================================
