------------------------------ MODULE LanProofs ------------------------------
(***************************************************************************)
(* What two parts of the LAN9118 driver promise.  First LanOpen, for every *)
(* limit on the waits: lan9118_open with no access timed out, and with     *)
(* one.  Then LanTx, for every timeout, every number of connections, every *)
(* depth of the transmit FIFOs and every width of the tag.  (LanRx has its *)
(* proofs in LanRxProofs.)                                                 *)
(***************************************************************************)
EXTENDS LanOpen, LanTx, SequenceTheorems, TLAPS

USE DEF vars, chip

(* The commands of MAC_CSR_CMD. *)
CsrOK ==
    \/ csr = <<>>
    \/ \E c \in [op : {"RD", "WR"}, reg : MacRegs \cup {"MIIACC"},
                 val : (SUBSET All) \cup MiiCommands] :
          /\ csr = <<c>>
          /\ c.op = "WR" => IF c.reg = "MIIACC" THEN c.val \in MiiCommands
                                                ELSE c.val \in SUBSET All

(* The access to the PHY in progress, and the PHY itself. *)
CallOK == call \in [at : {"idle", "check", "data", "command", "busy", "result"},
                    op : {"RD", "WR"}, reg : PhyRegs, val : SUBSET All, t : 0..PhyTimeout]
PhyOK == phy \in [bcr : SUBSET All, anar : SUBSET All, anc : BOOLEAN, neg : SUBSET All]

(* The type invariant with the types of the records in it. *)
Types == TypeOK /\ CsrOK /\ CallOK /\ PhyOK /\ val \in SUBSET All

(* The bits the driver writes. *)
LEMMA Bits ==
    /\ {} \in SUBSET All /\ {"PRMS"} \in SUBSET All /\ {"PAUSE"} \in SUBSET All
    /\ {"ADDR"} \in SUBSET All /\ {"TXEN", "HBDIS"} \in SUBSET All /\ {"RXEN"} \in SUBSET All
    /\ {"FDPX"} \in SUBSET All /\ {"RST"} \in SUBSET All /\ {"ANE", "SS"} \in SUBSET All
    /\ {"HALF", "FULL"} \in SUBSET All /\ {"PAUSE", "HALF", "FULL"} \in SUBSET All
    /\ {"SS", "DUPLEX"} \in SUBSET All /\ {"ANE", "RSTAN"} \in SUBSET All
    /\ {"ANC", "LINK"} \in SUBSET All /\ {"id1"} \in SUBSET All /\ {"9118"} \in SUBSET All
    /\ {"9218"} \in SUBSET All /\ {"other"} \in SUBSET All /\ {"HALF"} \in SUBSET All
    /\ All \in SUBSET All
    /\ "MII_BUSY" \in All /\ "ANC" \in All /\ "LINK" \in All
BY DEF All

(* The chip after a reset. *)
LEMMA Defaults ==
    /\ MacDefault \in [MacRegs -> SUBSET All]
    /\ PhyDefault \in [bcr : SUBSET All, anar : SUBSET All, anc : BOOLEAN, neg : SUBSET All]
    /\ NoCall \in [at : {"idle", "check", "data", "command", "busy", "result"},
                   op : {"RD", "WR"}, reg : PhyRegs, val : SUBSET All, t : 0..PhyTimeout]
<1>1. MacDefault \in [MacRegs -> SUBSET All]
    BY Bits DEF MacDefault
<1>2. PhyDefault \in [bcr : SUBSET All, anar : SUBSET All, anc : BOOLEAN, neg : SUBSET All]
    BY Bits DEF PhyDefault
<1>3. 0 \in 0..PhyTimeout /\ "BCR" \in PhyRegs
    BY TimeoutAssumption DEF PhyRegs
<1>4. NoCall \in [at : {"idle", "check", "data", "command", "busy", "result"},
                  op : {"RD", "WR"}, reg : PhyRegs, val : SUBSET All, t : 0..PhyTimeout]
    BY <1>3, Bits DEF NoCall
<1> QED BY <1>1, <1>2, <1>4

(* The calls open makes. *)
LEMMA CallRight ==
    ASSUME NEW r \in PhyRegs, NEW v \in SUBSET All
    PROVE  /\ GetPhyReg(r) => /\ CallOK' /\ call'.at = "check" /\ call'.op = "RD"
                              /\ call'.reg = r
           /\ SetPhyReg(r, v) => /\ CallOK' /\ call'.at = "check" /\ call'.op = "WR"
                                 /\ call'.reg = r /\ call'.val = v
<1>1. GetPhyReg(r) => /\ CallOK' /\ call'.at = "check" /\ call'.op = "RD" /\ call'.reg = r
    BY Defaults DEF GetPhyReg, CallOK, NoCall
<1>2. SetPhyReg(r, v) => /\ CallOK' /\ call'.at = "check" /\ call'.op = "WR"
                         /\ call'.reg = r /\ call'.val = v
    BY Defaults DEF SetPhyReg, CallOK, NoCall
<1> QED BY <1>1, <1>2

(* What a read of a MAC register returns, and what it leaves. *)
LEMMA GetRight ==
    ASSUME Types, NEW r \in MacRegs \cup {"MIIACC"}, NEW v, GetMacReg(r, v)
    PROVE  /\ v = All \/ v = MacRead(r)
           /\ v # All => csr = <<>> /\ csr' = <<>> /\ slow' = slow
           /\ csr = <<>> => /\ csr' = <<>> /\ slow' = slow /\ v = MacRead(r)
                            \/ /\ csr' = <<[op |-> "RD", reg |-> r, val |-> {}]>>
                               /\ slow' = slow + 1
           /\ csr # <<>> => csr' = csr /\ slow' = slow
           /\ CsrOK' /\ slow' \in 0..MaxSlow
<1>1. slow \in 0..MaxSlow /\ MaxSlow \in Nat /\ CsrOK
    BY TimeoutAssumption DEF Types, TypeOK
<1>2. CASE csr # <<>> /\ v = All /\ UNCHANGED <<csr, slow>>
    BY <1>1, <1>2 DEF CsrOK
<1>3. CASE csr = <<>> /\ v = MacRead(r) /\ UNCHANGED <<csr, slow>>
    BY <1>1, <1>3 DEF CsrOK
<1>4. CASE /\ csr = <<>> /\ v = All /\ slow < MaxSlow /\ Slower
           /\ csr' = <<[op |-> "RD", reg |-> r, val |-> {}]>>
    <2>1. slow' = slow + 1 /\ slow' \in 0..MaxSlow
        BY <1>1, <1>4 DEF Slower
    <2>2. [op |-> "RD", reg |-> r, val |-> {}] \in
             [op : {"RD", "WR"}, reg : MacRegs \cup {"MIIACC"}, val : (SUBSET All) \cup MiiCommands]
        BY Bits
    <2>3. CsrOK'
        BY <1>4, <2>2 DEF CsrOK
    <2> QED BY <1>4, <2>1, <2>3
<1> QED BY <1>2, <1>3, <1>4 DEF GetMacReg

(* What a write of a MAC register does. *)
LEMMA SetRight ==
    ASSUME Types, NEW r \in MacRegs \cup {"MIIACC"}, NEW v,
           IF r = "MIIACC" THEN v \in MiiCommands ELSE v \in SUBSET All, SetMacReg(r, v)
    PROVE  /\ csr # <<>> => UNCHANGED <<csr, mac, mii, slow>>
           /\ csr = <<>> => \/ csr' = <<>> /\ slow' = slow /\ MacWrite(r, v)
                            \/ /\ csr' = <<[op |-> "WR", reg |-> r, val |-> v]>>
                               /\ slow' = slow + 1 /\ UNCHANGED <<mac, mii>>
           /\ CsrOK' /\ slow' \in 0..MaxSlow
           /\ mac' \in [MacRegs -> SUBSET All] /\ mii' \in {{}} \cup MiiCommands
<1>1. /\ slow \in 0..MaxSlow /\ MaxSlow \in Nat /\ CsrOK
      /\ mac \in [MacRegs -> SUBSET All] /\ mii \in {{}} \cup MiiCommands
    BY TimeoutAssumption DEF Types, TypeOK
<1>2. CASE csr # <<>> /\ UNCHANGED <<csr, mac, mii, slow>>
    BY <1>1, <1>2 DEF CsrOK
<1>3. CASE csr = <<>> /\ MacWrite(r, v) /\ UNCHANGED <<csr, slow>>
    <2>1. mac' \in [MacRegs -> SUBSET All] /\ mii' \in {{}} \cup MiiCommands
        BY <1>1, <1>3 DEF MacWrite
    <2> QED BY <1>1, <1>3, <2>1 DEF CsrOK
<1>4. CASE /\ csr = <<>> /\ UNCHANGED <<mac, mii>> /\ slow < MaxSlow /\ Slower
           /\ csr' = <<[op |-> "WR", reg |-> r, val |-> v]>>
    <2>1. slow' = slow + 1 /\ slow' \in 0..MaxSlow
        BY <1>1, <1>4 DEF Slower
    <2>2. [op |-> "WR", reg |-> r, val |-> v] \in
             [op : {"RD", "WR"}, reg : MacRegs \cup {"MIIACC"}, val : (SUBSET All) \cup MiiCommands]
        OBVIOUS
    <2>3. CsrOK'
        BY <1>4, <2>2 DEF CsrOK
    <2> QED BY <1>1, <1>4, <2>1, <2>3
<1> QED BY <1>2, <1>3, <1>4 DEF SetMacReg

(* A PHY command names one register and one direction. *)
LEMMA CommandRight ==
    ASSUME NEW op \in {"RD", "WR"}, NEW r \in PhyRegs
    PROVE  /\ MiiCommand(op, r) \in MiiCommands /\ MiiCommand(op, r) # {}
           /\ "MII_BUSY" \in MiiCommand(op, r) /\ op \in MiiCommand(op, r)
           /\ MiiCommand(op, r) \cap PhyRegs = {r}
           /\ op = "RD" => "WR" \notin MiiCommand(op, r)
           /\ op = "WR" => "RD" \notin MiiCommand(op, r)
<1>1. MiiCommand(op, r) \in MiiCommands
    BY DEF MiiCommands
<1>2. /\ MiiCommand(op, r) # {} /\ "MII_BUSY" \in MiiCommand(op, r) /\ op \in MiiCommand(op, r)
    BY DEF MiiCommand
<1>3. MiiCommand(op, r) \cap PhyRegs = {r}
    BY DEF MiiCommand, PhyRegs
<1>4. /\ op = "RD" => "WR" \notin MiiCommand(op, r)
      /\ op = "WR" => "RD" \notin MiiCommand(op, r)
    BY DEF MiiCommand, PhyRegs
<1> QED BY <1>1, <1>2, <1>3, <1>4

(* What PHY registers can hold. *)
LEMMA PhyRight ==
    ASSUME Types, id2 \in {"9118", "9218", "other"},
           partner \in {{}, {"HALF"}, {"HALF", "FULL"}}, NEW r \in PhyRegs
    PROVE  /\ PhyRead(r) \in SUBSET All
           /\ \A v \in SUBSET All :
                 PhyWrite(r, v) \in [bcr : SUBSET All, anar : SUBSET All, anc : BOOLEAN,
                                     neg : SUBSET All]
<1>1. PhyRead(r) \in SUBSET All
    <2>1. phy.bcr \in SUBSET All /\ phy.anar \in SUBSET All
        BY DEF Types, PhyOK
    <2> QED BY <2>1, Bits DEF PhyRead
<1>2. ASSUME NEW v \in SUBSET All
      PROVE  PhyWrite(r, v) \in [bcr : SUBSET All, anar : SUBSET All, anc : BOOLEAN,
                                 neg : SUBSET All]
    <2>1. /\ phy \in [bcr : SUBSET All, anar : SUBSET All, anc : BOOLEAN, neg : SUBSET All]
          /\ v \ {"RSTAN"} \in SUBSET All
        BY DEF Types, PhyOK
    <2>2. [PhyDefault EXCEPT !.bcr = {"RST"}]
             \in [bcr : SUBSET All, anar : SUBSET All, anc : BOOLEAN, neg : SUBSET All]
        BY Bits, Defaults
    <2> QED BY <2>1, <2>2 DEF PhyWrite
<1> QED BY <1>1, <1>2

(* The chip's kind and its partner do not change. *)
ChipOK == id2 \in {"9118", "9218", "other"} /\ partner \in {{}, {"HALF"}, {"HALF", "FULL"}}

(* Types holds initially. *)
LEMMA TypesInit == Init => Types /\ ChipOK
<1> SUFFICES ASSUME Init PROVE Types /\ ChipOK
    OBVIOUS
<1>1. 0 \in 0..MaxSlow /\ 0 \in -1..(PhyTimeout + AnTimeout) /\ 0 \in 0..PhyTimeout
    BY TimeoutAssumption
<1>2. /\ mac \in [MacRegs -> SUBSET All] /\ CallOK /\ PhyOK /\ val \in SUBSET All /\ CsrOK
    BY Defaults, Bits DEF Init, CallOK, PhyOK, CsrOK
<1>3. phy.bcr \subseteq All /\ phy.anar \subseteq All
    BY <1>2 DEF PhyOK
<1>4. call.t \in 0..PhyTimeout
    BY <1>2 DEF CallOK
<1>5. /\ power \in {"sleep", "run"} /\ slow \in 0..MaxSlow
      /\ mii \in {{}} \cup MiiCommands /\ timeout \in -1..(PhyTimeout + AnTimeout)
      /\ ret = "none" /\ pc = "reset"
    BY <1>1 DEF Init
<1>6. TypeOK
    BY <1>2, <1>3, <1>4, <1>5 DEF TypeOK, Returned
<1>7. ChipOK
    BY DEF Init, ChipOK
<1> QED BY <1>2, <1>6, <1>7 DEF Types

(* The parts of Types that a step has to show. *)
LEMMA TypesFrom ==
    ASSUME power' \in {"sleep", "run"}, slow' \in 0..MaxSlow,
           mac' \in [MacRegs -> SUBSET All], mii' \in {{}} \cup MiiCommands,
           timeout' \in -1..(PhyTimeout + AnTimeout),
           ret' \in {"none", "TRUE", "FALSE"}, ret' = "none" <=> pc' \notin Returned,
           CsrOK', CallOK', PhyOK', val' \in SUBSET All
    PROVE  Types'
<1>1. phy'.bcr \in SUBSET All /\ phy'.anar \in SUBSET All
    BY DEF PhyOK
<1>2. call'.t \in 0..PhyTimeout
    BY DEF CallOK
<1>3. phy'.bcr \subseteq All /\ phy'.anar \subseteq All
    BY <1>1
<1> QED BY <1>2, <1>3 DEF Types, TypeOK

(* A step that touches nothing but open's own variables. *)
LEMMA InnerTypes ==
    ASSUME Types, Inner, CallOK', timeout' \in -1..(PhyTimeout + AnTimeout), val' \in SUBSET All,
           ret' \in {"none", "TRUE", "FALSE"}, ret' = "none" <=> pc' \notin Returned
    PROVE  Types'
<1>1. /\ UNCHANGED <<power, slow, mac, mii, phy, csr>>
    BY DEF Inner, OpenUnchanged
<1>2. CsrOK' /\ PhyOK'
    BY <1>1 DEF Types, CsrOK, PhyOK
<1> QED BY <1>1, <1>2, TypesFrom DEF Types, TypeOK

(* The calls open makes are typed, wherever it makes them. *)
LEMMA InnerCalls ==
    ASSUME Types, \/ \E r \in PhyRegs : GetPhyReg(r)
                  \/ \E r \in PhyRegs, v \in SUBSET All : SetPhyReg(r, v)
                  \/ UNCHANGED call
    PROVE  CallOK'
BY CallRight DEF Types, CallOK

(* Every step that touches nothing but open's own variables is typed. *)
LEMMA OpenTypes ==
    ASSUME Types, Wake \/ Identify \/ ResetPhy \/ Advertise \/ Negotiated PROVE Types'
<1>t. /\ val \in SUBSET All /\ timeout \in -1..(PhyTimeout + AnTimeout)
      /\ PhyTimeout \in Nat \ {0} /\ AnTimeout \in Nat \ {0}
      /\ ret \in {"none", "TRUE", "FALSE"} /\ (ret = "none" <=> pc \notin Returned)
    BY TimeoutAssumption DEF Types, TypeOK
<1>b. /\ val \cup {"PAUSE", "HALF", "FULL"} \in SUBSET All
      /\ val \cup {"SS", "DUPLEX"} \in SUBSET All /\ val \cup {"ANE", "RSTAN"} \in SUBSET All
      /\ {"RST"} \in SUBSET All
    BY <1>t, Bits
<1>r. {"ID1", "ID2", "BCR", "ANAR", "BSR", "PHYSCSR"} \subseteq PhyRegs
    BY DEF PhyRegs
<1>1. Inner
    BY DEF Wake, Identify, ResetPhy, Advertise, Negotiated
<1>2. CallOK'
    <2>1. CASE Wake
        BY <2>1, InnerCalls DEF Wake, Goto, Return, Leave
    <2>2. CASE Identify
        BY <2>2, <1>b, <1>r, InnerCalls DEF Identify, Goto, Return, Leave
    <2>3. CASE ResetPhy
        BY <2>3, <1>r, InnerCalls DEF ResetPhy, Goto, Return, Leave
    <2>4. CASE Advertise
        BY <2>4, <1>b, <1>r, InnerCalls DEF Advertise, Goto, Return, Leave
    <2>5. CASE Negotiated
        BY <2>5, <1>r, InnerCalls DEF Negotiated, Goto, Return, Leave
    <2> QED BY <2>1, <2>2, <2>3, <2>4, <2>5
<1>3. timeout' \in -1..(PhyTimeout + AnTimeout) /\ val' = val
    <2>1. CASE Wake
        BY <2>1, <1>t DEF Wake, Goto, Return, Leave
    <2>2. CASE Identify
        BY <2>2, <1>t DEF Identify, Goto, Return, Leave
    <2>3. CASE ResetPhy
        BY <2>3, <1>t DEF ResetPhy, Goto, Return, Leave
    <2>4. CASE Advertise
        BY <2>4, <1>t DEF Advertise, Goto, Return, Leave
    <2>5. CASE Negotiated
        BY <2>5, <1>t DEF Negotiated, Goto, Return, Leave
    <2> QED BY <2>1, <2>2, <2>3, <2>4, <2>5
<1>4. ret' \in {"none", "TRUE", "FALSE"} /\ (ret' = "none" <=> pc' \notin Returned)
    <2>1. CASE Wake
        BY <2>1, <1>t DEF Wake, Goto, Return, Leave, At, Returned
    <2>2. CASE Identify
        BY <2>2, <1>t DEF Identify, Goto, Return, Leave, At, Returned
    <2>3. CASE ResetPhy
        BY <2>3, <1>t DEF ResetPhy, Goto, Return, Leave, At, Returned
    <2>4. CASE Advertise
        BY <2>4, <1>t DEF Advertise, Goto, Return, Leave, At, Returned
    <2>5. CASE Negotiated
        BY <2>5, <1>t DEF Negotiated, Goto, Return, Leave, At, Returned
    <2> QED BY <2>1, <2>2, <2>3, <2>4, <2>5
<1> QED BY <1>t, <1>1, <1>2, <1>3, <1>4, InnerTypes

(* A step of open that reads a MAC register into val is typed. *)
LEMMA GetTypes ==
    ASSUME Types, NEW r \in MacRegs, NEW v, GetMacReg(r, v), val' = v, CallOK',
           UNCHANGED <<power, phy, mac, mii, timeout, ret>>, ret' = "none" <=> pc' \notin Returned
    PROVE  Types'
<1>1. CsrOK' /\ slow' \in 0..MaxSlow /\ (v = All \/ v = mac[r])
    BY GetRight DEF MacRead, MacRegs
<1>2. val' \in SUBSET All
    BY <1>1, Bits DEF Types, TypeOK
<1>3. PhyOK'
    BY DEF Types, PhyOK
<1> QED BY <1>1, <1>2, <1>3, TypesFrom DEF Types, TypeOK

(* A step of open that writes a MAC register is typed. *)
LEMMA SetTypes ==
    ASSUME Types, NEW r \in MacRegs \cup {"MIIACC"}, NEW v, SetMacReg(r, v),
           IF r = "MIIACC" THEN v \in MiiCommands ELSE v \in SUBSET All, CallOK',
           UNCHANGED <<power, phy, timeout, val>>,
           ret' \in {"none", "TRUE", "FALSE"}, ret' = "none" <=> pc' \notin Returned
    PROVE  Types'
<1>1. /\ CsrOK' /\ slow' \in 0..MaxSlow
      /\ mac' \in [MacRegs -> SUBSET All] /\ mii' \in {{}} \cup MiiCommands
    BY SetRight
<1>3. PhyOK'
    BY DEF Types, PhyOK
<1> QED BY <1>1, <1>3, TypesFrom DEF Types, TypeOK

(* Types is inductive. *)
LEMMA TypesStep == Types /\ ChipOK /\ [Next]_vars => Types' /\ ChipOK'
<1> SUFFICES ASSUME Types, ChipOK, [Next]_vars PROVE Types' /\ ChipOK'
    OBVIOUS
<1>c. ChipOK'
    <2>1. UNCHANGED chip
        BY DEF Next, Open, Hw, Reset, Wake, MacSetup, MacEnable, Identify, ResetPhy, Advertise,
               Negotiated, Duplex, PhyCheck, PhyData, PhyCommand, PhyBusy, PhyResult, HwWake,
               HwMac, HwMii, HwReset, HwNegotiate, Inner, OpenUnchanged, PhyUnchanged, Write,
               GetCR
    <2> QED BY <2>1 DEF ChipOK
<1> SUFFICES Types'
    BY <1>c
<1>t. /\ val \in SUBSET All /\ timeout \in -1..(PhyTimeout + AnTimeout)
      /\ mac \in [MacRegs -> SUBSET All] /\ mii \in {{}} \cup MiiCommands
      /\ ret \in {"none", "TRUE", "FALSE"} /\ (ret = "none" <=> pc \notin Returned)
      /\ slow \in 0..MaxSlow /\ power \in {"sleep", "run"}
      /\ CsrOK /\ CallOK /\ PhyOK
    BY DEF Types, TypeOK
<1>m. {"FLOW", "ADDRH", "ADDRL", "CR", "MIIDATA"} = MacRegs
    BY DEF MacRegs
<1>1. CASE Reset
    <2>1. PhyTimeout \in -1..(PhyTimeout + AnTimeout)
        BY TimeoutAssumption
    <2>2. /\ power' \in {"sleep", "run"} /\ slow' \in 0..MaxSlow
          /\ mac' \in [MacRegs -> SUBSET All] /\ mii' \in {{}} \cup MiiCommands
          /\ timeout' \in -1..(PhyTimeout + AnTimeout)
          /\ ret' \in {"none", "TRUE", "FALSE"} /\ (ret' = "none" <=> pc' \notin Returned)
          /\ val' \in SUBSET All
        BY <1>1, <1>t, <2>1, Defaults DEF Reset, At, Returned
    <2>3. CsrOK' /\ CallOK' /\ PhyOK'
        BY <1>1, <1>t, Defaults DEF Reset, CsrOK, CallOK, PhyOK
    <2> QED BY <2>2, <2>3, TypesFrom
<1>2. CASE Wake \/ Identify \/ ResetPhy \/ Advertise \/ Negotiated
    BY <1>2, OpenTypes
<1>3. ASSUME NEW label, NEW r \in MacRegs, NEW v \in SUBSET All, NEW next, label \notin Returned,
             next \notin Returned, Write(label, r, v, next)
      PROVE  Types'
    <2>1. CallOK' /\ r # "MIIACC"
        BY <1>3, <1>t DEF Write, CallOK, MacRegs
    <2> QED BY <1>3, <1>t, <2>1, SetTypes DEF Write, At, Goto, OpenUnchanged
<1>4. ASSUME NEW label, NEW next, label \notin Returned, next \notin Returned, GetCR(label, next)
      PROVE  Types'
    <2>1. PICK v : GetMacReg("CR", v) /\ val' = v
        BY <1>4 DEF GetCR
    <2>2. CallOK'
        BY <1>4, <1>t DEF GetCR, CallOK
    <2> QED BY <1>4, <1>t, <1>m, <2>1, <2>2, GetTypes DEF GetCR, At, Goto, OpenUnchanged
<1>5. CASE MacSetup
    BY <1>5, <1>3, <1>m, Bits DEF MacSetup, Returned
<1>6. CASE MacEnable
    <2>1. /\ (val \cup {"TXEN", "HBDIS"}) \ {"PRMS", "BCAST"} \in SUBSET All
          /\ val \cup {"RXEN"} \in SUBSET All /\ "ID1" \in PhyRegs /\ "CR" \in MacRegs
        BY <1>t, Bits DEF PhyRegs, MacRegs
    <2>2. CASE GetCR("getTx", "setTx") \/ GetCR("getRx", "setRx")
        BY <2>2, <1>4 DEF Returned
    <2>3. CASE Write("setTx", "CR", (val \cup {"TXEN", "HBDIS"}) \ {"PRMS", "BCAST"}, "getRx")
        BY <2>1, <2>3, <1>3 DEF Returned
    <2>4. CASE /\ At("setRx") /\ SetMacReg("CR", val \cup {"RXEN"}) /\ Goto("id1")
               /\ GetPhyReg("ID1") /\ OpenUnchanged /\ UNCHANGED val
        <3>1. CallOK'
            BY <2>1, <2>4, Bits, CallRight
        <3> QED BY <2>1, <2>4, <1>t, <3>1, SetTypes DEF At, Goto, OpenUnchanged, Returned
    <2> QED BY <1>6, <2>2, <2>3, <2>4 DEF MacEnable
<1>7. CASE Duplex
    <2>r. {"ANAR", "ANLPAR"} \subseteq PhyRegs /\ "CR" \in MacRegs
        BY DEF PhyRegs, MacRegs
    <2>1. CASE /\ Inner /\ UNCHANGED val
               /\ \/ At("speed") /\ GetPhyReg("ANAR") /\ Goto("own")
                  \/ At("own") /\ GetPhyReg("ANLPAR")
                     /\ Goto(IF "FULL" \in val THEN "ownFull" ELSE "ownHalf")
                  \/ At("ownHalf") /\ Return("TRUE")
                  \/ At("ownFull") /\ "FULL" \notin val /\ Return("TRUE")
        <3>1. CallOK'
            BY <2>1, <2>r, InnerCalls DEF Return, Leave
        <3> QED BY <2>1, <3>1, <1>t, InnerTypes DEF At, Goto, Return, Leave, Returned
    <2>2. CASE /\ At("ownFull") /\ "FULL" \in val /\ pc' = "full" /\ UNCHANGED <<timeout, ret, call>>
               /\ \E v \in {All, mac["CR"]} : GetMacReg("CR", v) /\ val' = v
               /\ OpenUnchanged /\ UNCHANGED <<mac, mii>>
        <3>1. PICK v : GetMacReg("CR", v) /\ val' = v
            BY <2>2
        <3>2. CallOK'
            BY <2>2, <1>t DEF CallOK
        <3> QED BY <2>2, <2>r, <1>t, <3>1, <3>2, GetTypes DEF At, OpenUnchanged, Returned
    <2>3. CASE /\ At("full") /\ SetMacReg("CR", val \cup {"FDPX"})
               /\ Return("TRUE") /\ OpenUnchanged
        <3>1. CallOK' /\ val \cup {"FDPX"} \in SUBSET All
            BY <2>3, <1>t, Bits DEF Return, Leave, CallOK
        <3> QED BY <2>3, <2>r, <1>t, <3>1, SetTypes DEF At, Return, Leave, OpenUnchanged, Returned
    <2> QED BY <1>7, <2>1, <2>2, <2>3 DEF Duplex
<1>8. ASSUME CsrOK', slow' \in 0..MaxSlow, CallOK', val' \in SUBSET All,
             UNCHANGED <<mac, mii>>, PhyUnchanged
      PROVE  Types'
    <2>1. UNCHANGED <<power, phy, pc, timeout, ret>> /\ PhyOK'
        BY <1>8, <1>t DEF PhyUnchanged, PhyOK
    <2> QED BY <1>8, <1>t, <2>1, TypesFrom
<1>n. /\ NoCall \in [at : {"idle", "check", "data", "command", "busy", "result"},
                     op : {"RD", "WR"}, reg : PhyRegs, val : SUBSET All, t : 0..PhyTimeout]
      /\ {} \in SUBSET All /\ All \in SUBSET All
    BY Defaults, Bits
<1>9. CASE PhyCheck
    <2>1. PICK v : /\ GetMacReg("MIIACC", v)
                   /\ IF "MII_BUSY" \in v THEN PhyReturn({})
                      ELSE /\ call' = [call EXCEPT !.at = IF call.op = "WR" THEN "data" ELSE "command"]
                           /\ UNCHANGED val
        BY <1>9 DEF PhyCheck
    <2>2. CsrOK' /\ slow' \in 0..MaxSlow
        BY <2>1, GetRight
    <2>3. CallOK' /\ val' \in SUBSET All
        BY <2>1, <1>t, <1>n DEF PhyReturn, CallOK
    <2> QED BY <1>9, <2>2, <2>3, <1>8 DEF PhyCheck
<1>10. CASE PhyData
    <2>1. CallOK' /\ call.val \in SUBSET All
        BY <1>10, <1>t DEF PhyData, CallOK
    <2> QED BY <1>10, <1>m, <1>t, <2>1, SetTypes DEF PhyData, PhyUnchanged
<1>11. CASE PhyCommand
    <2>1. MiiCommand(call.op, call.reg) \in MiiCommands
        BY <1>t, CommandRight DEF CallOK
    <2>2. PhyTimeout \in 0..PhyTimeout
        BY TimeoutAssumption
    <2>3. CallOK'
        BY <1>11, <1>t, <2>2 DEF PhyCommand, CallOK
    <2> QED BY <1>11, <1>t, <2>1, <2>3, SetTypes DEF PhyCommand, PhyUnchanged
<1>12. CASE PhyBusy
    <2>0. UNCHANGED <<mac, mii>> /\ PhyUnchanged
        BY <1>12 DEF PhyBusy
    <2>1. ASSUME NEW v, GetMacReg("MIIACC", v), call.t > 0,
                 IF "MII_BUSY" \in v THEN call' = [call EXCEPT !.t = @ - 1] /\ UNCHANGED val
                 ELSE IF call.op = "WR" THEN PhyReturn({})
                 ELSE call' = [call EXCEPT !.at = "result"] /\ UNCHANGED val
          PROVE  Types'
        <3>1. CsrOK' /\ slow' \in 0..MaxSlow
            BY <2>1, GetRight
        <3>2. call.t \in 0..PhyTimeout
            BY <1>t DEF CallOK
        <3>3. call.t - 1 \in 0..PhyTimeout
            BY <2>1, <3>2, TimeoutAssumption
        <3>4. CallOK' /\ val' \in SUBSET All
            BY <2>1, <1>t, <1>n, <3>3 DEF PhyReturn, CallOK
        <3> QED BY <2>0, <3>1, <3>4, <1>8
    <2>2. CASE call.t = 0 /\ Slower /\ PhyReturn(All) /\ UNCHANGED csr
        <3>1. slow' \in 0..MaxSlow
            BY <2>2, <1>t, TimeoutAssumption DEF Slower
        <3>2. CallOK' /\ val' \in SUBSET All /\ CsrOK'
            BY <2>2, <1>t, <1>n DEF PhyReturn, CallOK, CsrOK
        <3> QED BY <2>0, <3>1, <3>2, <1>8
    <2> QED BY <1>12, <2>1, <2>2 DEF PhyBusy
<1>13. CASE PhyResult
    <2>1. PICK v : GetMacReg("MIIDATA", v) /\ PhyReturn(v)
        BY <1>13 DEF PhyResult
    <2>2. CsrOK' /\ slow' \in 0..MaxSlow /\ (v = All \/ v = mac["MIIDATA"])
        BY <2>1, <1>m, GetRight DEF MacRead
    <2>3. CallOK' /\ val' \in SUBSET All
        BY <2>1, <2>2, <1>m, <1>t, <1>n DEF PhyReturn, CallOK
    <2> QED BY <1>13, <2>2, <2>3, <1>8 DEF PhyResult
<1>14. CASE HwWake
    <2>1. CsrOK' /\ CallOK' /\ PhyOK'
        BY <1>14, <1>t DEF HwWake, CsrOK, CallOK, PhyOK
    <2> QED BY <1>14, <1>t, <2>1, TypesFrom DEF HwWake
<1>15. CASE HwMac
    <2>1. CsrOK' /\ CallOK' /\ PhyOK'
        BY <1>15, <1>t DEF HwMac, CsrOK, CallOK, PhyOK
    <2>2. PICK c : /\ csr = <<c>> /\ c.reg \in MacRegs \cup {"MIIACC"}
                   /\ c.op = "WR" => IF c.reg = "MIIACC" THEN c.val \in MiiCommands
                                                         ELSE c.val \in SUBSET All
        BY <1>15, <1>t DEF HwMac, CsrOK
    <2>3. csr[1] = c
        BY <2>2
    <2>4. mac' \in [MacRegs -> SUBSET All] /\ mii' \in {{}} \cup MiiCommands
        BY <1>15, <1>t, <2>2, <2>3 DEF HwMac, MacWrite
    <2> QED BY <1>15, <1>t, <2>1, <2>4, TypesFrom DEF HwMac
<1>16. CASE HwMii
    <2>1. CsrOK' /\ CallOK'
        BY <1>16, <1>t DEF HwMii, CsrOK, CallOK
    <2>2. PICK r \in PhyRegs :
               IF "RD" \in mii THEN mac' = [mac EXCEPT !["MIIDATA"] = PhyRead(r)] /\ UNCHANGED phy
                               ELSE phy' = PhyWrite(r, mac["MIIDATA"]) /\ UNCHANGED mac
        BY <1>16 DEF HwMii
    <2>3. PhyRead(r) \in SUBSET All /\ mac["MIIDATA"] \in SUBSET All
        BY <1>t, <1>m, PhyRight DEF ChipOK
    <2>4. PhyOK' /\ mac' \in [MacRegs -> SUBSET All]
        BY <2>2, <2>3, <1>t, PhyRight DEF ChipOK, PhyOK
    <2> QED BY <1>16, <1>t, <2>1, <2>4, TypesFrom DEF HwMii
<1>17. CASE HwReset
    <2>1. CsrOK' /\ CallOK' /\ PhyOK'
        BY <1>17, <1>t, Defaults DEF HwReset, CsrOK, CallOK, PhyOK
    <2> QED BY <1>17, <1>t, <2>1, TypesFrom DEF HwReset
<1>18. CASE HwNegotiate
    <2>1. CsrOK' /\ CallOK'
        BY <1>18, <1>t DEF HwNegotiate, CsrOK, CallOK
    <2>2. PhyOK'
        BY <1>18, <1>t DEF HwNegotiate, PhyOK
    <2> QED BY <1>18, <1>t, <2>1, <2>2, TypesFrom DEF HwNegotiate
<1>19. CASE UNCHANGED vars
    <2>1. CsrOK' /\ CallOK' /\ PhyOK'
        BY <1>19, <1>t DEF CsrOK, CallOK, PhyOK
    <2> QED BY <1>19, <1>t, <2>1, TypesFrom
<1> QED BY <1>1, <1>2, <1>5, <1>6, <1>7, <1>9, <1>10, <1>11, <1>12, <1>13, <1>14, <1>15,
           <1>16, <1>17, <1>18, <1>19 DEF Next, Open, Hw

(* No loop of lan9118_open counts below its limit, and what its accesses    *)
(* leave in the chip's registers are bits and commands.                     *)
THEOREM TypeCorrect == Spec => []TypeOK
<1>1. Types => TypeOK
    BY DEF Types
<1> QED BY <1>1, TypesInit, TypesStep, PTL DEF Spec

-----------------------------------------------------------------------------
(* What open has asked the PHY for, by where it is. *)

Setup == {"reset", "wake", "flow", "addrh", "addrl", "getTx", "setTx", "getRx", "setRx"}
Waiting == {"anWait", "anc", "link"}
Linked == {"speed", "own", "ownFull", "ownHalf", "full"}
Late == Waiting \cup Linked

(* No call is open before the PHY is looked for and after the last access   *)
(* to it; after the negotiation has been started the PHY is only read.      *)
Purpose ==
    /\ pc \in Setup \cup Returned \cup {"full"} => call.at = "idle"
    /\ call.at # "idle" =>
          /\ pc \in Late => call.op = "RD"
          /\ pc \in {"id1", "id1b"} => call.op = "RD" /\ call.reg = "ID1"
          /\ pc \in {"id2", "id2b"} => call.op = "RD" /\ call.reg = "ID2"
          /\ pc \in Waiting => call.reg = "BSR"
          /\ pc = "own" => call.reg = "ANAR"
          /\ pc \in {"ownFull", "ownHalf"} => call.reg = "ANLPAR"
          /\ call.op = "WR" => \/ call.reg = "BCR"
                               \/ call.reg = "ANAR" /\ "FULL" \in call.val
          /\ pc = "started" => call.op = "WR" /\ call.reg = "BCR" /\ "RSTAN" \in call.val
    /\ call.at = "data" => call.op = "WR"
    /\ call.at = "result" => call.op = "RD"

(* A PHY in reset has no link. *)
ResetNoLink == "RST" \in phy.bcr => ~phy.anc /\ "ANE" \notin phy.bcr

(* No command is left that writes to the PHY or to MIIDATA. *)
NoWrite ==
    /\ "WR" \notin mii
    /\ csr # <<>> /\ csr[1].op = "WR" =>
          \/ csr[1].reg = "CR"
          \/ csr[1].reg = "MIIACC" /\ "WR" \notin csr[1].val

(* There is a link, and nothing left that could end it. *)
Good == phy.anc /\ NoWrite

(* A call that reads BSR, once it has found MIIACC free: its command is on  *)
(* its way, in MAC_CSR_CMD or in MIIACC, or what it asked for is in MIIDATA. *)
Posted == csr # <<>> /\ csr[1].op = "WR"
Fetch ==
    pc \in Late =>
        /\ call.at = "command" => csr = <<>> /\ mii = {}
        /\ call.at = "result" => csr = <<>> /\ mii = {}
        /\ call.at = "busy" =>
              /\ mii # {} => mii = MiiCommand("RD", call.reg)
              /\ Posted => /\ csr[1].reg = "MIIACC" /\ mii = {}
                           /\ csr[1].val = MiiCommand("RD", call.reg)
        /\ /\ pc \in Waiting
           /\ call.at = "result" \/ (call.at = "busy" /\ ~Posted /\ mii = {})
           /\ "ANC" \in mac["MIIDATA"] \/ "LINK" \in mac["MIIDATA"]
           => phy.anc

(* Each of the two tests that follow the wait is passed because there is a  *)
(* link, or at the cost of a timeout.                                       *)
Cost ==
    /\ pc = "anc" /\ call.at = "idle" /\ "ANC" \in val => Good \/ slow >= 1
    /\ pc = "link" => Good \/ slow >= 1
    /\ pc = "link" /\ call.at = "idle" /\ "LINK" \in val => Good \/ slow >= 2
    /\ pc \in Linked \/ (pc = "done" /\ ret = "TRUE") => Good \/ slow >= 2

-----------------------------------------------------------------------------
(* With no timeout. *)

(* The commands are carried out: MAC_CSR_CMD is free between accesses, and  *)
(* MIIACC between calls.                                                    *)
Prompt ==
    /\ csr = <<>>
    /\ call.at # "busy" => mii = {}
    /\ call.at = "command" /\ call.op = "WR" => mac["MIIDATA"] = call.val
    /\ call.at = "busy" /\ mii # {} => /\ mii = MiiCommand(call.op, call.reg)
                                       /\ call.op = "WR" => mac["MIIDATA"] = call.val

(* The MAC registers, by where open is. *)
Enabled == {"TXEN", "RXEN", "HBDIS"}
MacSet ==
    /\ pc \in {"reset", "wake", "flow", "addrh", "addrl", "getTx", "setTx"} => mac["CR"] = {"PRMS"}
    /\ pc \in {"getRx", "setRx"} => mac["CR"] = {"TXEN", "HBDIS"}
    /\ pc \in {"setTx", "setRx", "full"} => val = mac["CR"]
    /\ pc \notin Setup \cup {"done"} => mac["CR"] = Enabled
    /\ pc = "done" /\ ret = "TRUE" =>
          mac["CR"] = Enabled \cup (IF "FULL" \in partner THEN {"FDPX"} ELSE {})
    /\ pc = "done" => ret # "none"
    /\ pc \notin {"reset", "wake", "flow"} /\ ret \in {"none", "TRUE"} => mac["FLOW"] = {"PAUSE"}
    /\ pc \notin {"reset", "wake", "flow", "addrh"} /\ ret \in {"none", "TRUE"} =>
          mac["ADDRH"] = {"ADDR"}
    /\ pc \notin {"reset", "wake", "flow", "addrh", "addrl"} /\ ret \in {"none", "TRUE"} =>
          mac["ADDRL"] = {"ADDR"}

(* The answer to the read in progress has been given. *)
Answered == call.at = "result" \/ (call.at = "busy" /\ mii = {})

(* The link is negotiated anew with what the PHY advertises. *)
Anew == \/ pc = "started" /\ (call.at = "idle" \/ (call.at = "busy" /\ mii = {}))
        \/ pc \in Late \/ (pc = "done" /\ ret = "TRUE")
NegotiatedAnew == "FULL" \in phy.anar /\ (Anew => ~phy.anc \/ phy.neg = phy.anar)

(* Open finds out what both ends can do. *)
BothEnds ==
    /\ pc = "own" /\ Answered => "FULL" \in mac["MIIDATA"]
    /\ pc = "own" /\ call.at = "idle" => "FULL" \in val
    /\ pc # "ownHalf"
    /\ pc = "ownFull" /\ Answered => mac["MIIDATA"] = partner
    /\ pc = "ownFull" /\ call.at = "idle" => val = partner
    /\ pc = "full" => "FULL" \in partner

(* Open finds out which of the known PHYs it has. *)
Identified ==
    id2 # "other" =>
        /\ pc \in {"id1", "id1b"} /\ Answered => mac["MIIDATA"] = {"id1"}
        /\ pc \in {"id1", "id1b"} /\ call.at = "idle" => val = {"id1"}
        /\ pc \in {"id2", "id2b"} /\ Answered => mac["MIIDATA"] = {id2}
        /\ pc \in {"id2", "id2b"} /\ call.at = "idle" => val = {id2}
        /\ pc \in {"id1b", "id2b"} => id2 = "9218"
        /\ pc # "unidentified"

Quick == slow = 0 => Prompt /\ MacSet /\ NegotiatedAnew /\ BothEnds /\ Identified

-----------------------------------------------------------------------------
(* The calls open makes. *)

(* What a call starts with. *)
LEMMA Asks ==
    /\ \A r : GetPhyReg(r) => call'.at = "check" /\ call'.op = "RD" /\ call'.reg = r
    /\ \A r, v : SetPhyReg(r, v) => /\ call'.at = "check" /\ call'.op = "WR" /\ call'.reg = r
                                    /\ call'.val = v
<1>1. ASSUME NEW r, GetPhyReg(r) PROVE call'.at = "check" /\ call'.op = "RD" /\ call'.reg = r
    BY <1>1 DEF GetPhyReg, NoCall
<1>2. ASSUME NEW r, NEW v, SetPhyReg(r, v)
      PROVE  call'.at = "check" /\ call'.op = "WR" /\ call'.reg = r /\ call'.val = v
    BY <1>2 DEF SetPhyReg, NoCall
<1> QED BY <1>1, <1>2

(* How a call goes on: what it is for stays, and so does open. *)
LEMMA CallGoesOn ==
    ASSUME Types, PhyCheck \/ PhyData \/ PhyCommand \/ PhyBusy \/ PhyResult
    PROVE  /\ UNCHANGED <<chip, power, phy, pc, timeout, ret>>
           /\ \/ call' = NoCall /\ call'.at = "idle"
              \/ /\ call'.op = call.op /\ call'.reg = call.reg /\ call'.val = call.val
                 /\ call'.at = "data" => call.op = "WR"
                 /\ call'.at = "result" => call.op = "RD"
                 /\ call'.at # "idle"
           /\ call.at # "idle"
<1>1. UNCHANGED <<chip, power, phy, pc, timeout, ret>>
    BY DEF PhyCheck, PhyData, PhyCommand, PhyBusy, PhyResult, PhyUnchanged
<1>2. NoCall.at = "idle"
    BY DEF NoCall
<1>t. CallOK
    BY DEF Types
<1>3. CASE PhyCheck
    BY <1>1, <1>2, <1>3, <1>t DEF PhyCheck, PhyReturn, CallOK
<1>4. CASE PhyData \/ PhyCommand
    BY <1>1, <1>4, <1>t DEF PhyData, PhyCommand, CallOK
<1>5. CASE PhyBusy
    BY <1>1, <1>2, <1>5, <1>t DEF PhyBusy, PhyReturn, CallOK
<1>6. CASE PhyResult
    BY <1>1, <1>2, <1>6 DEF PhyResult, PhyReturn
<1> QED BY <1>3, <1>4, <1>5, <1>6

(* Purpose is inductive. *)
LEMMA PurposeStep == Types /\ Purpose /\ [Next]_vars => Purpose'
<1> SUFFICES ASSUME Types, Purpose, [Next]_vars PROVE Purpose'
    OBVIOUS
<1> USE DEF Purpose, Setup, Late, Waiting, Linked, Leave, Returned
<1>1. CASE Reset \/ Wake
    BY <1>1 DEF Reset, Wake, At, Goto, Return, Leave
<1>2. CASE MacSetup
    BY <1>2 DEF MacSetup, Write, At, Goto
<1>3. CASE MacEnable
    BY <1>3, Asks DEF MacEnable, Write, GetCR, At, Goto
<1>4. CASE Identify
    BY <1>4, Asks DEF Identify, At, Goto, Return, Leave
<1>5. CASE ResetPhy
    BY <1>5, Asks DEF ResetPhy, At, Goto, Return, Leave
<1>6. CASE Advertise
    <2>1. "FULL" \in val \cup {"PAUSE", "HALF", "FULL"} /\ "RSTAN" \in val \cup {"ANE", "RSTAN"}
        OBVIOUS
    <2> QED BY <1>6, <2>1, Asks DEF Advertise, At, Goto
<1>7. CASE Negotiated
    BY <1>7, Asks DEF Negotiated, At, Goto, Return, Leave
<1>8. CASE Duplex
    BY <1>8, Asks DEF Duplex, At, Goto, Return, Leave
<1>9. CASE PhyCheck \/ PhyData \/ PhyCommand \/ PhyBusy \/ PhyResult
    BY <1>9, CallGoesOn
<1>10. CASE Hw \/ UNCHANGED vars
    <2>1. UNCHANGED <<pc, call>>
        BY <1>10 DEF Hw, HwWake, HwMac, HwMii, HwReset, HwNegotiate
    <2> QED BY <2>1
<1> QED BY <1>1, <1>2, <1>3, <1>4, <1>5, <1>6, <1>7, <1>8, <1>9, <1>10 DEF Next, Open

(* Open's own steps leave the PHY alone, but for the reset. *)
LEMMA PhyFrame ==
    [Next]_vars => \/ UNCHANGED phy \/ Reset \/ HwMii \/ HwReset \/ HwNegotiate
BY DEF Next, Open, Hw, Wake, MacSetup, MacEnable, Identify, ResetPhy, Advertise, Negotiated,
       Duplex, PhyCheck, PhyData, PhyCommand, PhyBusy, PhyResult, HwWake, HwMac, Inner,
       OpenUnchanged, PhyUnchanged, Write, GetCR

(* What a write to the PHY can do. *)
LEMMA WriteRight ==
    ASSUME Types, ResetNoLink, NEW r \in PhyRegs, NEW v
    PROVE  /\ "RST" \in PhyWrite(r, v).bcr =>
                 ~PhyWrite(r, v).anc /\ "ANE" \notin PhyWrite(r, v).bcr
           /\ r = "BCR" /\ "RSTAN" \in v => ~PhyWrite(r, v).anc
           /\ \/ PhyWrite(r, v) = phy
              \/ PhyWrite(r, v).anar = {"HALF", "FULL"}
              \/ r # "BCR" /\ PhyWrite(r, v).anar = v
              \/ r = "BCR" /\ PhyWrite(r, v).anar = phy.anar
<1>t. phy \in [bcr : SUBSET All, anar : SUBSET All, anc : BOOLEAN, neg : SUBSET All]
    BY DEF Types, PhyOK
<1>1. CASE "RST" \in phy.bcr
    <2>1. PhyWrite(r, v) = phy
        BY <1>1 DEF PhyWrite
    <2> QED BY <1>1, <2>1 DEF ResetNoLink
<1>2. CASE "RST" \notin phy.bcr /\ r = "BCR" /\ "RST" \in v
    <2>1. PhyWrite(r, v) = [PhyDefault EXCEPT !.bcr = {"RST"}]
        BY <1>2 DEF PhyWrite
    <2>2. /\ [PhyDefault EXCEPT !.bcr = {"RST"}].anc = FALSE
          /\ [PhyDefault EXCEPT !.bcr = {"RST"}].bcr = {"RST"}
          /\ [PhyDefault EXCEPT !.bcr = {"RST"}].anar = {"HALF", "FULL"}
        BY DEF PhyDefault
    <2> QED BY <2>1, <2>2
<1>3. CASE "RST" \notin phy.bcr /\ r = "BCR" /\ "RST" \notin v
    <2>1. PhyWrite(r, v) = [phy EXCEPT !.bcr = v \ {"RSTAN"}, !.anc = @ /\ "RSTAN" \notin v]
        BY <1>3 DEF PhyWrite
    <2>2. /\ PhyWrite(r, v).bcr = v \ {"RSTAN"} /\ PhyWrite(r, v).anar = phy.anar
          /\ PhyWrite(r, v).anc = (phy.anc /\ "RSTAN" \notin v)
        BY <1>t, <2>1
    <2> QED BY <1>3, <2>2
<1>4. CASE "RST" \notin phy.bcr /\ r # "BCR"
    <2>1. PhyWrite(r, v) = [phy EXCEPT !.anar = v]
        BY <1>4 DEF PhyWrite
    <2>2. PhyWrite(r, v).bcr = phy.bcr /\ PhyWrite(r, v).anar = v
        BY <1>t, <2>1
    <2> QED BY <1>4, <2>2
<1> QED BY <1>1, <1>2, <1>3, <1>4

(* ResetNoLink is inductive. *)
LEMMA ResetStep == Types /\ ResetNoLink /\ [Next]_vars => ResetNoLink'
<1> SUFFICES ASSUME Types, ResetNoLink, [Next]_vars PROVE ResetNoLink'
    OBVIOUS
<1>0. ResetNoLink <=> ("RST" \in phy.bcr => ~phy.anc /\ "ANE" \notin phy.bcr)
    BY DEF ResetNoLink
<1>1. CASE UNCHANGED phy
    BY <1>1 DEF ResetNoLink
<1>2. CASE Reset \/ HwReset
    <2>1. phy' = PhyDefault /\ "RST" \notin PhyDefault.bcr
        BY <1>2 DEF Reset, HwReset, PhyDefault
    <2> QED BY <2>1 DEF ResetNoLink
<1>3. CASE HwMii
    <2>1. PICK r \in PhyRegs : phy' = phy \/ phy' = PhyWrite(r, mac["MIIDATA"])
        BY <1>3 DEF HwMii
    <2> QED BY <2>1, WriteRight DEF ResetNoLink
<1>4. CASE HwNegotiate
    <2>1. "ANE" \in phy.bcr /\ phy' = [phy EXCEPT !.anc = TRUE, !.neg = phy.anar]
        BY <1>4 DEF HwNegotiate
    <2>2. phy'.bcr = phy.bcr
        BY <2>1 DEF Types, PhyOK
    <2> QED BY <2>1, <2>2 DEF ResetNoLink
<1> QED BY <1>1, <1>2, <1>3, <1>4, PhyFrame

-----------------------------------------------------------------------------
(* With one timeout. *)

(* The number of timeouts never goes down. *)
LEMMA SlowUp == ASSUME Types, [Next]_vars PROVE slow \in Nat /\ slow' \in Nat /\ slow' >= slow
<1>t. slow \in 0..MaxSlow /\ MaxSlow \in Nat
    BY TimeoutAssumption DEF Types, TypeOK
<1>1. UNCHANGED slow \/ Slower
    BY DEF Next, Open, Hw, Reset, Wake, MacSetup, MacEnable, Identify, ResetPhy, Advertise,
           Negotiated, Duplex, PhyCheck, PhyData, PhyCommand, PhyBusy, PhyResult, HwWake, HwMac,
           HwMii, HwReset, HwNegotiate, Inner, Write, GetCR, GetMacReg, SetMacReg
<1> QED BY <1>t, <1>1 DEF Slower

(* A command in MIIACC is a read or a write. *)
LEMMA MiiRight ==
    ASSUME Types, mii # {}
    PROVE  \E op \in {"RD", "WR"}, r \in PhyRegs : mii = MiiCommand(op, r)
BY DEF Types, TypeOK, MiiCommands

(* A free MIIACC is one without the busy bit. *)
LEMMA MiiFree == ASSUME Types, "MII_BUSY" \notin mii PROVE mii = {}
BY MiiRight, CommandRight

(* Only a read of MIIACC that was answered finds it free. *)
LEMMA GetFree ==
    ASSUME Types, NEW v, GetMacReg("MIIACC", v), "MII_BUSY" \notin v
    PROVE  csr = <<>> /\ csr' = <<>> /\ slow' = slow /\ v = mii /\ mii = {}
<1>1. v # All
    BY Bits
<1>2. csr = <<>> /\ v = MacRead("MIIACC") /\ UNCHANGED <<csr, slow>>
    BY <1>1 DEF GetMacReg
<1>3. v = mii
    BY <1>2 DEF MacRead
<1> QED BY <1>2, <1>3, MiiFree

(* After the negotiation has been started nothing writes to the PHY. *)
LEMMA NoWriteKept ==
    ASSUME Types, Purpose, NoWrite, pc \in Late \cup {"done"}, [Next]_vars PROVE NoWrite'
<1>0. CASE UNCHANGED <<csr, mii>>
    BY <1>0 DEF NoWrite
<1>g. ASSUME NEW r \in MacRegs \cup {"MIIACC"}, NEW v, GetMacReg(r, v), UNCHANGED mii PROVE NoWrite'
    <2>1. CASE csr' = csr
        BY <2>1, <1>g, <1>0
    <2>2. CASE csr' = <<[op |-> "RD", reg |-> r, val |-> {}]>>
        <3>1. csr'[1].op = "RD"
            BY <2>2
        <3> QED BY <1>g, <3>1 DEF NoWrite
    <2> QED BY <1>g, <2>1, <2>2, GetRight
<1>m. "CR" \in MacRegs /\ "MIIDATA" \in MacRegs
    BY DEF MacRegs
<1>1. CASE Reset \/ Wake \/ MacSetup \/ MacEnable \/ Identify \/ ResetPhy \/ Advertise
    BY <1>1 DEF Reset, Wake, MacSetup, MacEnable, Identify, ResetPhy, Advertise, Write, GetCR, At,
        Late, Waiting, Linked
<1>2. CASE Negotiated
    BY <1>0, <1>2 DEF Negotiated, Inner
<1>3. CASE Duplex
    <2>1. CASE Inner
        BY <1>0, <2>1 DEF Inner
    <2>2. CASE \E v : GetMacReg("CR", v) /\ UNCHANGED mii
        BY <1>g, <1>m, <2>2
    <2>3. CASE SetMacReg("CR", val \cup {"FDPX"})
        <3>0. csr # <<>> => UNCHANGED <<csr, mii>>
            BY <2>3 DEF SetMacReg
        <3>1. CASE UNCHANGED <<csr, mii>>
            BY <1>0, <3>1
        <3>2. CASE csr' = <<[op |-> "WR", reg |-> "CR", val |-> val \cup {"FDPX"}]>> /\ mii' = mii
            <4>1. csr'[1].reg = "CR"
                BY <3>2
            <4> QED BY <3>2, <4>1 DEF NoWrite
        <3> QED BY <2>3, <3>1, <3>2 DEF SetMacReg, MacWrite
    <2> QED BY <1>3, <2>1, <2>2, <2>3 DEF Duplex
<1>4. CASE PhyCheck \/ PhyResult
    BY <1>4, <1>g, <1>m DEF PhyCheck, PhyResult
<1>5. CASE PhyBusy
    BY <1>0, <1>5, <1>g DEF PhyBusy
<1>6. CASE PhyData
    BY <1>6 DEF PhyData, Purpose, Returned
<1>7. CASE PhyCommand
    <2>1. call.op = "RD" /\ call.reg \in PhyRegs
        BY <1>7 DEF PhyCommand, Purpose, Types, CallOK, Returned
    <2>2. "WR" \notin MiiCommand("RD", call.reg)
        BY <2>1, CommandRight
    <2>3. SetMacReg("MIIACC", MiiCommand("RD", call.reg))
        BY <1>7, <2>1 DEF PhyCommand
    <2>4. CASE UNCHANGED <<csr, mii>>
        BY <1>0, <2>4
    <2>5. CASE csr' = csr /\ mii' = MiiCommand("RD", call.reg)
        BY <2>2, <2>5 DEF NoWrite
    <2>6. CASE csr' = <<[op |-> "WR", reg |-> "MIIACC", val |-> MiiCommand("RD", call.reg)]>>
               /\ mii' = mii
        <3>1. csr'[1].reg = "MIIACC" /\ csr'[1].val = MiiCommand("RD", call.reg)
            BY <2>6
        <3> QED BY <2>2, <2>6, <3>1 DEF NoWrite
    <2> QED BY <2>3, <2>4, <2>5, <2>6 DEF SetMacReg, MacWrite
<1>8. CASE HwMac
    BY <1>8 DEF HwMac, MacWrite, NoWrite
<1>9. CASE HwMii
    BY <1>9 DEF HwMii, NoWrite
<1>10. CASE HwWake \/ HwReset \/ HwNegotiate \/ UNCHANGED vars
    BY <1>0, <1>10 DEF HwWake, HwReset, HwNegotiate
<1> QED BY <1>1, <1>2, <1>3, <1>4, <1>5, <1>6, <1>7, <1>8, <1>9, <1>10 DEF Next, Open, Hw

(* A link that has been seen then stays. *)
LEMMA GoodKept ==
    ASSUME Types, Purpose, ResetNoLink, Good, pc \in Late \cup {"done"}, [Next]_vars PROVE Good'
<1>1. NoWrite'
    BY NoWriteKept DEF Good
<1>2. ~Reset
    BY DEF Reset, At, Late, Waiting, Linked
<1>3. CASE HwMii
    <2>1. "RD" \in mii
        BY <1>3, MiiRight, CommandRight DEF HwMii, Good, NoWrite
    <2> QED BY <1>1, <1>3, <2>1 DEF HwMii, Good
<1>4. ~HwReset /\ ~HwNegotiate
    BY DEF Good, ResetNoLink, HwReset, HwNegotiate
<1> QED BY <1>1, <1>2, <1>3, <1>4, PhyFrame DEF Good

(* Fetch is inductive. *)
LEMMA FetchStep ==
    ASSUME Types, Purpose, ResetNoLink, Fetch, [Next]_vars PROVE Fetch'
<1>t. CallOK /\ mac \in [MacRegs -> SUBSET All] /\ "MIIDATA" \in MacRegs
    BY DEF Types, TypeOK, MacRegs
<1>0. CASE call'.at \in {"idle", "check"}
    BY <1>0 DEF Fetch
<1>1. CASE Reset \/ Wake \/ MacSetup
    <2>1. pc' \notin Late
        BY <1>1 DEF Reset, Wake, MacSetup, Write, Goto, Return, Leave, Late, Waiting, Linked, At
    <2> QED BY <2>1 DEF Fetch
<1>2. CASE MacEnable \/ Identify \/ ResetPhy \/ Advertise
    <2>1. call'.at = "check" \/ (UNCHANGED call /\ call.at = "idle")
        BY <1>2, Asks DEF MacEnable, Identify, ResetPhy, Advertise, Write, GetCR, At, Return, Leave
    <2> QED BY <1>0, <2>1
<1>3. CASE Negotiated \/ Duplex
    <2>1. call'.at = "check" \/ (UNCHANGED call /\ call.at = "idle")
        BY <1>3, Asks DEF Negotiated, Duplex, At, Return, Leave
    <2> QED BY <1>0, <2>1
<1>4. CASE PhyCheck
    <2> SUFFICES ASSUME pc \in Late PROVE Fetch'
        BY <1>4, CallGoesOn DEF Fetch
    <2>1. PICK v : /\ GetMacReg("MIIACC", v)
                   /\ IF "MII_BUSY" \in v THEN PhyReturn({})
                      ELSE /\ call' = [call EXCEPT !.at = IF call.op = "WR" THEN "data" ELSE "command"]
                           /\ UNCHANGED val
        BY <1>4 DEF PhyCheck
    <2>2. CASE "MII_BUSY" \in v
        <3>1. call'.at = "idle"
            BY <2>1, <2>2 DEF PhyReturn, NoCall
        <3> QED BY <1>0, <3>1
    <2>3. CASE "MII_BUSY" \notin v
        <3>1. call.at # "idle" /\ call.op = "RD"
            BY <1>4 DEF PhyCheck, Purpose
        <3>2. call'.at = "command"
            BY <2>1, <2>3, <3>1, <1>t DEF CallOK
        <3>3. csr' = <<>> /\ mii = {}
            BY <2>1, <2>3, GetFree
        <3>4. mii' = {}
            BY <1>4, <3>3 DEF PhyCheck
        <3> QED BY <3>2, <3>3, <3>4 DEF Fetch
    <2> QED BY <2>2, <2>3
<1>5. CASE PhyData
    <2>1. pc' \notin Late
        BY <1>5 DEF PhyData, Purpose, PhyUnchanged
    <2> QED BY <2>1 DEF Fetch
<1>6. CASE PhyCommand
    <2> SUFFICES ASSUME pc \in Late PROVE Fetch'
        BY <1>6, CallGoesOn DEF Fetch
    <2>1. call.at = "command" /\ csr = <<>> /\ mii = {} /\ call.op = "RD" /\ call.reg \in PhyRegs
        BY <1>6, <1>t DEF PhyCommand, Fetch, Purpose, CallOK
    <2>2. MiiCommand("RD", call.reg) \in MiiCommands /\ MiiCommand("RD", call.reg) # {}
        BY <2>1, CommandRight
    <2>3. call'.at = "busy" /\ call'.reg = call.reg
        BY <1>6, <1>t DEF PhyCommand, CallOK
    <2>4. \/ csr' = <<>> /\ mii' = MiiCommand("RD", call.reg)
          \/ /\ csr' = <<[op |-> "WR", reg |-> "MIIACC", val |-> MiiCommand("RD", call.reg)]>>
             /\ mii' = {}
        BY <1>6, <2>1, <2>2, SetRight DEF PhyCommand, MacWrite
    <2>5. CASE csr' = <<>> /\ mii' = MiiCommand("RD", call.reg)
        BY <2>2, <2>3, <2>5 DEF Fetch, Posted
    <2>6. CASE /\ csr' = <<[op |-> "WR", reg |-> "MIIACC", val |-> MiiCommand("RD", call.reg)]>>
               /\ mii' = {}
        <3>1. /\ csr'[1].op = "WR" /\ csr'[1].reg = "MIIACC" /\ csr' # <<>>
              /\ csr'[1].val = MiiCommand("RD", call.reg)
            BY <2>6
        <3> QED BY <2>3, <2>6, <3>1 DEF Fetch, Posted
    <2> QED BY <2>4, <2>5, <2>6
<1>7. CASE PhyBusy
    <2> SUFFICES ASSUME pc \in Late PROVE Fetch'
        BY <1>7, CallGoesOn DEF Fetch
    <2>0. call.at = "busy" /\ UNCHANGED <<mac, mii, pc, phy>> /\ call.op = "RD"
        BY <1>7 DEF PhyBusy, PhyUnchanged, Purpose
    <2>1. ASSUME NEW v, GetMacReg("MIIACC", v), "MII_BUSY" \in v,
                 call' = [call EXCEPT !.t = @ - 1]
          PROVE  Fetch'
        <3>1. call'.at = "busy" /\ call'.reg = call.reg
            BY <2>0, <2>1, <1>t DEF CallOK
        <3>2. CASE csr' = csr
            BY <2>0, <3>1, <3>2 DEF Fetch, Posted
        <3>3. CASE csr = <<>> /\ csr' = <<[op |-> "RD", reg |-> "MIIACC", val |-> {}]>>
            <4>1. csr'[1].op = "RD"
                BY <3>3
            <4> QED BY <2>0, <3>1, <3>3, <4>1 DEF Fetch, Posted
        <3> QED BY <2>1, <3>2, <3>3, GetRight
    <2>2. ASSUME NEW v, GetMacReg("MIIACC", v), "MII_BUSY" \notin v,
                 call' = [call EXCEPT !.at = "result"]
          PROVE  Fetch'
        <3>1. call'.at = "result" /\ call'.reg = call.reg
            BY <2>2, <1>t DEF CallOK
        <3>2. csr = <<>> /\ csr' = <<>> /\ mii = {}
            BY <2>2, GetFree
        <3> QED BY <2>0, <3>1, <3>2 DEF Fetch, Posted
    <2>3. CASE call' = NoCall
        BY <1>0, <2>3 DEF NoCall
    <2> QED BY <1>7, <2>0, <2>1, <2>2, <2>3 DEF PhyBusy, PhyReturn
<1>8. CASE PhyResult
    BY <1>0, <1>8 DEF PhyResult, PhyReturn, NoCall
<1>9. CASE HwMac
    <2>1. csr # <<>> /\ csr' = <<>> /\ UNCHANGED <<pc, call, phy>>
        BY <1>9 DEF HwMac
    <2>2. CASE Posted
        <3>1. csr[1].reg = "MIIACC" => mii' = csr[1].val
            BY <1>9, <2>2 DEF HwMac, Posted, MacWrite
        <3>2. call.at = "busy" /\ pc \in Late => mii' = MiiCommand("RD", call.reg) /\ mii' # {}
            BY <2>2, <3>1, <1>t, CommandRight DEF Fetch, CallOK
        <3> QED BY <2>1, <3>2 DEF Fetch, Posted
    <2>3. CASE ~Posted
        BY <1>9, <2>1, <2>3 DEF HwMac, Fetch, Posted
    <2> QED BY <2>2, <2>3
<1>10. CASE HwMii
    <2> SUFFICES ASSUME pc \in Late, call.at = "busy" PROVE Fetch'
        BY <1>10 DEF HwMii, Fetch
    <2>1. mii # {} /\ mii' = {} /\ UNCHANGED <<csr, pc, call>>
        BY <1>10 DEF HwMii
    <2>2. mii = MiiCommand("RD", call.reg) /\ ~Posted /\ call.reg \in PhyRegs
        BY <2>1, <1>t DEF Fetch, CallOK
    <2>3. mii \cap PhyRegs = {call.reg} /\ "RD" \in mii
        BY <2>2, CommandRight
    <2>4. mac' = [mac EXCEPT !["MIIDATA"] = PhyRead(call.reg)] /\ UNCHANGED phy
        BY <1>10, <2>3 DEF HwMii
    <2>5. mac'["MIIDATA"] = PhyRead(call.reg)
        BY <2>4, <1>t
    <2>6. pc \in Waiting => PhyRead(call.reg) = IF phy.anc THEN {"ANC", "LINK"} ELSE {}
        BY DEF Purpose, PhyRead
    <2> QED BY <2>1, <2>2, <2>4, <2>5, <2>6 DEF Fetch, Posted
<1>11. CASE HwReset \/ HwNegotiate
    <2>1. UNCHANGED <<csr, mii, mac, pc, call>> /\ (phy.anc => phy'.anc)
        BY <1>11 DEF HwReset, HwNegotiate, ResetNoLink, Types, PhyOK
    <2> QED BY <2>1 DEF Fetch, Posted
<1>12. CASE HwWake \/ UNCHANGED vars
    <2>1. UNCHANGED <<csr, mii, mac, pc, call, phy>>
        BY <1>12 DEF HwWake
    <2> QED BY <2>1 DEF Fetch, Posted
<1> QED BY <1>1, <1>2, <1>3, <1>4, <1>5, <1>6, <1>7, <1>8, <1>9, <1>10, <1>11, <1>12
        DEF Next, Open, Hw

(* Cost is inductive. *)
LEMMA CostStep ==
    ASSUME Types, Purpose, ResetNoLink, Fetch, Cost, [Next]_vars PROVE Cost'
<1>s. slow \in Nat /\ slow' \in Nat /\ slow' >= slow
    BY SlowUp
<1>k. pc \in Late \cup {"done"} /\ Good => Good'
    BY GoodKept
<1>1. CASE Reset \/ Wake \/ MacSetup
    <2>1. pc' \notin {"anc", "link"} \cup Linked /\ ~(pc' = "done" /\ ret' = "TRUE")
        BY <1>1 DEF Reset, Wake, MacSetup, Write, Goto, Return, Leave, At, Linked
    <2> QED BY <2>1 DEF Cost
<1>2. CASE MacEnable \/ Identify \/ ResetPhy \/ Advertise
    <2>1. pc' \notin {"anc", "link"} \cup Linked /\ ~(pc' = "done" /\ ret' = "TRUE")
        BY <1>2 DEF MacEnable, Identify, ResetPhy, Advertise, Write, GetCR, Goto, Return, Leave, At,
                    Linked
    <2> QED BY <2>1 DEF Cost
<1>3. CASE Negotiated
    <2>1. \/ pc' = "anWait"
          \/ pc' = "done" /\ ret' = "FALSE"
          \/ pc' = "anc" /\ call'.at = "check"
          \/ pc = "anc" /\ pc' = "link" /\ call.at = "idle" /\ "ANC" \in val /\ call'.at = "check"
          \/ pc = "link" /\ pc' = "speed" /\ call.at = "idle" /\ "LINK" \in val
        BY <1>3, Asks DEF Negotiated, Goto, Return, Leave, At
    <2> QED BY <2>1, <1>s, <1>k DEF Cost, Late, Waiting, Linked
<1>4. CASE Duplex
    <2>1. pc \in Linked /\ (pc' \in Linked \/ pc' = "done")
        BY <1>4 DEF Duplex, Goto, Return, Leave, At, Linked
    <2> QED BY <2>1, <1>s, <1>k DEF Cost, Late, Linked
<1>5. CASE PhyCheck \/ PhyData \/ PhyCommand \/ PhyBusy \/ PhyResult
    <2>0. UNCHANGED <<pc, ret, phy>> /\ call.at # "idle"
        BY <1>5, CallGoesOn
    <2>1. CASE pc \notin Late
        BY <2>0, <2>1, <1>s, <1>k DEF Cost, Late, Waiting
    <2>2. CASE pc \in Late /\ (call'.at # "idle" \/ val' = {})
        BY <2>0, <2>2, <1>s, <1>k DEF Cost, Late, Waiting
    <2>3. CASE pc \in Late /\ slow' >= 1 /\ (slow >= 1 => slow' >= 2)
        BY <2>0, <2>3, <1>s, <1>k DEF Cost, Late, Waiting
    <2>4. CASE /\ pc \in Late /\ UNCHANGED <<csr, mii>> /\ csr = <<>> /\ mii = {}
               /\ val' = mac["MIIDATA"] /\ call.at = "result"
        <3>1. pc \in Waiting /\ ("ANC" \in val' \/ "LINK" \in val') => Good'
            BY <2>0, <2>4 DEF Fetch, Good, NoWrite
        <3> QED BY <2>0, <2>4, <3>1, <1>s, <1>k DEF Cost, Late, Waiting
    <2>5. CASE PhyCheck
        BY <2>0, <2>1, <2>2, <2>5, CallGoesOn DEF PhyCheck, PhyReturn, NoCall
    <2>6. CASE PhyData \/ PhyCommand
        <3>1. call'.at # "idle"
            BY <2>6 DEF PhyData, PhyCommand, Types, CallOK
        <3> QED BY <2>1, <2>2, <3>1
    <2>7. CASE PhyBusy
        <3>1. CASE Slower
            <4>1. slow' >= 1 /\ (slow >= 1 => slow' >= 2)
                BY <3>1, <1>s, TimeoutAssumption DEF Slower
            <4> QED BY <2>1, <2>3, <4>1
        <3>2. CASE ~Slower
            <4>1. val' = {} \/ call'.at # "idle"
                BY <2>7, <3>2 DEF PhyBusy, PhyReturn, Types, CallOK
            <4> QED BY <2>1, <2>2, <4>1
        <3> QED BY <3>1, <3>2
    <2>8. CASE PhyResult
        <3> SUFFICES ASSUME pc \in Late PROVE Cost'
            BY <2>1
        <3>1. call.at = "result" /\ UNCHANGED mii /\ csr = <<>> /\ mii = {}
            BY <2>8 DEF PhyResult, Fetch
        <3>2. PICK v : GetMacReg("MIIDATA", v) /\ val' = v
            BY <2>8 DEF PhyResult, PhyReturn
        <3>3. \/ csr' = <<>> /\ v = mac["MIIDATA"]
              \/ slow' = slow + 1
            BY <3>1, <3>2, GetRight DEF MacRead, MacRegs
        <3>4. slow' = slow + 1 => slow' >= 1 /\ (slow >= 1 => slow' >= 2)
            BY <1>s
        <3> QED BY <2>3, <2>4, <3>1, <3>2, <3>3, <3>4
    <2> QED BY <1>5, <2>5, <2>6, <2>7, <2>8
<1>6. CASE Hw \/ UNCHANGED vars
    <2>1. UNCHANGED <<pc, ret, call, val>>
        BY <1>6 DEF Hw, HwWake, HwMac, HwMii, HwReset, HwNegotiate
    <2> QED BY <2>1, <1>s, <1>k DEF Cost, Late, Waiting
<1> QED BY <1>1, <1>2, <1>3, <1>4, <1>5, <1>6 DEF Next, Open

(* The invariant on the calls and on what the last two tests have seen. *)
Tested == Types /\ ChipOK /\ Purpose /\ ResetNoLink /\ Fetch /\ Cost

(* Tested is an invariant. *)
LEMMA TestedHolds == Spec => []Tested
<1>1. Init => Tested
    <2> SUFFICES ASSUME Init PROVE Purpose /\ ResetNoLink /\ Fetch /\ Cost
        BY TypesInit DEF Tested
    <2>1. pc = "reset" /\ call.at = "idle" /\ "RST" \notin phy.bcr
        BY DEF Init, NoCall, PhyDefault
    <2> QED BY <2>1 DEF Purpose, ResetNoLink, Fetch, Cost, Late, Waiting, Linked
<1>2. Tested /\ [Next]_vars => Tested'
    BY TypesStep, PurposeStep, ResetStep, FetchStep, CostStep DEF Tested
<1> QED BY <1>1, <1>2, PTL DEF Spec

(* One timed-out access, whichever it is, does not make lan9118_open report *)
(* a link that is not there, unless it is the read of an ID that made open  *)
(* take the PHY for an unknown one.                                         *)
THEOREM OneSlowHolds == Spec => []OneSlow
<1>1. Tested => OneSlow
    BY DEF Tested, Cost, Good, OneSlow, Types, TypeOK, Returned
<1> QED BY <1>1, TestedHolds, PTL

-----------------------------------------------------------------------------
(* With no timeout. *)

(* An access that does not time out is carried out. *)
LEMMA QuickGet ==
    ASSUME Types, csr = <<>>, slow = 0, slow' = 0, NEW r, NEW v, GetMacReg(r, v)
    PROVE  csr' = <<>> /\ v = MacRead(r)
<1>1. ~Slower
    BY TimeoutAssumption DEF Slower
<1> QED BY <1>1 DEF GetMacReg

(* So is a write. *)
LEMMA QuickSet ==
    ASSUME Types, csr = <<>>, slow = 0, slow' = 0, NEW r, NEW v, SetMacReg(r, v)
    PROVE  csr' = <<>> /\ MacWrite(r, v)
<1>1. ~Slower
    BY TimeoutAssumption DEF Slower
<1> QED BY <1>1 DEF SetMacReg

(* The steps of open that touch no register. *)
LEMMA InnerSteps ==
    ASSUME Wake \/ Identify \/ ResetPhy \/ Advertise \/ Negotiated
    PROVE  /\ UNCHANGED <<csr, mac, mii, slow, phy, chip, val>> /\ call.at = "idle"
           /\ call'.at = "check" \/ call' = call
<1>1. Inner /\ val' = val
    BY DEF Wake, Identify, ResetPhy, Advertise, Negotiated, Goto, Return, Leave
<1>2. call.at = "idle" /\ (call'.at = "check" \/ call' = call)
    BY Asks DEF Wake, Identify, ResetPhy, Advertise, Negotiated, At, Goto, Return, Leave
<1> QED BY <1>1, <1>2 DEF Inner, OpenUnchanged

(* A call, when no access times out, by what it does. *)
LEMMA QuickCall ==
    ASSUME Types, Prompt, slow = 0, slow' = 0,
           PhyCheck \/ PhyData \/ PhyCommand \/ PhyBusy \/ PhyResult
    PROVE  /\ csr' = <<>>
           /\ \/ /\ call.at = "check" /\ UNCHANGED <<mac, mii, val>>
                 /\ call' = [call EXCEPT !.at = IF call.op = "WR" THEN "data" ELSE "command"]
              \/ /\ call.at = "data" /\ mac' = [mac EXCEPT !["MIIDATA"] = call.val]
                 /\ call' = [call EXCEPT !.at = "command"] /\ UNCHANGED <<mii, val>>
              \/ /\ call.at = "command" /\ mii' = MiiCommand(call.op, call.reg)
                 /\ call' = [call EXCEPT !.at = "busy", !.t = PhyTimeout] /\ UNCHANGED <<mac, val>>
              \/ /\ call.at = "busy" /\ mii # {} /\ call' = [call EXCEPT !.t = @ - 1]
                 /\ UNCHANGED <<mac, mii, val>>
              \/ /\ call.at = "busy" /\ mii = {} /\ call.op = "WR" /\ call' = NoCall
                 /\ UNCHANGED <<mac, mii>>
              \/ /\ call.at = "busy" /\ mii = {} /\ call.op = "RD"
                 /\ call' = [call EXCEPT !.at = "result"] /\ UNCHANGED <<mac, mii, val>>
              \/ /\ call.at = "result" /\ call' = NoCall /\ val' = mac["MIIDATA"]
                 /\ UNCHANGED <<mac, mii>>
<1>1. csr = <<>> /\ (call.at # "busy" => mii = {}) /\ CallOK /\ ~Slower
    BY TimeoutAssumption DEF Prompt, Types, Slower
<1>b. mii = {} <=> "MII_BUSY" \notin mii
    BY MiiFree
<1>2. CASE PhyCheck
    <2>1. call.at = "check" /\ mii = {} /\ UNCHANGED <<mac, mii>>
        BY <1>1, <1>2 DEF PhyCheck
    <2>2. PICK v : /\ GetMacReg("MIIACC", v)
                   /\ IF "MII_BUSY" \in v THEN PhyReturn({})
                      ELSE /\ call' = [call EXCEPT !.at = IF call.op = "WR" THEN "data" ELSE "command"]
                           /\ UNCHANGED val
        BY <1>2 DEF PhyCheck
    <2>3. csr' = <<>> /\ v = {}
        BY <1>1, <2>1, <2>2, QuickGet DEF MacRead
    <2> QED BY <2>1, <2>2, <2>3
<1>3. CASE PhyData
    <2>1. csr' = <<>> /\ MacWrite("MIIDATA", call.val)
        BY <1>1, <1>3, QuickSet DEF PhyData
    <2> QED BY <1>3, <2>1 DEF PhyData, MacWrite
<1>4. CASE PhyCommand
    <2>1. csr' = <<>> /\ MacWrite("MIIACC", MiiCommand(call.op, call.reg))
        BY <1>1, <1>4, QuickSet DEF PhyCommand
    <2> QED BY <1>4, <2>1 DEF PhyCommand, MacWrite
<1>5. CASE PhyBusy
    <2>1. PICK v : /\ GetMacReg("MIIACC", v)
                   /\ IF "MII_BUSY" \in v THEN call' = [call EXCEPT !.t = @ - 1] /\ UNCHANGED val
                      ELSE IF call.op = "WR" THEN PhyReturn({})
                      ELSE call' = [call EXCEPT !.at = "result"] /\ UNCHANGED val
        BY <1>1, <1>5 DEF PhyBusy
    <2>2. csr' = <<>> /\ v = mii
        BY <1>1, <2>1, QuickGet DEF MacRead
    <2>3. call.at = "busy" /\ UNCHANGED <<mac, mii>> /\ call.op \in {"RD", "WR"}
        BY <1>1, <1>5 DEF PhyBusy, CallOK
    <2> QED BY <1>b, <2>1, <2>2, <2>3 DEF PhyReturn
<1>6. CASE PhyResult
    <2>1. PICK v : GetMacReg("MIIDATA", v) /\ PhyReturn(v)
        BY <1>6 DEF PhyResult
    <2>2. csr' = <<>> /\ v = mac["MIIDATA"]
        BY <1>1, <2>1, QuickGet DEF MacRead
    <2> QED BY <1>6, <2>1, <2>2 DEF PhyResult, PhyReturn
<1> QED BY <1>2, <1>3, <1>4, <1>5, <1>6

(* The steps of open that read or write a MAC register. *)
LEMMA QuickMac ==
    ASSUME Types, Purpose, Prompt, slow = 0, slow' = 0, MacSetup \/ MacEnable \/ Duplex
    PROVE  /\ csr' = <<>> /\ UNCHANGED <<mii, phy, chip>> /\ call.at = "idle"
           /\ call'.at = "check" \/ call' = call
           /\ \/ /\ pc = "flow" /\ pc' = "addrh" /\ mac' = [mac EXCEPT !["FLOW"] = {"PAUSE"}]
                 /\ UNCHANGED <<ret, val>>
              \/ /\ pc = "addrh" /\ pc' = "addrl" /\ mac' = [mac EXCEPT !["ADDRH"] = {"ADDR"}]
                 /\ UNCHANGED <<ret, val>>
              \/ /\ pc = "addrl" /\ pc' = "getTx" /\ mac' = [mac EXCEPT !["ADDRL"] = {"ADDR"}]
                 /\ UNCHANGED <<ret, val>>
              \/ pc = "getTx" /\ pc' = "setTx" /\ val' = mac["CR"] /\ UNCHANGED <<ret, mac>>
              \/ /\ pc = "setTx" /\ pc' = "getRx" /\ UNCHANGED <<ret, val>>
                 /\ mac' = [mac EXCEPT !["CR"] = (val \cup {"TXEN", "HBDIS"}) \ {"PRMS", "BCAST"}]
              \/ pc = "getRx" /\ pc' = "setRx" /\ val' = mac["CR"] /\ UNCHANGED <<ret, mac>>
              \/ /\ pc = "setRx" /\ pc' = "id1" /\ mac' = [mac EXCEPT !["CR"] = val \cup {"RXEN"}]
                 /\ UNCHANGED <<ret, val>>
              \/ pc = "speed" /\ pc' = "own" /\ call'.at = "check" /\ UNCHANGED <<ret, val, mac>>
              \/ /\ pc = "own" /\ call'.at = "check" /\ UNCHANGED <<ret, val, mac>>
                 /\ pc' = IF "FULL" \in val THEN "ownFull" ELSE "ownHalf"
              \/ pc = "ownHalf" /\ pc' = "done" /\ ret' = "TRUE" /\ UNCHANGED mac
              \/ /\ pc = "ownFull" /\ pc' = "done" /\ ret' = "TRUE" /\ "FULL" \notin val
                 /\ UNCHANGED mac
              \/ /\ pc = "ownFull" /\ pc' = "full" /\ val' = mac["CR"] /\ "FULL" \in val
                 /\ UNCHANGED <<ret, mac>>
              \/ /\ pc = "full" /\ pc' = "done" /\ ret' = "TRUE"
                 /\ mac' = [mac EXCEPT !["CR"] = val \cup {"FDPX"}]
<1>1. csr = <<>>
    BY DEF Prompt
<1>2. ASSUME NEW r \in MacRegs, NEW v, SetMacReg(r, v)
      PROVE  csr' = <<>> /\ mac' = [mac EXCEPT ![r] = v] /\ UNCHANGED mii
    <2>1. csr' = <<>> /\ MacWrite(r, v)
        BY <1>1, <1>2, QuickSet
    <2> QED BY <2>1 DEF MacWrite, MacRegs
<1>3. ASSUME NEW v, GetMacReg("CR", v) PROVE csr' = <<>> /\ v = mac["CR"]
    BY <1>1, <1>3, QuickGet DEF MacRead
<1>m. {"FLOW", "ADDRH", "ADDRL", "CR"} \subseteq MacRegs
    BY DEF MacRegs
<1>4. CASE MacSetup
    BY <1>2, <1>4, <1>m DEF MacSetup, Write, At, Goto, OpenUnchanged
<1>5. CASE MacEnable
    BY <1>2, <1>3, <1>5, <1>m, Asks DEF MacEnable, Write, GetCR, At, Goto, OpenUnchanged
<1>6. CASE Duplex
    BY <1>1, <1>2, <1>3, <1>6, <1>m, Asks DEF Duplex, At, Goto, Return, Leave, Inner, OpenUnchanged
<1> QED BY <1>4, <1>5, <1>6

(* Prompt is kept as long as nothing times out. *)
LEMMA PromptStep ==
    ASSUME Types, Purpose, Prompt, slow = 0, slow' = 0, [Next]_vars PROVE Prompt'
<1>t. CallOK /\ mac \in [MacRegs -> SUBSET All] /\ "MIIDATA" \in MacRegs
    BY DEF Types, TypeOK, MacRegs
<1>n. NoCall.at = "idle"
    BY DEF NoCall
<1>1. CASE Reset
    BY <1>1 DEF Reset, At, Prompt
<1>2. CASE Wake \/ Identify \/ ResetPhy \/ Advertise \/ Negotiated
    BY <1>2, InnerSteps DEF Prompt
<1>3. CASE MacSetup \/ MacEnable \/ Duplex
    BY <1>3, QuickMac DEF Prompt
<1>4. CASE PhyCheck \/ PhyData \/ PhyCommand \/ PhyBusy \/ PhyResult
    <2>1. csr' = <<>>
        BY <1>4, QuickCall
    <2>2. CASE /\ call.at = "check" /\ UNCHANGED <<mac, mii, val>>
               /\ call' = [call EXCEPT !.at = IF call.op = "WR" THEN "data" ELSE "command"]
        BY <2>1, <2>2, <1>t DEF Prompt, CallOK
    <2>3. CASE /\ call.at = "data" /\ mac' = [mac EXCEPT !["MIIDATA"] = call.val]
               /\ call' = [call EXCEPT !.at = "command"] /\ UNCHANGED <<mii, val>>
        BY <2>1, <2>3, <1>t DEF Prompt, CallOK
    <2>4. CASE /\ call.at = "command" /\ mii' = MiiCommand(call.op, call.reg)
               /\ call' = [call EXCEPT !.at = "busy", !.t = PhyTimeout] /\ UNCHANGED <<mac, val>>
        BY <2>1, <2>4, <1>t DEF Prompt, CallOK
    <2>5. CASE /\ call.at = "busy" /\ mii # {} /\ call' = [call EXCEPT !.t = @ - 1]
               /\ UNCHANGED <<mac, mii, val>>
        BY <2>1, <2>5, <1>t DEF Prompt, CallOK
    <2>6. CASE call' = NoCall /\ UNCHANGED <<mac, mii>> /\ mii = {}
        BY <2>1, <2>6, <1>n DEF Prompt
    <2>7. CASE /\ call.at = "busy" /\ mii = {} /\ call.op = "RD"
               /\ call' = [call EXCEPT !.at = "result"] /\ UNCHANGED <<mac, mii, val>>
        BY <2>1, <2>7, <1>t DEF Prompt, CallOK
    <2>8. call.at = "result" => mii = {}
        BY DEF Prompt
    <2> QED BY <1>4, <2>2, <2>3, <2>4, <2>5, <2>6, <2>7, <2>8, QuickCall
<1>5. CASE HwMac
    BY <1>5 DEF HwMac, Prompt
<1>6. CASE HwMii
    BY <1>6 DEF HwMii, Prompt
<1>7. CASE HwWake \/ HwReset \/ HwNegotiate \/ UNCHANGED vars
    BY <1>7 DEF HwWake, HwReset, HwNegotiate, Prompt
<1> QED BY <1>1, <1>2, <1>3, <1>4, <1>5, <1>6, <1>7 DEF Next, Open, Hw

(* So is MacSet. *)
LEMMA MacSetStep ==
    ASSUME Types, Purpose, Prompt, MacSet, BothEnds, slow = 0, slow' = 0, [Next]_vars
    PROVE  MacSet'
<1>t. /\ mac \in [MacRegs -> SUBSET All] /\ MacRegs = {"FLOW", "ADDRH", "ADDRL", "CR", "MIIDATA"}
      /\ ret = "none" <=> pc \notin Returned
    BY DEF Types, TypeOK, MacRegs
<1> USE DEF Setup
<1>1. CASE Reset
    <2>1. mac' = MacDefault /\ MacDefault["CR"] = {"PRMS"} /\ pc' \in {"wake", "flow"}
        BY <1>1 DEF Reset, MacDefault, MacRegs
    <2> QED BY <2>1 DEF MacSet
<1>2. CASE Wake
    BY <1>2, <1>t, InnerSteps DEF Wake, At, Goto, Return, Leave, MacSet
<1>3. CASE Identify \/ ResetPhy
    <2>1. /\ pc \notin Setup \cup {"done"} /\ ret = "none" /\ UNCHANGED <<mac, chip>>
          /\ \/ pc' \notin Setup \cup {"done", "full"} /\ ret' = ret
             \/ pc' = "done" /\ ret' = "FALSE"
             \/ pc' = "unidentified" /\ ret' = "TRUE"
        BY <1>3, <1>t, InnerSteps DEF Identify, ResetPhy, At, Goto, Return, Leave, Returned
    <2> QED BY <2>1 DEF MacSet
<1>4. CASE Advertise \/ Negotiated
    <2>1. /\ pc \notin Setup \cup {"done"} /\ ret = "none" /\ UNCHANGED <<mac, chip>>
          /\ \/ pc' \notin Setup \cup {"done", "full"} /\ ret' = ret
             \/ pc' = "done" /\ ret' = "FALSE"
        BY <1>4, <1>t, InnerSteps DEF Advertise, Negotiated, At, Goto, Return, Leave, Returned
    <2> QED BY <2>1 DEF MacSet
<1>5. CASE MacSetup \/ MacEnable \/ Duplex
    <2>0. UNCHANGED <<chip>> /\ call.at = "idle"
        BY <1>5, QuickMac
    <2>1. CASE /\ pc = "flow" /\ pc' = "addrh" /\ mac' = [mac EXCEPT !["FLOW"] = {"PAUSE"}]
               /\ UNCHANGED <<ret, val>>
        BY <2>0, <2>1, <1>t DEF MacSet
    <2>2. CASE /\ pc = "addrh" /\ pc' = "addrl" /\ mac' = [mac EXCEPT !["ADDRH"] = {"ADDR"}]
               /\ UNCHANGED <<ret, val>>
        BY <2>0, <2>2, <1>t DEF MacSet
    <2>3. CASE /\ pc = "addrl" /\ pc' = "getTx" /\ mac' = [mac EXCEPT !["ADDRL"] = {"ADDR"}]
               /\ UNCHANGED <<ret, val>>
        BY <2>0, <2>3, <1>t DEF MacSet
    <2>4. CASE pc = "getTx" /\ pc' = "setTx" /\ val' = mac["CR"] /\ UNCHANGED <<ret, mac>>
        BY <2>0, <2>4, <1>t DEF MacSet
    <2>5. CASE /\ pc = "setTx" /\ pc' = "getRx" /\ UNCHANGED <<ret, val>>
               /\ mac' = [mac EXCEPT !["CR"] = (val \cup {"TXEN", "HBDIS"}) \ {"PRMS", "BCAST"}]
        <3>1. val = {"PRMS"}
            BY <2>5 DEF MacSet
        <3>2. (val \cup {"TXEN", "HBDIS"}) \ {"PRMS", "BCAST"} = {"TXEN", "HBDIS"}
            BY ONLY <3>1
        <3> QED BY <2>0, <2>5, <3>2, <1>t DEF MacSet
    <2>6. CASE pc = "getRx" /\ pc' = "setRx" /\ val' = mac["CR"] /\ UNCHANGED <<ret, mac>>
        BY <2>0, <2>6, <1>t DEF MacSet
    <2>7. CASE /\ pc = "setRx" /\ pc' = "id1" /\ mac' = [mac EXCEPT !["CR"] = val \cup {"RXEN"}]
               /\ UNCHANGED <<ret, val>>
        <3>1. val = {"TXEN", "HBDIS"}
            BY <2>7 DEF MacSet
        <3>2. val \cup {"RXEN"} = Enabled
            BY ONLY <3>1 DEF Enabled
        <3> QED BY <2>0, <2>7, <3>2, <1>t DEF MacSet
    <2>8. CASE /\ pc \in {"speed", "own"} /\ pc' \in {"own", "ownFull", "ownHalf"}
               /\ UNCHANGED <<ret, val, mac>>
        BY <2>0, <2>8, <1>t DEF MacSet
    <2>9. CASE /\ pc = "ownFull" /\ pc' = "done" /\ ret' = "TRUE" /\ "FULL" \notin val
               /\ UNCHANGED mac
        <3>1. "FULL" \notin partner /\ ret = "none"
            BY <2>0, <2>9, <1>t DEF BothEnds, Returned
        <3>2. mac["CR"] = Enabled /\ Enabled \cup {} = Enabled
            BY <2>9 DEF MacSet
        <3> QED BY <2>0, <2>9, <3>1, <3>2 DEF MacSet
    <2>10. CASE /\ pc = "ownFull" /\ pc' = "full" /\ val' = mac["CR"] /\ "FULL" \in val
                /\ UNCHANGED <<ret, mac>>
        BY <2>0, <2>10, <1>t DEF MacSet
    <2>11. CASE /\ pc = "full" /\ pc' = "done" /\ ret' = "TRUE"
                /\ mac' = [mac EXCEPT !["CR"] = val \cup {"FDPX"}]
        <3>1. "FULL" \in partner /\ val = Enabled /\ ret = "none"
            BY <2>11, <1>t DEF BothEnds, MacSet, Returned
        <3> QED BY <2>0, <2>11, <3>1, <1>t DEF MacSet
    <2>12. pc # "ownHalf"
        BY DEF BothEnds
    <2> QED BY <1>5, <2>1, <2>2, <2>3, <2>4, <2>5, <2>6, <2>7, <2>8, <2>9, <2>10, <2>11, <2>12,
               QuickMac
<1>6. ASSUME UNCHANGED <<pc, ret, chip>>, val' = val \/ call.at # "idle",
             mac' = mac \/ \E v : mac' = [mac EXCEPT !["MIIDATA"] = v]
      PROVE  MacSet'
    <2>1. \A r \in {"FLOW", "ADDRH", "ADDRL", "CR"} : mac'[r] = mac[r]
        BY <1>6, <1>t
    <2>2. pc \in {"setTx", "setRx", "full"} => val' = val
        BY <1>6 DEF Purpose
    <2> QED BY <1>6, <2>1, <2>2 DEF MacSet
<1>7. CASE PhyCheck \/ PhyData \/ PhyCommand \/ PhyBusy \/ PhyResult
    BY <1>6, <1>7, QuickCall, CallGoesOn
<1>8. CASE HwMac
    BY <1>8 DEF HwMac, Prompt
<1>9. CASE HwMii
    BY <1>6, <1>9 DEF HwMii
<1>10. CASE HwWake \/ HwReset \/ HwNegotiate \/ UNCHANGED vars
    BY <1>6, <1>10 DEF HwWake, HwReset, HwNegotiate
<1> QED BY <1>1, <1>2, <1>3, <1>4, <1>5, <1>7, <1>8, <1>9, <1>10 DEF Next, Open, Hw

(* A PHY command, when no access times out, is the one of the call. *)
LEMMA QuickMii ==
    ASSUME Types, Purpose, Prompt, HwMii
    PROVE  /\ call.at = "busy" /\ mii' = {} /\ UNCHANGED <<pc, call, chip, val, ret>>
           /\ call.reg \in PhyRegs
           /\ call.op = "RD" => /\ mac' = [mac EXCEPT !["MIIDATA"] = PhyRead(call.reg)]
                                /\ UNCHANGED phy
           /\ call.op = "WR" => phy' = PhyWrite(call.reg, call.val) /\ UNCHANGED mac
<1>1. mii # {} /\ mii' = {} /\ UNCHANGED <<pc, call, chip, val, ret>>
    BY DEF HwMii
<1>2. call.op \in {"RD", "WR"} /\ call.reg \in PhyRegs
    BY DEF Types, CallOK
<1>3. /\ call.at = "busy" /\ mii = MiiCommand(call.op, call.reg)
      /\ call.op = "WR" => mac["MIIDATA"] = call.val
    BY <1>1 DEF Prompt
<1>4. mii \cap PhyRegs = {call.reg} /\ ("RD" \in mii <=> call.op = "RD")
    BY <1>2, <1>3, CommandRight
<1>5. IF "RD" \in mii
      THEN mac' = [mac EXCEPT !["MIIDATA"] = PhyRead(call.reg)] /\ UNCHANGED phy
      ELSE phy' = PhyWrite(call.reg, mac["MIIDATA"]) /\ UNCHANGED mac
    BY <1>4 DEF HwMii
<1> QED BY <1>1, <1>2, <1>3, <1>4, <1>5

(* NegotiatedAnew is kept. *)
LEMMA AnewStep ==
    ASSUME Types, Purpose, ResetNoLink, Prompt, NegotiatedAnew, slow = 0, slow' = 0, [Next]_vars
    PROVE  NegotiatedAnew'
<1>t. CallOK /\ PhyOK
    BY DEF Types
<1> USE DEF Anew, NegotiatedAnew, Late, Waiting, Linked
<1>1. CASE Reset
    <2>1. phy' = PhyDefault /\ "FULL" \in PhyDefault.anar /\ ~PhyDefault.anc
        BY <1>1 DEF Reset, PhyDefault
    <2> QED BY <2>1
<1>2. CASE Wake \/ Identify \/ ResetPhy
    <2>1. UNCHANGED phy
        BY <1>2, InnerSteps
    <2>2. ~Anew'
        BY <1>2 DEF Wake, Identify, ResetPhy, At, Goto, Return, Leave
    <2> QED BY <2>1, <2>2
<1>3. CASE Advertise
    <2>1. UNCHANGED phy
        BY <1>3, InnerSteps
    <2>2. Anew' => Anew
        BY <1>3, Asks DEF Advertise, At, Goto
    <2> QED BY <2>1, <2>2
<1>4. CASE Negotiated
    <2>1. UNCHANGED phy
        BY <1>4, InnerSteps
    <2>2. Anew
        BY <1>4 DEF Negotiated, At
    <2> QED BY <2>1, <2>2
<1>5. CASE MacSetup \/ MacEnable \/ Duplex
    <2>1. UNCHANGED phy /\ (Anew' => Anew)
        BY <1>5, QuickMac
    <2> QED BY <2>1
<1>6. CASE PhyCheck \/ PhyData \/ PhyCommand \/ PhyBusy \/ PhyResult
    <2>0. UNCHANGED <<pc, ret, phy>>
        BY <1>6, CallGoesOn
    <2>1. Anew' => Anew
        <3> SUFFICES ASSUME pc = "started", call'.at = "idle" \/ (call'.at = "busy" /\ mii' = {})
                     PROVE  call.at = "busy" /\ mii = {}
            BY <2>0
        <3>1. call.at # "idle"
            BY <1>6, CallGoesOn
        <3>2. call.op = "WR" /\ call.at # "result"
            BY <3>1 DEF Purpose
        <3>3. MiiCommand(call.op, call.reg) # {}
            BY <1>t, CommandRight DEF CallOK
        <3>4. CASE call.at = "check"
            BY <3>4, <1>t, <1>6, QuickCall DEF CallOK
        <3>5. CASE call.at = "data"
            BY <3>5, <1>t, <1>6, QuickCall DEF CallOK
        <3>6. CASE call.at = "command"
            BY <3>3, <3>6, <1>t, <1>6, QuickCall DEF CallOK
        <3>7. CASE call.at = "busy" /\ mii # {}
            BY <3>7, <1>t, <1>6, QuickCall DEF CallOK
        <3> QED BY <3>1, <3>2, <3>4, <3>5, <3>6, <3>7, <1>t DEF CallOK
    <2> QED BY <2>0, <2>1
<1>7. CASE HwMac
    BY <1>7 DEF HwMac, Prompt
<1>8. CASE HwMii
    <2>1. CASE call.op = "RD"
        <3>1. UNCHANGED <<phy, pc, ret>> /\ call.at = "busy"
            BY <1>8, <2>1, QuickMii
        <3>2. pc # "started"
            BY <2>1, <3>1 DEF Purpose
        <3> QED BY <3>1, <3>2
    <2>2. CASE call.op = "WR"
        <3>1. /\ phy' = PhyWrite(call.reg, call.val) /\ UNCHANGED <<pc, ret>>
              /\ call.at = "busy" /\ call.reg \in PhyRegs
            BY <1>8, <2>2, QuickMii
        <3>2. pc \notin Late /\ pc # "done"
            BY <2>2, <3>1 DEF Purpose, Returned
        <3>3. pc = "started" => ~phy'.anc
            BY <3>1, WriteRight DEF Purpose
        <3>4. "FULL" \in phy'.anar
            BY <2>2, <3>1, WriteRight DEF Purpose
        <3> QED BY <3>1, <3>2, <3>3, <3>4
    <2> QED BY <1>t, <2>1, <2>2 DEF CallOK
<1>9. CASE HwReset
    <2>1. phy' = PhyDefault /\ "FULL" \in PhyDefault.anar /\ ~PhyDefault.anc
        BY <1>9 DEF HwReset, PhyDefault
    <2> QED BY <2>1
<1>10. CASE HwNegotiate
    <2>1. phy' = [phy EXCEPT !.anc = TRUE, !.neg = phy.anar]
        BY <1>10 DEF HwNegotiate
    <2>2. phy'.anar = phy.anar /\ phy'.neg = phy.anar
        BY <2>1, <1>t DEF PhyOK
    <2> QED BY <2>2
<1>11. CASE HwWake \/ UNCHANGED vars
    BY <1>11 DEF HwWake
<1> QED BY <1>1, <1>2, <1>3, <1>4, <1>5, <1>6, <1>7, <1>8, <1>9, <1>10, <1>11
        DEF Next, Open, Hw

(* BothEnds is kept. *)
LEMMA EndsStep ==
    ASSUME Types, Purpose, Prompt, NegotiatedAnew, Cost, BothEnds, slow = 0, slow' = 0, [Next]_vars
    PROVE  BothEnds'
<1>t. CallOK /\ mac \in [MacRegs -> SUBSET All] /\ "MIIDATA" \in MacRegs
    BY DEF Types, TypeOK, MacRegs
<1>n. NoCall.at = "idle"
    BY DEF NoCall
<1>0. ASSUME pc' \notin {"own", "ownHalf", "ownFull", "full"} PROVE BothEnds'
    BY <1>0 DEF BothEnds
<1>1. CASE Reset \/ Wake \/ Identify \/ ResetPhy
    BY <1>0, <1>1 DEF Reset, Wake, Identify, ResetPhy, At, Goto, Return, Leave
<1>2. CASE Advertise \/ Negotiated
    BY <1>0, <1>2 DEF Advertise, Negotiated, At, Goto, Return, Leave
<1>3. CASE MacSetup \/ MacEnable \/ Duplex
    BY <1>3, QuickMac DEF BothEnds, Answered
<1>4. CASE PhyCheck \/ PhyData \/ PhyCommand \/ PhyBusy \/ PhyResult
    <2> SUFFICES ASSUME pc \in {"own", "ownFull"} PROVE BothEnds'
        <3>1. UNCHANGED pc /\ pc # "full" /\ pc # "ownHalf"
            BY <1>4, CallGoesOn DEF Purpose, BothEnds
        <3> QED BY <1>0, <3>1
    <2>0. UNCHANGED <<pc, partner>> /\ call.at # "idle"
        BY <1>4, CallGoesOn
    <2>1. call.op = "RD" /\ call.reg \in PhyRegs /\ call.at # "data"
        BY <2>0, <1>t DEF Purpose, Late, Linked, CallOK
    <2>2. MiiCommand(call.op, call.reg) # {}
        BY <2>1, CommandRight
    <2>3. CASE call.at = "check"
        BY <2>0, <2>1, <2>3, <1>t, <1>4, QuickCall DEF BothEnds, Answered, CallOK
    <2>4. CASE call.at = "command"
        BY <2>0, <2>1, <2>2, <2>4, <1>t, <1>4, QuickCall DEF BothEnds, Answered, CallOK
    <2>5. CASE call.at = "busy"
        BY <2>0, <2>1, <2>5, <1>t, <1>4, QuickCall DEF BothEnds, Answered, CallOK
    <2>6. CASE call.at = "result"
        BY <2>0, <2>6, <1>n, <1>4, QuickCall DEF BothEnds, Answered
    <2> QED BY <2>0, <2>1, <2>3, <2>4, <2>5, <2>6, <1>t DEF CallOK
<1>5. CASE HwMac
    BY <1>5 DEF HwMac, Prompt
<1>6. CASE HwMii
    <2> SUFFICES ASSUME pc \in {"own", "ownFull"} PROVE BothEnds'
        <3>1. UNCHANGED pc /\ call.at = "busy"
            BY <1>6, QuickMii
        <3>2. pc # "full" /\ pc # "ownHalf"
            BY <3>1 DEF Purpose, BothEnds
        <3> QED BY <1>0, <3>1, <3>2
    <2>1. call.at = "busy" /\ UNCHANGED <<pc, call, partner>>
        BY <1>6, QuickMii
    <2>2. call.op = "RD"
        BY <2>1 DEF Purpose, Late, Linked
    <2>3. mac'["MIIDATA"] = PhyRead(call.reg)
        BY <2>2, <1>6, <1>t, QuickMii
    <2>4. pc = "own" => PhyRead(call.reg) = phy.anar
        BY <2>1 DEF Purpose, PhyRead
    <2>5. phy.anc
        BY DEF Cost, Linked, Good
    <2>6. pc = "ownFull" => PhyRead(call.reg) = partner
        BY <2>1, <2>5 DEF Purpose, PhyRead
    <2> QED BY <2>1, <2>3, <2>4, <2>6 DEF BothEnds, NegotiatedAnew
<1>7. CASE HwWake \/ HwReset \/ HwNegotiate \/ UNCHANGED vars
    <2>1. UNCHANGED <<pc, call, mac, mii, val, partner>>
        BY <1>7 DEF HwWake, HwReset, HwNegotiate
    <2> QED BY <2>1 DEF BothEnds, Answered
<1> QED BY <1>1, <1>2, <1>3, <1>4, <1>5, <1>6, <1>7 DEF Next, Open, Hw

(* Identified is kept. *)
LEMMA IdentifiedStep ==
    ASSUME Types, ChipOK, Purpose, Prompt, Identified, slow = 0, slow' = 0, [Next]_vars
    PROVE  Identified'
<1>t. CallOK /\ mac \in [MacRegs -> SUBSET All] /\ "MIIDATA" \in MacRegs
    BY DEF Types, TypeOK, MacRegs
<1>n. NoCall.at = "idle"
    BY DEF NoCall
<1> DEFINE Ids == {"id1", "id2", "id1b", "id2b"}
<1>0. ASSUME pc' \notin Ids \cup {"unidentified"} PROVE Identified'
    BY <1>0 DEF Identified
<1>1. CASE Reset \/ Wake \/ ResetPhy
    BY <1>0, <1>1 DEF Reset, Wake, ResetPhy, At, Goto, Return, Leave
<1>2. CASE Advertise \/ Negotiated
    BY <1>0, <1>2 DEF Advertise, Negotiated, At, Goto, Return, Leave
<1>3. CASE MacSetup \/ Duplex
    BY <1>0, <1>3, QuickMac DEF MacSetup, Duplex, Write, At, Goto, Return, Leave
<1>4. CASE MacEnable
    <2>1. CASE pc' = "id1"
        <3>1. call'.at = "check"
            BY <1>4, <2>1, Asks DEF MacEnable, Write, GetCR, Goto
        <3> QED BY <2>1, <3>1 DEF Identified, Answered
    <2>2. CASE pc' # "id1"
        BY <1>0, <1>4, <2>2 DEF MacEnable, Write, GetCR, Goto
    <2> QED BY <2>1, <2>2
<1>5. CASE Identify
    <2>0. UNCHANGED <<id2, val>> /\ call.at = "idle" /\ (pc' \in Ids => call'.at = "check")
        BY <1>5, InnerSteps, Asks DEF Identify, Goto, Leave
    <2> SUFFICES ASSUME id2 # "other" PROVE Identified'
        BY <2>0 DEF Identified
    <2>1. id2 \in {"9118", "9218"}
        BY DEF ChipOK
    <2>2. \/ pc = "id1" /\ pc' = "id2"
          \/ pc = "id2" /\ pc' = "rst"
          \/ pc = "id2" /\ id2 = "9218" /\ pc' = "id1b"
          \/ pc = "id1b" /\ pc' = "id2b"
          \/ pc = "id2b" /\ pc' = "rst"
        BY <1>5, <2>0, <2>1 DEF Identify, Identified, At, Goto, Leave
    <2> QED BY <2>0, <2>2 DEF Identified, Answered
<1>6. CASE PhyCheck \/ PhyData \/ PhyCommand \/ PhyBusy \/ PhyResult
    <2>0. UNCHANGED <<pc, id2>> /\ call.at # "idle"
        BY <1>6, CallGoesOn
    <2>p. pc # "unidentified"
        BY <2>0 DEF Purpose, Returned
    <2> SUFFICES ASSUME pc \in Ids PROVE Identified'
        BY <1>0, <2>0, <2>p
    <2>1. call.op = "RD" /\ call.reg \in PhyRegs /\ call.at # "data"
        BY <2>0, <1>t DEF Purpose, CallOK
    <2>2. MiiCommand(call.op, call.reg) # {}
        BY <2>1, CommandRight
    <2>3. CASE call.at = "check"
        BY <2>0, <2>1, <2>3, <1>t, <1>6, QuickCall DEF Identified, Answered, CallOK
    <2>4. CASE call.at = "command"
        BY <2>0, <2>1, <2>2, <2>4, <1>t, <1>6, QuickCall DEF Identified, Answered, CallOK
    <2>5. CASE call.at = "busy"
        BY <2>0, <2>1, <2>5, <1>t, <1>6, QuickCall DEF Identified, Answered, CallOK
    <2>6. CASE call.at = "result"
        BY <2>0, <2>6, <1>n, <1>6, QuickCall DEF Identified, Answered
    <2> QED BY <2>0, <2>1, <2>3, <2>4, <2>5, <2>6, <1>t DEF CallOK
<1>7. CASE HwMac
    BY <1>7 DEF HwMac, Prompt
<1>8. CASE HwMii
    <2>1. call.at = "busy" /\ UNCHANGED <<pc, call, id2, val>>
        BY <1>8, QuickMii
    <2>p. pc # "unidentified"
        BY <2>1 DEF Purpose, Returned
    <2> SUFFICES ASSUME pc \in Ids PROVE Identified'
        BY <1>0, <2>1, <2>p
    <2>2. call.op = "RD" /\ call.reg = IF pc \in {"id1", "id1b"} THEN "ID1" ELSE "ID2"
        BY <2>1 DEF Purpose
    <2>3. mac'["MIIDATA"] = PhyRead(call.reg)
        BY <2>2, <1>8, <1>t, QuickMii
    <2>4. PhyRead(call.reg) = IF pc \in {"id1", "id1b"} THEN {"id1"} ELSE {id2}
        BY <2>2 DEF PhyRead
    <2> QED BY <2>1, <2>3, <2>4 DEF Identified
<1>9. CASE HwWake \/ HwReset \/ HwNegotiate \/ UNCHANGED vars
    <2>1. UNCHANGED <<pc, call, mac, mii, val, id2>>
        BY <1>9 DEF HwWake, HwReset, HwNegotiate
    <2> QED BY <2>1 DEF Identified, Answered
<1> QED BY <1>1, <1>2, <1>3, <1>4, <1>5, <1>6, <1>7, <1>8, <1>9 DEF Next, Open, Hw

(* Quick is inductive. *)
LEMMA QuickStep == Tested /\ Quick /\ [Next]_vars => Quick'
<1> SUFFICES ASSUME Tested, Quick, [Next]_vars, slow' = 0
             PROVE  Prompt' /\ MacSet' /\ NegotiatedAnew' /\ BothEnds' /\ Identified'
    BY DEF Quick
<1>1. slow = 0
    BY SlowUp DEF Tested
<1> QED BY <1>1, PromptStep, MacSetStep, AnewStep, EndsStep, IdentifiedStep DEF Tested, Quick

(* When no access times out and lan9118_open returns TRUE for a known PHY,  *)
(* the PHY has been identified, the link is the one negotiated with what    *)
(* the PHY advertises, and the MAC is set up for it.                        *)
THEOREM OpenRightHolds == Spec => []OpenRight
<1>1. Init => Quick
    <2> SUFFICES ASSUME Init PROVE Prompt /\ MacSet /\ NegotiatedAnew /\ BothEnds /\ Identified
        BY DEF Quick
    <2>1. /\ pc = "reset" /\ call.at = "idle" /\ csr = <<>> /\ mii = {} /\ ret = "none"
          /\ mac["CR"] = {"PRMS"} /\ "FULL" \in phy.anar
        BY DEF Init, NoCall, MacDefault, MacRegs, PhyDefault
    <2> QED BY <2>1 DEF Prompt, MacSet, NegotiatedAnew, Anew, BothEnds, Identified, Answered,
                  Setup, Late, Waiting, Linked
<1>2. Tested /\ Quick => OpenRight
    <2> SUFFICES ASSUME Tested, Quick, ret = "TRUE", slow = 0, id2 # "other"
                 PROVE  /\ pc = "done" /\ phy.anc /\ phy.neg = phy.anar
                        /\ mac["CR"] = {"TXEN", "RXEN", "HBDIS"}
                                          \cup (IF "FULL" \in partner THEN {"FDPX"} ELSE {})
                        /\ mac["FLOW"] = {"PAUSE"} /\ mac["ADDRH"] = {"ADDR"}
                        /\ mac["ADDRL"] = {"ADDR"}
        BY DEF OpenRight
    <2>1. pc = "done"
        BY DEF Tested, Types, TypeOK, Returned, Quick, Identified
    <2>2. phy.anc
        BY <2>1 DEF Tested, Cost, Good
    <2>3. phy.neg = phy.anar
        BY <2>1, <2>2 DEF Quick, NegotiatedAnew, Anew
    <2> QED BY <2>1, <2>2, <2>3 DEF Quick, MacSet, Enabled
<1> QED BY <1>1, <1>2, QuickStep, TestedHolds, PTL DEF Spec

-----------------------------------------------------------------------------
(* The transmit path. *)

USE DEF txVars, drvVars, uipVars, chipVars

(* A sequence without elements is the empty one. *)
LEMMA NoElements == ASSUME NEW S, NEW s \in Seq(S), Len(s) = 0 PROVE s = <<>>
BY EmptySeq

(* The next tag is a tag. *)
LEMMA NextTag == ASSUME NEW t \in Tags PROVE (t + 1) % NTags \in Tags
<1>1. NTags \in Nat \ {0} /\ t + 1 \in Int
    BY SizeAssumption DEF Tags
<1>2. (t + 1) % NTags \in 0..NTags - 1
    BY ONLY <1>1, SMT
<1> QED BY <1>2 DEF Tags

(* lan9118_write leaves a tag in lastTxTag and tags in the data FIFO. *)
LEMMA SendType ==
    ASSUME TxTypeOK, NEW from \in {"loop", "periodic"}, sendToNet(from) PROVE
    /\ txPc' = "wait" /\ back' = from /\ waited' = 0 /\ tx' = "on"
    /\ lastTxTag' \in Tags /\ txData' \in Seq(Tags)
    /\ UNCHANGED <<report, late, txStatus>>
<1>1. lastTxTag' \in Tags
    BY NextTag DEF TxTypeOK, sendToNet
<1>2. txData' \in Seq(Tags)
    BY <1>1 DEF TxTypeOK, sendToNet
<1> QED BY <1>1, <1>2 DEF sendToNet

(* TxTypeOK is inductive. *)
LEMMA TxTypeStep == TxTypeOK /\ [TxNext]_txVars => TxTypeOK'
<1> SUFFICES ASSUME TxTypeOK, [TxNext]_txVars PROVE TxTypeOK'
    OBVIOUS
<1>1. CASE EthSend
    <2>1. sendToNet("loop") /\ UNCHANGED <<copy, uipVars, packets>>
        BY <1>1 DEF EthSend
    <2> QED BY <2>1, SendType, SizeAssumption DEF TxTypeOK
<1>2. CASE WaitStatus
    <2>1. /\ txStatus # <<>> /\ txStatus \in Seq([tag : Tags, es : BOOLEAN])
          /\ txStatus' = Tail(txStatus) /\ report' = Head(txStatus).tag
        BY <1>2 DEF WaitStatus, TxTypeOK
    <2>2. /\ Head(txStatus) \in [tag : Tags, es : BOOLEAN]
          /\ Tail(txStatus) \in Seq([tag : Tags, es : BOOLEAN])
        BY ONLY <2>1, HeadTailProperties
    <2>3. report' \in Tags
        BY <2>1, <2>2
    <2> QED BY <1>2, <2>2, <2>3 DEF WaitStatus, TxTypeOK
<1>3. CASE WaitTimeout
    BY <1>3 DEF WaitTimeout, TxTypeOK
<1>4. ASSUME NEW reply \in BOOLEAN, Input(reply) PROVE TxTypeOK'
    <2>1. CASE reply
        BY <1>4, <2>1, SendType, SizeAssumption DEF Input, TxTypeOK
    <2>2. CASE ~reply
        BY <1>4, <2>2 DEF Input, TxTypeOK
    <2> QED BY <2>1, <2>2
<1>5. ASSUME NEW send \in BOOLEAN, Periodic(send) PROVE TxTypeOK'
    <2>1. i' \in 0..UIP_CONNS
        BY <1>5, SizeAssumption DEF Periodic, TxTypeOK
    <2>2. CASE send
        BY <1>5, <2>1, <2>2, SendType, SizeAssumption DEF Periodic, TxTypeOK
    <2>3. CASE ~send
        BY <1>5, <2>1, <2>3 DEF Periodic, TxTypeOK
    <2> QED BY <2>2, <2>3
<1>6. CASE StartPeriodic \/ PeriodicEnd
    <2>1. 0 \in 0..UIP_CONNS
        BY SizeAssumption
    <2> QED BY <1>6, <2>1 DEF StartPeriodic, PeriodicEnd, TxTypeOK
<1>7. CASE Timer0Handler
    <2>1. waited' \in 0..TX_TIMEOUT + 1
        BY <1>7, SizeAssumption DEF Timer0Handler, TxTypeOK
    <2> QED BY <1>7, <2>1 DEF Timer0Handler, TxTypeOK
<1>8. CASE HwArrive \/ HwTxStop
    BY <1>8 DEF HwArrive, HwTxStop, TxTypeOK
<1>9. ASSUME NEW es \in BOOLEAN, HwTransmit(es) PROVE TxTypeOK'
    <2>1. /\ txData # <<>> /\ txData \in Seq(Tags)
          /\ txStatus \in Seq([tag : Tags, es : BOOLEAN])
          /\ txData' = Tail(txData)
          /\ txStatus' = Append(txStatus, [tag |-> Head(txData), es |-> es])
        BY <1>9 DEF HwTransmit, TxTypeOK
    <2>2. txData' \in Seq(Tags) /\ txStatus' \in Seq([tag : Tags, es : BOOLEAN])
        BY <2>1
    <2> QED BY <1>9, <2>2 DEF HwTransmit, TxTypeOK
<1>10. CASE UNCHANGED txVars
    BY <1>10 DEF TxTypeOK
<1> QED BY <1>1, <1>2, <1>3, <1>4, <1>5, <1>6, <1>7, <1>8, <1>9, <1>10
        DEF TxNext, Wait, Main, Hardware

(* The tag and the two transmit FIFOs hold tags, the connection counter and *)
(* the ticks stay in their ranges, whatever is sent and whatever fails.     *)
THEOREM TxTypeCorrect == TxSpec => []TxTypeOK
<1>1. TxInit => TxTypeOK
    <2>1. 0 \in Tags /\ 0 \in 0..UIP_CONNS /\ 0 \in 0..TX_TIMEOUT + 1
        BY SizeAssumption DEF Tags
    <2>2. <<>> \in Seq(Tags) /\ <<>> \in Seq([tag : Tags, es : BOOLEAN])
        BY EmptySeq
    <2> QED BY <2>1, <2>2 DEF TxInit, TxTypeOK
<1> QED BY <1>1, TxTypeStep, PTL DEF TxSpec

-----------------------------------------------------------------------------
(* As long as no write timed out, the chip holds nothing of any frame but   *)
(* the one being waited for: its data, or else its status.                  *)
OneFrame ==
    ~late => /\ txPc # "wait" => report = lastTxTag /\ txData = <<>> /\ txStatus = <<>>
             /\ txPc = "wait" => \/ txData = <<lastTxTag>> /\ txStatus = <<>>
                               \/ /\ txData = <<>> /\ Len(txStatus) = 1
                                  /\ txStatus[1].tag = lastTxTag

(* A write that finds both FIFOs empty leaves its frame alone in the chip. *)
LEMMA SendAlone ==
    ASSUME TxTypeOK, OneFrame, txPc # "wait", ~late, NEW from, sendToNet(from)
    PROVE  OneFrame'
<1>1. txData = <<>> /\ txStatus = <<>> /\ 0 < TxDepth
    BY SizeAssumption DEF OneFrame
<1>2. txData' = <<lastTxTag'>>
    BY <1>1 DEF sendToNet
<1> QED BY <1>1, <1>2 DEF sendToNet, OneFrame

(* OneFrame is inductive: the wait ends with the only status there is. *)
LEMMA OneFrameStep == TxTypeOK /\ OneFrame /\ [TxNext]_txVars => OneFrame'
<1> SUFFICES ASSUME TxTypeOK, OneFrame, [TxNext]_txVars PROVE OneFrame'
    OBVIOUS
<1>1. CASE late
    <2>1. late'
        BY <1>1 DEF TxNext, EthSend, Wait, WaitStatus, WaitTimeout, Main, Input, Periodic,
                StartPeriodic, PeriodicEnd, Timer0Handler, Hardware, HwArrive, HwTxStop,
                HwTransmit, sendToNet
    <2> QED BY <2>1 DEF OneFrame
<1> SUFFICES ASSUME ~late PROVE OneFrame'
    BY <1>1
<1>2. CASE EthSend
    BY <1>2, SendAlone DEF EthSend
<1>3. CASE WaitStatus
    <2>1. /\ txData = <<>> /\ Len(txStatus) = 1 /\ txStatus[1].tag = lastTxTag
          /\ txStatus \in Seq([tag : Tags, es : BOOLEAN])
        BY <1>3 DEF WaitStatus, OneFrame, TxTypeOK
    <2>2. Tail(txStatus) = <<>>
        <3>1. txStatus # <<>>
            BY <1>3 DEF WaitStatus
        <3>2. /\ Tail(txStatus) \in Seq([tag : Tags, es : BOOLEAN])
              /\ Len(Tail(txStatus)) = Len(txStatus) - 1
            BY ONLY <2>1, <3>1, HeadTailProperties
        <3>3. Len(Tail(txStatus)) = 0
            BY ONLY <2>1, <3>2
        <3> QED BY ONLY <3>2, <3>3, NoElements
    <2>3. txPc' # "wait"
        BY <1>3 DEF WaitStatus, TxTypeOK
    <2> QED BY <1>3, <2>1, <2>2, <2>3 DEF WaitStatus, OneFrame
<1>4. CASE WaitTimeout
    BY <1>4 DEF WaitTimeout, OneFrame
<1>5. ASSUME NEW reply \in BOOLEAN, Input(reply) \/ Periodic(reply) PROVE OneFrame'
    <2>1. CASE reply
        BY <1>5, <2>1, SendAlone DEF Input, Periodic
    <2>2. CASE ~reply
        BY <1>5, <2>2 DEF Input, Periodic, OneFrame
    <2> QED BY <2>1, <2>2
<1>6. CASE StartPeriodic \/ PeriodicEnd \/ Timer0Handler \/ HwArrive \/ HwTxStop
    BY <1>6 DEF StartPeriodic, PeriodicEnd, Timer0Handler, HwArrive, HwTxStop, OneFrame
<1>7. ASSUME NEW es \in BOOLEAN, HwTransmit(es) PROVE OneFrame'
    <2>1. txPc = "wait" /\ txData = <<lastTxTag>> /\ txStatus = <<>>
        BY <1>7 DEF HwTransmit, OneFrame
    <2>2. Head(txData) = lastTxTag /\ Tail(txData) = <<>>
        BY ONLY <2>1
    <2>3. txStatus' = <<[tag |-> lastTxTag, es |-> es]>>
        BY <1>7, <2>1, <2>2 DEF HwTransmit
    <2>4. Len(txStatus') = 1 /\ txStatus'[1].tag = lastTxTag
        BY ONLY <2>3
    <2> QED BY <1>7, <2>1, <2>2, <2>4 DEF HwTransmit, OneFrame
<1>8. CASE UNCHANGED txVars
    BY <1>8 DEF OneFrame
<1> QED BY <1>2, <1>3, <1>4, <1>5, <1>6, <1>7, <1>8 DEF TxNext, Wait, Main, Hardware

(* As long as no write timed out, lan9118_write returns by the status of    *)
(* the frame it sent, with the frame gone from the chip.                    *)
THEOREM OwnStatusHolds == TxSpec => []OwnStatus
<1>1. TxInit => OneFrame
    BY DEF TxInit, OneFrame
<1>2. OneFrame => OwnStatus
    BY DEF OneFrame, OwnStatus
<1> QED BY <1>1, <1>2, TxTypeCorrect, OneFrameStep, PTL DEF TxSpec
==============================================================================
