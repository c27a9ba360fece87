------------------------------ MODULE LanOpen -------------------------------
(***************************************************************************)
(* lan9118_open of software/uip-1.0/smsc9118.c, which tapdev_init calls,   *)
(* and the accesses it makes: to the MAC registers through MAC_CSR_CMD,    *)
(* and through one of those, MIIACC, to the registers of the PHY.  Every   *)
(* access waits for the chip a limited time, and a command that times out  *)
(* goes on in the chip.  The chip and its link partner are external.       *)
(*                                                                         *)
(* The value of a register is the set of its bits that matter; All is what *)
(* a timed-out read returns, 0xffffffff or 0xffff.  The direct registers   *)
(* (FIFO sizes, interrupt enables, LEDs) answer at once and are left out.  *)
(***************************************************************************)
EXTENDS Integers, FiniteSets

CONSTANTS
    PhyTimeout,   \* PHY_TIMEOUT (200)
    AnTimeout,    \* PHY_AN_TIMEOUT (10)
    MaxSlow       \* timeouts that are counted: enough to tell one from several

ASSUME TimeoutAssumption ==
    PhyTimeout \in Nat \ {0} /\ AnTimeout \in Nat \ {0} /\ MaxSlow \in Nat /\ MaxSlow >= 2

MacRegs == {"FLOW", "ADDRH", "ADDRL", "CR", "MIIDATA"}
PhyRegs == {"BCR", "BSR", "ID1", "ID2", "ANAR", "ANLPAR", "PHYSCSR"}
All == {"TXEN", "RXEN", "HBDIS", "PRMS", "BCAST", "FDPX",              \* MAC_CR
        "RST", "SS", "ANE", "RSTAN", "DUPLEX", "ANC", "LINK",          \* BCR, BSR
        "HALF", "FULL", "PAUSE", "ADDR", "MII_BUSY", "id1", "9118", "9218", "other"}

(* MIIACC: the command, its register, and the busy bit. *)
MiiCommand(op, reg) == {"MII_BUSY", op, reg}
MiiCommands == {MiiCommand(op, reg) : op \in {"RD", "WR"}, reg \in PhyRegs}

VARIABLES
    id2, partner,  \* the kind of chip, and what the other end can do
    power,         \* PWR_MGMT: "sleep" or "run"
    csr,           \* the command in MAC_CSR_CMD that is not complete: a sequence of at most one
    mac,           \* the MAC registers
    mii,           \* MIIACC: the command that is not complete, or {}
    phy,           \* BCR, ANAR, negotiation complete (anc), and what was negotiated with (neg)
    pc, timeout, val, ret,
    call,          \* GetPhyReg or SetPhyReg in progress: where, what, PhyBusy's timeout
    slow           \* accesses that timed out, up to MaxSlow

chip == <<id2, partner>>
vars == <<chip, power, csr, mac, mii, phy, pc, timeout, val, ret, call, slow>>

NoCall == [at |-> "idle", op |-> "RD", reg |-> "BCR", val |-> {}, t |-> 0]
MacDefault == [r \in MacRegs |-> IF r = "CR" THEN {"PRMS"} ELSE {}]
PhyDefault == [bcr |-> {"ANE", "SS"}, anar |-> {"HALF", "FULL"}, anc |-> FALSE, neg |-> {}]

Init == /\ \/ id2 = "9118" /\ partner \in {{}, {"HALF", "FULL"}}
           \/ id2 \in {"9218", "other"} /\ partner = {"HALF"}
        /\ power \in {"sleep", "run"}
        /\ csr = <<>> /\ mac = MacDefault /\ mii = {} /\ phy = PhyDefault
        /\ pc = "reset" /\ timeout = 0 /\ val = {} /\ ret = "none" /\ call = NoCall /\ slow = 0

-----------------------------------------------------------------------------
(* The chip. *)

HwWake == /\ power = "sleep" /\ pc = "wake" /\ power' = "run"
          /\ UNCHANGED <<chip, csr, mac, mii, phy, pc, timeout, val, ret, call, slow>>

(* What a completed command of MAC_CSR_CMD does. *)
MacRead(r) == IF r = "MIIACC" THEN mii ELSE mac[r]
MacWrite(r, v) == IF r = "MIIACC" THEN mii' = v /\ UNCHANGED mac
                                  ELSE mac' = [mac EXCEPT ![r] = v] /\ UNCHANGED mii

(* A command that timed out completes. *)
HwMac == /\ csr # <<>> /\ csr' = <<>>
         /\ IF csr[1].op = "WR" THEN MacWrite(csr[1].reg, csr[1].val) ELSE UNCHANGED <<mac, mii>>
         /\ UNCHANGED <<chip, power, phy, pc, timeout, val, ret, call, slow>>

PhyRead(r) == CASE r = "BCR" -> phy.bcr
                [] r = "ANAR" -> phy.anar
                [] r = "BSR" -> IF phy.anc THEN {"ANC", "LINK"} ELSE {}
                [] r = "ID1" -> {"id1"}
                [] r = "ID2" -> {id2}
                [] r = "ANLPAR" -> IF phy.anc THEN partner ELSE {}
                [] OTHER -> {}

(* A PHY in reset takes no write; a write of RST resets it, of RSTAN        *)
(* starts the negotiation anew.                                             *)
PhyWrite(r, v) ==
    IF "RST" \in phy.bcr THEN phy ELSE
    CASE r = "BCR" /\ "RST" \in v -> [PhyDefault EXCEPT !.bcr = {"RST"}]
      [] r = "BCR" /\ "RST" \notin v -> [phy EXCEPT !.bcr = v \ {"RSTAN"},
                                                    !.anc = @ /\ "RSTAN" \notin v]
      [] OTHER -> [phy EXCEPT !.anar = v]

HwMii == /\ mii # {} /\ mii' = {}
         /\ \E r \in mii \cap PhyRegs :
               IF "RD" \in mii THEN mac' = [mac EXCEPT !["MIIDATA"] = PhyRead(r)] /\ UNCHANGED phy
                               ELSE phy' = PhyWrite(r, mac["MIIDATA"]) /\ UNCHANGED mac
         /\ UNCHANGED <<chip, power, csr, pc, timeout, val, ret, call, slow>>

HwReset == /\ "RST" \in phy.bcr /\ phy' = PhyDefault
           /\ UNCHANGED <<chip, power, csr, mac, mii, pc, timeout, val, ret, call, slow>>

HwNegotiate == /\ "ANE" \in phy.bcr /\ ~phy.anc /\ partner # {}
               /\ phy' = [phy EXCEPT !.anc = TRUE, !.neg = phy.anar]
               /\ UNCHANGED <<chip, power, csr, mac, mii, pc, timeout, val, ret, call, slow>>

-----------------------------------------------------------------------------
(* Access to the MAC registers. *)

(* The MAC is slow MaxSlow times at most, the PHY as often as it likes. *)
Slower == slow' = IF slow < MaxSlow THEN slow + 1 ELSE slow

(* GetMacReg(Reg) returns v: the register, or All when the command before   *)
(* it is still under way or MacBusy times out, which leaves this one.       *)
GetMacReg(Reg, v) ==
    \/ csr # <<>> /\ v = All /\ UNCHANGED <<csr, slow>>
    \/ csr = <<>> /\ v = MacRead(Reg) /\ UNCHANGED <<csr, slow>>
    \/ /\ csr = <<>> /\ v = All /\ slow < MaxSlow /\ Slower
       /\ csr' = <<[op |-> "RD", reg |-> Reg, val |-> {}]>>

(* SetMacReg(Reg, Value), whose result no caller looks at. *)
SetMacReg(Reg, Value) ==
    \/ csr # <<>> /\ UNCHANGED <<csr, mac, mii, slow>>
    \/ csr = <<>> /\ MacWrite(Reg, Value) /\ UNCHANGED <<csr, slow>>
    \/ /\ csr = <<>> /\ UNCHANGED <<mac, mii>> /\ slow < MaxSlow /\ Slower
       /\ csr' = <<[op |-> "WR", reg |-> Reg, val |-> Value]>>

-----------------------------------------------------------------------------
(* GetPhyReg and SetPhyReg, one access to a MAC register per step.  The     *)
(* result of GetPhyReg is in val when the call is back at "idle".           *)

PhyUnchanged == UNCHANGED <<chip, power, phy, pc, timeout, ret>>

PhyReturn(v) == call' = NoCall /\ val' = v

PhyCheck ==
    /\ call.at = "check"
    /\ \E v \in {All, mii} :
          /\ GetMacReg("MIIACC", v)
          /\ IF "MII_BUSY" \in v THEN PhyReturn({})
             ELSE /\ call' = [call EXCEPT !.at = IF call.op = "WR" THEN "data" ELSE "command"]
                  /\ UNCHANGED val
    /\ UNCHANGED <<mac, mii>> /\ PhyUnchanged

PhyData == /\ call.at = "data"
           /\ SetMacReg("MIIDATA", call.val)
           /\ call' = [call EXCEPT !.at = "command"]
           /\ UNCHANGED val /\ PhyUnchanged

PhyCommand == /\ call.at = "command"
              /\ SetMacReg("MIIACC", MiiCommand(call.op, call.reg))
              /\ call' = [call EXCEPT !.at = "busy", !.t = PhyTimeout]
              /\ UNCHANGED val /\ PhyUnchanged

(* Mutant: PhyBusy without its count. *)
PhyBusy_forever ==
    /\ call.at = "busy"
    /\ \E v \in {All, mii} :
          /\ GetMacReg("MIIACC", v)
          /\ IF "MII_BUSY" \notin v
             THEN IF call.op = "WR" THEN PhyReturn({})
                  ELSE call' = [call EXCEPT !.at = "result"] /\ UNCHANGED val
             ELSE UNCHANGED <<call, val>>
    /\ UNCHANGED <<mac, mii>> /\ PhyUnchanged

(* One turn of PhyBusy; after the last one the call gives up. *)
PhyBusy ==
    /\ call.at = "busy"
    /\ \/ /\ call.t > 0
          /\ \E v \in {All, mii} :
                /\ GetMacReg("MIIACC", v)
                /\ IF "MII_BUSY" \in v THEN call' = [call EXCEPT !.t = @ - 1] /\ UNCHANGED val
                   ELSE IF call.op = "WR" THEN PhyReturn({})
                   ELSE call' = [call EXCEPT !.at = "result"] /\ UNCHANGED val
       \/ call.t = 0 /\ Slower /\ PhyReturn(All) /\ UNCHANGED csr
    /\ UNCHANGED <<mac, mii>> /\ PhyUnchanged

PhyResult == /\ call.at = "result"
             /\ \E v \in {All, mac["MIIDATA"]} : GetMacReg("MIIDATA", v) /\ PhyReturn(v)
             /\ UNCHANGED <<mac, mii>> /\ PhyUnchanged

-----------------------------------------------------------------------------
(* lan9118_open. *)

GetPhyReg(reg) == call' = [NoCall EXCEPT !.at = "check", !.reg = reg]
SetPhyReg(reg, v) == call' = [NoCall EXCEPT !.at = "check", !.op = "WR", !.reg = reg, !.val = v]

At(label) == pc = label /\ call.at = "idle"
OpenUnchanged == UNCHANGED <<chip, power, phy>>
Inner == OpenUnchanged /\ UNCHANGED <<csr, mac, mii, slow>>    \* no access of its own

Goto(label) == pc' = label /\ UNCHANGED <<timeout, ret>>

(* open ends at done with the result in RetVal, which is TRUE until a step  *)
(* fails.  The two jumps to done with RetVal TRUE have labels of their own: *)
(* the one of a known PHY, and the one after the else, which a PHY that is  *)
(* not recognised takes.                                                    *)
Leave(label, r) == pc' = label /\ ret' = r /\ UNCHANGED <<timeout, val, call>>
Return(r) == Leave("done", r)
Returned == {"done", "unidentified"}

(* The soft reset, and whether the PHY has to be woken. *)
Reset == /\ At("reset")
         /\ csr' = <<>> /\ mac' = MacDefault /\ mii' = {} /\ phy' = PhyDefault
         /\ pc' = IF power = "sleep" THEN "wake" ELSE "flow"
         /\ timeout' = PhyTimeout
         /\ UNCHANGED <<chip, power, val, ret, call, slow>>

(* Mutant: the wait for PME_READY gives up one turn late. *)
Wake_late ==
    /\ At("wake") /\ Inner
    /\ \/ power = "run" /\ Goto("flow") /\ UNCHANGED <<val, call>>
       \/ /\ power = "sleep" /\ timeout > -2 /\ timeout' = timeout - 1
          /\ UNCHANGED <<pc, ret, val, call>>
       \/ power = "sleep" /\ timeout = -2 /\ Return("FALSE")

Wake == /\ At("wake") /\ Inner
        /\ \/ power = "run" /\ Goto("flow") /\ UNCHANGED <<val, call>>
           \/ /\ power = "sleep" /\ timeout > 0 /\ timeout' = timeout - 1
              /\ UNCHANGED <<pc, ret, val, call>>
           \/ power = "sleep" /\ timeout = 0 /\ Return("FALSE")

(* A step of open that writes a MAC register and goes on. *)
Write(label, Reg, Value, next) ==
    /\ At(label) /\ SetMacReg(Reg, Value) /\ Goto(next)
    /\ OpenUnchanged /\ UNCHANGED <<val, call>>

MacSetup == \/ Write("flow", "FLOW", {"PAUSE"}, "addrh")
            \/ Write("addrh", "ADDRH", {"ADDR"}, "addrl")
            \/ Write("addrl", "ADDRL", {"ADDR"}, "getTx")

GetCR(label, next) ==
    /\ At(label) /\ Goto(next)
    /\ \E v \in {All, mac["CR"]} : GetMacReg("CR", v) /\ val' = v
    /\ OpenUnchanged /\ UNCHANGED <<call, mac, mii>>

(* MAC_CR is read, changed and written twice. *)
MacEnable ==
    \/ GetCR("getTx", "setTx")
    \/ Write("setTx", "CR", (val \cup {"TXEN", "HBDIS"}) \ {"PRMS", "BCAST"}, "getRx")
    \/ GetCR("getRx", "setRx")
    \/ /\ At("setRx") /\ SetMacReg("CR", val \cup {"RXEN"}) /\ Goto("id1")
       /\ GetPhyReg("ID1") /\ OpenUnchanged /\ UNCHANGED val

(* The two pairs of ID registers; a PHY that matches neither pair is left   *)
(* alone, and open reports TRUE.                                            *)
Identify ==
    /\ Inner /\ UNCHANGED val
    /\ \/ At("id1") /\ val = {"id1"} /\ GetPhyReg("ID2") /\ Goto("id2")
       \/ At("id1") /\ val # {"id1"} /\ GetPhyReg("ID1") /\ Goto("id1b")
       \/ At("id2") /\ val = {"9118"} /\ SetPhyReg("BCR", {"RST"}) /\ Goto("rst")
       \/ At("id2") /\ val # {"9118"} /\ GetPhyReg("ID1") /\ Goto("id1b")
       \/ At("id1b") /\ val = {"id1"} /\ GetPhyReg("ID2") /\ Goto("id2b")
       \/ At("id1b") /\ val # {"id1"} /\ Leave("unidentified", "TRUE")
       \/ At("id2b") /\ val = {"9218"} /\ SetPhyReg("BCR", {"RST"}) /\ Goto("rst")
       \/ At("id2b") /\ val # {"9218"} /\ Leave("unidentified", "TRUE")

(* The loop that waits for the end of the PHY's reset: it leaves timeout at *)
(* -1 when it gives up and at 0 when the last turn found the reset over,    *)
(* and the test after it takes 0 for a failure.                             *)
ResetPhy ==
    /\ Inner /\ UNCHANGED val
    /\ \/ /\ At("rst") /\ timeout' = PhyTimeout - 1 /\ GetPhyReg("BCR")
          /\ pc' = "rstWait" /\ UNCHANGED ret
       \/ /\ At("rstWait") /\ "RST" \in val /\ timeout > 0 /\ timeout' = timeout - 1
          /\ GetPhyReg("BCR") /\ UNCHANGED <<pc, ret>>
       \/ /\ At("rstWait") /\ "RST" \in val /\ timeout = 0 /\ timeout' = -1
          /\ GetPhyReg("ANAR") /\ pc' = "anar" /\ UNCHANGED ret
       \/ At("rstWait") /\ "RST" \notin val /\ timeout # 0 /\ GetPhyReg("ANAR") /\ Goto("anar")
       \/ At("rstWait") /\ "RST" \notin val /\ timeout = 0 /\ Return("FALSE")

(* Mutant: the negotiation is not started anew. *)
Advertise_noRestart ==
    /\ Inner /\ UNCHANGED val
    /\ \/ At("anar") /\ SetPhyReg("ANAR", val \cup {"PAUSE", "HALF", "FULL"}) /\ Goto("anarSet")
       \/ At("anarSet") /\ GetPhyReg("BCR") /\ Goto("bcr")
       \/ At("bcr") /\ SetPhyReg("BCR", val \cup {"SS", "DUPLEX"}) /\ Goto("bcrSet")
       \/ At("bcrSet") /\ GetPhyReg("BCR") /\ Goto("bcr2")
       \/ At("bcr2") /\ SetPhyReg("BCR", val \cup {"ANE"}) /\ Goto("started")
       \/ /\ At("started") /\ timeout' = AnTimeout - 1 /\ GetPhyReg("BSR")
          /\ pc' = "anWait" /\ UNCHANGED ret

(* What is advertised, then speed and duplex, then the negotiation. *)
Advertise ==
    /\ Inner /\ UNCHANGED val
    /\ \/ At("anar") /\ SetPhyReg("ANAR", val \cup {"PAUSE", "HALF", "FULL"}) /\ Goto("anarSet")
       \/ At("anarSet") /\ GetPhyReg("BCR") /\ Goto("bcr")
       \/ At("bcr") /\ SetPhyReg("BCR", val \cup {"SS", "DUPLEX"}) /\ Goto("bcrSet")
       \/ At("bcrSet") /\ GetPhyReg("BCR") /\ Goto("bcr2")
       \/ At("bcr2") /\ SetPhyReg("BCR", val \cup {"ANE", "RSTAN"}) /\ Goto("started")
       \/ /\ At("started") /\ timeout' = AnTimeout - 1 /\ GetPhyReg("BSR")
          /\ pc' = "anWait" /\ UNCHANGED ret

(* Mutant: what the loop read last is taken for the result. *)
Negotiated_once ==
    /\ Inner /\ UNCHANGED val
    /\ \/ /\ At("anWait") /\ "ANC" \notin val /\ timeout > 0 /\ timeout' = timeout - 1
          /\ GetPhyReg("BSR") /\ UNCHANGED <<pc, ret>>
       \/ At("anWait") /\ "ANC" \in val /\ GetPhyReg("PHYSCSR") /\ Goto("speed")
       \/ At("anWait") /\ "ANC" \notin val /\ timeout = 0 /\ Return("FALSE")

(* Completion is waited for, then tested again; the link has its own test. *)
Negotiated ==
    /\ Inner /\ UNCHANGED val
    /\ \/ /\ At("anWait") /\ "ANC" \notin val /\ timeout > 0 /\ timeout' = timeout - 1
          /\ GetPhyReg("BSR") /\ UNCHANGED <<pc, ret>>
       \/ At("anWait") /\ ("ANC" \in val \/ timeout = 0) /\ GetPhyReg("BSR") /\ Goto("anc")
       \/ At("anc") /\ "ANC" \in val /\ GetPhyReg("BSR") /\ Goto("link")
       \/ At("anc") /\ "ANC" \notin val /\ Return("FALSE")
       \/ At("link") /\ "LINK" \in val /\ GetPhyReg("PHYSCSR") /\ Goto("speed")
       \/ At("link") /\ "LINK" \notin val /\ Return("FALSE")

(* Full duplex when both ends can do it; own holds what this end can do. *)
Duplex ==
    \/ /\ Inner /\ UNCHANGED val
       /\ \/ At("speed") /\ GetPhyReg("ANAR") /\ Goto("own")
          \/ At("own") /\ GetPhyReg("ANLPAR")
             /\ Goto(IF "FULL" \in val THEN "ownFull" ELSE "ownHalf")
          \/ At("ownHalf") /\ Return("TRUE")
          \/ At("ownFull") /\ "FULL" \notin val /\ Return("TRUE")
    \/ /\ At("ownFull") /\ "FULL" \in val /\ pc' = "full" /\ UNCHANGED <<timeout, ret, call>>
       /\ \E v \in {All, mac["CR"]} : GetMacReg("CR", v) /\ val' = v
       /\ OpenUnchanged /\ UNCHANGED <<mac, mii>>
    \/ /\ At("full") /\ SetMacReg("CR", val \cup {"FDPX"})
       /\ Return("TRUE") /\ OpenUnchanged

Open == \/ Reset \/ Wake \/ MacSetup \/ MacEnable \/ Identify \/ ResetPhy
        \/ Advertise \/ Negotiated \/ Duplex
        \/ PhyCheck \/ PhyData \/ PhyCommand \/ PhyBusy \/ PhyResult
Hw == HwWake \/ HwMac \/ HwMii \/ HwReset \/ HwNegotiate

Next == Open \/ Hw

Spec == Init /\ [][Next]_vars

(* The processor runs on; nothing is assumed of the chip. *)
FairSpec == Spec /\ WF_vars(Open)

-----------------------------------------------------------------------------
(* Properties. *)

(* The variables keep their ranges: no loop counts below its limit, except  *)
(* the wait for the PHY's reset, which leaves -1; the registers hold bits   *)
(* and MIIACC a command; open has a result exactly when it has returned.    *)
TypeOK ==
    /\ power \in {"sleep", "run"} /\ slow \in 0..MaxSlow
    /\ mac \in [MacRegs -> SUBSET All] /\ mii \in {{}} \cup MiiCommands
    /\ phy.bcr \subseteq All /\ phy.anar \subseteq All
    /\ timeout \in -1..(PhyTimeout + AnTimeout) /\ call.t \in 0..PhyTimeout
    /\ ret \in {"none", "TRUE", "FALSE"} /\ (ret = "none" <=> pc \notin Returned)

(* When no access timed out and the PHY is one of the two known ones, TRUE  *)
(* means that it was identified, that the link has been negotiated with     *)
(* what the PHY advertises now, that transmitter and receiver are on and    *)
(* promiscuous mode is off, that the MAC's duplex is the one negotiated,    *)
(* and that address and flow control are set: over two read-modify-write    *)
(* rounds of MAC_CR, a PHY that negotiates by itself before it is told to,  *)
(* and a reset of the PHY that may outlast the wait.                        *)
OpenRight ==
    ret = "TRUE" /\ slow = 0 /\ id2 # "other" =>
        /\ pc = "done" /\ phy.anc /\ phy.neg = phy.anar
        /\ mac["CR"] = {"TXEN", "RXEN", "HBDIS"} \cup (IF "FULL" \in partner THEN {"FDPX"} ELSE {})
        /\ mac["FLOW"] = {"PAUSE"} /\ mac["ADDRH"] = {"ADDR"} /\ mac["ADDRL"] = {"ADDR"}

(* A timed-out GetPhyReg returns 0xffff, in which every bit that open waits *)
(* for is set.  One timeout after the PHY was identified, wherever it       *)
(* falls, does not make open report a link that has not been negotiated,    *)
(* because completion and link are read once more after the wait.  The one  *)
(* other way to TRUE is an ID read that timed out, or another PHY: open     *)
(* then reports success although nothing was negotiated.                    *)
OneSlow == ret = "TRUE" /\ slow <= 1 => phy.anc \/ pc = "unidentified"

(* open returns, however slow the chip is, and when a command never ends.   *)
OpenReturns == <>(pc \in Returned)
=============================================================================
