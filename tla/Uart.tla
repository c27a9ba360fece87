-------------------------------- MODULE Uart --------------------------------
(***************************************************************************)
(* The interrupt-driven serial driver of camera/uart.c and camera/isr.c:   *)
(* one port, its two ring buffers, the main program calling the driver one *)
(* memory access at a time, the interrupt routine that runs between any    *)
(* two of those accesses, and the UART itself (external), which moves      *)
(* bytes at its own pace.  UART0 and UART1 are two copies of this code.    *)
(***************************************************************************)
EXTENDS Integers, Sequences

CONSTANTS
    TxByte,       \* what the program sends (never 0: a string's terminator)
    RxByte,       \* what arrives on the line
    TX_SIZE,      \* UARTn_TX_BUFFER_SIZE
    RX_SIZE,      \* UARTn_RX_BUFFER_SIZE
    FifoDepth,    \* bytes the hardware FIFOs hold when they are enabled
    MaxWrite,     \* length of the longest string passed to one call
    Calls,        \* the driver functions the program calls
    ReArm,        \* enabling ETBEI with an empty THR raises the THRE interrupt
    SplitExtract  \* the compiler keeps the two stores of uart0Getch apart

Functions == {"puts", "write", "getch", "txempty", "flush", "init"}

ASSUME SizeAssumption ==
    /\ TX_SIZE \in Nat /\ TX_SIZE >= 2
    /\ RX_SIZE \in Nat /\ RX_SIZE >= 2
    /\ FifoDepth \in Nat \ {0}
    /\ MaxWrite \in Nat
ASSUME CallAssumption ==
    Calls \subseteq Functions /\ ReArm \in BOOLEAN /\ SplitExtract \in BOOLEAN

VARIABLES
    tx_buffer, tx_insert_idx, tx_extract_idx, tx_running,
    rx_buffer, rx_insert_idx, rx_extract_idx,
    pc,      \* the program: "idle" between calls, else the access it makes next
    call,    \* the function it is in
    todo,    \* the bytes the call has still to pass to uart0Putch
    ret,     \* what the last call returned: 0 for done, or -1, -2
    got,     \* <<b>>: the byte uart0Getch returned last
    isr,     \* the interrupt routine: "idle" or the point it has reached
    etbei,   \* the THRE interrupt is enabled in UART0_IER
    thr,     \* transmit holding register or FIFO
    tsr,     \* transmit shift register: <<>> or the byte on the line
    thri,    \* the latch behind the THRE interrupt
    line,    \* <<b>>: the byte that left on the line last
    rbr,     \* receive buffer register or FIFO
    rls,     \* a receive line status error (an overrun) is flagged
    fifo     \* FCR bit 0: the FIFOs are enabled

txVars == <<tx_buffer, tx_insert_idx, tx_extract_idx, tx_running>>
rxVars == <<rx_buffer, rx_insert_idx, rx_extract_idx>>
progVars == <<pc, call, todo, ret, got>>
txHw == <<etbei, thr, tsr, thri, line>>
rxHw == <<rbr, rls>>
vars == <<txVars, rxVars, progVars, isr, txHw, rxHw, fifo>>

Byte == TxByte \cup RxByte \cup {0}
Strings == UNION {[1..n -> TxByte] : n \in 1..MaxWrite}
PC == {"idle", "check", "mask", "test", "queue", "direct", "unmask",
       "extract", "wrap", "init",
       "fcrOn", "fcrOff", "flushMask", "flushIdx"}
ISR == {"idle", "loop", "rda", "rdr", "thre"}

-----------------------------------------------------------------------------
(* The ring buffers, as the bytes they hold, oldest first.  The extract     *)
(* index of the receive buffer is RX_SIZE for a moment when uart0Getch's    *)
(* two stores are kept apart.                                               *)

Held(buf, ext, n, size) == [i \in 1..n |-> buf[(ext + i - 1) % size]]

TxQueue == Held(tx_buffer, tx_extract_idx,
                (tx_insert_idx - tx_extract_idx) % TX_SIZE, TX_SIZE)
RxQueue == Held(rx_buffer, rx_extract_idx,
                (rx_insert_idx - rx_extract_idx) % RX_SIZE, RX_SIZE)

(* Every byte accepted for transmission that is not yet on the line. *)
Due == tsr \o thr \o TxQueue

(* Mutant: the slot that is never filled counts as room. *)
uartSpace_offByOne == LET space == tx_extract_idx - tx_insert_idx
                      IN  IF space <= 0 THEN space + TX_SIZE ELSE space

uartSpace == LET space == tx_extract_idx - tx_insert_idx
             IN  (IF space <= 0 THEN space + TX_SIZE ELSE space) - 1

(* The queues after uart0Init, which is also how the system starts. *)
Init == /\ tx_buffer = [i \in 0..TX_SIZE - 1 |-> 0]
        /\ rx_buffer = [i \in 0..RX_SIZE - 1 |-> 0]
        /\ tx_insert_idx = 0 /\ tx_extract_idx = 0 /\ tx_running = 0
        /\ rx_insert_idx = 0 /\ rx_extract_idx = 0
        /\ pc = "idle" /\ call = "init" /\ todo = <<>> /\ ret = 0 /\ got = <<>>
        /\ isr = "idle"
        /\ etbei = FALSE /\ thr = <<>> /\ tsr = <<>> /\ thri = FALSE
        /\ line = <<>> /\ rbr = <<>> /\ rls = FALSE
        /\ fifo \in BOOLEAN

-----------------------------------------------------------------------------
(* The hardware, as the driver uses it. *)

Capacity == IF fifo THEN FifoDepth ELSE 1

ThrePending == etbei /\ thri
RxPending == rls \/ rbr # <<>>
IntPending == RxPending \/ ThrePending

(* UARTn_THR = b: a full register is overwritten. *)
WriteTHR(b) == /\ thr' = IF Len(thr) < Capacity THEN Append(thr, b)
                                                ELSE [thr EXCEPT ![Len(thr)] = b]
               /\ thri' = FALSE

(* THR to the shift register; emptying THR raises the THRE interrupt. *)
HwLoad == /\ thr # <<>> /\ tsr = <<>>
          /\ tsr' = <<Head(thr)>>
          /\ thr' = Tail(thr)
          /\ thri' = (thri \/ Len(thr) = 1)
          /\ UNCHANGED <<txVars, rxVars, progVars, isr, etbei, line, rxHw, fifo>>

HwShift == /\ tsr # <<>>
           /\ line' = tsr
           /\ tsr' = <<>>
           /\ UNCHANGED <<txVars, rxVars, progVars, isr, etbei, thr, thri, rxHw, fifo>>

(* A byte arrives.  On overrun the FIFO drops it; the single register is    *)
(* overwritten by it.                                                       *)
HwReceive(b) ==
    /\ IF Len(rbr) < Capacity
       THEN rbr' = Append(rbr, b) /\ UNCHANGED rls
       ELSE rbr' = (IF fifo THEN rbr ELSE [rbr EXCEPT ![Len(rbr)] = b]) /\ rls' = TRUE
    /\ UNCHANGED <<txVars, rxVars, progVars, isr, txHw, fifo>>

(* Changing the FIFO enable bit empties both FIFOs. *)
SetFifo(on) == /\ fifo' = on
               /\ rbr' = IF on = fifo THEN rbr ELSE <<>>

-----------------------------------------------------------------------------
(* The program's calls.  It advances only while no interrupt is served.     *)

Enter(f, at) == pc = "idle" /\ isr = "idle" /\ f \in Calls
                /\ call' = f /\ pc' = at
At(p) == pc = p /\ isr = "idle"
Goto(p) == pc' = p /\ UNCHANGED call

uartPuts(s) == /\ Enter("puts", "check")
               /\ todo' = s
               /\ UNCHANGED <<txVars, rxVars, ret, got, isr, txHw, rxHw, fifo>>

(* A string that does not fit is refused before any of it is queued. *)
uartWrite(s) ==
    /\ IF Len(s) > uartSpace
       THEN Enter("write", "idle") /\ ret' = -1 /\ UNCHANGED todo
       ELSE Enter("write", "check") /\ todo' = s /\ UNCHANGED ret
    /\ UNCHANGED <<txVars, rxVars, got, isr, txHw, rxHw, fifo>>

(* Mutant: the insert index does not wrap. *)
NextInsert_unwrapped == tx_insert_idx + 1

NextInsert == (tx_insert_idx + 1) % TX_SIZE

(* uart0Putch(Head(todo)), up to each access the interrupt routine can see. *)
PutchFull == /\ At("check")
             /\ NextInsert = tx_extract_idx
             /\ ret' = IF call = "write" THEN -2 ELSE -1
             /\ todo' = <<>>
             /\ Goto("idle")
             /\ UNCHANGED <<txVars, rxVars, got, isr, txHw, rxHw, fifo>>

PutchRoom == /\ At("check")
             /\ NextInsert # tx_extract_idx
             /\ Goto("mask")
             /\ UNCHANGED <<txVars, rxVars, todo, ret, got, isr, txHw, rxHw, fifo>>

(* Mutant: the THRE interrupt stays enabled while the queue is changed. *)
PutchMask_dropped ==
    /\ At("mask")
    /\ Goto("test")
    /\ UNCHANGED <<txVars, rxVars, todo, ret, got, isr, txHw, rxHw, fifo>>

PutchMask == /\ At("mask")
             /\ etbei' = FALSE
             /\ Goto("test")
             /\ UNCHANGED <<txVars, rxVars, todo, ret, got, isr,
                            thr, tsr, thri, line, rxHw, fifo>>

(* Mutant: every byte goes straight to THR. *)
PutchTest_direct ==
    /\ At("test")
    /\ Goto("direct")
    /\ UNCHANGED <<txVars, rxVars, todo, ret, got, isr, txHw, rxHw, fifo>>

PutchTest == /\ At("test")
             /\ Goto(IF tx_running = 1 THEN "queue" ELSE "direct")
             /\ UNCHANGED <<txVars, rxVars, todo, ret, got, isr, txHw, rxHw, fifo>>

PutchQueue == /\ At("queue")
              /\ tx_buffer' = [tx_buffer EXCEPT ![tx_insert_idx] = Head(todo)]
              /\ tx_insert_idx' = NextInsert
              /\ todo' = Tail(todo)
              /\ Goto("unmask")
              /\ UNCHANGED <<tx_extract_idx, tx_running, rxVars, ret, got, isr,
                             txHw, rxHw, fifo>>

PutchDirect == /\ At("direct")
               /\ tx_running' = 1
               /\ WriteTHR(Head(todo))
               /\ todo' = Tail(todo)
               /\ Goto("unmask")
               /\ UNCHANGED <<tx_buffer, tx_insert_idx, tx_extract_idx, rxVars,
                              ret, got, isr, etbei, tsr, line, rxHw, fifo>>

(* Mutant: the interrupt is not enabled again. *)
PutchUnmask_dropped ==
    /\ At("unmask")
    /\ IF todo = <<>> THEN Goto("idle") /\ ret' = 0
                      ELSE Goto("check") /\ UNCHANGED ret
    /\ UNCHANGED <<txVars, rxVars, todo, got, isr, txHw, rxHw, fifo>>

PutchUnmask ==
    /\ At("unmask")
    /\ etbei' = TRUE
    /\ thri' = (thri \/ (ReArm /\ thr = <<>>))
    /\ IF todo = <<>> THEN Goto("idle") /\ ret' = 0
                      ELSE Goto("check") /\ UNCHANGED ret
    /\ UNCHANGED <<txVars, rxVars, todo, got, isr, thr, tsr, line, rxHw, fifo>>

(* Reading LSR also clears its error flags. *)
uartTxEmpty == /\ Enter("txempty", "idle")
               /\ ret' = IF thr = <<>> /\ tsr = <<>> THEN 1 ELSE 0
               /\ rls' = FALSE
               /\ UNCHANGED <<txVars, rxVars, todo, got, isr, txHw, rbr, fifo>>

(* uart0TxFlush.  FCR is write-only and shares its address with IIR, so     *)
(* "FCR |=" reads IIR: that clears a THRE interrupt it reports, and the     *)
(* FIFO enable bit written back is IIR's "no interrupt pending".            *)
uartTxFlush == /\ Enter("flush", IF IntPending THEN "fcrOff" ELSE "fcrOn")
               /\ thri' = (thri /\ ~(ThrePending /\ ~RxPending))
               /\ UNCHANGED <<txVars, rxVars, todo, ret, got, isr,
                              etbei, thr, tsr, line, rxHw, fifo>>

(* The reset bit acts only while the FIFOs are, or are being, switched. *)
FlushFCR == /\ pc \in {"fcrOn", "fcrOff"} /\ isr = "idle"
            /\ SetFifo(pc = "fcrOn")
            /\ thr' = IF pc = "fcrOff" /\ ~fifo THEN thr ELSE <<>>
            /\ thri' = (thri \/ (thr # <<>> /\ thr' = <<>>))
            /\ Goto("flushMask")
            /\ UNCHANGED <<txVars, rxVars, todo, ret, got, isr, etbei, tsr, line, rls>>

FlushMask == /\ At("flushMask")
             /\ etbei' = FALSE
             /\ Goto("flushIdx")
             /\ UNCHANGED <<txVars, rxVars, todo, ret, got, isr,
                            thr, tsr, thri, line, rxHw, fifo>>

(* tx_running keeps its value. *)
FlushIdx == /\ At("flushIdx")
            /\ tx_insert_idx' = 0 /\ tx_extract_idx' = 0
            /\ ret' = 0
            /\ Goto("idle")
            /\ UNCHANGED <<tx_buffer, tx_running, rxVars, todo, got, isr,
                           txHw, rxHw, fifo>>

uartGetch == /\ IF rx_insert_idx = rx_extract_idx
                THEN Enter("getch", "idle") /\ ret' = -1
                ELSE Enter("getch", "extract") /\ UNCHANGED ret
             /\ UNCHANGED <<txVars, rxVars, todo, got, isr, txHw, rxHw, fifo>>

(* Mutant: the extract index is not limited to the buffer. *)
GetchExtract_unlimited ==
    /\ At("extract")
    /\ got' = <<rx_buffer[rx_extract_idx]>>
    /\ rx_extract_idx' = rx_extract_idx + 1 /\ Goto("idle")
    /\ ret' = 0
    /\ UNCHANGED <<txVars, rx_buffer, rx_insert_idx, todo, isr, txHw, rxHw, fifo>>

(* ch = buffer[extract_idx++]; extract_idx %= SIZE: if the compiler makes   *)
(* one store of the two, GetchWrap only returns.                            *)
GetchExtract ==
    /\ At("extract")
    /\ got' = <<rx_buffer[rx_extract_idx]>>
    /\ rx_extract_idx' = IF SplitExtract THEN rx_extract_idx + 1
                         ELSE (rx_extract_idx + 1) % RX_SIZE
    /\ Goto("wrap")
    /\ ret' = 0
    /\ UNCHANGED <<txVars, rx_buffer, rx_insert_idx, todo, isr, txHw, rxHw, fifo>>

GetchWrap == /\ At("wrap")
             /\ rx_extract_idx' = rx_extract_idx % RX_SIZE
             /\ Goto("idle")
             /\ UNCHANGED <<txVars, rx_buffer, rx_insert_idx, todo, ret, got, isr,
                            txHw, rxHw, fifo>>

(* uart0Init, which main.c calls only once the transmitter has drained: its *)
(* first store disables every interrupt of the port, its last enables       *)
(* those of the receiver.                                                   *)
uartInit == /\ Due = <<>>
            /\ Enter("init", "init")
            /\ etbei' = FALSE
            /\ UNCHANGED <<txVars, rxVars, todo, ret, got, isr,
                           thr, tsr, thri, line, rxHw, fifo>>

InitBody(fmode) ==
    /\ At("init")
    /\ fifo' = fmode
    /\ rbr' = IF fmode = fifo /\ rbr # <<>> THEN Tail(rbr) ELSE <<>>
    /\ rls' = FALSE
    /\ tx_insert_idx' = 0 /\ tx_extract_idx' = 0 /\ tx_running' = 0
    /\ rx_insert_idx' = 0 /\ rx_extract_idx' = 0
    /\ ret' = 0
    /\ Goto("idle")
    /\ UNCHANGED <<tx_buffer, rx_buffer, todo, got, isr, txHw>>

-----------------------------------------------------------------------------
(* uart0ISR: what each turn of its loop does is chosen by IIR, the receive  *)
(* line status first, then received data, then THRE.                        *)

IsrGoto(p) == isr' = p /\ UNCHANGED progVars

IsrEnter == /\ isr = "idle" /\ pc # "init"
            /\ IntPending
            /\ IsrGoto("loop")
            /\ UNCHANGED <<txVars, rxVars, txHw, rxHw, fifo>>

IsrRls == /\ isr = "loop" /\ rls
          /\ rls' = FALSE
          /\ IsrGoto("loop")
          /\ UNCHANGED <<txVars, rxVars, txHw, rbr, fifo>>

IsrRda == /\ isr = "loop" /\ ~rls /\ rbr # <<>>
          /\ IsrGoto("rda")
          /\ UNCHANGED <<txVars, rxVars, txHw, rxHw, fifo>>

RxNextInsert == (rx_insert_idx + 1) % RX_SIZE

(* Mutant: a byte is kept whether or not there is room. *)
IsrStore_noRoomCheck ==
    /\ isr = "rda"
    /\ rx_buffer' = [rx_buffer EXCEPT ![rx_insert_idx] = Head(rbr)]
    /\ rx_insert_idx' = RxNextInsert
    /\ rbr' = Tail(rbr)
    /\ IsrGoto("rdr")
    /\ UNCHANGED <<txVars, rx_extract_idx, txHw, rls, fifo>>

(* The byte is stored in the spare slot, and kept if there is room. *)
IsrStore == /\ isr = "rda"
            /\ rx_buffer' = [rx_buffer EXCEPT ![rx_insert_idx] = Head(rbr)]
            /\ rx_insert_idx' = IF RxNextInsert # rx_extract_idx
                                THEN RxNextInsert ELSE rx_insert_idx
            /\ rbr' = Tail(rbr)
            /\ IsrGoto("rdr")
            /\ UNCHANGED <<txVars, rx_extract_idx, txHw, rls, fifo>>

IsrMore == /\ isr = "rdr"
           /\ rls' = FALSE
           /\ IsrGoto(IF rbr # <<>> THEN "rda" ELSE "loop")
           /\ UNCHANGED <<txVars, rxVars, txHw, rbr, fifo>>

IsrThre == /\ isr = "loop" /\ ~RxPending /\ ThrePending
           /\ thri' = FALSE
           /\ IsrGoto("thre")
           /\ UNCHANGED <<txVars, rxVars, etbei, thr, tsr, line, rxHw, fifo>>

(* while (LSR & THRE): refill, or stop running when the queue is empty. *)
IsrRefill == /\ isr = "thre" /\ thr = <<>>
             /\ tx_insert_idx # tx_extract_idx
             /\ WriteTHR(tx_buffer[tx_extract_idx])
             /\ tx_extract_idx' = (tx_extract_idx + 1) % TX_SIZE
             /\ rls' = FALSE
             /\ IsrGoto("thre")
             /\ UNCHANGED <<tx_buffer, tx_insert_idx, tx_running, rxVars,
                            etbei, tsr, line, rbr, fifo>>

IsrStop == /\ isr = "thre" /\ thr = <<>>
           /\ tx_insert_idx = tx_extract_idx
           /\ tx_running' = 0
           /\ rls' = FALSE
           /\ IsrGoto("loop")
           /\ UNCHANGED <<tx_buffer, tx_insert_idx, tx_extract_idx, rxVars,
                          txHw, rbr, fifo>>

IsrBusy == /\ isr = "thre" /\ thr # <<>>
           /\ rls' = FALSE
           /\ IsrGoto("loop")
           /\ UNCHANGED <<txVars, rxVars, txHw, rbr, fifo>>

IsrExit == /\ isr = "loop" /\ ~IntPending
           /\ IsrGoto("idle")
           /\ UNCHANGED <<txVars, rxVars, txHw, rxHw, fifo>>

-----------------------------------------------------------------------------
Call == \/ uartTxEmpty \/ uartTxFlush \/ uartGetch \/ uartInit
        \/ \E s \in Strings : uartPuts(s) \/ uartWrite(s)

(* The rest of a call that has begun. *)
Continue == \/ PutchFull \/ PutchRoom \/ PutchMask
            \/ PutchTest \/ PutchQueue \/ PutchDirect \/ PutchUnmask
            \/ FlushFCR \/ FlushMask \/ FlushIdx
            \/ GetchExtract \/ GetchWrap
            \/ \E fmode \in BOOLEAN : InitBody(fmode)

Interrupt == \/ IsrEnter \/ IsrRls \/ IsrRda \/ IsrStore \/ IsrMore
             \/ IsrThre \/ IsrRefill \/ IsrStop \/ IsrBusy \/ IsrExit

Transmit == HwLoad \/ HwShift
Receive == \E b \in RxByte : HwReceive(b)

Next == Call \/ Continue \/ Interrupt \/ Transmit \/ Receive

Spec == Init /\ [][Next]_vars

(* The processor runs the routine and the calls it has begun, and the UART  *)
(* shifts out what it holds; nobody has to call the driver or send to it.   *)
FairSpec == Spec /\ SF_vars(Continue) /\ WF_vars(Interrupt)
                 /\ SF_vars(HwLoad) /\ WF_vars(HwShift)

-----------------------------------------------------------------------------
(* Properties. *)

(* The values the driver's variables, the program and the UART can have. *)
TxTypeOK == /\ tx_buffer \in [0..TX_SIZE - 1 -> Byte]
            /\ tx_insert_idx \in 0..TX_SIZE - 1
            /\ tx_extract_idx \in 0..TX_SIZE - 1
            /\ tx_running \in {0, 1}
RxTypeOK == /\ rx_buffer \in [0..RX_SIZE - 1 -> Byte]
            /\ rx_insert_idx \in 0..RX_SIZE - 1
            /\ rx_extract_idx \in 0..RX_SIZE
            /\ rx_extract_idx = RX_SIZE => pc = "wrap"
ProgTypeOK == /\ pc \in PC /\ call \in Functions /\ isr \in ISR
              /\ todo \in Seq(TxByte) /\ ret \in {0, 1, -1, -2}
HwTypeOK == /\ thr \in Seq(Byte) /\ tsr \in Seq(Byte) /\ rbr \in Seq(Byte)
            /\ line \in Seq(Byte) /\ got \in Seq(Byte)
FlagTypeOK == /\ etbei \in BOOLEAN /\ thri \in BOOLEAN
              /\ rls \in BOOLEAN /\ fifo \in BOOLEAN
TypeOK == TxTypeOK /\ RxTypeOK /\ ProgTypeOK /\ HwTypeOK /\ FlagTypeOK

TxResetting == pc \in {"init", "fcrOn", "fcrOff", "flushMask", "flushIdx"}
Tx == INSTANCE ByteFifo WITH src <- todo, q <- Due, out <- line,
                             full <- NextInsert = tx_extract_idx,
                             resetting <- TxResetting
RxResetting == pc \in {"init", "fcrOn", "fcrOff"}
Rx == INSTANCE ByteFifo WITH src <- rbr, q <- RxQueue, out <- got,
                             full <- RxNextInsert = rx_extract_idx,
                             resetting <- RxResetting

(* The caller's bytes reach the line in order, each once; one is refused    *)
(* only when the queue is full, and only uart0TxFlush and uart0Init discard *)
(* any that were accepted: whatever the interleaving of uart0Putch's direct *)
(* write to THR, its queueing and the interrupt routine's refills.          *)
TxRefines == Tx!Spec

(* As long as accepted bytes are left, another one reaches the line: no     *)
(* THRE interrupt the driver waits for is lost.                             *)
TxLive == Tx!Live

(* The bytes the interrupt routine reads from RBR are returned by           *)
(* uart0Getch in order, each once; the routine drops one only when the      *)
(* queue is full, and only uart0Init discards any that were kept.           *)
RxRefines == Rx!Spec

(* uart0Write queues all of its string or none of it: once uart0Space has   *)
(* said there is room, no uart0Putch of the same call fails (the -2).       *)
WriteNeverShort == ret # -2

(* THR holds at most the one byte just written to it, so a second write     *)
(* never overwrites it when the FIFOs are off.                              *)
ThrNeverOverwritten == Len(thr) <= 1

(* Between calls, with the interrupt routine not running, a non-empty queue *)
(* always has an interrupt pending or on its way that will serve it.        *)
NoLostWakeup ==
    pc = "idle" /\ isr = "idle" /\ tx_insert_idx # tx_extract_idx
        => tx_running = 1 /\ etbei /\ (thri \/ thr # <<>>)

InPutch == pc \in {"check", "mask", "test", "queue", "direct"}

(* What the code relies on at a program point: uart0Putch has a byte to     *)
(* send and no other call has, the routine reads RBR only when it holds a   *)
(* byte, and no interrupt of the port is served while uart0Init rewrites    *)
(* the queues.                                                              *)
CallInv == /\ InPutch => todo # <<>>
           /\ ~InPutch /\ pc # "unmask" => todo = <<>>
           /\ isr = "rda" => rbr # <<>>
           /\ pc = "init" => isr = "idle"

(* Why the transmit side works.  While the program looks at tx_running and  *)
(* acts on it, the THRE interrupt is masked and the interrupt routine stays *)
(* out of its THRE branch; tx_running is 0 only when nothing is queued or   *)
(* in THR; the room uart0Putch found stays; a string uart0Write admitted    *)
(* still fits.                                                              *)
TxInv ==
    /\ ThrNeverOverwritten /\ Len(tsr) <= 1
    /\ tx_running = 0 => thr = <<>> /\ tx_insert_idx = tx_extract_idx
    /\ pc \in {"test", "queue", "direct", "unmask", "flushIdx", "init"} => ~etbei
    /\ isr = "thre" => etbei
    /\ pc = "init" => thr = <<>>
    /\ pc = "queue" => tx_running = 1
    /\ pc = "direct" => tx_running = 0
    /\ InPutch /\ pc # "check" => NextInsert # tx_extract_idx
    /\ call = "write" /\ (InPutch \/ pc = "unmask") => Len(todo) <= uartSpace
    /\ WriteNeverShort

(* Why the receive side works when uart0Getch's update of the extract index *)
(* is one store: the index stays in the buffer, and so does the byte found. *)
RxInv == /\ rx_extract_idx # RX_SIZE
         /\ pc = "extract" => rx_insert_idx # rx_extract_idx
=============================================================================
