----------------------------- MODULE UartProofs -----------------------------
(***************************************************************************)
(* Proofs about Uart for every buffer size, FIFO depth and alphabet.       *)
(***************************************************************************)
EXTENDS Uart, SequenceTheorems, TLAPS

(* The index arithmetic of the ring buffers. *)
LEMMA ModSmall == ASSUME NEW n \in Nat \ {0}, NEW k \in 0..n - 1 PROVE k % n = k
OBVIOUS

(* One turn past the end of a buffer comes back to its start. *)
LEMMA ModWrap ==
    ASSUME NEW n \in Nat \ {0}, NEW k \in n..2 * n - 1 PROVE k % n = k - n
OBVIOUS

(* A difference of indices below zero wraps to the end of the buffer. *)
LEMMA ModBelow ==
    ASSUME NEW n \in Nat \ {0}, NEW k \in Int, -n <= k, k < 0 PROVE k % n = k + n
OBVIOUS

(* A remainder is an index of the buffer. *)
LEMMA ModRange == ASSUME NEW n \in Nat \ {0}, NEW k \in Int PROVE k % n \in 0..n - 1
OBVIOUS

(* The non-empty strings a caller passes. *)
LEMMA StringsAreSequences == \A s \in Strings : s \in Seq(TxByte) /\ s # <<>>
<1> SUFFICES ASSUME NEW n \in 1..MaxWrite, NEW s \in [1..n -> TxByte]
             PROVE  s \in Seq(TxByte) /\ s # <<>>
    BY DEF Strings
<1>1. n \in Nat /\ n # 0
    BY SizeAssumption
<1>2. s \in Seq(TxByte) /\ Len(s) = n
    BY <1>1
<1> QED BY <1>1, <1>2

-----------------------------------------------------------------------------
(* Which actions change which part of the state. *)

USE DEF vars, txVars, rxVars, progVars, txHw, rxHw, Enter, At, Goto, IsrGoto

(* Only uart0Putch, uart0TxFlush, uart0Init and the THRE branch change the queue. *)
LEMMA TxFrame ==
    [Next]_vars => \/ UNCHANGED txVars
                   \/ PutchQueue \/ PutchDirect \/ FlushIdx
                   \/ IsrRefill \/ IsrStop \/ \E fmode \in BOOLEAN : InitBody(fmode)
<1>1. Call => UNCHANGED txVars
    BY DEF Call, uartTxEmpty, uartTxFlush, uartGetch, uartInit, uartPuts, uartWrite
<1>2. PutchFull \/ PutchRoom \/ PutchMask \/ PutchTest \/ PutchUnmask => UNCHANGED txVars
    BY DEF PutchFull, PutchRoom, PutchMask, PutchTest, PutchUnmask
<1>3. FlushFCR \/ FlushMask \/ GetchExtract \/ GetchWrap => UNCHANGED txVars
    BY DEF FlushFCR, FlushMask, GetchExtract, GetchWrap
<1>4. (\/ IsrEnter \/ IsrRls \/ IsrRda \/ IsrStore \/ IsrMore
       \/ IsrThre \/ IsrBusy \/ IsrExit) => UNCHANGED txVars
    BY DEF IsrEnter, IsrRls, IsrRda, IsrStore, IsrMore, IsrThre, IsrBusy, IsrExit
<1>5. Transmit \/ Receive => UNCHANGED txVars
    BY DEF Transmit, Receive, HwLoad, HwShift, HwReceive
<1>6. UNCHANGED vars => UNCHANGED txVars
    OBVIOUS
<1>7. CASE Continue BY <1>2, <1>3, <1>7 DEF Continue
<1>8. CASE Interrupt BY <1>4, <1>8 DEF Interrupt
<1> QED BY <1>1, <1>5, <1>6, <1>7, <1>8 DEF Next

(* Only uart0Getch, uart0Init and the receive branch change the receive queue. *)
LEMMA RxFrame ==
    [Next]_vars => \/ UNCHANGED rxVars /\ pc # "wrap"
                   \/ UNCHANGED <<rxVars, pc>>
                   \/ GetchExtract \/ GetchWrap \/ IsrStore
                   \/ \E fmode \in BOOLEAN : InitBody(fmode)
<1>1. Call => UNCHANGED rxVars /\ pc # "wrap"
    BY DEF Call, uartTxEmpty, uartTxFlush, uartGetch, uartInit, uartPuts, uartWrite
<1>2. (\/ PutchFull \/ PutchRoom \/ PutchMask \/ PutchTest \/ PutchUnmask
       \/ PutchQueue \/ PutchDirect) => UNCHANGED rxVars /\ pc # "wrap"
    BY DEF PutchFull, PutchRoom, PutchMask, PutchTest, PutchUnmask, PutchQueue,
           PutchDirect
<1>3. FlushFCR \/ FlushMask \/ FlushIdx => UNCHANGED rxVars /\ pc # "wrap"
    BY DEF FlushFCR, FlushMask, FlushIdx
<1>4. (\/ IsrEnter \/ IsrRls \/ IsrRda \/ IsrMore
       \/ IsrThre \/ IsrRefill \/ IsrStop \/ IsrBusy \/ IsrExit) => UNCHANGED <<rxVars, pc>>
    BY DEF IsrEnter, IsrRls, IsrRda, IsrMore, IsrThre, IsrRefill, IsrStop, IsrBusy,
           IsrExit
<1>5. Transmit \/ Receive => UNCHANGED <<rxVars, pc>>
    BY DEF Transmit, Receive, HwLoad, HwShift, HwReceive
<1>6. UNCHANGED vars => UNCHANGED <<rxVars, pc>>
    OBVIOUS
<1>7. CASE Continue BY <1>2, <1>3, <1>7 DEF Continue
<1>8. CASE Interrupt BY <1>4, <1>8 DEF Interrupt
<1> QED BY <1>1, <1>5, <1>6, <1>7, <1>8 DEF Next

-----------------------------------------------------------------------------
(* Types. *)

(* The type invariant and the program-point facts hold initially. *)
LEMMA TypeInit == Init => TypeOK /\ CallInv
<1> SUFFICES ASSUME Init PROVE TypeOK /\ CallInv
    OBVIOUS
<1> USE SizeAssumption DEF Init
<1>1. TxTypeOK BY DEF TxTypeOK, Byte
<1>2. RxTypeOK BY DEF RxTypeOK, Byte
<1>3. ProgTypeOK BY DEF ProgTypeOK, PC, ISR, Functions
<1>4. HwTypeOK BY DEF HwTypeOK
<1>5. FlagTypeOK BY DEF FlagTypeOK
<1>6. CallInv BY DEF CallInv, InPutch
<1> QED BY <1>1, <1>2, <1>3, <1>4, <1>5, <1>6 DEF TypeOK

(* Every step keeps the transmit indices inside the transmit buffer. *)
LEMMA TxTypeStep == TypeOK /\ CallInv /\ [Next]_vars => TxTypeOK'
<1> SUFFICES ASSUME TypeOK, CallInv, [Next]_vars PROVE TxTypeOK'
    OBVIOUS
<1> USE SizeAssumption DEF TypeOK, TxTypeOK, ProgTypeOK
<1>1. CASE UNCHANGED txVars BY <1>1
<1>2. CASE PutchQueue
    <2>1. Head(todo) \in Byte
        BY <1>2 DEF PutchQueue, CallInv, InPutch, Byte
    <2>2. NextInsert \in 0..TX_SIZE - 1
        BY ModRange DEF NextInsert
    <2> QED BY <1>2, <2>1, <2>2 DEF PutchQueue
<1>3. CASE PutchDirect BY <1>3 DEF PutchDirect
<1>4. CASE FlushIdx BY <1>4 DEF FlushIdx
<1>5. CASE IsrRefill
    <2>1. (tx_extract_idx + 1) % TX_SIZE \in 0..TX_SIZE - 1
        BY ModRange
    <2> QED BY <1>5, <2>1 DEF IsrRefill
<1>6. CASE IsrStop BY <1>6 DEF IsrStop
<1>7. CASE \E fmode \in BOOLEAN : InitBody(fmode) BY <1>7 DEF InitBody
<1> QED BY <1>1, <1>2, <1>3, <1>4, <1>5, <1>6, <1>7, TxFrame

(* Every step keeps the receive indices inside the receive buffer. *)
LEMMA RxTypeStep == TypeOK /\ CallInv /\ [Next]_vars => RxTypeOK'
<1> SUFFICES ASSUME TypeOK, CallInv, [Next]_vars PROVE RxTypeOK'
    OBVIOUS
<1> USE SizeAssumption DEF TypeOK, RxTypeOK, HwTypeOK
<1>1. CASE UNCHANGED rxVars /\ pc # "wrap" BY <1>1
<1>2. CASE UNCHANGED <<rxVars, pc>> BY <1>2
<1>3. CASE GetchExtract
    <2>1. (rx_extract_idx + 1) % RX_SIZE \in 0..RX_SIZE - 1
        BY ModRange
    <2> QED BY <1>3, <2>1 DEF GetchExtract
<1>4. CASE GetchWrap
    <2>1. rx_extract_idx % RX_SIZE \in 0..RX_SIZE - 1
        BY ModRange
    <2> QED BY <1>4, <2>1 DEF GetchWrap
<1>5. CASE IsrStore
    <2>1. Head(rbr) \in Byte
        BY <1>5 DEF IsrStore, CallInv
    <2>2. RxNextInsert \in 0..RX_SIZE - 1
        BY ModRange DEF RxNextInsert
    <2> QED BY <1>5, <2>1, <2>2 DEF IsrStore
<1>6. CASE \E fmode \in BOOLEAN : InitBody(fmode) BY <1>6 DEF InitBody
<1> QED BY <1>1, <1>2, <1>3, <1>4, <1>5, <1>6, RxFrame

(* Every step keeps the program and the interrupt routine at a known point. *)
LEMMA ProgTypeStep == TypeOK /\ CallInv /\ [Next]_vars => ProgTypeOK'
<1> SUFFICES ASSUME TypeOK, CallInv, [Next]_vars PROVE ProgTypeOK'
    OBVIOUS
<1> USE DEF TypeOK, ProgTypeOK, PC, ISR, Functions
<1>1. CASE Call
    <2>1. CASE \E s \in Strings : uartPuts(s) \/ uartWrite(s)
        BY <2>1, StringsAreSequences DEF uartPuts, uartWrite
    <2>2. CASE uartTxEmpty \/ uartTxFlush \/ uartGetch \/ uartInit
        BY <2>2 DEF uartTxEmpty, uartTxFlush, uartGetch, uartInit
    <2> QED BY <1>1, <2>1, <2>2 DEF Call
<1>2. CASE PutchFull \/ PutchRoom \/ PutchMask \/ PutchTest \/ PutchUnmask
    <2>1. CASE PutchFull BY <2>1 DEF PutchFull
    <2>2. CASE PutchRoom \/ PutchMask \/ PutchTest
        BY <2>2 DEF PutchRoom, PutchMask, PutchTest
    <2>3. CASE PutchUnmask BY <2>3 DEF PutchUnmask
    <2> QED BY <1>2, <2>1, <2>2, <2>3
<1>3. CASE PutchQueue \/ PutchDirect
    <2>1. Tail(todo) \in Seq(TxByte)
        BY <1>3 DEF PutchQueue, PutchDirect, CallInv, InPutch
    <2> QED BY <1>3, <2>1 DEF PutchQueue, PutchDirect
<1>4. CASE \/ FlushFCR \/ FlushMask \/ FlushIdx \/ GetchExtract \/ GetchWrap
           \/ \E fmode \in BOOLEAN : InitBody(fmode)
    BY <1>4 DEF FlushFCR, FlushMask, FlushIdx, GetchExtract, GetchWrap, InitBody
<1>5. CASE Interrupt
    BY <1>5 DEF Interrupt, IsrEnter, IsrRls, IsrRda, IsrStore, IsrMore, IsrThre,
                IsrRefill, IsrStop, IsrBusy, IsrExit
<1>6. CASE Transmit \/ Receive
    BY <1>6 DEF Transmit, Receive, HwLoad, HwShift, HwReceive
<1>7. CASE UNCHANGED vars BY <1>7
<1> QED BY <1>1, <1>2, <1>3, <1>4, <1>5, <1>6, <1>7 DEF Next, Continue

(* Every step keeps the registers and FIFOs of the UART holding bytes. *)
LEMMA HwTypeStep == TypeOK /\ CallInv /\ [Next]_vars => HwTypeOK'
<1> SUFFICES ASSUME TypeOK, CallInv, [Next]_vars PROVE HwTypeOK'
    OBVIOUS
<1> USE DEF TypeOK, HwTypeOK
<1>1. CASE Call
    BY <1>1 DEF Call, uartTxEmpty, uartTxFlush, uartGetch, uartInit, uartPuts, uartWrite
<1>2. CASE PutchFull \/ PutchRoom \/ PutchMask \/ PutchTest \/ PutchQueue \/ PutchUnmask
    BY <1>2 DEF PutchFull, PutchRoom, PutchMask, PutchTest, PutchQueue, PutchUnmask
<1>3. ASSUME NEW b \in Byte, WriteTHR(b) PROVE thr' \in Seq(Byte)
    <2>1. CASE Len(thr) < Capacity
        BY <1>3, <2>1 DEF WriteTHR
    <2>2. CASE ~(Len(thr) < Capacity)
        <3>1. Len(thr) \in 1..Len(thr)
            BY <2>2, SizeAssumption DEF Capacity
        <3> QED BY <1>3, <2>2, <3>1, ExceptSeq DEF WriteTHR
    <2> QED BY <2>1, <2>2
<1>4. CASE PutchDirect
    <2>1. Head(todo) \in Byte
        BY <1>4 DEF PutchDirect, CallInv, InPutch, Byte, ProgTypeOK
    <2> QED BY <1>3, <1>4, <2>1 DEF PutchDirect
<1>5. CASE FlushFCR BY <1>5 DEF FlushFCR, SetFifo
<1>6. CASE FlushMask \/ FlushIdx \/ GetchWrap
    BY <1>6 DEF FlushMask, FlushIdx, GetchWrap
<1>7. CASE GetchExtract
    <2>1. rx_buffer[rx_extract_idx] \in Byte
        BY <1>7, SizeAssumption DEF GetchExtract, RxTypeOK
    <2> QED BY <1>7, <2>1 DEF GetchExtract
<1>8. CASE \E fmode \in BOOLEAN : InitBody(fmode) BY <1>8 DEF InitBody
<1>9. CASE IsrRefill
    <2>1. tx_buffer[tx_extract_idx] \in Byte
        BY DEF TxTypeOK
    <2> QED BY <1>3, <1>9, <2>1 DEF IsrRefill
<1>10. CASE IsrStore BY <1>10 DEF IsrStore, CallInv
<1>11. CASE \/ IsrEnter \/ IsrRls \/ IsrRda \/ IsrMore
            \/ IsrThre \/ IsrStop \/ IsrBusy \/ IsrExit
    BY <1>11 DEF IsrEnter, IsrRls, IsrRda, IsrMore, IsrThre, IsrStop, IsrBusy, IsrExit
<1>12. CASE Transmit
    <2>1. CASE HwLoad
        <3>1. Head(thr) \in Byte /\ Tail(thr) \in Seq(Byte)
            BY <2>1 DEF HwLoad
        <3> QED BY <2>1, <3>1 DEF HwLoad
    <2>2. CASE HwShift BY <2>2 DEF HwShift
    <2> QED BY <1>12, <2>1, <2>2 DEF Transmit
<1>13. CASE Receive
    <2>1. PICK b \in RxByte : HwReceive(b)
        BY <1>13 DEF Receive
    <2>2. b \in Byte
        BY DEF Byte
    <2>3. Append(rbr, b) \in Seq(Byte) /\ <<b>> \in Seq(Byte)
        BY <2>2
    <2>4. CASE Len(rbr) < Capacity
        BY <2>1, <2>3, <2>4 DEF HwReceive
    <2>5. CASE ~(Len(rbr) < Capacity)
        <3>1. Len(rbr) \in 1..Len(rbr)
            BY <2>5, SizeAssumption DEF Capacity
        <3>2. [rbr EXCEPT ![Len(rbr)] = b] \in Seq(Byte)
            BY <2>2, <3>1, ExceptSeq
        <3> QED BY <2>1, <2>5, <3>2 DEF HwReceive
    <2> QED BY <2>4, <2>5
<1>14. CASE UNCHANGED vars BY <1>14
<1> QED BY <1>1, <1>2, <1>4, <1>5, <1>6, <1>7, <1>8, <1>9, <1>10, <1>11, <1>12,
           <1>13, <1>14 DEF Next, Continue, Interrupt

(* Every step keeps the flags Boolean. *)
LEMMA FlagTypeStep == TypeOK /\ CallInv /\ [Next]_vars => FlagTypeOK'
<1> SUFFICES ASSUME TypeOK, CallInv, [Next]_vars PROVE FlagTypeOK'
    OBVIOUS
<1> USE DEF TypeOK, FlagTypeOK
<1>1. CASE Call
    BY <1>1 DEF Call, uartTxEmpty, uartTxFlush, uartGetch, uartInit, uartPuts, uartWrite
<1>2. CASE \/ PutchFull \/ PutchRoom \/ PutchMask \/ PutchTest \/ PutchQueue
           \/ PutchDirect \/ PutchUnmask
    BY <1>2, CallAssumption DEF PutchFull, PutchRoom, PutchMask, PutchTest, PutchQueue,
            PutchDirect, PutchUnmask, WriteTHR
<1>3. CASE \/ FlushFCR \/ FlushMask \/ FlushIdx \/ GetchExtract \/ GetchWrap
           \/ \E fmode \in BOOLEAN : InitBody(fmode)
    BY <1>3 DEF FlushFCR, FlushMask, FlushIdx, GetchExtract, GetchWrap, InitBody, SetFifo
<1>4. CASE Interrupt
    BY <1>4 DEF Interrupt, IsrEnter, IsrRls, IsrRda, IsrStore, IsrMore, IsrThre,
                IsrRefill, IsrStop, IsrBusy, IsrExit, WriteTHR
<1>5. CASE Transmit \/ Receive
    BY <1>5 DEF Transmit, Receive, HwLoad, HwShift, HwReceive
<1>6. CASE UNCHANGED vars BY <1>6
<1> QED BY <1>1, <1>2, <1>3, <1>4, <1>5, <1>6 DEF Next, Continue

(* Every step keeps what the code relies on at each program point. *)
LEMMA CallStep == TypeOK /\ CallInv /\ [Next]_vars => CallInv'
<1> SUFFICES ASSUME TypeOK, CallInv, [Next]_vars PROVE CallInv'
    OBVIOUS
<1> USE DEF TypeOK, HwTypeOK, CallInv, InPutch
<1>1. CASE Call
    <2>1. CASE \E s \in Strings : uartPuts(s) \/ uartWrite(s)
        BY <2>1, StringsAreSequences DEF uartPuts, uartWrite
    <2>2. CASE uartTxEmpty \/ uartTxFlush \/ uartGetch \/ uartInit
        BY <2>2 DEF uartTxEmpty, uartTxFlush, uartGetch, uartInit
    <2> QED BY <1>1, <2>1, <2>2 DEF Call
<1>2. CASE \/ PutchFull \/ PutchRoom \/ PutchMask \/ PutchTest \/ PutchQueue
           \/ PutchDirect \/ PutchUnmask
    BY <1>2 DEF PutchFull, PutchRoom, PutchMask, PutchTest, PutchQueue,
            PutchDirect, PutchUnmask
<1>3. CASE \/ FlushFCR \/ FlushMask \/ FlushIdx \/ GetchExtract \/ GetchWrap
           \/ \E fmode \in BOOLEAN : InitBody(fmode)
    BY <1>3 DEF FlushFCR, FlushMask, FlushIdx, GetchExtract, GetchWrap, InitBody
<1>4. CASE Interrupt
    BY <1>4 DEF Interrupt, IsrEnter, IsrRls, IsrRda, IsrStore, IsrMore, IsrThre,
                IsrRefill, IsrStop, IsrBusy, IsrExit
<1>5. CASE Transmit
    BY <1>5 DEF Transmit, HwLoad, HwShift
<1>6. CASE Receive
    <2>1. PICK b \in RxByte : HwReceive(b)
        BY <1>6 DEF Receive
    <2>2. b \in Byte
        BY DEF Byte
    <2>3. Append(rbr, b) # <<>> /\ <<b>> # <<>>
        BY <2>2, AppendProperties
    <2>4. UNCHANGED progVars /\ UNCHANGED isr /\ (rbr' = rbr \/ rbr' # <<>>)
        BY <2>1, <2>3 DEF HwReceive
    <2> QED BY <2>4
<1>7. CASE UNCHANGED vars BY <1>7
<1> QED BY <1>1, <1>2, <1>3, <1>4, <1>5, <1>6, <1>7 DEF Next, Continue

(* Every variable of the driver, of the program and of the UART keeps its   *)
(* type, whatever the buffer sizes: the indices stay inside the buffers.    *)
THEOREM TypeCorrect == Spec => [](TypeOK /\ CallInv)
<1>1. TypeOK /\ CallInv /\ [Next]_vars => (TypeOK /\ CallInv)'
    BY TxTypeStep, RxTypeStep, ProgTypeStep, HwTypeStep, FlagTypeStep, CallStep
       DEF TypeOK
<1> QED BY TypeInit, <1>1, PTL DEF Spec

-----------------------------------------------------------------------------
(* The transmit side. *)

(* The next slot of the transmit buffer, without the remainder. *)
LEMMA NextSlot ==
    ASSUME NEW i \in 0..TX_SIZE - 1
    PROVE  (i + 1) % TX_SIZE = IF i + 1 = TX_SIZE THEN 0 ELSE i + 1
<1>1. CASE i + 1 = TX_SIZE BY <1>1, SizeAssumption, ModWrap
<1>2. CASE i + 1 # TX_SIZE BY <1>2, SizeAssumption, ModSmall
<1> QED BY <1>1, <1>2

(* The transmit invariant holds initially. *)
LEMMA TxInvInit == Init => TxInv
BY DEF Init, TxInv, ThrNeverOverwritten, WriteNeverShort, InPutch

(* Every step of the program, the routine and the UART keeps TxInv. *)
LEMMA TxInvStep == TypeOK /\ CallInv /\ TxInv /\ [Next]_vars => TxInv'
<1> SUFFICES ASSUME TypeOK, CallInv, TxInv, [Next]_vars PROVE TxInv'
    OBVIOUS
<1> USE SizeAssumption DEF TypeOK, TxTypeOK, ProgTypeOK, HwTypeOK, InPutch,
        ThrNeverOverwritten, WriteNeverShort
<1>t. /\ NextInsert = IF tx_insert_idx + 1 = TX_SIZE THEN 0 ELSE tx_insert_idx + 1
      /\ (tx_extract_idx + 1) % TX_SIZE
            = IF tx_extract_idx + 1 = TX_SIZE THEN 0 ELSE tx_extract_idx + 1
    BY NextSlot DEF NextInsert
<1>1. CASE Call
    <2>1. ASSUME NEW s \in Strings, uartPuts(s) PROVE TxInv'
        BY <2>1 DEF uartPuts, TxInv, NextInsert, uartSpace
    <2>2. ASSUME NEW s \in Strings, uartWrite(s) PROVE TxInv'
        BY <2>2 DEF uartWrite, TxInv, NextInsert, uartSpace
    <2>3. CASE uartTxEmpty BY <2>3 DEF uartTxEmpty, TxInv, NextInsert, uartSpace
    <2>4. CASE uartTxFlush BY <2>4 DEF uartTxFlush, TxInv, NextInsert, uartSpace
    <2>5. CASE uartGetch BY <2>5 DEF uartGetch, TxInv, NextInsert, uartSpace
    <2>6. CASE uartInit BY <2>6 DEF uartInit, TxInv, NextInsert, uartSpace, Due
    <2> QED BY <1>1, <2>1, <2>2, <2>3, <2>4, <2>5, <2>6 DEF Call
<1>2. CASE PutchFull BY <1>t, <1>2 DEF PutchFull, TxInv, CallInv, uartSpace
<1>3. CASE PutchRoom BY <1>3 DEF PutchRoom, TxInv, NextInsert, uartSpace
<1>4. CASE PutchMask BY <1>4 DEF PutchMask, TxInv, NextInsert, uartSpace
<1>5. CASE PutchTest BY <1>5 DEF PutchTest, TxInv, NextInsert, uartSpace
<1>6. CASE PutchQueue
    BY <1>t, <1>6 DEF PutchQueue, TxInv, CallInv, uartSpace
<1>7. CASE PutchDirect BY <1>7 DEF PutchDirect, TxInv, CallInv, WriteTHR, Capacity, uartSpace
<1>8. CASE PutchUnmask BY <1>8 DEF PutchUnmask, TxInv, uartSpace
<1>9. CASE FlushFCR BY <1>9 DEF FlushFCR, TxInv, NextInsert, uartSpace
<1>10. CASE FlushMask BY <1>10 DEF FlushMask, TxInv
<1>11. CASE FlushIdx BY <1>11 DEF FlushIdx, TxInv
<1>12. CASE GetchExtract \/ GetchWrap BY <1>12 DEF GetchExtract, GetchWrap, TxInv
<1>13. CASE \E fmode \in BOOLEAN : InitBody(fmode) BY <1>13 DEF InitBody, TxInv
<1>14. CASE \/ IsrEnter \/ IsrRls \/ IsrRda \/ IsrStore \/ IsrMore \/ IsrThre
            \/ IsrBusy \/ IsrExit
    <2>1. UNCHANGED <<txVars, progVars, etbei, thr, tsr>>
        BY <1>14 DEF IsrEnter, IsrRls, IsrRda, IsrStore, IsrMore, IsrThre, IsrBusy, IsrExit
    <2>2. isr' = "thre" => etbei
        BY <1>14 DEF IsrEnter, IsrRls, IsrRda, IsrStore, IsrMore, IsrThre, IsrBusy,
                     IsrExit, ThrePending
    <2> QED BY <2>1, <2>2 DEF TxInv, NextInsert, uartSpace
<1>15. CASE IsrRefill
    <2>1. /\ isr = "thre" /\ thr = <<>> /\ etbei
          /\ tx_insert_idx # tx_extract_idx
          /\ UNCHANGED <<tx_insert_idx, tx_running, progVars, isr, etbei, tsr>>
        BY <1>15 DEF IsrRefill, TxInv
    <2>2. tx_extract_idx' = IF tx_extract_idx + 1 = TX_SIZE THEN 0 ELSE tx_extract_idx + 1
        BY <1>t, <1>15 DEF IsrRefill
    <2>3. NextInsert' = NextInsert
        BY <2>1 DEF NextInsert
    <2>4. Len(thr') = 1
        <3>1. thr' = Append(thr, tx_buffer[tx_extract_idx])
            BY <1>15, <2>1 DEF IsrRefill, WriteTHR, Capacity
        <3> QED BY <2>1, <3>1
    <2>5. uartSpace' = uartSpace + 1
        BY <2>1, <2>2 DEF uartSpace
    <2>6. NextInsert # tx_extract_idx'
        BY <1>t, <2>1, <2>2
    <2>7. tx_running # 0
        BY <2>1 DEF TxInv
    <2>8. uartSpace \in Int
        BY DEF uartSpace
    <2> QED BY <2>1, <2>3, <2>4, <2>5, <2>6, <2>7, <2>8 DEF TxInv
<1>16. CASE IsrStop BY <1>16 DEF IsrStop, TxInv, CallInv, NextInsert, uartSpace
<1>17. CASE HwLoad BY <1>17 DEF HwLoad, TxInv, NextInsert, uartSpace
<1>18. CASE HwShift BY <1>18 DEF HwShift, TxInv, NextInsert, uartSpace
<1>19. CASE Receive BY <1>19 DEF Receive, HwReceive, TxInv, NextInsert, uartSpace
<1>20. CASE UNCHANGED vars BY <1>20 DEF TxInv, NextInsert, uartSpace
<1> QED BY <1>1, <1>2, <1>3, <1>4, <1>5, <1>6, <1>7, <1>8, <1>9, <1>10, <1>11, <1>12,
           <1>13, <1>14, <1>15, <1>16, <1>17, <1>18, <1>19, <1>20
           DEF Next, Continue, Interrupt, Transmit

(* The conditions on tx_running, the mask and the THRE branch that the      *)
(* driver's correctness rests on, for every buffer size.                    *)
THEOREM TxInvariant == Spec => []TxInv
BY TypeCorrect, TxInvInit, TxInvStep, PTL DEF Spec

(* uart0Write never stops half way. *)
THEOREM WriteNeverShortHolds == Spec => []WriteNeverShort
<1>1. TxInv => WriteNeverShort
    BY DEF TxInv
<1> QED BY <1>1, TxInvariant, PTL

(* No write to THR overwrites a byte. *)
THEOREM ThrNeverOverwrittenHolds == Spec => []ThrNeverOverwritten
<1>1. TxInv => ThrNeverOverwritten
    BY DEF TxInv
<1> QED BY <1>1, TxInvariant, PTL

-----------------------------------------------------------------------------
(* The wake-up of the transmitter, on a UART that raises the THRE interrupt *)
(* when it is enabled while THR is empty.                                   *)

(* Outside the stretch in which uart0Putch masks the THRE interrupt, and    *)
(* outside the THRE branch, a non-empty queue has its interrupt enabled and *)
(* pending, or a byte in THR that will raise it.                            *)
Wakeup ==
    /\ pc \notin {"test", "queue", "direct", "unmask"} /\ ~TxResetting
    /\ isr # "thre" /\ tx_insert_idx # tx_extract_idx
    => etbei /\ (thri \/ thr # <<>>)

(* Wakeup is kept: the interrupt is enabled again after every change of the *)
(* queue, the THRE branch is left only with THR full or the queue empty, and *)
(* the last byte that leaves THR raises the interrupt.                      *)
LEMMA WakeupStep ==
    ASSUME ReArm PROVE TypeOK /\ TxInv /\ Wakeup /\ [Next]_vars => Wakeup'
<1> SUFFICES ASSUME TypeOK, TxInv, Wakeup, [Next]_vars PROVE Wakeup'
    OBVIOUS
<1> USE DEF Wakeup, TxResetting
<1>1. CASE Call
    <2>1. CASE uartTxFlush \/ uartInit
        BY <2>1 DEF uartTxFlush, uartInit
    <2>2. CASE uartTxEmpty \/ uartGetch \/ \E s \in Strings : uartPuts(s) \/ uartWrite(s)
        BY <2>2 DEF uartTxEmpty, uartGetch, uartPuts, uartWrite
    <2> QED BY <1>1, <2>1, <2>2 DEF Call
<1>2. CASE PutchFull \/ PutchRoom \/ PutchMask \/ PutchTest \/ PutchQueue \/ PutchDirect
    BY <1>2 DEF PutchFull, PutchRoom, PutchMask, PutchTest, PutchQueue, PutchDirect
<1>3. CASE PutchUnmask
    <2>1. etbei' /\ (thri' \/ thr' # <<>>)
        BY <1>3 DEF PutchUnmask, TypeOK, FlagTypeOK
    <2> QED BY <2>1
<1>4. CASE FlushFCR \/ FlushMask \/ FlushIdx
    BY <1>4 DEF FlushFCR, FlushMask, FlushIdx
<1>5. CASE GetchExtract \/ GetchWrap \/ \E fmode \in BOOLEAN : InitBody(fmode)
    BY <1>5 DEF GetchExtract, GetchWrap, InitBody
<1>6. CASE IsrEnter \/ IsrRls \/ IsrRda \/ IsrStore \/ IsrMore \/ IsrExit \/ IsrThre
    BY <1>6 DEF IsrEnter, IsrRls, IsrRda, IsrStore, IsrMore, IsrExit, IsrThre
<1>7. CASE IsrRefill \/ IsrStop
    BY <1>7 DEF IsrRefill, IsrStop
<1>8. CASE IsrBusy
    BY <1>8 DEF IsrBusy, TxInv
<1>9. CASE HwLoad
    <2>1. thri'
        <3>1. thr \in Seq(Byte) /\ thr # <<>> /\ Len(thr) <= 1
            BY <1>9 DEF HwLoad, TxInv, ThrNeverOverwritten, TypeOK, HwTypeOK
        <3>2. Len(thr) = 1
            <4>1. Len(thr) \in Nat \ {0}
                BY ONLY <3>1, EmptySeq, Zenon
            <4>2. Len(thr) <= 1
                BY ONLY <3>1
            <4>3. \A n \in Nat \ {0} : n <= 1 => n = 1
                OBVIOUS
            <4> QED BY ONLY <4>1, <4>2, <4>3, Zenon
        <3>3. thri' = (thri \/ Len(thr) = 1)
            BY <1>9 DEF HwLoad
        <3> QED BY ONLY <3>2, <3>3
    <2> QED BY <1>9, <2>1 DEF HwLoad
<1>10. CASE HwShift \/ Receive
    BY <1>10 DEF HwShift, Receive, HwReceive
<1>11. CASE UNCHANGED vars
    BY <1>11
<1> QED BY <1>1, <1>2, <1>3, <1>4, <1>5, <1>6, <1>7, <1>8, <1>9, <1>10, <1>11
        DEF Next, Continue, Interrupt, Transmit

(* Bytes left in the queue when a call returns are served, although the     *)
(* routine that will serve them is started by the UART alone.               *)
THEOREM NoLostWakeupHolds == ASSUME ReArm PROVE Spec => []NoLostWakeup
<1>1. Init => Wakeup
    BY DEF Init, Wakeup
<1>2. TypeOK /\ TxInv /\ Wakeup => NoLostWakeup
    BY DEF TypeOK, TxTypeOK, TxInv, Wakeup, NoLostWakeup, TxResetting
<1> QED BY <1>1, <1>2, WakeupStep, TypeCorrect, TxInvariant, PTL DEF Spec

-----------------------------------------------------------------------------
(* The bytes a ring buffer holds. *)

(* What a ring buffer holds is a sequence as long as its count. *)
LEMMA HeldIsSequence ==
    ASSUME NEW S, NEW size \in Nat \ {0}, NEW buf \in [0..size - 1 -> S],
           NEW ext \in Nat, NEW n \in Nat
    PROVE  Held(buf, ext, n, size) \in Seq(S)
<1>1. ASSUME NEW i \in 1..n PROVE buf[(ext + i - 1) % size] \in S
    BY ModRange
<1> QED BY <1>1 DEF Held

(* The slot after the last one held is none of those held. *)
LEMMA SpareSlot ==
    ASSUME NEW size \in Nat \ {0}, NEW ext \in 0..size - 1, NEW n \in 0..size - 1,
           NEW i \in 1..n
    PROVE  (ext + i - 1) % size # (ext + n) % size
<1>1. (ext + n) % size = IF ext + n < size THEN ext + n ELSE ext + n - size
    <2>1. CASE ext + n < size BY <2>1, ModSmall
    <2>2. CASE ext + n >= size
        <3>1. ext + n \in size..2 * size - 1 BY <2>2
        <3> QED BY <2>2, <3>1, ModWrap
    <2> QED BY <2>1, <2>2
<1>2. (ext + i - 1) % size = IF ext + i - 1 < size THEN ext + i - 1 ELSE ext + i - 1 - size
    <2>1. CASE ext + i - 1 < size BY <2>1, ModSmall
    <2>2. CASE ext + i - 1 >= size
        <3>1. ext + i - 1 \in size..2 * size - 1 BY <2>2
        <3> QED BY <2>2, <3>1, ModWrap
    <2> QED BY <2>1, <2>2
<1> QED BY <1>1, <1>2

(* Storing into that slot changes nothing that is held ... *)
LEMMA HeldStore ==
    ASSUME NEW S, NEW size \in Nat \ {0}, NEW buf \in [0..size - 1 -> S], NEW b \in S,
           NEW ext \in 0..size - 1, NEW n \in 0..size - 1
    PROVE  Held([buf EXCEPT ![(ext + n) % size] = b], ext, n, size) = Held(buf, ext, n, size)
<1>1. ASSUME NEW i \in 1..n
      PROVE  [buf EXCEPT ![(ext + n) % size] = b][(ext + i - 1) % size]
                = buf[(ext + i - 1) % size]
    <2>1. (ext + i - 1) % size \in 0..size - 1
        BY ModRange
    <2> QED BY SpareSlot, <2>1
<1> QED BY <1>1 DEF Held

(* ... and then counting it in appends it. *)
LEMMA HeldAppend ==
    ASSUME NEW S, NEW size \in Nat \ {0}, NEW buf \in [0..size - 1 -> S], NEW b \in S,
           NEW ext \in 0..size - 1, NEW n \in 0..size - 1
    PROVE  Held([buf EXCEPT ![(ext + n) % size] = b], ext, n + 1, size)
              = Append(Held(buf, ext, n, size), b)
<1> DEFINE new == [buf EXCEPT ![(ext + n) % size] = b]
           h == Held(buf, ext, n, size)
           h1 == Held(new, ext, n + 1, size)
<1>0. ext \in Nat /\ n \in Nat /\ n + 1 \in Nat
    OBVIOUS
<1>1. (ext + n) % size \in 0..size - 1
    BY ModRange
<1>2. new \in [0..size - 1 -> S]
    BY <1>1
<1>3. h \in Seq(S) /\ Len(h) = n /\ \A i \in 1..n : h[i] = buf[(ext + i - 1) % size]
    <2>1. h \in Seq(S) BY <1>0, HeldIsSequence
    <2> QED BY <1>0, <2>1 DEF Held
<1>4. /\ h1 \in Seq(S) /\ Len(h1) = n + 1
      /\ \A i \in 1..n + 1 : h1[i] = new[(ext + i - 1) % size]
    <2> HIDE DEF new
    <2>1. h1 \in Seq(S) BY <1>0, <1>2, HeldIsSequence
    <2> QED BY <1>0, <2>1 DEF Held
<1>5. /\ Append(h, b) \in Seq(S) /\ Len(Append(h, b)) = n + 1
      /\ \A i \in 1..n : Append(h, b)[i] = h[i]
      /\ Append(h, b)[n + 1] = b
    BY <1>3, AppendProperties
<1>6. ASSUME NEW i \in 1..n + 1 PROVE h1[i] = Append(h, b)[i]
    <2>1. CASE i = n + 1
        <3>1. ext + (n + 1) - 1 = ext + n /\ n + 1 \in 1..n + 1
            BY <1>0
        <3>2. h1[n + 1] = new[(ext + n) % size]
            <4> HIDE DEF h1, new
            <4> QED BY <1>4, <3>1
        <3>3. new[(ext + n) % size] = b
            BY <1>1
        <3> HIDE DEF h1, new, h
        <3> QED BY <1>5, <2>1, <3>2, <3>3
    <2>2. CASE i \in 1..n
        <3>1. (ext + i - 1) % size # (ext + n) % size
            BY <2>2, SpareSlot
        <3>2. (ext + i - 1) % size \in 0..size - 1
            BY ModRange
        <3>3. h1[i] = new[(ext + i - 1) % size]
            BY <1>4
        <3>4. new[(ext + i - 1) % size] = buf[(ext + i - 1) % size]
            BY <3>1, <3>2
        <3> HIDE DEF new, h1, h
        <3> QED BY <1>3, <1>5, <2>2, <3>3, <3>4
    <2>3. i = n + 1 \/ i \in 1..n
        OBVIOUS
    <2> QED BY <2>1, <2>2, <2>3
<1> HIDE DEF new, h, h1
<1>7. h1 = Append(h, b)
    BY <1>4, <1>5, <1>6, SeqEqual
<1> QED BY <1>7 DEF new, h, h1

(* Advancing the extract index takes the head off. *)
LEMMA HeldTail ==
    ASSUME NEW S, NEW size \in Nat \ {0}, NEW buf \in [0..size - 1 -> S],
           NEW ext \in 0..size - 1, NEW n \in 1..size
    PROVE  /\ Held(buf, ext, n, size) # <<>>
           /\ Head(Held(buf, ext, n, size)) = buf[ext]
           /\ Held(buf, (ext + 1) % size, n - 1, size) = Tail(Held(buf, ext, n, size))
<1> DEFINE h == Held(buf, ext, n, size)
           t == Held(buf, (ext + 1) % size, n - 1, size)
<1>0. ext \in Nat /\ n \in Nat /\ n - 1 \in Nat
    OBVIOUS
<1>1. h \in Seq(S) /\ Len(h) = n /\ \A i \in 1..n : h[i] = buf[(ext + i - 1) % size]
    <2>1. h \in Seq(S) BY <1>0, HeldIsSequence
    <2> QED BY <1>0, <2>1 DEF Held
<1>2. (ext + 1) % size \in 0..size - 1
    BY ModRange
<1>3. /\ t \in Seq(S) /\ Len(t) = n - 1
      /\ \A i \in 1..n - 1 : t[i] = buf[(((ext + 1) % size) + i - 1) % size]
    <2>1. (ext + 1) % size \in Nat BY <1>2
    <2>2. t \in Seq(S) BY <1>0, <2>1, HeldIsSequence
    <2> QED BY <1>0, <2>2 DEF Held
<1>4. h[1] = buf[ext]
    <2>1. (ext + 1 - 1) % size = ext
        BY ModSmall
    <2> QED BY <1>1, <2>1
<1>5. ASSUME NEW i \in 1..n - 1 PROVE (((ext + 1) % size) + i - 1) % size = (ext + i) % size
    <2>1. CASE ext + 1 < size
        <3>1. (ext + 1) % size = ext + 1 BY <2>1, ModSmall
        <3>2. ((ext + 1) % size) + i - 1 = ext + i BY <3>1
        <3> QED BY <3>2
    <2>2. CASE ext + 1 = size
        <3>1. (ext + 1) % size = 0 BY <2>2, ModWrap
        <3>2. ((ext + 1) % size) + i - 1 = i - 1 BY <3>1
        <3>3. (i - 1) % size = i - 1 BY ModSmall
        <3>4. (ext + i) % size = ext + i - size
            <4> DEFINE k == ext + i
            <4>1. k \in size..2 * size - 1 BY <2>2
            <4> HIDE DEF k
            <4>2. k % size = k - size BY <4>1, ModWrap
            <4> QED BY <4>2 DEF k
        <3> QED BY <2>2, <3>2, <3>3, <3>4
    <2> QED BY <2>1, <2>2
<1> HIDE DEF h, t
<1>6. h # <<>>
    BY <1>1
<1>7. /\ Tail(h) \in Seq(S) /\ Len(Tail(h)) = n - 1
      /\ \A i \in 1..n - 1 : Tail(h)[i] = h[i + 1]
    BY <1>1, <1>6, HeadTailProperties
<1>8. ASSUME NEW i \in 1..n - 1 PROVE t[i] = Tail(h)[i]
    <2>1. h[i + 1] = buf[(ext + i) % size]
        <3>1. i + 1 \in 1..n /\ ext + (i + 1) - 1 = ext + i OBVIOUS
        <3> QED BY <1>1, <3>1
    <2> QED BY <1>3, <1>5, <1>7, <2>1
<1>9. t = Tail(h)
    BY <1>3, <1>7, <1>8, SeqEqual
<1>10. Head(h) = h[1]
    BY <1>1, <1>6
<1> QED BY <1>4, <1>6, <1>9, <1>10 DEF h, t

(* The number of bytes held, in terms of the two indices. *)
LEMMA Count ==
    ASSUME NEW size \in Nat, size >= 2, NEW ins \in 0..size - 1, NEW ext \in 0..size - 1
    PROVE  /\ (ins - ext) % size \in 0..size - 1
           /\ ((ins - ext) % size = 0) <=> (ins = ext)
           /\ (ext + ((ins - ext) % size)) % size = ins
           /\ (ins + 1) % size # ext
                => (((ins + 1) % size) - ext) % size = ((ins - ext) % size) + 1
           /\ ins # ext
                => (ins - ((ext + 1) % size)) % size = ((ins - ext) % size) - 1
<1> DEFINE n == (ins - ext) % size
<1>1. n = IF ins >= ext THEN ins - ext ELSE ins - ext + size
    <2>1. CASE ins >= ext BY <2>1, ModSmall
    <2>2. CASE ins < ext BY <2>2, ModBelow
    <2> QED BY <2>1, <2>2
<1> HIDE DEF n
<1>2. n \in 0..size - 1 /\ (n = 0 <=> ins = ext)
    BY <1>1
<1>3. (ext + n) % size = ins
    <2>1. CASE ins >= ext BY <1>1, <2>1, ModSmall
    <2>2. CASE ins < ext
        <3>1. ext + n = ins + size /\ ins + size \in size..2 * size - 1
            BY <1>1, <2>2
        <3> QED BY <3>1, ModWrap
    <2> QED BY <2>1, <2>2
<1>4. ASSUME (ins + 1) % size # ext PROVE (((ins + 1) % size) - ext) % size = n + 1
    <2>1. (ins + 1) % size = IF ins + 1 = size THEN 0 ELSE ins + 1
        <3>1. CASE ins + 1 = size BY <3>1, ModWrap
        <3>2. CASE ins + 1 # size BY <3>2, ModSmall
        <3> QED BY <3>1, <3>2
    <2> DEFINE m == (ins + 1) % size
    <2>2. m \in 0..size - 1 /\ m # ext
        BY <2>1, <1>4
    <2>3. (m - ext) % size = IF m >= ext THEN m - ext ELSE m - ext + size
        <3> HIDE DEF m
        <3>1. CASE m >= ext BY <2>2, <3>1, ModSmall
        <3>2. CASE m < ext BY <2>2, <3>2, ModBelow
        <3> QED BY <2>2, <3>1, <3>2
    <2> QED BY <1>1, <2>1, <2>2, <2>3
<1>5. ASSUME ins # ext PROVE (ins - ((ext + 1) % size)) % size = n - 1
    <2>1. (ext + 1) % size = IF ext + 1 = size THEN 0 ELSE ext + 1
        <3>1. CASE ext + 1 = size BY <3>1, ModWrap
        <3>2. CASE ext + 1 # size BY <3>2, ModSmall
        <3> QED BY <3>1, <3>2
    <2> DEFINE m == (ext + 1) % size
    <2>2. m \in 0..size - 1
        BY <2>1
    <2>3. (ins - m) % size = IF ins >= m THEN ins - m ELSE ins - m + size
        <3> HIDE DEF m
        <3>1. CASE ins >= m BY <2>2, <3>1, ModSmall
        <3>2. CASE ins < m BY <2>2, <3>2, ModBelow
        <3> QED BY <2>2, <3>1, <3>2
    <2> QED BY <1>1, <1>5, <2>1, <2>2, <2>3
<1> QED BY <1>2, <1>3, <1>4, <1>5 DEF n

-----------------------------------------------------------------------------
(* Sequences. *)

(* Appending to the last part of a sequence appends to the sequence. *)
LEMMA ConcatAppend ==
    ASSUME NEW S, NEW s \in Seq(S), NEW t \in Seq(S), NEW e \in S
    PROVE  s \o Append(t, e) = Append(s \o t, e)
<1>1. <<e>> \in Seq(S) /\ s \o t \in Seq(S)
    BY ConcatProperties
<1>2. Append(t, e) = t \o <<e>> /\ Append(s \o t, e) = (s \o t) \o <<e>>
    BY <1>1, AppendIsConcat
<1> QED BY <1>1, <1>2, ConcatAssociative

(* What is left of a sequence that begins with e when e is taken. *)
LEMMA TakeFirst ==
    ASSUME NEW S, NEW t \in Seq(S), NEW e \in S
    PROVE  <<e>> \o t # <<>> /\ Head(<<e>> \o t) = e /\ Tail(<<e>> \o t) = t
<1> DEFINE c == <<e>> \o t
<1>0. <<e>> \in Seq(S) /\ Len(<<e>>) = 1 /\ <<e>>[1] = e
    OBVIOUS
<1>1. /\ c \in Seq(S) /\ Len(c) = 1 + Len(t)
      /\ \A i \in 1..1 + Len(t) : c[i] = IF i <= 1 THEN e ELSE t[i - 1]
    BY <1>0, ConcatProperties
<1> HIDE DEF c
<1>2. c # <<>> /\ Head(c) = e
    BY <1>1
<1>3. /\ Tail(c) \in Seq(S) /\ Len(Tail(c)) = Len(t)
      /\ \A i \in 1..Len(t) : Tail(c)[i] = c[i + 1]
    BY <1>1, <1>2, HeadTailProperties
<1>4. \A i \in 1..Len(t) : Tail(c)[i] = t[i]
    BY <1>1, <1>3
<1>5. Tail(c) = t
    BY <1>3, <1>4, SeqEqual
<1> QED BY <1>2, <1>5 DEF c

(* Moving the head of a sequence to a place before the rest changes nothing. *)
LEMMA HeadTail ==
    ASSUME NEW S, NEW s \in Seq(S), s # <<>> PROVE <<Head(s)>> \o Tail(s) = s
<1> DEFINE c == <<Head(s)>> \o Tail(s)
<1>1. /\ Head(s) \in S /\ Tail(s) \in Seq(S) /\ Len(Tail(s)) = Len(s) - 1
      /\ \A i \in 1..Len(Tail(s)) : Tail(s)[i] = s[i + 1]
    BY HeadTailProperties
<1>2. <<Head(s)>> \in Seq(S) /\ Len(<<Head(s)>>) = 1 /\ <<Head(s)>>[1] = s[1]
    BY <1>1
<1>3. /\ c \in Seq(S) /\ Len(c) = 1 + Len(Tail(s))
      /\ \A i \in 1..1 + Len(Tail(s)) :
            c[i] = IF i <= 1 THEN <<Head(s)>>[i] ELSE Tail(s)[i - 1]
    BY <1>1, <1>2, ConcatProperties
<1> HIDE DEF c
<1>4. Len(c) = Len(s)
    BY <1>1, <1>3
<1>5. ASSUME NEW i \in 1..Len(c) PROVE c[i] = s[i]
    <2>1. CASE i = 1 BY <1>2, <1>3, <2>1
    <2>2. CASE i > 1
        <3>1. i - 1 \in 1..Len(Tail(s)) /\ i \in 1..1 + Len(Tail(s))
            BY <1>1, <1>4, <2>2
        <3>2. c[i] = Tail(s)[i - 1]
            BY <1>3, <2>2, <3>1
        <3>3. Tail(s)[i - 1] = s[i]
            BY <1>1, <3>1
        <3> QED BY <3>2, <3>3
    <2> QED BY <1>3, <1>4, <2>1, <2>2
<1> QED BY <1>3, <1>4, <1>5, SeqEqual DEF c

(* The first part of a sequence is what remains when the rest is discarded. *)
LEMMA KeepFirst ==
    ASSUME NEW S, NEW s \in Seq(S), NEW u \in Seq(S), NEW c, c = s \o u
    PROVE  SubSeq(c, 1, Len(s)) = s
<1> DEFINE a == SubSeq(c, 1, Len(s))
<1>1. /\ Len(s) \in Nat /\ c \in Seq(S) /\ Len(c) = Len(s) + Len(u)
      /\ \A i \in 1..Len(s) + Len(u) : c[i] = IF i <= Len(s) THEN s[i] ELSE u[i - Len(s)]
    BY ConcatProperties
<1>2. \A i \in 1..Len(s) : c[i] = s[i] /\ c[i] \in S
    BY <1>1, ElementOfSeq
<1>3. /\ a \in Seq(S) /\ Len(a) = Len(s)
      /\ \A i \in 1..Len(s) : a[i] = c[i]
    BY <1>1, <1>2, SubSeqProperties
<1> HIDE DEF a
<1>4. a = s
    BY <1>2, <1>3, SeqEqual
<1> QED BY <1>4 DEF a

(* The last part of a sequence is what remains when the part before is discarded. *)
LEMMA KeepLast ==
    ASSUME NEW S, NEW s \in Seq(S), NEW u \in Seq(S), NEW c, c = s \o u,
           NEW j, j = Len(s) + 1
    PROVE  SubSeq(c, j, Len(c)) = u
<1> DEFINE b == SubSeq(c, j, Len(c))
<1>1. /\ Len(s) \in Nat /\ Len(u) \in Nat /\ c \in Seq(S) /\ Len(c) = Len(s) + Len(u)
      /\ \A i \in 1..Len(s) + Len(u) : c[i] = IF i <= Len(s) THEN s[i] ELSE u[i - Len(s)]
    BY ConcatProperties
<1>2. \A i \in 1..Len(c) : c[i] \in S
    BY <1>1, ElementOfSeq
<1>3. /\ b \in Seq(S) /\ Len(b) = Len(u)
      /\ \A i \in 1..Len(u) : b[i] = c[Len(s) + i]
    BY <1>1, <1>2, SubSeqProperties
<1>4. \A i \in 1..Len(u) : c[Len(s) + i] = u[i]
    BY <1>1
<1> HIDE DEF b
<1>5. b = u
    BY <1>3, <1>4, SeqEqual
<1> QED BY <1>5 DEF b

-----------------------------------------------------------------------------
(* The transmit queue under the actions that change it. *)

(* The transmit queue is a sequence of bytes. *)
LEMMA TxQueueType == TypeOK => TxQueue \in Seq(Byte)
<1> SUFFICES ASSUME TypeOK PROVE TxQueue \in Seq(Byte)
    OBVIOUS
<1>1. (tx_insert_idx - tx_extract_idx) % TX_SIZE \in Nat
    BY SizeAssumption, ModRange DEF TypeOK, TxTypeOK
<1> QED BY <1>1, SizeAssumption, HeldIsSequence DEF TypeOK, TxTypeOK, TxQueue

(* With equal indices the transmit queue is empty. *)
LEMMA TxQueueEmpty == TypeOK /\ tx_insert_idx = tx_extract_idx => TxQueue = <<>>
<1> SUFFICES ASSUME TypeOK, tx_insert_idx = tx_extract_idx PROVE TxQueue = <<>>
    OBVIOUS
<1>1. (tx_insert_idx - tx_extract_idx) % TX_SIZE = 0
    BY SizeAssumption, ModSmall DEF TypeOK, TxTypeOK
<1> QED BY <1>1 DEF TxQueue, Held

(* Storing at the insert index and advancing it appends to the queue. *)
LEMMA TxQueuePut ==
    ASSUME TypeOK, CallInv, TxInv, PutchQueue
    PROVE  TxQueue' = Append(TxQueue, Head(todo)) /\ Head(todo) \in Byte
<1> DEFINE n == (tx_insert_idx - tx_extract_idx) % TX_SIZE
<1> USE SizeAssumption DEF TypeOK, TxTypeOK
<1>1. Head(todo) \in Byte
    BY DEF PutchQueue, CallInv, InPutch, Byte, ProgTypeOK
<1>2. /\ n \in 0..TX_SIZE - 1 /\ (tx_extract_idx + n) % TX_SIZE = tx_insert_idx
      /\ (NextInsert - tx_extract_idx) % TX_SIZE = n + 1
    <2>1. (tx_insert_idx + 1) % TX_SIZE # tx_extract_idx
        BY DEF PutchQueue, TxInv, InPutch, NextInsert
    <2>2. /\ tx_insert_idx \in 0..TX_SIZE - 1 /\ tx_extract_idx \in 0..TX_SIZE - 1
          /\ TX_SIZE \in Nat /\ TX_SIZE >= 2
        OBVIOUS
    <2>3. n \in 0..TX_SIZE - 1 BY ONLY <2>2, Count, Zenon DEF n
    <2>4. (tx_extract_idx + n) % TX_SIZE = tx_insert_idx BY ONLY <2>2, Count DEF n
    <2>5. (((tx_insert_idx + 1) % TX_SIZE) - tx_extract_idx) % TX_SIZE = n + 1
        BY ONLY <2>1, <2>2, Count, Zenon DEF n
    <2> QED BY ONLY <2>3, <2>4, <2>5, Zenon DEF NextInsert
<1> HIDE DEF n
<1>t. /\ tx_buffer \in [0..TX_SIZE - 1 -> Byte] /\ tx_extract_idx \in 0..TX_SIZE - 1
      /\ TX_SIZE \in Nat \ {0}
    OBVIOUS
<1>3. Held([tx_buffer EXCEPT ![(tx_extract_idx + n) % TX_SIZE] = Head(todo)],
           tx_extract_idx, n + 1, TX_SIZE)
        = Append(Held(tx_buffer, tx_extract_idx, n, TX_SIZE), Head(todo))
    <2>1. \A size \in Nat \ {0} : \A buf \in [0..size - 1 -> Byte], b \in Byte :
            \A ext \in 0..size - 1, m \in 0..size - 1 :
               Held([buf EXCEPT ![(ext + m) % size] = b], ext, m + 1, size)
                  = Append(Held(buf, ext, m, size), b)
        BY ONLY HeldAppend, Zenon
    <2> QED BY ONLY <1>1, <1>2, <1>t, <2>1, Zenon
<1>4. TxQueue' = Held([tx_buffer EXCEPT ![(tx_extract_idx + n) % TX_SIZE] = Head(todo)],
                      tx_extract_idx, n + 1, TX_SIZE)
    BY <1>2 DEF PutchQueue, TxQueue
<1> QED BY <1>1, <1>3, <1>4 DEF TxQueue, n

(* Advancing the extract index takes the oldest byte off the queue. *)
LEMMA TxQueueTake ==
    ASSUME TypeOK, IsrRefill
    PROVE  /\ TxQueue # <<>> /\ Head(TxQueue) = tx_buffer[tx_extract_idx]
           /\ TxQueue' = Tail(TxQueue)
<1> DEFINE n == (tx_insert_idx - tx_extract_idx) % TX_SIZE
<1> USE SizeAssumption DEF TypeOK, TxTypeOK
<1>1. /\ n \in 1..TX_SIZE
      /\ (tx_insert_idx - ((tx_extract_idx + 1) % TX_SIZE)) % TX_SIZE = n - 1
    <2>1. tx_insert_idx # tx_extract_idx
        BY DEF IsrRefill
    <2>2. /\ tx_insert_idx \in 0..TX_SIZE - 1 /\ tx_extract_idx \in 0..TX_SIZE - 1
          /\ TX_SIZE \in Nat /\ TX_SIZE >= 2
        OBVIOUS
    <2>3. n \in 0..TX_SIZE - 1 BY ONLY <2>2, Count, Zenon DEF n
    <2>4. n # 0 BY ONLY <2>1, <2>2, Count, Zenon DEF n
    <2>5. (tx_insert_idx - ((tx_extract_idx + 1) % TX_SIZE)) % TX_SIZE = n - 1
        BY ONLY <2>1, <2>2, Count, Zenon DEF n
    <2> HIDE DEF n
    <2> QED BY <2>2, <2>3, <2>4, <2>5
<1> HIDE DEF n
<1>t. /\ tx_buffer \in [0..TX_SIZE - 1 -> Byte] /\ tx_extract_idx \in 0..TX_SIZE - 1
      /\ TX_SIZE \in Nat \ {0}
    OBVIOUS
<1>2. /\ Held(tx_buffer, tx_extract_idx, n, TX_SIZE) # <<>>
      /\ Head(Held(tx_buffer, tx_extract_idx, n, TX_SIZE)) = tx_buffer[tx_extract_idx]
      /\ Held(tx_buffer, (tx_extract_idx + 1) % TX_SIZE, n - 1, TX_SIZE)
            = Tail(Held(tx_buffer, tx_extract_idx, n, TX_SIZE))
    BY <1>1, <1>t, HeldTail
<1>3. TxQueue = Held(tx_buffer, tx_extract_idx, n, TX_SIZE)
    BY DEF TxQueue, n
<1>4. TxQueue' = Held(tx_buffer, (tx_extract_idx + 1) % TX_SIZE, n - 1, TX_SIZE)
    BY <1>1 DEF TxQueue, IsrRefill
<1> QED BY <1>2, <1>3, <1>4

(* Every step of the driver is a step of the abstract transmit FIFO. *)
LEMMA TxStep == TypeOK /\ CallInv /\ TxInv /\ [Next]_vars => [Tx!Next]_(Tx!vars)
<1> SUFFICES ASSUME TypeOK, CallInv, TxInv, [Next]_vars PROVE Tx!Next
    OBVIOUS
<1>q. TxQueue \in Seq(Byte) /\ thr \in Seq(Byte) /\ tsr \in Seq(Byte)
    BY TxQueueType DEF TypeOK, HwTypeOK
<1>c. /\ tsr \o thr \in Seq(Byte) /\ Due \in Seq(Byte)
      /\ Len(tsr \o thr) = Len(tsr) + Len(thr)
      /\ Len(Due) = Len(tsr) + Len(thr) + Len(TxQueue)
    BY <1>q, ConcatProperties DEF Due
<1>s. ASSUME UNCHANGED <<Due, line, TxResetting>>,
             todo # <<>> /\ todo' = Tail(todo) => NextInsert = tx_extract_idx
      PROVE  Tx!Next
    BY <1>s DEF Tx!Next, Tx!Supply
<1>1. ASSUME UNCHANGED <<Due, line, TxResetting>>, UNCHANGED todo \/ todo = <<>>
      PROVE  Tx!Next
    <2>1. todo # <<>> => todo # Tail(todo)
        <3> SUFFICES ASSUME todo # <<>> PROVE Len(Tail(todo)) # Len(todo)
            OBVIOUS
        <3>1. todo \in Seq(TxByte)
            BY DEF TypeOK, ProgTypeOK
        <3>2. Len(Tail(todo)) = Len(todo) - 1 /\ Len(todo) \in Nat
            BY ONLY <3>1, todo # <<>>, HeadTailProperties, LenProperties
        <3> QED BY ONLY <3>2
    <2> QED BY <1>s, <1>1, <2>1
<1>2. ASSUME UNCHANGED <<txVars, tsr, thr, line, todo>>, ~TxResetting, TxResetting' PROVE Tx!Next
    <2>1. UNCHANGED Due
        BY <1>2 DEF Due, TxQueue
    <2>2. Tx!BeginReset
        <3>1. TxResetting' = TRUE BY <1>2 DEF TxResetting
        <3> QED BY <1>2, <2>1, <3>1 DEF Tx!BeginReset
    <2> QED BY <2>2 DEF Tx!Next
<1>d. ASSUME UNCHANGED <<txVars, tsr, thr>> PROVE UNCHANGED Due
    BY <1>d DEF Due, TxQueue
<1>3. CASE Call
    <2>1. CASE \/ uartTxEmpty \/ uartGetch
               \/ \E s \in Strings : uartPuts(s) \/ uartWrite(s)
        <3>1. UNCHANGED <<txVars, tsr, thr, line, TxResetting>>
            BY <2>1 DEF uartTxEmpty, uartGetch, uartPuts, uartWrite, TxResetting
        <3>2. todo = <<>>
            BY <2>1 DEF uartTxEmpty, uartGetch, uartPuts, uartWrite, CallInv, InPutch
        <3> QED BY <1>1, <1>d, <3>1, <3>2
    <2>2. CASE uartTxFlush \/ uartInit
        <3>1. UNCHANGED <<txVars, tsr, thr, line, todo>> /\ ~TxResetting /\ TxResetting'
            BY <2>2 DEF uartTxFlush, uartInit, TxResetting
        <3> QED BY <1>2, <3>1
    <2> QED BY <1>3, <2>1, <2>2 DEF Call
<1>f. CASE PutchFull
    <2>1. UNCHANGED <<txVars, tsr, thr, line, TxResetting>>
        BY <1>f DEF PutchFull, TxResetting
    <2>2. NextInsert = tx_extract_idx
        BY <1>f DEF PutchFull
    <2> QED BY <1>s, <1>d, <2>1, <2>2
<1>4. CASE \/ PutchRoom \/ PutchMask \/ PutchTest \/ PutchUnmask
           \/ FlushMask \/ GetchExtract \/ GetchWrap
    <2>1. UNCHANGED <<txVars, tsr, thr, line, TxResetting, todo>>
        BY <1>4 DEF PutchRoom, PutchMask, PutchTest, PutchUnmask,
                    FlushMask, GetchExtract, GetchWrap, TxResetting
    <2> QED BY <1>1, <1>d, <2>1
<1>5. CASE PutchQueue
    <2>1. TxQueue' = Append(TxQueue, Head(todo)) /\ Head(todo) \in Byte
        BY <1>5, TxQueuePut
    <2>2. Due' = Append(Due, Head(todo))
        <3>1. UNCHANGED <<tsr, thr>>
            BY <1>5 DEF PutchQueue
        <3> QED BY <1>q, <1>c, <2>1, <3>1, ConcatAppend DEF Due
    <2>3. UNCHANGED <<line, TxResetting>> /\ todo # <<>> /\ todo' = Tail(todo)
        BY <1>5 DEF PutchQueue, TxResetting, CallInv, InPutch
    <2> QED BY <2>2, <2>3 DEF Tx!Next, Tx!Put
<1>6. CASE PutchDirect
    <2>1. thr = <<>> /\ TxQueue = <<>> /\ Head(todo) \in Byte
        BY <1>6, TxQueueEmpty DEF PutchDirect, TxInv, CallInv, InPutch, TypeOK,
                                  ProgTypeOK, Byte
    <2>2. thr' = Append(thr, Head(todo)) /\ UNCHANGED <<TxQueue, tsr>>
        BY <1>6, <2>1, SizeAssumption DEF PutchDirect, WriteTHR, Capacity, TxQueue
    <2>3. Due = tsr
        BY <1>q, <2>1, ConcatEmptySeq DEF Due
    <2>4. Due' = Append(tsr, Head(todo))
        <3>1. tsr \o Append(thr, Head(todo)) = Append(tsr, Head(todo))
            BY <1>q, <2>1, ConcatAppend, ConcatEmptySeq
        <3>2. Append(tsr, Head(todo)) \in Seq(Byte)
            BY <1>q, <2>1, AppendProperties
        <3>3. Due' = (tsr \o Append(thr, Head(todo))) \o TxQueue
            BY <2>2 DEF Due
        <3> QED BY <2>1, <3>1, <3>2, <3>3, ConcatEmptySeq
    <2>5. UNCHANGED <<line, TxResetting>> /\ todo # <<>> /\ todo' = Tail(todo)
        BY <1>6 DEF PutchDirect, TxResetting, CallInv, InPutch
    <2> QED BY <2>3, <2>4, <2>5 DEF Tx!Next, Tx!Put
<1>7. CASE FlushFCR
    <2>1. TxResetting /\ TxResetting' /\ UNCHANGED <<TxQueue, tsr, line, todo>>
        BY <1>7 DEF FlushFCR, TxResetting, TxQueue
    <2>2. CASE thr' = thr
        <3>1. UNCHANGED <<Due, TxResetting>>
            BY <2>1, <2>2 DEF Due, TxResetting
        <3> QED BY <1>1, <2>1, <3>1
    <2>3. CASE thr' = <<>>
        <3>1. Due' = tsr \o TxQueue
            BY <1>q, <2>1, <2>3, ConcatEmptySeq DEF Due
        <3>2. Due' = SubSeq(Due, 1, Len(tsr))
                     \o SubSeq(Due, Len(tsr) + Len(thr) + 1, Len(Due))
            <4>1. Due = tsr \o (thr \o TxQueue) /\ thr \o TxQueue \in Seq(Byte)
                BY <1>q, ConcatProperties, ConcatAssociative DEF Due
            <4>2. SubSeq(Due, 1, Len(tsr)) = tsr
                BY ONLY <1>q, <4>1, KeepFirst
            <4>3. Len(tsr) + Len(thr) + 1 = Len(tsr \o thr) + 1
                BY <1>q, <1>c
            <4>4. SubSeq(Due, Len(tsr) + Len(thr) + 1, Len(Due)) = TxQueue
                <5>1. Due = (tsr \o thr) \o TxQueue BY DEF Due
                <5> QED BY ONLY <1>q, <1>c, <4>3, <5>1, KeepLast
            <4> QED BY ONLY <3>1, <4>2, <4>4
        <3>3. /\ Len(tsr) \in 0..Len(Due)
              /\ Len(tsr) + Len(thr) + 1 \in 1..Len(Due) + 1
              /\ Len(tsr) < Len(tsr) + Len(thr) + 1
            BY <1>q, <1>c
        <3>4. Tx!Discard
            BY <2>1, <3>2, <3>3 DEF Tx!Discard
        <3> QED BY <3>4 DEF Tx!Next
    <2> QED BY <1>7, <2>2, <2>3 DEF FlushFCR
<1>8. CASE FlushIdx \/ \E fmode \in BOOLEAN : InitBody(fmode)
    <2>1. TxResetting /\ ~TxResetting' /\ UNCHANGED <<tsr, thr, line>>
        BY <1>8 DEF FlushIdx, InitBody, TxResetting
    <2>2. TxQueue' = <<>>
        <3>1. tx_insert_idx' = 0 /\ tx_extract_idx' = 0
            BY <1>8 DEF FlushIdx, InitBody
        <3>2. (0 - 0) % TX_SIZE = 0
            BY SizeAssumption, ModSmall
        <3> QED BY <3>1, <3>2 DEF TxQueue, Held
    <2>3. Due' = tsr \o thr
        BY <1>c, <2>1, <2>2, ConcatEmptySeq DEF Due
    <2>4. Due \o <<>> = Due /\ (tsr \o thr) \o <<>> = tsr \o thr
        BY <1>c, ConcatEmptySeq
    <2>5. Due' = SubSeq(Due, 1, Len(tsr \o thr))
                 \o SubSeq(Due, Len(tsr \o thr) + Len(TxQueue) + 1, Len(Due))
        <3>2. Due = (tsr \o thr) \o TxQueue
            BY DEF Due
        <3>3. SubSeq(Due, 1, Len(tsr \o thr)) = tsr \o thr
            BY ONLY <1>q, <1>c, <3>2, KeepFirst
        <3>4. SubSeq(Due, Len(tsr \o thr) + Len(TxQueue) + 1, Len(Due)) = <<>>
            <4>1. Len(tsr \o thr) + Len(TxQueue) + 1 > Len(Due)
                BY <1>q, <1>c
            <4> QED BY <1>q, <1>c, <4>1, SubSeqEmpty
        <3> QED BY <2>3, <2>4, <3>3, <3>4
    <2>6. /\ Len(tsr \o thr) \in 0..Len(Due)
          /\ Len(tsr \o thr) + Len(TxQueue) + 1 \in 1..Len(Due) + 1
          /\ Len(tsr \o thr) < Len(tsr \o thr) + Len(TxQueue) + 1
        BY <1>q, <1>c
    <2>7. Tx!Discard
        <3>1. TxResetting' \in BOOLEAN BY DEF TxResetting
        <3> QED BY <2>1, <2>5, <2>6, <3>1 DEF Tx!Discard
    <2> QED BY <2>7 DEF Tx!Next
<1>9. CASE \/ IsrEnter \/ IsrRls \/ IsrRda \/ IsrStore \/ IsrMore \/ IsrThre
           \/ IsrStop \/ IsrBusy \/ IsrExit
    <2>1. UNCHANGED <<tx_buffer, tx_insert_idx, tx_extract_idx, tsr, thr, line, pc, todo>>
        BY <1>9 DEF IsrEnter, IsrRls, IsrRda, IsrStore, IsrMore, IsrThre, IsrStop,
                    IsrBusy, IsrExit
    <2>2. UNCHANGED <<Due, TxResetting>>
        BY <2>1 DEF Due, TxQueue, TxResetting
    <2> QED BY <1>1, <2>1, <2>2
<1>10. CASE IsrRefill
    <2>1. /\ TxQueue # <<>> /\ Head(TxQueue) = tx_buffer[tx_extract_idx]
          /\ TxQueue' = Tail(TxQueue)
        BY <1>10, TxQueueTake
    <2>2. thr = <<>> /\ thr' = Append(thr, Head(TxQueue))
        BY <1>10, <2>1, SizeAssumption DEF IsrRefill, WriteTHR, Capacity
    <2>3. UNCHANGED <<tsr, line, pc, todo>>
        BY <1>10 DEF IsrRefill
    <2>4. thr' = <<Head(TxQueue)>>
        BY <2>2
    <2>5. /\ Head(TxQueue) \in Byte /\ Tail(TxQueue) \in Seq(Byte)
          /\ <<Head(TxQueue)>> \in Seq(Byte)
        BY <1>q, <2>1
    <2>6. Due' = tsr \o (<<Head(TxQueue)>> \o Tail(TxQueue))
        BY <1>q, <2>1, <2>3, <2>4, <2>5, ConcatAssociative DEF Due
    <2>7. Due = tsr \o TxQueue
        BY <1>q, <2>2, ConcatEmptySeq DEF Due
    <2>8. <<Head(TxQueue)>> \o Tail(TxQueue) = TxQueue
        BY <1>q, <2>1, HeadTail
    <2>9. UNCHANGED <<Due, TxResetting>>
        BY <2>3, <2>6, <2>7, <2>8 DEF TxResetting
    <2> QED BY <1>1, <2>3, <2>9
<1>11. CASE HwLoad
    <2>1. /\ tsr = <<>> /\ thr # <<>> /\ tsr' = <<Head(thr)>> /\ thr' = Tail(thr)
          /\ UNCHANGED <<TxQueue, line, TxResetting, todo>>
        BY <1>11 DEF HwLoad, TxQueue, TxResetting
    <2>2. <<Head(thr)>> \o Tail(thr) = thr
        BY <1>q, <2>1, HeadTail
    <2>3. Due' = thr \o TxQueue
        BY <2>1, <2>2 DEF Due
    <2>4. Due = thr \o TxQueue
        BY <1>q, <2>1, ConcatEmptySeq DEF Due
    <2> QED BY <1>1, <2>1, <2>3, <2>4
<1>12. CASE HwShift
    <2>1. /\ tsr # <<>> /\ tsr' = <<>> /\ line' = tsr
          /\ UNCHANGED <<TxQueue, thr, TxResetting, todo>>
        BY <1>12 DEF HwShift, TxQueue, TxResetting
    <2>2. Head(tsr) \in Byte /\ tsr = <<Head(tsr)>>
        <3>1. Len(tsr) = 1 
            <4>1. Len(tsr) <= 1 BY DEF TxInv
            <4>2. tsr # <<>> BY ONLY <2>1
            <4>3. Len(tsr) \in Nat \ {0} BY ONLY <1>q, <4>2, EmptySeq, Zenon
            <4> DEFINE k == Len(tsr)
            <4>4. k <= 1 /\ k \in Nat /\ k # 0 BY <4>1, <4>3
            <4> HIDE DEF k
            <4>5. k = 1 BY ONLY <4>4
            <4> QED BY ONLY <4>5 DEF k
        <3>2. Head(tsr) \in Byte /\ Head(tsr) = tsr[1] BY <1>q, <2>1
        <3>3. <<Head(tsr)>> \in Seq(Byte) /\ Len(<<Head(tsr)>>) = 1 /\ <<Head(tsr)>>[1] = Head(tsr)
            BY <3>2
        <3>4. \A i \in 1..1 : tsr[i] = <<Head(tsr)>>[i] BY <3>2, <3>3
        <3>5. tsr = <<Head(tsr)>> BY <1>q, <3>1, <3>3, <3>4, SeqEqual
        <3> QED BY <3>2, <3>5
    <2>3. thr \o TxQueue \in Seq(Byte)
        BY <1>q, ConcatProperties
    <2>4. Due = <<Head(tsr)>> \o (thr \o TxQueue)
        <3>1. Due = tsr \o (thr \o TxQueue)
            BY <1>q, ConcatAssociative DEF Due
        <3> QED BY <2>2, <3>1
    <2>5. Due' = thr \o TxQueue
        BY <1>q, <2>1, ConcatEmptySeq DEF Due
    <2>6. Due # <<>> /\ Head(Due) = Head(tsr) /\ Tail(Due) = thr \o TxQueue
        BY <2>2, <2>3, <2>4, TakeFirst
    <2>7. Tx!Take
        BY <2>1, <2>2, <2>5, <2>6 DEF Tx!Take
    <2> QED BY <2>7 DEF Tx!Next
<1>13. CASE Receive
    <2>1. UNCHANGED <<txVars, tsr, thr, line, pc, todo>>
        BY <1>13 DEF Receive, HwReceive
    <2> QED BY <1>1, <1>d, <2>1 DEF TxResetting
<1>14. CASE UNCHANGED vars
    BY <1>1, <1>d, <1>14 DEF TxResetting
<1> QED BY <1>3, <1>f, <1>4, <1>5, <1>6, <1>7, <1>8, <1>9, <1>10, <1>11, <1>12, <1>13, <1>14
        DEF Next, Continue, Interrupt, Transmit

(* Bytes passed to uart0Putch leave on the line in order, each once, unless *)
(* the caller flushes or initialises the port, whatever the buffer size and *)
(* however the program, the interrupt routine and the UART interleave.      *)
THEOREM TxCorrect == Spec => TxRefines
<1>1. Init => Tx!Init
    <2> SUFFICES ASSUME Init PROVE Tx!Init
        OBVIOUS
    <2>1. TxQueue = <<>>
        BY TypeInit, TxQueueEmpty DEF Init
    <2>2. Due = <<>>
        <3>1. tsr = <<>> /\ thr = <<>> BY DEF Init
        <3> QED BY <2>1, <3>1 DEF Due
    <2> QED BY <2>2 DEF Init, Tx!Init, TxResetting
<1> QED BY <1>1, TypeCorrect, TxInvariant, TxStep, PTL DEF Spec, TxRefines, Tx!Spec

-----------------------------------------------------------------------------
(* The receive side, when uart0Getch's "extract_idx++" and "extract_idx %=  *)
(* SIZE" are one store (SplitExtract is FALSE): the run uart_rx_split shows *)
(* that the result fails when they are two.                                 *)

(* RxInv holds initially. *)
LEMMA RxInvInit == Init => RxInv
BY SizeAssumption DEF Init, RxInv

(* Only uart0Getch moves the extract index, and the interrupt routine never *)
(* moves the insert index onto it.                                          *)
LEMMA RxInvStep ==
    ASSUME ~SplitExtract PROVE TypeOK /\ RxInv /\ [Next]_vars => RxInv'
<1> SUFFICES ASSUME TypeOK, RxInv, [Next]_vars PROVE RxInv'
    OBVIOUS
<1> USE DEF RxInv
<1>1. CASE Call
    BY <1>1 DEF Call, uartTxEmpty, uartTxFlush, uartGetch, uartInit, uartPuts, uartWrite
<1>2. CASE \/ PutchFull \/ PutchRoom \/ PutchMask \/ PutchTest \/ PutchUnmask
           \/ PutchQueue \/ PutchDirect \/ FlushFCR \/ FlushMask \/ FlushIdx
    BY <1>2 DEF PutchFull, PutchRoom, PutchMask, PutchTest, PutchUnmask, PutchQueue,
                PutchDirect, FlushFCR, FlushMask, FlushIdx
<1>3. CASE GetchExtract \/ GetchWrap
    <2>t. RX_SIZE \in Nat \ {0} /\ rx_extract_idx \in Int /\ rx_extract_idx + 1 \in Int
        BY SizeAssumption DEF TypeOK, RxTypeOK
    <2>1. /\ (rx_extract_idx + 1) % RX_SIZE \in 0..RX_SIZE - 1
          /\ rx_extract_idx % RX_SIZE \in 0..RX_SIZE - 1
        BY ONLY <2>t, ModRange
    <2>2. rx_extract_idx' \in 0..RX_SIZE - 1 /\ pc' # "extract"
        BY <1>3, <2>1 DEF GetchExtract, GetchWrap
    <2> QED BY <2>2, SizeAssumption
<1>4. CASE \E fmode \in BOOLEAN : InitBody(fmode)
    BY <1>4, SizeAssumption DEF InitBody
<1>5. CASE IsrStore
    BY <1>5 DEF IsrStore
<1>6. CASE \/ IsrEnter \/ IsrRls \/ IsrRda \/ IsrMore \/ IsrThre \/ IsrRefill
           \/ IsrStop \/ IsrBusy \/ IsrExit
    BY <1>6 DEF IsrEnter, IsrRls, IsrRda, IsrMore, IsrThre, IsrRefill, IsrStop,
                IsrBusy, IsrExit
<1>7. CASE Transmit \/ Receive
    BY <1>7 DEF Transmit, HwLoad, HwShift, Receive, HwReceive
<1>8. CASE UNCHANGED vars
    BY <1>8
<1> QED BY <1>1, <1>2, <1>3, <1>4, <1>5, <1>6, <1>7, <1>8 DEF Next, Continue, Interrupt

(* A byte uart0Getch has found in the queue is still there when it takes it. *)
THEOREM RxInvariant == ASSUME ~SplitExtract PROVE Spec => []RxInv
BY TypeCorrect, RxInvInit, RxInvStep, PTL DEF Spec

-----------------------------------------------------------------------------
(* The receive queue under the actions that change it. *)

(* The facts about the indices and the buffer that the queue lemmas use. *)
LEMMA RxTypes ==
    TypeOK /\ RxInv =>
        /\ RX_SIZE \in Nat \ {0} /\ RX_SIZE \in Nat /\ RX_SIZE >= 2
        /\ rx_insert_idx \in 0..RX_SIZE - 1 /\ rx_extract_idx \in 0..RX_SIZE - 1
        /\ rx_buffer \in [0..RX_SIZE - 1 -> Byte]
BY SizeAssumption DEF TypeOK, RxTypeOK, RxInv

(* The receive queue is a sequence of bytes. *)
LEMMA RxQueueType == TypeOK /\ RxInv => RxQueue \in Seq(Byte)
<1> SUFFICES ASSUME TypeOK, RxInv PROVE RxQueue \in Seq(Byte)
    OBVIOUS
<1>1. (rx_insert_idx - rx_extract_idx) % RX_SIZE \in Nat /\ rx_extract_idx \in Nat
    <2>1. /\ RX_SIZE \in Nat \ {0} /\ rx_insert_idx - rx_extract_idx \in Int
          /\ rx_extract_idx \in Nat
        BY RxTypes
    <2>2. (rx_insert_idx - rx_extract_idx) % RX_SIZE \in 0..RX_SIZE - 1
        BY ONLY <2>1, ModRange
    <2> QED BY <2>1, <2>2
<1> QED BY <1>1, RxTypes, HeldIsSequence DEF RxQueue

(* With room, the interrupt routine appends the byte it read; without, it   *)
(* has written the spare slot and the queue is what it was.                 *)
LEMMA RxQueueStore ==
    ASSUME TypeOK, CallInv, RxInv, IsrStore
    PROVE  /\ Head(rbr) \in Byte
           /\ IF RxNextInsert = rx_extract_idx THEN RxQueue' = RxQueue
                                              ELSE RxQueue' = Append(RxQueue, Head(rbr))
<1> DEFINE n == (rx_insert_idx - rx_extract_idx) % RX_SIZE
<1>t. /\ RX_SIZE \in Nat \ {0} /\ RX_SIZE \in Nat /\ RX_SIZE >= 2
      /\ rx_insert_idx \in 0..RX_SIZE - 1 /\ rx_extract_idx \in 0..RX_SIZE - 1
      /\ rx_buffer \in [0..RX_SIZE - 1 -> Byte]
    BY RxTypes
<1>c. /\ rx_insert_idx \in 0..RX_SIZE - 1 /\ rx_extract_idx \in 0..RX_SIZE - 1
      /\ RX_SIZE \in Nat /\ RX_SIZE >= 2
    BY RxTypes
<1>b. Head(rbr) \in Byte
    BY DEF IsrStore, CallInv, TypeOK, HwTypeOK
<1>1. n \in 0..RX_SIZE - 1
    BY ONLY <1>c, Count, Zenon DEF n
<1>2. (rx_extract_idx + n) % RX_SIZE = rx_insert_idx
    BY ONLY <1>c, Count DEF n
<1>3. RxQueue = Held(rx_buffer, rx_extract_idx, n, RX_SIZE)
    BY DEF RxQueue, n
<1>4. /\ rx_buffer' = [rx_buffer EXCEPT ![(rx_extract_idx + n) % RX_SIZE] = Head(rbr)]
      /\ rx_extract_idx' = rx_extract_idx
    BY <1>2 DEF IsrStore
<1>5. CASE RxNextInsert = rx_extract_idx
    <2>1. rx_insert_idx' = rx_insert_idx
        BY <1>5 DEF IsrStore
    <2>2. RxQueue' = Held([rx_buffer EXCEPT ![(rx_extract_idx + n) % RX_SIZE] = Head(rbr)],
                          rx_extract_idx, n, RX_SIZE)
        BY <1>4, <2>1 DEF RxQueue, n
    <2>3. \A size \in Nat \ {0} : \A buf \in [0..size - 1 -> Byte], b \in Byte :
            \A ext \in 0..size - 1, m \in 0..size - 1 :
               Held([buf EXCEPT ![(ext + m) % size] = b], ext, m, size)
                  = Held(buf, ext, m, size)
        BY ONLY HeldStore, Zenon
    <2> HIDE DEF n
    <2>4. RxQueue' = RxQueue
        BY ONLY <1>t, <1>b, <1>1, <1>3, <2>2, <2>3, Zenon
    <2> QED BY <1>b, <1>5, <2>4
<1>6. CASE RxNextInsert # rx_extract_idx
    <2>1. rx_insert_idx' = (rx_insert_idx + 1) % RX_SIZE
        BY <1>6 DEF IsrStore, RxNextInsert
    <2>2. (((rx_insert_idx + 1) % RX_SIZE) - rx_extract_idx) % RX_SIZE = n + 1
        <3>1. (rx_insert_idx + 1) % RX_SIZE # rx_extract_idx
            BY <1>6 DEF RxNextInsert
        <3> QED BY ONLY <3>1, <1>c, Count, Zenon DEF n
    <2> HIDE DEF n
    <2>3. RxQueue' = Held([rx_buffer EXCEPT ![(rx_extract_idx + n) % RX_SIZE] = Head(rbr)],
                          rx_extract_idx, n + 1, RX_SIZE)
        BY <1>4, <2>1, <2>2 DEF RxQueue
    <2>4. \A size \in Nat \ {0} : \A buf \in [0..size - 1 -> Byte], b \in Byte :
            \A ext \in 0..size - 1, m \in 0..size - 1 :
               Held([buf EXCEPT ![(ext + m) % size] = b], ext, m + 1, size)
                  = Append(Held(buf, ext, m, size), b)
        BY ONLY HeldAppend, Zenon
    <2>5. RxQueue' = Append(RxQueue, Head(rbr))
        BY ONLY <1>t, <1>b, <1>1, <1>3, <2>3, <2>4, Zenon
    <2> QED BY <1>b, <1>6, <2>5
<1> QED BY <1>5, <1>6

(* uart0Getch returns the oldest byte and removes it. *)
LEMMA RxQueueTake ==
    ASSUME TypeOK, RxInv, GetchExtract, ~SplitExtract
    PROVE  /\ RxQueue # <<>> /\ got' = <<Head(RxQueue)>>
           /\ RxQueue' = Tail(RxQueue)
<1> DEFINE n == (rx_insert_idx - rx_extract_idx) % RX_SIZE
<1>t. /\ RX_SIZE \in Nat \ {0} /\ RX_SIZE \in Nat /\ RX_SIZE >= 2
      /\ rx_insert_idx \in 0..RX_SIZE - 1 /\ rx_extract_idx \in 0..RX_SIZE - 1
      /\ rx_buffer \in [0..RX_SIZE - 1 -> Byte]
    BY RxTypes
<1>c. /\ rx_insert_idx \in 0..RX_SIZE - 1 /\ rx_extract_idx \in 0..RX_SIZE - 1
      /\ RX_SIZE \in Nat /\ RX_SIZE >= 2
    BY RxTypes
<1>1. rx_insert_idx # rx_extract_idx
    BY DEF GetchExtract, RxInv
<1>2. n \in 1..RX_SIZE /\ (rx_insert_idx - ((rx_extract_idx + 1) % RX_SIZE)) % RX_SIZE = n - 1
    <2>1. n \in 0..RX_SIZE - 1 BY ONLY <1>c, Count, Zenon DEF n
    <2>2. n # 0 BY ONLY <1>1, <1>c, Count, Zenon DEF n
    <2>3. (rx_insert_idx - ((rx_extract_idx + 1) % RX_SIZE)) % RX_SIZE = n - 1
        BY ONLY <1>1, <1>c, Count, Zenon DEF n
    <2> HIDE DEF n
    <2> QED BY <1>t, <2>1, <2>2, <2>3
<1>3. RxQueue = Held(rx_buffer, rx_extract_idx, n, RX_SIZE)
    BY DEF RxQueue, n
<1> HIDE DEF n
<1>4. /\ Held(rx_buffer, rx_extract_idx, n, RX_SIZE) # <<>>
      /\ Head(Held(rx_buffer, rx_extract_idx, n, RX_SIZE)) = rx_buffer[rx_extract_idx]
      /\ Held(rx_buffer, (rx_extract_idx + 1) % RX_SIZE, n - 1, RX_SIZE)
            = Tail(Held(rx_buffer, rx_extract_idx, n, RX_SIZE))
    BY ONLY <1>2, <1>t, HeldTail
<1>5. RxQueue' = Held(rx_buffer, (rx_extract_idx + 1) % RX_SIZE, n - 1, RX_SIZE)
    <2>1. /\ rx_extract_idx' = (rx_extract_idx + 1) % RX_SIZE
          /\ UNCHANGED <<rx_buffer, rx_insert_idx>>
        BY DEF GetchExtract
    <2>2. RxQueue' = Held(rx_buffer, (rx_extract_idx + 1) % RX_SIZE,
                          (rx_insert_idx - ((rx_extract_idx + 1) % RX_SIZE)) % RX_SIZE, RX_SIZE)
        BY ONLY <2>1, Zenon DEF RxQueue
    <2> QED BY ONLY <1>2, <2>2, Zenon
<1>6. got' = <<rx_buffer[rx_extract_idx]>>
    BY DEF GetchExtract
<1> QED BY ONLY <1>3, <1>4, <1>5, <1>6

(* Every step of the driver is a step of the abstract queue or leaves it     *)
(* unchanged.                                                                *)
LEMMA RxStep ==
    ASSUME ~SplitExtract
    PROVE  TypeOK /\ CallInv /\ RxInv /\ [Next]_vars => [Rx!Next]_(Rx!vars)
<1> SUFFICES ASSUME TypeOK, CallInv, RxInv, [Next]_vars PROVE Rx!Next
    OBVIOUS
<1>q. RxQueue \in Seq(Byte) /\ rbr \in Seq(Byte)
    BY RxQueueType DEF TypeOK, HwTypeOK
<1>t. rbr # <<>> => Len(Tail(rbr)) = Len(rbr) - 1 /\ Len(rbr) \in Nat
    BY ONLY <1>q, HeadTailProperties, LenProperties
<1>s. ASSUME UNCHANGED <<rxVars, got, RxResetting>>, rbr # <<>> => rbr' # Tail(rbr)
      PROVE  Rx!Next
    <2>1. UNCHANGED RxQueue
        BY <1>s DEF RxQueue
    <2> QED BY <1>s, <2>1 DEF Rx!Next, Rx!Supply
<1>1. ASSUME UNCHANGED <<rxVars, got, RxResetting, rbr>> PROVE Rx!Next
    <2>1. rbr # <<>> => Len(rbr) # Len(Tail(rbr))
        BY ONLY <1>t
    <2>2. rbr # <<>> => rbr # Tail(rbr)
        BY ONLY <2>1
    <2> QED BY <1>1, <1>s, <2>2
<1>2. CASE \/ uartTxEmpty \/ uartGetch
           \/ \E s \in Strings : uartPuts(s) \/ uartWrite(s)
    <2>1. UNCHANGED <<rxVars, got, RxResetting, rbr>>
        BY <1>2 DEF uartTxEmpty, uartGetch, uartPuts, uartWrite, RxResetting
    <2> QED BY <1>1, <2>1
<1>3. CASE uartInit \/ uartTxFlush
    <2>1. UNCHANGED <<rxVars, got, rbr>> /\ ~RxResetting /\ RxResetting' = TRUE
        BY <1>3 DEF uartInit, uartTxFlush, RxResetting
    <2>2. UNCHANGED RxQueue
        BY <2>1 DEF RxQueue
    <2>3. Rx!BeginReset
        BY <2>1, <2>2 DEF Rx!BeginReset
    <2> QED BY <2>3 DEF Rx!Next
<1>4. CASE \/ PutchFull \/ PutchRoom \/ PutchMask \/ PutchTest \/ PutchUnmask
           \/ PutchQueue \/ PutchDirect \/ FlushMask \/ FlushIdx
    <2>1. UNCHANGED <<rxVars, got, RxResetting, rbr>>
        BY <1>4 DEF PutchFull, PutchRoom, PutchMask, PutchTest, PutchUnmask, PutchQueue,
                    PutchDirect, FlushMask, FlushIdx, RxResetting
    <2> QED BY <1>1, <2>1
<1>f. CASE FlushFCR
    <2>1. RxResetting /\ UNCHANGED <<rxVars, got>> /\ RxResetting' \in BOOLEAN
        BY <1>f DEF FlushFCR, RxResetting
    <2>2. RxQueue' = RxQueue
        BY <2>1 DEF RxQueue
    <2>3. Len(RxQueue) \in Nat
        BY <1>q
    <2>4. SubSeq(RxQueue, 1, 0) = <<>> /\ SubSeq(RxQueue, 1, Len(RxQueue)) = RxQueue
        BY ONLY <1>q, <2>3, SubSeqEmpty, SubSeqFull
    <2>5. RxQueue' = SubSeq(RxQueue, 1, 0) \o SubSeq(RxQueue, 1, Len(RxQueue))
        BY ONLY <1>q, <2>2, <2>4, ConcatEmptySeq
    <2>6. 0 \in 0..Len(RxQueue) /\ 1 \in 1..Len(RxQueue) + 1 /\ 0 < 1
        BY ONLY <2>3
    <2>7. Rx!Discard
        BY <2>1, <2>5, <2>6 DEF Rx!Discard
    <2> QED BY <2>7 DEF Rx!Next
<1>5. CASE GetchExtract
    <2>1. UNCHANGED <<RxResetting, rbr>>
        BY <1>5 DEF GetchExtract, RxResetting
    <2>2. RxQueue # <<>> /\ got' = <<Head(RxQueue)>> /\ RxQueue' = Tail(RxQueue)
        BY <1>5, RxQueueTake
    <2>3. Rx!Take
        BY <2>1, <2>2 DEF Rx!Take
    <2> QED BY <2>3 DEF Rx!Next
<1>6. CASE GetchWrap
    <2>1. rx_extract_idx % RX_SIZE = rx_extract_idx
        BY RxTypes, ModSmall
    <2>2. UNCHANGED <<rxVars, got, RxResetting, rbr>>
        BY <1>6, <2>1 DEF GetchWrap, RxResetting
    <2> QED BY <1>1, <2>2
<1>7. CASE \E fmode \in BOOLEAN : InitBody(fmode)
    <2>1. RxResetting /\ ~RxResetting' /\ UNCHANGED got
        BY <1>7 DEF InitBody, RxResetting
    <2>2. RxQueue' = <<>>
        <3>1. rx_insert_idx' = 0 /\ rx_extract_idx' = 0
            BY <1>7 DEF InitBody
        <3>2. (0 - 0) % RX_SIZE = 0
            BY SizeAssumption, ModSmall
        <3> QED BY <3>1, <3>2 DEF RxQueue, Held
    <2>3. Len(RxQueue) \in Nat
        BY <1>q
    <2>4. /\ SubSeq(RxQueue, 1, 0) = <<>>
          /\ SubSeq(RxQueue, Len(RxQueue) + 1, Len(RxQueue)) = <<>>
        BY <2>3, SubSeqEmpty
    <2>5. RxQueue' = SubSeq(RxQueue, 1, 0)
                     \o SubSeq(RxQueue, Len(RxQueue) + 1, Len(RxQueue))
        BY <2>2, <2>4
    <2>6. /\ 0 \in 0..Len(RxQueue) /\ Len(RxQueue) + 1 \in 1..Len(RxQueue) + 1
          /\ 0 < Len(RxQueue) + 1 /\ RxResetting' \in BOOLEAN
        <3>1. RxResetting' \in BOOLEAN BY DEF RxResetting
        <3> QED BY ONLY <2>3, <3>1
    <2>7. Rx!Discard
        BY <2>1, <2>5, <2>6 DEF Rx!Discard
    <2> QED BY <2>7 DEF Rx!Next
<1>8. CASE IsrStore
    <2>1. UNCHANGED <<got, RxResetting>> /\ rbr # <<>> /\ rbr' = Tail(rbr)
        BY <1>8 DEF IsrStore, RxResetting, CallInv
    <2>2. CASE RxNextInsert = rx_extract_idx
        <3>1. RxQueue' = RxQueue
            BY <1>8, <2>2, RxQueueStore
        <3> QED BY <2>1, <2>2, <3>1 DEF Rx!Next, Rx!Supply
    <2>3. CASE RxNextInsert # rx_extract_idx
        <3>1. RxQueue' = Append(RxQueue, Head(rbr))
            BY <1>8, <2>3, RxQueueStore
        <3> QED BY <2>1, <3>1 DEF Rx!Next, Rx!Put
    <2> QED BY <2>2, <2>3
<1>9. CASE \/ IsrEnter \/ IsrRls \/ IsrRda \/ IsrMore \/ IsrThre \/ IsrRefill
           \/ IsrStop \/ IsrBusy \/ IsrExit
    <2>1. UNCHANGED <<rxVars, got, RxResetting, rbr>>
        BY <1>9 DEF IsrEnter, IsrRls, IsrRda, IsrMore, IsrThre, IsrRefill, IsrStop,
                    IsrBusy, IsrExit, RxResetting
    <2> QED BY <1>1, <2>1
<1>10. CASE Transmit \/ UNCHANGED vars
    <2>1. UNCHANGED <<rxVars, got, RxResetting, rbr>>
        BY <1>10 DEF Transmit, HwLoad, HwShift, RxResetting
    <2> QED BY <1>1, <2>1
<1>11. CASE Receive
    <2>1. PICK b \in RxByte : HwReceive(b)
        BY <1>11 DEF Receive
    <2>2. UNCHANGED <<rxVars, got, RxResetting>>
        BY <2>1 DEF HwReceive, RxResetting
    <2>3. \/ rbr' = Append(rbr, b) \/ rbr' = rbr
          \/ rbr' = [rbr EXCEPT ![Len(rbr)] = b]
        BY <2>1 DEF HwReceive
    <2>4. b \in Byte
        BY DEF Byte
    <2>5. Len(Append(rbr, b)) = Len(rbr) + 1 /\ Len([rbr EXCEPT ![Len(rbr)] = b]) = Len(rbr)
        BY ONLY <1>q, <2>4, AppendProperties, ExceptSeq
    <2>6. rbr # <<>> => Len(rbr') >= Len(rbr)
        BY ONLY <1>t, <2>3, <2>5
    <2>7. rbr # <<>> => rbr' # Tail(rbr)
        BY ONLY <1>t, <2>6
    <2> QED BY <1>s, <2>2, <2>7
<1> QED BY <1>f, <1>11, <1>2, <1>3, <1>4, <1>5, <1>6, <1>7, <1>8, <1>9, <1>10
        DEF Next, Call, Continue, Interrupt

(* Bytes the interrupt routine kept are returned by uart0Getch in order,     *)
(* each once, and only uart0Init discards any, for every buffer size, when   *)
(* the extract index is updated by one store.                                *)
THEOREM RxCorrect == ASSUME ~SplitExtract PROVE Spec => RxRefines
<1>1. Init => Rx!Init
    <2> SUFFICES ASSUME Init PROVE Rx!Init
        OBVIOUS
    <2>1. rx_insert_idx = 0 /\ rx_extract_idx = 0 /\ got = <<>> /\ pc = "idle"
        BY DEF Init
    <2>2. (0 - 0) % RX_SIZE = 0
        BY SizeAssumption, ModSmall
    <2>3. RxQueue = <<>>
        BY <2>1, <2>2 DEF RxQueue, Held
    <2> QED BY <2>1, <2>3 DEF Rx!Init, RxResetting
<1> QED BY <1>1, TypeCorrect, RxInvariant, RxStep, PTL DEF Spec, RxRefines, Rx!Spec
=============================================================================
