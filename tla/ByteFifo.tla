------------------------------ MODULE ByteFifo ------------------------------
(***************************************************************************)
(* What a serial port driver promises its caller, for one direction: the   *)
(* bytes offered to it enter in the order they are offered, none is passed *)
(* over unless the driver is full, and they leave in the order they        *)
(* entered, each one once.  Bytes that have entered disappear only while   *)
(* the caller is resetting the port.  Uart.tla implements this twice, once *)
(* for its transmit side and once for its receive side.                    *)
(***************************************************************************)
EXTENDS Naturals, Sequences

VARIABLES
    src,        \* the bytes offered to the driver, next one first
    q,          \* the bytes that have entered and not left, oldest first
    out,        \* <<b>>: the byte that left last; <<>> before the first
    full,       \* the driver has no room for another byte
    resetting   \* the caller is inside an operation that may discard bytes

vars == <<src, q, out, resetting>>

Init == q = <<>> /\ out = <<>> /\ resetting = FALSE

(* Whoever supplies the bytes offers others or withdraws them; the one byte *)
(* that is next disappears only when the driver is full.                    *)
Supply == /\ src # <<>> /\ src' = Tail(src) => full
          /\ UNCHANGED <<q, out, resetting>>

Put == /\ src # <<>>
       /\ q' = Append(q, Head(src))
       /\ src' = Tail(src)
       /\ UNCHANGED <<out, resetting>>

Take == /\ q # <<>>
        /\ q' = Tail(q)
        /\ out' = <<Head(q)>>
        /\ UNCHANGED <<src, resetting>>

(* A reset in progress discards a run of adjacent bytes, and maybe some of   *)
(* those on offer; it may end with that.                                     *)
Discard == /\ resetting
           /\ \E i \in 0..Len(q), j \in 1..Len(q) + 1 :
                 i < j /\ q' = SubSeq(q, 1, i) \o SubSeq(q, j, Len(q))
           /\ resetting' \in BOOLEAN
           /\ UNCHANGED out

BeginReset == ~resetting /\ resetting' = TRUE /\ UNCHANGED <<src, q, out>>

Next == Supply \/ Put \/ Take \/ Discard \/ BeginReset

Spec == Init /\ [][Next]_vars

(* Bytes keep leaving as long as there are any. *)
Live == WF_vars(Take)
=============================================================================
