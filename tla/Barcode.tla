------------------------------ MODULE Barcode -------------------------------
(***************************************************************************)
(* The bar code pen of software/barcode/main.c: hand_barcode turns the     *)
(* times between the edges of the signal into widths, Decode turns the     *)
(* widths into the thirteen digits, main prints them.  The pen, drawn over *)
(* a printed EAN-13 code by hand in either direction, is external.         *)
(***************************************************************************)
EXTENDS Clock, Sequences, SequencesExt

CONSTANTS
    Codes,            \* the numbers that may be printed
    Drifting,         \* those over which the speed changes
    MinSpeed, MaxSpeed, \* ticks that the pen takes for a module
    Quiet,            \* 5000: ticks without an edge that end a scan
    MaxExtra,         \* edges after the end of the code
    Starts            \* readings of the counter before the scan

CODE == 60            \* the size of code
ELEMENTS == 59

ASSUME PenAssumption ==
    /\ Drifting \subseteq Codes
    /\ Starts \subseteq 0..Wrap * Epochs - 1
    /\ Codes \subseteq [1..13 -> 0..9] /\ MaxExtra \in Nat
    /\ MinSpeed \in Nat /\ MaxSpeed \in Nat /\ Quiet \in Nat
    /\ 20 < MinSpeed /\ MinSpeed <= MaxSpeed /\ 4 * MaxSpeed < Quiet /\ Quiet + 1 < Wrap

-----------------------------------------------------------------------------
(* What is printed: the EAN-13 code of a number, as the standard has it.    *)

(* The seven modules of a digit of the left half with odd parity: 0 is a    *)
(* white module, 1 a black one.                                             *)
OddBits == <<<<0,0,0,1,1,0,1>>, <<0,0,1,1,0,0,1>>, <<0,0,1,0,0,1,1>>, <<0,1,1,1,1,0,1>>,
             <<0,1,0,0,0,1,1>>, <<0,1,1,0,0,0,1>>, <<0,1,0,1,1,1,1>>, <<0,1,1,1,0,1,1>>,
             <<0,1,1,0,1,1,1>>, <<0,0,0,1,0,1,1>>>>

(* Four runs of equal modules fill a digit. *)
Widths == {w \in [1..4 -> 1..4] : w[1] + w[2] + w[3] + w[4] = 7}
Modules(w) == [m \in 1..7 |-> IF \/ m <= w[1]
                                 \/ w[1] + w[2] < m /\ m <= w[1] + w[2] + w[3]
                              THEN 0 ELSE 1]

Odd == [d \in 0..9 |-> CHOOSE w \in Widths : Modules(w) = OddBits[d + 1]]
Even(d) == Reverse(Odd[d])

(* Which digits of the left half have even parity gives the first digit. *)
EvenAt == <<{}, {3, 5, 6}, {3, 4, 6}, {3, 4, 5}, {2, 5, 6}, {2, 3, 6}, {2, 3, 4}, {2, 4, 6},
            {2, 4, 5}, {2, 3, 5}>>

(* Pattern j of the twelve; the right half is odd. *)
Pattern(d, j) == IF j <= 6 /\ j \in EvenAt[d[1] + 1] THEN Even(d[j + 1]) ELSE Odd[d[j + 1]]

(* A guard at each end and one in the middle, of single modules. *)
Encode(d) == [k \in 1..ELEMENTS |->
    IF k \in 4..27 THEN Pattern(d, (k \div 4))[(k % 4) + 1]
    ELSE IF k \in 33..56 THEN Pattern(d, ((k - 5) \div 4))[((k - 5) % 4) + 1]
    ELSE 1]

-----------------------------------------------------------------------------
VARIABLES
    number, bars,       \* the digits under the pen, and the widths in the order it meets them
    done, speed, late,  \* elements passed, speed, ticks since the last poll before the last edge
    extra,              \* edges after the end of the code
    ticks, actual, counter,
    timer, bittime,
    code, pc,
    shown               \* the digits main has printed, or <<>> for an error

pen == <<number, bars, done, speed, late, extra>>
clock == <<ticks, actual, counter>>
vars == <<pen, clock, timer, bittime, code, pc, shown>>

Speeds == MinSpeed..MaxSpeed
Passes(d) == {Encode(d), Reverse(Encode(d))}

(* A turn of main's loop, on the clock that the turns before have left. *)
Init == /\ number \in Codes /\ bars \in Passes(number)
        /\ done = 0 /\ speed \in {MinSpeed, MaxSpeed} /\ late = 0 /\ extra = 0
        /\ counter \in Starts /\ ticks = counter % Wrap /\ actual = ticks
        /\ timer = 0 /\ bittime = 0
        /\ code = <<>> /\ pc = "wait" /\ shown = <<>>

(* dt ticks of Timer0Handler pass, then counter_read. *)
Tick(dt) == /\ ticks' = (ticks + dt) % Wrap
            /\ actual' = ticks'
            /\ counter' = counter_read(counter, actual, ticks')

(* The first edge, after any time; timer_start. *)
FirstEdge == /\ pc = "wait"
             /\ \E dt \in {0, Wrap - 1} : Tick(dt)
             /\ timer' = counter' /\ pc' = "first"
             /\ UNCHANGED <<pen, bittime, code, shown>>

(* timer_elapsed at the last poll. *)
Measured == timer_elapsed(counter', timer)

(* The pen passes an element of width w at the current speed.  The last     *)
(* poll before the edge may be a tick old.                                  *)
Pass(w) ==
    /\ \E l \in 0..1 : /\ Tick(late + w * speed - l)
                       /\ late' = l
    /\ timer' = timer_restart(timer, Measured)
    /\ speed' \in IF number \in Drifting /\ done % 4 = 3 THEN {speed - 1, speed, speed + 1} \cap Speeds
                  ELSE {speed}

FirstBar == /\ pc = "first" /\ pc' = "scan"
            /\ Pass(bars[1]) /\ bittime' = Measured
            /\ code' = <<1>> /\ done' = 1
            /\ UNCHANGED <<number, bars, extra, shown>>

(* The number of modules in a time, and the new estimate of a module. *)
Width(t) == (t + bittime \div 2) \div bittime
BitTime(t, n) == (t + bittime) \div (n + 1)

(* Mutant: the test is one later still. *)
Store_later(e) == /\ bittime' = BitTime(e, Width(e))
                  /\ code' = Append(code, Width(e))
                  /\ pc' = IF Len(code') > CODE + 1 THEN "full" ELSE "scan"

(* An element that has been measured is stored; the test for a full array   *)
(* comes after the store.                                                   *)
Store(e) == /\ bittime' = BitTime(e, Width(e))
            /\ code' = Append(code, Width(e))
            /\ pc' = IF Len(code') > CODE THEN "full" ELSE "scan"

Element == /\ pc = "scan" /\ done < ELEMENTS
           /\ Pass(bars[done + 1]) /\ Store(Measured)
           /\ done' = done + 1
           /\ UNCHANGED <<number, bars, extra, shown>>

(* Print beyond the code. *)
Extra == /\ pc = "scan" /\ done = ELEMENTS /\ extra < MaxExtra
         /\ Pass(1) /\ Store(Measured)
         /\ extra' = extra + 1
         /\ UNCHANGED <<number, bars, done, shown>>

(* No edge for more than Quiet ticks: the pen has left the paper. *)
PenLifted == /\ pc = "scan" /\ pc' = "read"
             /\ Tick(Quiet + 1)
             /\ UNCHANGED <<pen, timer, bittime, code, shown>>

-----------------------------------------------------------------------------
(* Decode. *)

leftOdd == <<<<3,2,1,1>>, <<2,2,2,1>>, <<2,1,2,2>>, <<1,4,1,1>>, <<1,1,3,2>>, <<1,2,3,1>>,
             <<1,1,1,4>>, <<1,3,1,2>>, <<1,2,1,3>>, <<3,1,1,2>>>>
leftEven == <<<<1,1,2,3>>, <<1,2,2,2>>, <<2,2,1,2>>, <<1,1,4,1>>, <<2,3,1,1>>, <<1,3,2,1>>,
              <<4,1,1,1>>, <<2,1,3,1>>, <<3,1,2,1>>, <<2,1,1,3>>>>
right == <<<<3,2,1,1>>, <<2,2,2,1>>, <<2,1,2,2>>, <<1,4,1,1>>, <<1,1,3,2>>, <<1,2,3,1>>,
           <<1,1,1,4>>, <<1,3,2,1>>, <<1,2,1,3>>, <<3,1,1,2>>>>
eanCodeSeq == <<{}, {3, 5, 6}, {3, 4, 6}, {3, 4, 5}, {2, 5, 6}, {2, 3, 6}, {2, 3, 4}, {2, 4, 6},
                {2, 4, 5}, {2, 3, 5}>>           \* where the strings have a G

(* The digit of a pattern in a table, or -1. *)
Find(s, tab) == LET at == {j \in 1..10 : tab[j] = s}
                IN IF at = {} THEN -1 ELSE (CHOOSE j \in at : \A h \in at : j <= h) - 1

EanCode(seq) == Find(seq, eanCodeSeq)

(* The tables are tried in this order. *)
IsOdd(s) == Find(s, leftOdd) # -1
IsEven(s) == ~IsOdd(s) /\ Find(s, leftEven) # -1
Digit(s) == IF IsOdd(s) THEN Find(s, leftOdd)
            ELSE IF IsEven(s) THEN Find(s, leftEven) ELSE Find(s, right)

(* Pattern j of the half that starts after element p. *)
At(ptr, p, j) == [k \in 1..4 |-> ptr[p + 4 * (j - 1) + k]]

(* Mutant: ean_code is filled from the front in both directions. *)
Mirror_not(j) == j

(* The place in ean_code of a pattern that is read from the right. *)
Mirror(j) == 7 - j

(* validData, or <<>> when Decode returns an error.  A code whose first     *)
(* pattern is even is read from the right.  The guard at the end is not     *)
(* looked at, nor is the check digit.                                       *)
Decode(ptr) ==
    LET left(j) == At(ptr, 3, j)
        second(j) == At(ptr, 32, j)
        reverse == IsEven(left(1))
        seq == IF reverse THEN {Mirror(j) : j \in {h \in 1..6 : IsOdd(second(h))}}
                          ELSE {j \in 1..6 : IsEven(left(j))}
        digits == [j \in 1..12 |-> IF j <= 6 THEN Digit(left(j)) ELSE Digit(second(j - 6))]
    IN IF \/ \E k \in (1..3) \cup (28..32) : ptr[k] # 1
          \/ \E j \in 1..12 : digits[j] = -1
       THEN <<>>
       ELSE [i \in 1..13 |-> IF i = 1 THEN EanCode(seq)
                             ELSE digits[IF reverse THEN 14 - i ELSE i - 1]]

(* main prints the number, or an error. *)
Show == /\ pc \in {"read", "full"} /\ pc' = "shown"
        /\ shown' = IF pc = "read" /\ Len(code) = ELEMENTS THEN Decode(code) ELSE <<>>
        /\ UNCHANGED <<pen, clock, timer, bittime, code>>

Next == FirstEdge \/ FirstBar \/ Element \/ Extra \/ PenLifted \/ Show

Spec == Init /\ [][Next]_vars

-----------------------------------------------------------------------------
(* Properties. *)

(* The variables keep their ranges; the last edge may be stored one past    *)
(* the end of code, whose test comes too late.                              *)
TypeOK == /\ ticks \in 0..Wrap - 1 /\ actual \in 0..Wrap - 1
          /\ counter \in 0..Wrap * Epochs - 1 /\ timer \in 0..Wrap * Epochs - 1
          /\ Len(code) <= CODE + 1 /\ \A j \in DOMAIN code : code[j] \in 0..4

(* A number is printed exactly when the pen has passed the whole code and   *)
(* nothing else, and it is the number that is printed on the paper: in both *)
(* directions, at a speed that drifts, with edges that are seen a tick      *)
(* late, and across the wrap of the tick count.                             *)
ReadRight == pc = "shown" =>
    shown = IF done = ELEMENTS /\ extra = 0 THEN number ELSE <<>>

(* The estimate of a module, which is divided and rounded down at every     *)
(* element and so never zero, stays with the speed of the pen.              *)
BitTimeClose == pc \in {"scan", "read"} => bittime \in MinSpeed - 2..MaxSpeed + 1
=============================================================================
