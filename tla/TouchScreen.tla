----------------------------- MODULE TouchScreen -----------------------------
(***************************************************************************)
(* GetTS of software/touchscreen/touchscreen.c, which main.c calls for     *)
(* ever: a voltage is put on one plate of the panel, in both directions,   *)
(* the A/D converter is read, and the readings are averaged.  Panel and    *)
(* converter are external; the transfer that reads it is in I2c.tla.       *)
(***************************************************************************)
EXTENDS Integers, Sequences

CONSTANTS
    NumSamples,   \* TS_NUM_SAMPLES (10)
    Positions,    \* where a finger may be: the reading for each axis
    Floating,     \* readings of a plate that nothing drives
    Word,         \* the range of unsigned (2^32)
    MaxFails      \* readings without the channel asked for, per call

Top == 4095
XL == "XL"
XR == "XR"
YU == "YU"
YD == "YD"
Lines == {XL, XR, YU, YD}
None == <<>>

ASSUME PanelAssumption ==
    /\ NumSamples \in Nat \ {0} /\ MaxFails \in Nat
    /\ Positions \subseteq (0..Top) \X (0..Top) /\ Floating \subseteq 0..Top
    /\ Word \in Nat /\ 4 * NumSamples * (Top + 2) < Word

VARIABLES
    wire,         \* the lines that the channels for X and Y hang on
    finger,       \* its position, or None
    moved,        \* it has moved since GetTS began
    out, high,    \* IO1DIR and the output latch: lines driven, lines high
    pc,           \* the polarization to come, or "sum" or "shown"
    xs, ys,       \* samples: the xvalues and the yvalues
    fails,
    ts            \* ts_result

vars == <<wire, finger, moved, out, high, pc, xs, ys, fails, ts>>

Zero == [x |-> 0, y |-> 0, p |-> 0]

Init == /\ wire \in {<<XL, YU>>, <<XR, YD>>}
        /\ finger \in Positions \cup {None} /\ moved = FALSE
        /\ out = {} /\ high = {}
        /\ pc = "Xx" /\ xs = <<>> /\ ys = <<>> /\ fails = 0
        /\ ts = Zero

(* The finger goes elsewhere, or is lifted. *)
Move == /\ finger' \in (Positions \cup {None}) \ {finger}
        /\ moved' = TRUE
        /\ UNCHANGED <<wire, out, high, pc, xs, ys, fails, ts>>

-----------------------------------------------------------------------------
(* A polarization is the lines driven and the lines high after it. *)

polarizeXx(o, h) == <<(o \cup {XL, XR}) \ {YU, YD}, (h \cup {XL}) \ {XR}>>

(* Mutant: a copy of polarizeXx. *)
polarizexX_same(o, h) == polarizeXx(o, h)

polarizexX(o, h) == <<(o \cup {XL, XR}) \ {YU, YD}, (h \cup {XR}) \ {XL}>>

(* The masks of the two lines of IO1DIR are the wrong way round: the plate  *)
(* that is to be driven is made an input, the other one an output.          *)
DirY(o) == (o \cap {XL, XR}) \cup (Lines \ {YU, YD})
polarizeYy(o, h) == <<DirY(o), (h \cup {YU}) \ {YD}>>
polarizeyY(o, h) == <<DirY(o), (h \cup {YD}) \ {YU}>>

(* What the converter may find at a line: the level that drives it, or, on  *)
(* a plate that is not driven, the position of the finger on the other one. *)
Levels(line, o, h) ==
    LET across == IF line \in {XL, XR} THEN <<YU, YD>> ELSE <<XL, XR>>
        axis == IF line \in {XL, XR} THEN 2 ELSE 1
    IN IF line \in o THEN {IF line \in h THEN Top ELSE 0}
       ELSE IF finger = None \/ ~({across[1], across[2]} \subseteq o) THEN Floating
       ELSE {IF across[1] \in h THEN finger[axis] ELSE Top - finger[axis]}

(* GetADC: the reading without its two low bits, or -1 when none of the     *)
(* four words is of that channel.                                           *)
Masked(u) == u - (u % 4)
GetADC(v) == IF v = Word - 1 THEN fails < MaxFails /\ fails' = fails + 1
             ELSE UNCHANGED fails
Readings(line) == {Masked(u) : u \in Levels(line, out', high')} \cup {Word - 1}

-----------------------------------------------------------------------------
(* GetTS. *)

SampleX(here, pins, next) ==
    /\ pc = here /\ pc' = next
    /\ out' = pins[1] /\ high' = pins[2]
    /\ \E v \in Readings(wire[2]) : GetADC(v) /\ xs' = Append(xs, v)
    /\ UNCHANGED <<wire, finger, moved, ys, ts>>

SampleY(here, pins, next) ==
    /\ pc = here /\ pc' = next
    /\ out' = pins[1] /\ high' = pins[2]
    /\ \E v \in Readings(wire[1]) : GetADC(v) /\ ys' = Append(ys, v)
    /\ UNCHANGED <<wire, finger, moved, xs, ts>>

Sample == \/ SampleX("Xx", polarizeXx(out, high), "Yy")
          \/ SampleY("Yy", polarizeYy(out, high), "xX")
          \/ SampleX("xX", polarizexX(out, high), "yY")
          \/ SampleY("yY", polarizeyY(out, high),
                     IF Len(ys) + 1 < 2 * NumSamples THEN "Xx" ELSE "sum")

(* Mutant: the largest reading in the place of the range. *)
ts_max_value_top == Top - 3

ts_max_value == Top + 1

Signed(v) == LET u == v % Word IN IF u >= Word \div 2 THEN u - Word ELSE u

(* The sum of the readings in one direction and the mirrored ones. *)
Sum(s) == LET sum[i \in 0..NumSamples] ==
                  IF i = 0 THEN 0
                  ELSE (sum[i - 1] + s[2 * i - 1] + (ts_max_value - s[2 * i])) % Word
          IN sum[NumSamples]
Mean(s) == Sum(s) \div (2 * NumSamples)

(* Smallest and largest after a reading v and a mirrored one.  Comparison   *)
(* with v is unsigned, with temp signed; and temp becomes the largest if it *)
(* is not the smallest.                                                     *)
Widened(r, v, temp) ==
    LET min == IF r.min % Word > v THEN Signed(v) ELSE r.min
        max == IF r.max % Word < v THEN Signed(v) ELSE r.max
        least == IF min > temp THEN temp ELSE min
    IN [min |-> least, max |-> IF least < temp THEN temp ELSE max]

Delta(s) ==
    LET range[i \in 0..NumSamples] ==
            IF i = 0 THEN [min |-> Top, max |-> 0]
            ELSE Widened(range[i - 1], s[2 * i - 1], Signed(ts_max_value - s[2 * i]))
    IN range[NumSamples].max - range[NumSamples].min

Result == /\ pc = "sum" /\ pc' = "shown"
          /\ ts' = [x |-> Mean(xs), y |-> (ts_max_value - Mean(ys)) % Word,
                    p |-> IF /\ Mean(xs) < 910 /\ Mean(ys) < 910
                             /\ Delta(xs) < 100 /\ Delta(ys) < 100 THEN 1024 ELSE 0]
          /\ xs' = <<>> /\ ys' = <<>>
          /\ UNCHANGED <<wire, finger, moved, out, high, fails>>

(* main prints the result and calls GetTS again. *)
Again == /\ pc = "shown" /\ pc' = "Xx"
         /\ ts' = Zero /\ fails' = 0 /\ moved' = FALSE
         /\ UNCHANGED <<wire, finger, out, high, xs, ys>>

Next == Move \/ Sample \/ Result \/ Again

Spec == Init /\ [][Next]_vars

-----------------------------------------------------------------------------
(* Properties. *)

(* The variables keep their ranges.  That includes the result: readings     *)
(* that failed count as -1 in the unsigned sums, and still no mean comes    *)
(* out beyond the range of the converter.                                   *)
TypeOK == /\ out \subseteq Lines /\ high \subseteq Lines
          /\ pc \in {"Xx", "Yy", "xX", "yY", "sum", "shown"}
          /\ \A s \in {xs, ys} : Len(s) <= 2 * NumSamples /\ \A i \in DOMAIN s : s[i] \in 0..Word - 1
          /\ fails \in 0..MaxFails
          /\ ts.x \in 0..Top + 1 /\ ts.y \in 0..Top + 1 /\ ts.p \in {0, 1024}

(* For a finger that is held still GetTS reports its place on the X axis,   *)
(* as exactly as the converter has it: each reading is made under the       *)
(* polarization it is for, whatever the calls before have left on the       *)
(* lines.  It is taken for a touch if it is in the lower part of the axis   *)
(* and the Y readings, which polarizeYy and polarizeyY make those of a      *)
(* line that is driven, happen to be low as well.                           *)
StillRight ==
    pc = "shown" /\ ~moved /\ fails = 0 /\ finger # None =>
        /\ ts.x \in finger[1] - 2..finger[1] + 2
        /\ (ts.p = 1024) = (ts.x < 910 /\ wire[1] = XR)
==============================================================================
