-------------------------- MODULE TouchScreenProofs --------------------------
(***************************************************************************)
(* What GetTS promises for every number of samples, every width of its     *)
(* sums that they fit in, every place of the finger and every number of    *)
(* readings that fail.                                                     *)
(***************************************************************************)
EXTENDS TouchScreen, SequenceTheorems, WellFoundedInduction, TLAPS

(* What a sample may be: a reading, or the -1 of one that failed. *)
Values == (0..Top) \cup {Word - 1}

(* All the samples of a call for one axis. *)
Full(s) == s \in Seq(Values) /\ Len(s) = 2 * NumSamples

(* How many samples have been taken in the turn of the loop that is on. *)
XDone(p) == CASE p = "Xx" -> 0 [] p = "Yy" -> 1 [] p = "xX" -> 1 [] p = "yY" -> 2
YDone(p) == CASE p = "Xx" -> 0 [] p = "Yy" -> 0 [] p = "xX" -> 1 [] p = "yY" -> 1

Loop == {"Xx", "Yy", "xX", "yY"}

(* The samples s for X and t for Y when the call has come to p. *)
Turn(m, s, t, x, y) == m \in 0..NumSamples - 1 /\ Len(s) = 2 * m + x /\ Len(t) = 2 * m + y

SamplesAt(p, s, t) ==
    /\ s \in Seq(Values) /\ t \in Seq(Values)
    /\ p \in Loop => \E m : Turn(m, s, t, XDone(p), YDone(p))
    /\ p = "sum" => Full(s) /\ Full(t)
    /\ p = "shown" => s = <<>> /\ t = <<>>

Samples == SamplesAt(pc, xs, ys)

(* What the panel and the lines may be. *)
Panel ==
    /\ wire \in {<<XL, YU>>, <<XR, YD>>} /\ finger \in Positions \cup {None}
    /\ out \subseteq Lines /\ high \subseteq Lines /\ fails \in 0..MaxFails
    /\ pc \in Loop \cup {"sum", "shown"}
    /\ pc = "Yy" => XL \in high /\ XR \notin high
    /\ pc = "yY" => XR \in high /\ XL \notin high

(* What GetTS returns. *)
ResultOK == ts.x \in 0..Top + 1 /\ ts.y \in 0..Top + 1 /\ ts.p \in {0, 1024}

(* The samples of a finger that is held still: its place, and the level of  *)
(* the line that the channel for Y hangs on.                                *)
XSamples(s, f) == \A i \in 1..Len(s) : s[i] = IF i % 2 = 1 THEN Masked(f) ELSE Masked(Top - f)
YSamples(s, line) == \A i \in 1..Len(s) :
                         s[i] = IF (i % 2 = 1) <=> (line = XL) THEN Masked(Top) ELSE 0

Still == pc # "shown" /\ ~moved /\ fails = 0 /\ finger # None =>
             XSamples(xs, finger[1]) /\ YSamples(ys, wire[1])

Inv == Samples /\ Panel /\ ResultOK /\ Still /\ StillRight

-----------------------------------------------------------------------------
(* Recursive functions of the number of samples. *)

(* A set that has 0 and the successors of its members up to N has them all. *)
LEMMA Induct ==
    ASSUME NEW N \in Nat, NEW S, 0 \in S, \A i \in 0..N - 1 : i \in S => i + 1 \in S
    PROVE  0..N \subseteq S
<1> DEFINE R == OpToRel(<, Nat)
           T == {i \in 0..N : i \notin S}
<1> SUFFICES ASSUME T # {}  PROVE FALSE
  OBVIOUS
<1>0. T \subseteq Nat
  OBVIOUS
<1>1. IsWellFoundedOn(R, Nat)
  BY NatLessThanWellFounded
<1>2. \A x, y \in Nat : <<y, x>> \in R <=> y < x
  BY DEF OpToRel
<1> HIDE DEF R
<1>3. PICK x \in T : \A y \in T : ~(<<y, x>> \in R)
  <2> HIDE DEF T
  <2> QED  BY <1>0, <1>1, WFMin
<1>4. x \in 1..N /\ x \notin S
  OBVIOUS
<1>5. x - 1 \in 0..N - 1 /\ x - 1 \in Nat /\ x \in Nat /\ x - 1 < x /\ x - 1 \in 0..N
      /\ (x - 1) + 1 = x
  BY <1>4
<1>6. x - 1 \notin T
  BY <1>2, <1>3, <1>5
<1>7. x - 1 \in S
  BY <1>5, <1>6
<1> QED  BY <1>4, <1>5, <1>7

(* A value to begin with and a step for each number define a function. *)
Follows(f, N, D, d, G) == f \in [0..N -> D] /\ f[0] = d /\ \A i \in 1..N : f[i] = G[i][f[i - 1]]

LEMMA Recursion ==
    ASSUME NEW N \in Nat, NEW D, NEW d \in D, NEW G \in [1..N -> [D -> D]]
    PROVE  \E f : Follows(f, N, D, d, G)
<1> DEFINE Good(f, m) == f[0] = d /\ \A i \in 1..m : f[i] = G[i][f[i - 1]]
           S == {m \in 0..N : \E f \in [0..m -> D] : Good(f, m)}
<1>1. 0 \in S
  <2> DEFINE f == [i \in 0..0 |-> d]
  <2>1. f \in [0..0 -> D] /\ f[0] = d /\ 0 \in 0..N
    OBVIOUS
  <2>2. Good(f, 0)
    BY <2>1
  <2> QED  BY <2>1, <2>2
<1>2. ASSUME NEW m \in 0..N - 1, m \in S  PROVE m + 1 \in S
  <2>1. PICK f \in [0..m -> D] : Good(f, m)
    BY <1>2
  <2> DEFINE g == [i \in 0..m + 1 |-> IF i = m + 1 THEN G[m + 1][f[m]] ELSE f[i]]
  <2>2. m \in 0..m /\ m + 1 \in 1..N /\ m + 1 \in 0..N
    OBVIOUS
  <2>3. G[m + 1][f[m]] \in D
    BY <2>1, <2>2
  <2>4. \A i \in 0..m + 1 : i = m + 1 \/ i \in 0..m
    OBVIOUS
  <2>5. g \in [0..m + 1 -> D]
    BY <2>1, <2>3, <2>4
  <2>6. g[m + 1] = G[m + 1][f[m]] /\ \A i \in 0..m : g[i] = f[i]
    BY <2>2
  <2> HIDE DEF g
  <2>7. Good(g, m + 1)
    <3>1. g[0] = d
      BY <2>1, <2>6
    <3>2. ASSUME NEW i \in 1..m + 1  PROVE g[i] = G[i][g[i - 1]]
      <4>1. CASE i = m + 1
        <5>1. i - 1 = m
          BY <4>1
        <5> QED  BY <2>2, <2>6, <4>1, <5>1
      <4>2. CASE i # m + 1
        <5>1. i \in 1..m /\ i \in 0..m /\ i - 1 \in 0..m
          BY <4>2
        <5> QED  BY <2>1, <2>6, <5>1
      <4> QED  BY <4>1, <4>2
    <3> QED  BY <3>1, <3>2
  <2> QED  BY <2>2, <2>5, <2>7
<1> HIDE DEF S
<1>3. N \in 0..N /\ 0..N \subseteq S
  <2>1. \A i \in 0..N - 1 : i \in S => i + 1 \in S
    BY <1>2
  <2>2. 0..N \subseteq S
    BY ONLY <1>1, <2>1, N \in Nat, Induct
  <2> QED  BY <2>2
<1>4. N \in S
  BY <1>3
<1> QED  BY <1>4 DEF S, Follows

(* The numbers the proofs depend on. *)
LEMMA Sizes ==
    /\ Top = 4095 /\ ts_max_value = 4096 /\ NumSamples \in Nat \ {0} /\ MaxFails \in Nat
    /\ Word \in Nat /\ Word > 16388 * NumSamples /\ Word > 16388
  BY PanelAssumption DEF Top, ts_max_value

LEMMA FullValues ==
    ASSUME NEW s, Full(s), NEW i \in 1..NumSamples
    PROVE  /\ s[2 * i - 1] \in Values /\ s[2 * i] \in Values
           /\ s[2 * i - 1] \in Int /\ s[2 * i] \in Int
<1>1. 2 * i - 1 \in 1..2 * NumSamples /\ 2 * i \in 1..2 * NumSamples
  BY Sizes
<1>2. s[2 * i - 1] \in Values /\ s[2 * i] \in Values
  BY <1>1, ElementOfSeq DEF Full
<1>3. \A v \in Values : v \in Int
  BY Sizes DEF Values
<1> QED  BY <1>2, <1>3

(* What the recursive function in Sum computes. *)
LEMMA SumIs ==
    ASSUME NEW s, Full(s)
    PROVE  \E f : /\ Sum(s) = f[NumSamples] /\ f[0] = 0
                  /\ \A i \in 1..NumSamples :
                        f[i] = (f[i - 1] + s[2 * i - 1] + (4096 - s[2 * i])) % Word
<1> DEFINE N == NumSamples
           D == 0..Word - 1
           Step(r, i) == (r + s[2 * i - 1] + (4096 - s[2 * i])) % Word
           G == [i \in 1..N |-> [r \in D |-> Step(r, i)]]
           F(f) == [i \in 0..N |-> IF i = 0 THEN 0 ELSE Step(f[i - 1], i)]
           sum == CHOOSE f : f = F(f)
<1>1. N \in Nat /\ 0 \in D
  BY Sizes
<1>2. ASSUME NEW r \in D, NEW i \in 1..N  PROVE Step(r, i) \in D
  <2>1. s[2 * i - 1] \in Int /\ s[2 * i] \in Int /\ r \in Int
    BY <1>1, FullValues
  <2>2. r + s[2 * i - 1] + (4096 - s[2 * i]) \in Int
    BY <2>1
  <2> QED  BY <2>2, Sizes
<1>3. G \in [1..N -> [D -> D]]
  <2> HIDE DEF D, Step
  <2> QED  BY <1>2
<1> HIDE DEF D
<1>4. PICK f \in [0..N -> D] : f[0] = 0 /\ \A i \in 1..N : f[i] = G[i][f[i - 1]]
  <2> HIDE DEF G, N
  <2>1. N \in Nat
    BY <1>1
  <2>2. 0 \in D
    BY <1>1
  <2>3. \E f : Follows(f, N, D, 0, G)
    BY ONLY <1>3, <2>1, <2>2, Recursion, Zenon
  <2> QED  BY ONLY <2>3 DEF Follows
<1>5. \A i \in 1..N : f[i] = Step(f[i - 1], i)
  <2> TAKE i \in 1..N
  <2>1. i - 1 \in 0..N
    BY <1>1
  <2>2. f[i - 1] \in D
    BY <1>4, <2>1
  <2> HIDE DEF Step
  <2> QED  BY <1>4, <2>2
<1> HIDE DEF G, Step
<1>6. f = F(f)
  <2>1. \A i \in 0..N : i = 0 \/ i \in 1..N
    BY <1>1
  <2>2. \A i \in 0..N : f[i] = F(f)[i]
    BY <1>4, <1>5, <2>1
  <2> QED  BY <2>2
<1> HIDE DEF F
<1>7. sum = F(sum)
  BY <1>6
<1> HIDE DEF sum
<1>8. sum[0] = 0 /\ \A i \in 1..N : sum[i] = Step(sum[i - 1], i)
  <2>1. \A i \in 0..N : F(sum)[i] = IF i = 0 THEN 0 ELSE Step(sum[i - 1], i)
    BY DEF F
  <2>2. 0 \in 0..N /\ \A i \in 1..N : i \in 0..N /\ i # 0
    BY <1>1
  <2> QED  BY <1>7, <2>1, <2>2
<1>9. Sum(s) = sum[N]
  BY Sizes DEF Sum, sum, F, Step
<1> QED  BY <1>8, <1>9 DEF Step

(* What the recursive function in Delta computes. *)
Ranges == [min : Int, max : Int]

LEMMA SignedType == ASSUME NEW v \in Int  PROVE Signed(v) \in Int
<1>1. v % Word \in Int /\ Word \in Int /\ (v % Word) - Word \in Int
  BY Sizes
<1> QED  BY <1>1 DEF Signed

LEMMA WidenedType ==
    ASSUME NEW r \in Ranges, NEW v \in Int, NEW temp \in Int
    PROVE  Widened(r, v, temp) \in Ranges
<1>1. Signed(v) \in Int /\ r.min \in Int /\ r.max \in Int
  BY SignedType DEF Ranges
<1> QED  BY <1>1 DEF Widened, Ranges

LEMMA DeltaIs ==
    ASSUME NEW s, Full(s)
    PROVE  \E f : /\ Delta(s) = f[NumSamples].max - f[NumSamples].min
                  /\ f[0] = [min |-> 4095, max |-> 0]
                  /\ \A i \in 1..NumSamples :
                        f[i] = Widened(f[i - 1], s[2 * i - 1], Signed(4096 - s[2 * i]))
<1> DEFINE N == NumSamples
           D == Ranges
           d == [min |-> 4095, max |-> 0]
           Step(r, i) == Widened(r, s[2 * i - 1], Signed(4096 - s[2 * i]))
           G == [i \in 1..N |-> [r \in D |-> Step(r, i)]]
           F(f) == [i \in 0..N |-> IF i = 0 THEN d ELSE Step(f[i - 1], i)]
           range == CHOOSE f : f = F(f)
<1>1. N \in Nat /\ d \in D
  BY Sizes DEF Ranges
<1>2. ASSUME NEW r \in D, NEW i \in 1..N  PROVE Step(r, i) \in D
  <2>1. s[2 * i - 1] \in Int /\ s[2 * i] \in Int
    BY <1>1, FullValues
  <2>2. 4096 - s[2 * i] \in Int
    BY <2>1
  <2> QED  BY <2>1, <2>2, SignedType, WidenedType
<1>3. G \in [1..N -> [D -> D]]
  <2> HIDE DEF D, Step
  <2> QED  BY <1>2
<1> HIDE DEF D, d
<1>4. PICK f \in [0..N -> D] : f[0] = d /\ \A i \in 1..N : f[i] = G[i][f[i - 1]]
  <2> HIDE DEF G, N
  <2>1. \E f : Follows(f, N, D, d, G)
    BY ONLY <1>1, <1>3, Recursion, Zenon
  <2> QED  BY ONLY <2>1 DEF Follows
<1>5. \A i \in 1..N : f[i] = Step(f[i - 1], i)
  <2> TAKE i \in 1..N
  <2>1. i - 1 \in 0..N
    BY <1>1
  <2>2. f[i - 1] \in D
    BY <1>4, <2>1
  <2> HIDE DEF Step
  <2> QED  BY <1>4, <2>2
<1> HIDE DEF G, Step
<1>6. f = F(f)
  <2>1. \A i \in 0..N : i = 0 \/ i \in 1..N
    BY <1>1
  <2>2. \A i \in 0..N : f[i] = F(f)[i]
    BY <1>4, <1>5, <2>1
  <2> QED  BY <2>2
<1> HIDE DEF F
<1>7. range = F(range)
  BY <1>6
<1> HIDE DEF range
<1>8. range[0] = d /\ \A i \in 1..N : range[i] = Step(range[i - 1], i)
  <2>1. \A i \in 0..N : F(range)[i] = IF i = 0 THEN d ELSE Step(range[i - 1], i)
    BY DEF F
  <2>2. 0 \in 0..N /\ \A i \in 1..N : i \in 0..N /\ i # 0
    BY <1>1
  <2> QED  BY <1>7, <2>1, <2>2
<1>9. Delta(s) = range[N].max - range[N].min
  BY Sizes DEF Delta, range, F, Step, d
<1> QED  BY <1>8, <1>9 DEF Step, d

-----------------------------------------------------------------------------
(* The means. *)

LEMMA ModOf ==
    ASSUME NEW w \in Nat \ {0}, NEW q \in Int, NEW r \in 0..w - 1
    PROVE  (w * q + r) % w = r
  OBVIOUS

(* A pair of samples adds to the sum no less than nothing and no more than  *)
(* twice the range, in unsigned arithmetic too.                             *)
LEMMA Added ==
    ASSUME NEW b \in Nat, NEW a \in 0..b, NEW v \in Values, NEW u \in Values, b + 8192 < Word
    PROVE  (a + v + (4096 - u)) % Word \in 0..b + 8192
<1> DEFINE V == IF v = Word - 1 THEN -1 ELSE v
           U == IF u = Word - 1 THEN -1 ELSE u
           t == a + V + (4096 - U)
           x == a + v + (4096 - u)
<1>1. V \in -1..4095 /\ U \in -1..4095
  BY Sizes DEF Values
<1>2. t \in 0..b + 8192 /\ t \in 0..Word - 1
  <2> HIDE DEF V, U
  <2>1. t \in 0..b + 8192
    BY <1>1
  <2>2. \A y \in 0..b + 8192 : y \in 0..Word - 1
    BY Sizes
  <2> QED  BY <2>1, <2>2
<1>3. x = t \/ x = Word + t \/ x = t - Word
  BY <1>1, Sizes DEF Values
<1> HIDE DEF t, x
<1>4. Word \in Nat \ {0} /\ Word * 1 + t = Word + t /\ Word * (-1) + t = t - Word
      /\ Word * 0 + t = t
  BY <1>2, Sizes
<1>5. x % Word = t
  <2>1. (Word * 1 + t) % Word = t /\ (Word * (-1) + t) % Word = t /\ (Word * 0 + t) % Word = t
    BY <1>2, <1>4, ModOf
  <2> QED  BY <1>3, <1>4, <2>1
<1> QED  BY <1>2, <1>5 DEF x

(* The sum of any samples. *)
LEMMA SumBound ==
    ASSUME NEW s, Full(s)
    PROVE  Sum(s) \in 0..8192 * NumSamples
<1> DEFINE N == NumSamples
<1>1. PICK f : /\ Sum(s) = f[N] /\ f[0] = 0
               /\ \A i \in 1..N : f[i] = (f[i - 1] + s[2 * i - 1] + (4096 - s[2 * i])) % Word
  BY SumIs
<1> DEFINE S == {i \in 0..N : f[i] \in 0..8192 * i}
<1>2. N \in Nat /\ N \in 0..N /\ 0 \in 0..N
  BY Sizes
<1>3. 0 \in S
  BY <1>1, <1>2
<1>4. ASSUME NEW m \in 0..N - 1, m \in S  PROVE m + 1 \in S
  <2> DEFINE i == m + 1
             b == 8192 * m
             a == f[m]
             v == s[2 * i - 1]
             u == s[2 * i]
  <2>1. i \in 1..N /\ i - 1 = m /\ i \in 0..N /\ b \in Nat /\ b + 8192 = 8192 * i /\ b + 8192 < Word
    BY <1>2, <1>4, Sizes
  <2>2. v \in Values /\ u \in Values
    BY <2>1, FullValues
  <2>3. a \in 0..b
    BY <1>4
  <2>4. f[i] = (a + v + (4096 - u)) % Word
    BY <1>1, <2>1
  <2> HIDE DEF i, b, a, v, u
  <2>5. f[i] \in 0..b + 8192
    BY <2>1, <2>2, <2>3, <2>4, Added
  <2>6. i \in S
    BY <2>1, <2>5
  <2> QED  BY <2>6 DEF i
<1> HIDE DEF S
<1>5. 0..N \subseteq S
  <2>1. \A i \in 0..N - 1 : i \in S => i + 1 \in S
    BY <1>4
  <2>2. N \in Nat
    BY <1>2
  <2> HIDE DEF N
  <2> QED  BY ONLY <1>3, <2>1, <2>2, Induct
<1>6. N \in S
  BY <1>2, <1>5
<1> QED  BY <1>1, <1>6 DEF S

(* The mean of any samples. *)
LEMMA MeanBound ==
    ASSUME NEW s, Full(s)
    PROVE  Mean(s) \in 0..4096
<1> DEFINE w == 2 * NumSamples
           x == Sum(s)
           q == x \div w
           r == x % w
<1>1. w \in Nat \ {0} /\ x \in 0..4096 * w
  <2>1. 8192 * NumSamples = 4096 * w /\ w \in Nat \ {0}
    BY Sizes
  <2> QED  BY <2>1, SumBound
<1> HIDE DEF w, x
<1>2. q \in Int /\ r \in 0..w - 1 /\ x = w * q + r
  BY <1>1
<1> HIDE DEF q, r
<1>3. q >= 0
  <2> SUFFICES ASSUME q <= -1  PROVE FALSE
    BY <1>2
  <2>1. w * q <= w * (-1)
    BY <1>1, <1>2
  <2> QED  BY <1>1, <1>2, <2>1
<1>4. q <= 4096
  <2> SUFFICES ASSUME q >= 4097  PROVE FALSE
    BY <1>2
  <2>1. w * q >= w * 4097
    BY <1>1, <1>2
  <2> QED  BY <1>1, <1>2, <2>1
<1>5. Mean(s) = q
  BY DEF Mean, q, x, w
<1> QED  BY ONLY <1>2, <1>3, <1>4, <1>5

-----------------------------------------------------------------------------
(* Samples that are the same in every turn. *)
Steady(s, v, u) == Full(s) /\ \A i \in 1..NumSamples : s[2 * i - 1] = v /\ s[2 * i] = u

Reading == 0..4095
Pair(v, u) == v + (4096 - u)

LEMMA SteadySum ==
    ASSUME NEW v \in Reading, NEW u \in Reading, NEW s, Steady(s, v, u)
    PROVE  Sum(s) = NumSamples * Pair(v, u)
<1> USE DEF Reading, Pair
<1> DEFINE N == NumSamples
           c == v + (4096 - u)
<1>1. PICK f : /\ Sum(s) = f[N] /\ f[0] = 0
               /\ \A i \in 1..N : f[i] = (f[i - 1] + s[2 * i - 1] + (4096 - s[2 * i])) % Word
  BY SumIs DEF Steady
<1>2. N \in Nat /\ N \in 0..N /\ 0 \in 0..N /\ c \in 0..8192
  BY Sizes
<1> DEFINE S == {i \in 0..N : f[i] = i * c}
<1>3. 0 \in S
  BY <1>1, <1>2
<1>4. ASSUME NEW m \in 0..N - 1, m \in S  PROVE m + 1 \in S
  <2> DEFINE i == m + 1
             y == m * c
  <2>1. i \in 1..N /\ i - 1 = m /\ i \in 0..N /\ m \in Nat
    BY <1>2, <1>4
  <2>2. f[i] = (f[m] + v + (4096 - u)) % Word /\ f[m] = y
    BY <1>1, <1>4, <2>1 DEF Steady
  <2>3. y \in Nat /\ y <= 8192 * m
    <3>1. m * c <= m * 8192 /\ m * c \in Nat
      BY <1>2, <2>1
    <3> QED  BY <2>1, <3>1
  <2>4. i * c = y + c
    BY <1>2, <2>1
  <2> HIDE DEF y
  <2>5. f[m] + v + (4096 - u) = y + c
    BY <2>2, <2>3
  <2> HIDE DEF c, i
  <2>6. y + c \in 0..Word - 1
    <3>1. 8192 * m + 8192 < Word
      BY <1>4, Sizes
    <3>2. \A W, k, p, q \in Nat : p <= k /\ q <= 8192 /\ k + 8192 < W => p + q \in 0..W - 1
      BY ONLY TRUE
    <3>3. Word \in Nat /\ 8192 * m \in Nat /\ y \in Nat /\ c \in Nat /\ c <= 8192
      BY <1>2, <2>1, <2>3, Sizes
    <3> QED  BY ONLY <2>3, <3>1, <3>2, <3>3
  <2>7. (y + c) % Word = y + c
    BY <2>6, Sizes
  <2>8. f[i] = i * c
    BY <2>2, <2>4, <2>5, <2>7
  <2>9. i \in S
    BY <2>1, <2>8
  <2> QED  BY <2>9 DEF i
<1> HIDE DEF S
<1>5. 0..N \subseteq S
  <2>1. \A i \in 0..N - 1 : i \in S => i + 1 \in S
    BY <1>4
  <2>2. N \in Nat
    BY <1>2
  <2> HIDE DEF N
  <2> QED  BY ONLY <1>3, <2>1, <2>2, Induct
<1>6. N \in S
  BY <1>2, <1>5
<1> QED  BY <1>1, <1>6 DEF S

LEMMA SteadyMean ==
    ASSUME NEW v \in Reading, NEW u \in Reading, NEW s, Steady(s, v, u),
           NEW d \in Nat, Pair(v, u) = 2 * d
    PROVE  Mean(s) = d
<1> DEFINE w == 2 * NumSamples
<1>1. w \in Nat \ {0} /\ NumSamples \in Nat
  BY Sizes
<1>2. Sum(s) = NumSamples * (2 * d)
  <2>1. Sum(s) = NumSamples * Pair(v, u)
    BY SteadySum, Zenon
  <2>2. Pair(v, u) = 2 * d
    OBVIOUS
  <2> QED  BY ONLY <2>1, <2>2, Zenon
<1>3. NumSamples * (2 * d) = w * d
  BY <1>1
<1> HIDE DEF w
<1>4. (w * d) \div w = d
  BY <1>1
<1> QED  BY <1>2, <1>3, <1>4 DEF Mean, w

(* A small number is the same as a signed one. *)
Small == 0..8192
Same(v) == Signed(v) = v /\ v % Word = v

LEMMA SignedIs == ASSUME NEW v \in Small  PROVE Same(v)
<1> USE DEF Small
<1>1. Word \in Nat /\ Word > 16388
  BY Sizes
<1>2. v % Word = v
  BY <1>1
<1>3. ~(v >= Word \div 2)
  BY <1>1
<1> QED  BY <1>2, <1>3 DEF Signed, Same

Aligned == 0..4092
Mirror(v) == 4092 - v

LEMMA SteadyDelta ==
    ASSUME NEW v \in Aligned, NEW s, Steady(s, v, Mirror(v))
    PROVE  Delta(s) = 4
<1> USE DEF Aligned, Mirror
<1> DEFINE N == NumSamples
           g == [min |-> v, max |-> v + 4]
           z == [min |-> 4095, max |-> 0]
<1>0. Same(v) /\ Same(v + 4)
  <2>1. v \in Small /\ v + 4 \in Small
    BY DEF Small
  <2> QED  BY <2>1, SignedIs
<1>1. PICK f : /\ Delta(s) = f[N].max - f[N].min /\ f[0] = z
               /\ \A i \in 1..N : f[i] = Widened(f[i - 1], s[2 * i - 1], Signed(4096 - s[2 * i]))
  BY DeltaIs DEF Steady
<1>2. \A i \in 1..N : f[i] = Widened(f[i - 1], v, v + 4)
  <2> TAKE i \in 1..N
  <2>1. s[2 * i - 1] = v /\ s[2 * i] = 4092 - v
    BY DEF Steady
  <2>2. 4096 - (4092 - v) = v + 4
    OBVIOUS
  <2>3. Signed(v + 4) = v + 4
    BY <1>0 DEF Same
  <2> QED  BY <1>1, <2>1, <2>2, <2>3
<1>3. Signed(v) = v /\ (v + 4) % Word = v + 4 /\ v % Word = v
  BY <1>0 DEF Same
<1>31. 4095 % Word = 4095 /\ 0 % Word = 0
  BY Sizes
<1>4. Widened(z, v, v + 4) = g
  BY <1>3, <1>31 DEF Widened
<1>5. Widened(g, v, v + 4) = g
  BY <1>3 DEF Widened
<1> HIDE DEF g, z
<1> DEFINE S == {i \in 0..N : i = 0 \/ f[i] = g}
<1>6. N \in Nat \ {0} /\ N \in 0..N /\ 0 \in 0..N
  BY Sizes
<1>7. 0 \in S
  BY <1>6
<1>8. ASSUME NEW m \in 0..N - 1, m \in S  PROVE m + 1 \in S
  <2>1. m + 1 \in 1..N /\ (m + 1) - 1 = m /\ m + 1 \in 0..N
    BY <1>6, <1>8
  <2>2. f[m + 1] = Widened(f[m], v, v + 4)
    BY <1>2, <2>1
  <2>3. f[m] = z \/ f[m] = g
    BY <1>1, <1>8
  <2>4. f[m + 1] = g
    BY <1>4, <1>5, <2>2, <2>3
  <2> QED  BY <2>1, <2>4
<1> HIDE DEF S
<1>9. 0..N \subseteq S
  <2>1. \A i \in 0..N - 1 : i \in S => i + 1 \in S
    BY <1>8
  <2>2. N \in Nat
    BY <1>6
  <2> HIDE DEF N
  <2> QED  BY ONLY <1>7, <2>1, <2>2, Induct
<1>10. f[N] = g
  BY <1>6, <1>9 DEF S
<1>11. g.max - g.min = 4
  BY DEF g
<1> QED  BY <1>1, <1>10, <1>11

(* The samples of a finger that is held still are steady. *)
Cut(f, a) == f \in 4 * a..4 * a + 3 /\ Masked(f) = 4 * a /\ Masked(4095 - f) = 4092 - 4 * a

LEMMA MaskedIs == ASSUME NEW f \in Reading  PROVE \E a \in 0..1023 : Cut(f, a)
<1> USE DEF Reading
<1> DEFINE a == f \div 4
           r == f % 4
<1>1. a \in 0..1023 /\ r \in 0..3 /\ f = 4 * a + r
  OBVIOUS
<1>2. r \in {0, 1, 2, 3}
  BY <1>1
<1>3. 4095 - f = 4 * (1023 - a) + (3 - r) /\ 3 - r \in 0..3 /\ 1023 - a \in Int
  BY <1>1
<1>4. (4095 - f) % 4 = 3 - r
  <2> HIDE DEF a, r
  <2> DEFINE b == 1023 - a
             k == 3 - r
  <2>1. b \in Int /\ k \in 0..3 /\ 4095 - f = 4 * b + k
    BY <1>3
  <2> HIDE DEF b, k
  <2>2. (4 * b + k) % 4 = k
    BY ONLY <2>1
  <2> QED  BY <2>1, <2>2 DEF k
<1> HIDE DEF a
<1>5. Masked(f) = 4 * a /\ f \in 4 * a..4 * a + 3
  BY <1>1 DEF Masked
<1>6. Masked(4095 - f) = 4092 - 4 * a
  <2>1. Masked(4095 - f) = (4095 - f) - (3 - r)
    BY <1>4 DEF Masked
  <2> HIDE DEF r
  <2> QED  BY <1>1, <2>1
<1>7. a \in 0..1023 /\ Cut(f, a)
  BY <1>1, <1>5, <1>6 DEF Cut
<1> QED  BY <1>7

LEMMA XSteady ==
    ASSUME NEW s, Full(s), NEW f \in Reading, XSamples(s, f)
    PROVE  Steady(s, Masked(f), Masked(4095 - f))
<1> SUFFICES ASSUME NEW i \in 1..NumSamples
             PROVE  s[2 * i - 1] = Masked(f) /\ s[2 * i] = Masked(4095 - f)
  BY DEF Steady
<1>1. 2 * i - 1 \in 1..2 * NumSamples /\ 2 * i \in 1..2 * NumSamples
      /\ (2 * i - 1) % 2 = 1 /\ (2 * i) % 2 = 0
  BY Sizes
<1> QED  BY <1>1, Sizes DEF Full, XSamples

LEMMA YSteady ==
    ASSUME NEW s, Full(s), NEW line, YSamples(s, line)
    PROVE  IF line = XL THEN Steady(s, 4092, 0) ELSE Steady(s, 0, 4092)
<1>1. Masked(Top) = 4092
  BY Sizes DEF Masked
<1>2. ASSUME NEW i \in 1..NumSamples
      PROVE  IF line = XL THEN s[2 * i - 1] = 4092 /\ s[2 * i] = 0
                          ELSE s[2 * i - 1] = 0 /\ s[2 * i] = 4092
  <2>1. 2 * i - 1 \in 1..2 * NumSamples /\ 2 * i \in 1..2 * NumSamples
        /\ (2 * i - 1) % 2 = 1 /\ (2 * i) % 2 = 0
    BY Sizes
  <2> QED  BY <1>1, <2>1 DEF Full, YSamples
<1> QED  BY <1>2 DEF Steady

(* What Result computes for a finger that is held still. *)
LEMMA XResult ==
    ASSUME NEW s, Full(s), NEW f \in Reading, XSamples(s, f)
    PROVE  Mean(s) \in f - 2..f + 2 /\ Delta(s) = 4
<1>1. Steady(s, Masked(f), Masked(4095 - f))
  BY XSteady
<1>2. PICK a \in 0..1023 : Cut(f, a)
  BY MaskedIs
<1> DEFINE v == 4 * a
           u == Mirror(v)
           d == 4 * a + 2
<1>3. /\ v \in Aligned /\ v \in Reading /\ u \in Reading /\ d \in Nat
      /\ Pair(v, u) = 2 * d /\ d \in f - 2..f + 2
  BY <1>2 DEF Reading, Pair, Cut, Aligned, Mirror
<1>4. Steady(s, v, Mirror(v))
  BY <1>1, <1>2 DEF Cut, Mirror
<1> HIDE DEF v, d
<1>5. Delta(s) = 4
  BY <1>3, <1>4, SteadyDelta
<1>6. Mean(s) = d
  <2>1. Steady(s, v, u)
    BY <1>4
  <2> HIDE DEF u
  <2> QED  BY <1>3, <2>1, SteadyMean
<1> QED  BY <1>3, <1>5, <1>6

LEMMA YResult ==
    ASSUME NEW s, Full(s), NEW line, YSamples(s, line)
    PROVE  /\ line = XL => Mean(s) = 4094
           /\ line # XL => Mean(s) = 2 /\ Delta(s) = 4
<1>1. CASE line = XL
  <2> DEFINE v == 4092
             u == 0
             d == 4094
  <2>1. Steady(s, v, u) /\ v \in Reading /\ u \in Reading /\ d \in Nat /\ Pair(v, u) = 2 * d
    BY <1>1, YSteady DEF Reading, Pair
  <2> HIDE DEF v, u, d
  <2>2. Mean(s) = d
    BY <2>1, SteadyMean
  <2> QED  BY <1>1, <2>2 DEF d
<1>2. CASE line # XL
  <2> DEFINE v == 0
             u == 4092
             d == 2
  <2>1. Steady(s, v, u) /\ v \in Reading /\ u \in Reading /\ d \in Nat /\ Pair(v, u) = 2 * d
    BY <1>2, YSteady DEF Reading, Pair
  <2>2. v \in Aligned /\ Mirror(v) = u
    BY DEF Aligned, Mirror
  <2> HIDE DEF v, u, d
  <2>3. Mean(s) = d
    BY <2>1, SteadyMean
  <2>4. Delta(s) = 4
    BY <2>1, <2>2, SteadyDelta
  <2> QED  BY <1>2, <2>3, <2>4 DEF d
<1> QED  BY <1>1, <1>2

-----------------------------------------------------------------------------
(* What a sample is. *)

LEMMA FingerIs ==
    ASSUME Panel, finger # None
    PROVE  finger \in Positions /\ finger[1] \in Reading /\ finger[2] \in Reading
  BY PanelAssumption, Sizes DEF Panel, Reading

LEMMA LevelValues ==
    ASSUME Panel, NEW line, NEW o, NEW h, NEW u \in Levels(line, o, h)
    PROVE  u \in Reading
<1>1. CASE line \in o
  BY <1>1, Sizes DEF Levels, Reading
<1>2. CASE line \notin o /\ u \in Floating
  BY <1>2, PanelAssumption, Sizes DEF Reading
<1>3. CASE line \notin o /\ u \notin Floating
  <2>1. finger # None
    BY <1>3 DEF Levels
  <2>2. PICK axis \in {1, 2} : u = finger[axis] \/ u = Top - finger[axis]
    BY <1>3 DEF Levels
  <2>3. finger[axis] \in Reading
    BY <2>1, <2>2, FingerIs
  <2>4. \A x \in Reading : Top - x \in Reading
    BY Sizes DEF Reading
  <2> QED  BY ONLY <2>2, <2>3, <2>4
<1> QED  BY <1>1, <1>2, <1>3

LEMMA ReadingValues ==
    ASSUME Panel, NEW line, NEW v \in Readings(line)
    PROVE  v \in Values
<1>1. CASE v = Word - 1
  BY <1>1 DEF Values
<1>2. CASE v # Word - 1
  <2>1. PICK u \in Levels(line, out', high') : v = Masked(u)
    BY <1>2 DEF Readings
  <2>2. u \in Reading
    BY <2>1, LevelValues
  <2>3. Masked(u) \in 0..4095
    BY <2>2 DEF Masked, Reading
  <2> QED  BY <2>1, <2>3, Sizes DEF Values
<1> QED  BY <1>1, <1>2

(* The finger's place on the X axis, seen from the side that is high. *)
LEMMA XRead ==
    ASSUME Panel, finger # None, NEW v \in Readings(wire[2]), v # Word - 1,
           {XL, XR} \subseteq out', YU \notin out', YD \notin out'
    PROVE  v = IF XL \in high' THEN Masked(finger[1]) ELSE Masked(Top - finger[1])
<1>1. PICK u \in Levels(wire[2], out', high') : v = Masked(u)
  BY DEF Readings
<1>2. wire[2] \in {YU, YD}
  BY DEF Panel
<1>3. wire[2] \notin {XL, XR} /\ wire[2] \notin out'
  BY <1>2 DEF XL, XR, YU, YD
<1>4. u = IF XL \in high' THEN finger[1] ELSE Top - finger[1]
  BY <1>1, <1>3 DEF Levels
<1> QED  BY <1>1, <1>4

(* The level of a line that is driven. *)
LEMMA YRead ==
    ASSUME Panel, NEW v \in Readings(wire[1]), v # Word - 1, {XL, XR} \subseteq out'
    PROVE  v = IF wire[1] \in high' THEN Masked(Top) ELSE 0
<1>1. PICK u \in Levels(wire[1], out', high') : v = Masked(u)
  BY DEF Readings
<1>2. wire[1] \in {XL, XR}
  BY DEF Panel
<1>3. u = IF wire[1] \in high' THEN Top ELSE 0
  BY <1>1, <1>2 DEF Levels
<1>4. Masked(0) = 0
  BY DEF Masked
<1> QED  BY <1>1, <1>3, <1>4

(* A sample at the end of the ones before. *)
LEMMA Appended ==
    ASSUME NEW s \in Seq(Values), NEW v \in Values
    PROVE  /\ Append(s, v) \in Seq(Values) /\ Len(Append(s, v)) = Len(s) + 1
           /\ \A i \in 1..Len(s) + 1 : Append(s, v)[i] = IF i = Len(s) + 1 THEN v ELSE s[i]
           /\ \A i \in 1..Len(s) + 1 : i = Len(s) + 1 \/ i \in 1..Len(s)
<1>1. Len(s) \in Nat
  BY LenProperties
<1> QED  BY <1>1, AppendProperties

LEMMA XAppended ==
    ASSUME NEW s \in Seq(Values), NEW v \in Values, NEW f, XSamples(s, f),
           v = IF (Len(s) + 1) % 2 = 1 THEN Masked(f) ELSE Masked(Top - f)
    PROVE  XSamples(Append(s, v), f)
<1> SUFFICES ASSUME NEW i \in 1..Len(s) + 1
             PROVE  Append(s, v)[i] = IF i % 2 = 1 THEN Masked(f) ELSE Masked(Top - f)
  BY Appended DEF XSamples
<1>1. CASE i = Len(s) + 1
  BY <1>1, Appended
<1>2. CASE i # Len(s) + 1
  <2>1. i \in 1..Len(s) /\ Append(s, v)[i] = s[i]
    BY <1>2, Appended
  <2> QED  BY <2>1 DEF XSamples
<1> QED  BY <1>1, <1>2

LEMMA YAppended ==
    ASSUME NEW s \in Seq(Values), NEW v \in Values, NEW line, YSamples(s, line),
           v = IF ((Len(s) + 1) % 2 = 1) <=> (line = XL) THEN Masked(Top) ELSE 0
    PROVE  YSamples(Append(s, v), line)
<1> SUFFICES ASSUME NEW i \in 1..Len(s) + 1
             PROVE  Append(s, v)[i] = IF (i % 2 = 1) <=> (line = XL) THEN Masked(Top) ELSE 0
  BY Appended DEF YSamples
<1>1. CASE i = Len(s) + 1
  BY <1>1, Appended
<1>2. CASE i # Len(s) + 1
  <2>1. i \in 1..Len(s) /\ Append(s, v)[i] = s[i]
    BY <1>2, Appended
  <2> QED  BY <2>1 DEF YSamples
<1> QED  BY <1>1, <1>2

(* How many samples there are at each place of the loop. *)
Counted(p, s, t) ==
    /\ p = "Xx" => \E m : Turn(m, s, t, 0, 0)
    /\ p = "Yy" => \E m : Turn(m, s, t, 1, 0)
    /\ p = "xX" => \E m : Turn(m, s, t, 1, 1)
    /\ p = "yY" => \E m : Turn(m, s, t, 2, 1)

LEMMA Counts ==
    ASSUME NEW p \in Loop, NEW s \in Seq(Values), NEW t \in Seq(Values)
    PROVE  SamplesAt(p, s, t) <=> Counted(p, s, t)
<1>1. /\ p = "Xx" => XDone(p) = 0 /\ YDone(p) = 0
      /\ p = "Yy" => XDone(p) = 1 /\ YDone(p) = 0
      /\ p = "xX" => XDone(p) = 1 /\ YDone(p) = 1
      /\ p = "yY" => XDone(p) = 2 /\ YDone(p) = 1
  BY DEF XDone, YDone
<1>2. p # "sum" /\ p # "shown"
  BY DEF Loop
<1> QED  BY <1>1, <1>2 DEF Loop, SamplesAt, Counted

-----------------------------------------------------------------------------
(* The actions. *)

(* A sample for X, and one for Y, made under the polarization it is for. *)
LEMMA XSampled ==
    ASSUME Inv, pc # "shown", {XL, XR} \subseteq out', YU \notin out', YD \notin out',
           XL \in high' <=> (Len(xs) + 1) % 2 = 1,
           \E v \in Readings(wire[2]) : GetADC(v) /\ xs' = Append(xs, v)
    PROVE  /\ xs' \in Seq(Values) /\ Len(xs') = Len(xs) + 1 /\ fails' \in 0..MaxFails
           /\ ~moved /\ fails' = 0 /\ finger # None => fails = 0 /\ XSamples(xs', finger[1])
<1>1. PICK v \in Readings(wire[2]) : GetADC(v) /\ xs' = Append(xs, v)
  OBVIOUS
<1>2. v \in Values /\ xs \in Seq(Values) /\ fails \in 0..MaxFails
  BY <1>1, ReadingValues DEF Inv, Samples, SamplesAt, Panel
<1>3. xs' \in Seq(Values) /\ Len(xs') = Len(xs) + 1
  BY <1>1, <1>2, Appended
<1>4. fails' \in 0..MaxFails
  BY <1>1, <1>2, Sizes DEF GetADC
<1>5. ASSUME ~moved, fails' = 0, finger # None  PROVE fails = 0 /\ XSamples(xs', finger[1])
  <2>1. fails = 0 /\ v # Word - 1
    BY <1>1, <1>2, <1>5 DEF GetADC
  <2>2. XSamples(xs, finger[1])
    BY <1>5, <2>1 DEF Inv, Still
  <2>3. v = IF (Len(xs) + 1) % 2 = 1 THEN Masked(finger[1]) ELSE Masked(Top - finger[1])
    BY <1>1, <1>5, <2>1, XRead DEF Inv
  <2> QED  BY <1>1, <1>2, <2>1, <2>2, <2>3, XAppended
<1> QED  BY <1>3, <1>4, <1>5

LEMMA YSampled ==
    ASSUME Inv, pc # "shown", {XL, XR} \subseteq out',
           wire[1] \in high' <=> ((Len(ys) + 1) % 2 = 1 <=> wire[1] = XL),
           \E v \in Readings(wire[1]) : GetADC(v) /\ ys' = Append(ys, v)
    PROVE  /\ ys' \in Seq(Values) /\ Len(ys') = Len(ys) + 1 /\ fails' \in 0..MaxFails
           /\ ~moved /\ fails' = 0 /\ finger # None => fails = 0 /\ YSamples(ys', wire[1])
<1>1. PICK v \in Readings(wire[1]) : GetADC(v) /\ ys' = Append(ys, v)
  OBVIOUS
<1>2. v \in Values /\ ys \in Seq(Values) /\ fails \in 0..MaxFails
  BY <1>1, ReadingValues DEF Inv, Samples, SamplesAt, Panel
<1>3. ys' \in Seq(Values) /\ Len(ys') = Len(ys) + 1
  BY <1>1, <1>2, Appended
<1>4. fails' \in 0..MaxFails
  BY <1>1, <1>2, Sizes DEF GetADC
<1>5. ASSUME ~moved, fails' = 0, finger # None  PROVE fails = 0 /\ YSamples(ys', wire[1])
  <2>1. fails = 0 /\ v # Word - 1
    BY <1>1, <1>2, <1>5 DEF GetADC
  <2>2. YSamples(ys, wire[1])
    BY <1>5, <2>1 DEF Inv, Still
  <2>3. v = IF ((Len(ys) + 1) % 2 = 1) <=> (wire[1] = XL) THEN Masked(Top) ELSE 0
    BY <1>1, <1>5, <2>1, YRead DEF Inv
  <2> QED  BY <1>1, <1>2, <2>1, <2>2, <2>3, YAppended
<1> QED  BY <1>3, <1>4, <1>5

LEMMA Begin == Init => Inv
<1> SUFFICES ASSUME Init  PROVE Inv
  OBVIOUS
<1>1. Samples
  <2>1. xs \in Seq(Values) /\ ys \in Seq(Values) /\ Len(xs) = 0 /\ Len(ys) = 0
    BY DEF Init
  <2>2. pc = "Xx" /\ pc \in Loop /\ Turn(0, xs, ys, 0, 0)
    BY <2>1, Sizes DEF Turn, Init, Loop
  <2> QED  BY <2>1, <2>2, Counts DEF Counted, Samples
<1>2. Panel
  BY Sizes DEF Init, Panel, Loop
<1>3. ResultOK
  BY Sizes DEF Init, ResultOK, Zero
<1>4. Still
  BY DEF Init, Still, XSamples, YSamples
<1>5. StillRight
  BY DEF Init, StillRight
<1> QED  BY <1>1, <1>2, <1>3, <1>4, <1>5 DEF Inv

LEMMA MoveStep == Inv /\ Move => Inv'
<1> SUFFICES ASSUME Inv, Move  PROVE Inv'
  OBVIOUS
<1>1. Samples'
  BY DEF Inv, Samples, Move
<1>2. Panel'
  BY DEF Inv, Panel, Move
<1>3. ResultOK'
  BY DEF Inv, ResultOK, Move
<1>4. Still' /\ StillRight'
  BY DEF Move, Still, StillRight
<1> QED  BY <1>1, <1>2, <1>3, <1>4 DEF Inv

LEMMA AgainStep == Inv /\ Again => Inv'
<1> SUFFICES ASSUME Inv, Again  PROVE Inv'
  OBVIOUS
<1>0. xs' = <<>> /\ ys' = <<>> /\ pc' = "Xx"
  BY DEF Inv, Samples, SamplesAt, Again
<1>1. Samples'
  <2>1. xs' \in Seq(Values) /\ ys' \in Seq(Values) /\ Len(xs') = 0 /\ Len(ys') = 0
    BY <1>0
  <2>2. pc' \in Loop /\ Turn(0, xs', ys', 0, 0)
    BY <1>0, <2>1, Sizes DEF Turn, Loop
  <2> QED  BY <1>0, <2>1, <2>2, Counts DEF Counted, Samples
<1>2. Panel'
  BY <1>0, Sizes DEF Inv, Panel, Again, Loop
<1>3. ResultOK'
  BY Sizes DEF Again, ResultOK, Zero
<1>4. Still' /\ StillRight'
  BY <1>0 DEF Still, XSamples, YSamples, StillRight
<1> QED  BY <1>1, <1>2, <1>3, <1>4 DEF Inv

LEMMA ResultStep == Inv /\ Result => Inv'
<1> SUFFICES ASSUME Inv, Result  PROVE Inv'
  OBVIOUS
<1>0. Full(xs) /\ Full(ys) /\ pc = "sum" /\ pc' = "shown" /\ xs' = <<>> /\ ys' = <<>>
  BY DEF Inv, Samples, SamplesAt, Result
<1>1. Samples'
  BY <1>0 DEF Samples, SamplesAt, Loop
<1>2. Panel'
  BY <1>0 DEF Inv, Panel, Result, Loop
<1>3. Mean(xs) \in 0..4096 /\ Mean(ys) \in 0..4096
  BY <1>0, MeanBound
<1>4. ts' = [x |-> Mean(xs), y |-> (ts_max_value - Mean(ys)) % Word,
             p |-> IF /\ Mean(xs) < 910 /\ Mean(ys) < 910
                      /\ Delta(xs) < 100 /\ Delta(ys) < 100 THEN 1024 ELSE 0]
  BY DEF Result
<1>5. ResultOK'
  <2> DEFINE z == Mean(ys)
             y == ts_max_value - z
  <2>1. y \in 0..4096
    <3>1. z \in 0..4096
      BY <1>3
    <3> HIDE DEF z
    <3> QED  BY <3>1, Sizes
  <2> HIDE DEF y
  <2>2. y % Word = y
    BY <2>1, Sizes
  <2>3. ts'.y \in 0..Top + 1
    BY <1>4, <2>1, <2>2, Sizes DEF y
  <2>4. ts'.x \in 0..Top + 1 /\ ts'.p \in {0, 1024}
    BY <1>3, <1>4, Sizes
  <2> QED  BY <2>3, <2>4 DEF ResultOK
<1>6. Still'
  BY <1>0 DEF Still
<1>7. StillRight'
  <2> SUFFICES ASSUME ~moved, fails = 0, finger # None
               PROVE  /\ ts'.x \in finger[1] - 2..finger[1] + 2
                      /\ (ts'.p = 1024) = (ts'.x < 910 /\ wire[1] = XR)
    BY DEF Result, StillRight
  <2>1. XSamples(xs, finger[1]) /\ YSamples(ys, wire[1]) /\ finger[1] \in Reading
    BY <1>0, FingerIs DEF Inv, Still
  <2>2. Mean(xs) \in finger[1] - 2..finger[1] + 2 /\ Delta(xs) = 4
    BY <1>0, <2>1, XResult
  <2>3. ts'.x = Mean(xs)
    BY <1>4
  <2>4. CASE wire[1] = XL
    <3>1. Mean(ys) = 4094 /\ XL # XR
      BY <1>0, <2>1, <2>4, YResult DEF XL, XR
    <3>2. ts'.p = 0
      BY <1>4, <3>1
    <3> QED  BY <2>2, <2>3, <2>4, <3>1, <3>2
  <2>5. CASE wire[1] # XL
    <3>1. Mean(ys) = 2 /\ Delta(ys) = 4
      BY <1>0, <2>1, <2>5, YResult
    <3>2. wire[1] = XR
      BY <2>5 DEF Inv, Panel
    <3>3. ts'.p = IF Mean(xs) < 910 THEN 1024 ELSE 0
      BY <1>4, <2>2, <3>1
    <3> QED  BY <2>2, <2>3, <3>2, <3>3
  <2> QED  BY <2>4, <2>5
<1> QED  BY <1>1, <1>2, <1>5, <1>6, <1>7 DEF Inv

(* What a sample changes: the lines and what has been read.  The polarization *)
(* leaves the X plate driven, from the side that the samples before it ask    *)
(* for.                                                                       *)
LEMMA SampleStep == Inv /\ Sample => Inv'
<1> SUFFICES ASSUME Inv, Sample  PROVE Inv'
  OBVIOUS
<1> USE DEF Inv
<1>1. xs \in Seq(Values) /\ ys \in Seq(Values) /\ Len(xs) \in Nat /\ Len(ys) \in Nat
  <2>1. xs \in Seq(Values) /\ ys \in Seq(Values)
    BY DEF Samples, SamplesAt
  <2> QED  BY <2>1, LenProperties
<1>2. wire[1] \in {XL, XR} /\ XL # XR /\ XL \notin {YU, YD} /\ XR \notin {YU, YD}
  BY DEF Panel, XL, XR, YU, YD
<1>3. \A m \in Int : (2 * m + 1) % 2 = 1 /\ (2 * m + 2) % 2 = 0 /\ (2 * m + 0 + 1) % 2 = 1
                     /\ (2 * m + 1 + 1) % 2 = 0
  OBVIOUS
<1>4. CASE SampleX("Xx", polarizeXx(out, high), "Yy")
  <2>1. /\ pc = "Xx" /\ pc' = "Yy" /\ UNCHANGED <<wire, finger, moved, ys, ts>>
        /\ out' = (out \cup {XL, XR}) \ {YU, YD} /\ high' = (high \cup {XL}) \ {XR}
        /\ \E v \in Readings(wire[2]) : GetADC(v) /\ xs' = Append(xs, v)
    BY <1>4 DEF SampleX, polarizeXx
  <2>2. PICK m : Turn(m, xs, ys, 0, 0)
    BY <1>1, <2>1, Counts DEF Samples, Counted, Loop
  <2>3. {XL, XR} \subseteq out' /\ YU \notin out' /\ YD \notin out' /\ XL \in high'
    BY <1>2, <2>1
  <2>4. (Len(xs) + 1) % 2 = 1
    BY <1>3, <2>2 DEF Turn
  <2>5. /\ xs' \in Seq(Values) /\ Len(xs') = Len(xs) + 1 /\ fails' \in 0..MaxFails
        /\ ~moved /\ fails' = 0 /\ finger # None => fails = 0 /\ XSamples(xs', finger[1])
    BY <2>1, <2>3, <2>4, XSampled
  <2>6. Samples'
    <3>1. Turn(m, xs', ys', 1, 0)
      BY <2>1, <2>2, <2>5 DEF Turn
    <3> QED  BY <1>1, <2>1, <2>5, <3>1, Counts DEF Samples, Counted, Loop
  <2>7. Panel'
    BY <1>2, <2>1, <2>5 DEF Panel, Loop, Lines
  <2>8. ResultOK'
    BY <2>1 DEF ResultOK
  <2>9. Still' /\ StillRight'
    BY <2>1, <2>5 DEF Still, StillRight
  <2> QED  BY <2>6, <2>7, <2>8, <2>9
<1>5. CASE SampleY("Yy", polarizeYy(out, high), "xX")
  <2>1. /\ pc = "Yy" /\ pc' = "xX" /\ UNCHANGED <<wire, finger, moved, xs, ts>>
        /\ out' = DirY(out) /\ high' = (high \cup {YU}) \ {YD}
        /\ \E v \in Readings(wire[1]) : GetADC(v) /\ ys' = Append(ys, v)
    BY <1>5 DEF SampleY, polarizeYy
  <2>2. PICK m : Turn(m, xs, ys, 1, 0)
    BY <1>1, <2>1, Counts DEF Samples, Counted, Loop
  <2>3. {XL, XR} \subseteq out' /\ out' \subseteq Lines
    BY <1>2, <2>1 DEF DirY, Lines
  <2>4. wire[1] \in high' <=> wire[1] = XL
    BY <1>2, <2>1 DEF Panel
  <2>5. (Len(ys) + 1) % 2 = 1
    BY <1>3, <2>2 DEF Turn
  <2>6. /\ ys' \in Seq(Values) /\ Len(ys') = Len(ys) + 1 /\ fails' \in 0..MaxFails
        /\ ~moved /\ fails' = 0 /\ finger # None => fails = 0 /\ YSamples(ys', wire[1])
    BY <2>1, <2>3, <2>4, <2>5, YSampled
  <2>7. Samples'
    <3>1. Turn(m, xs', ys', 1, 1)
      BY <2>1, <2>2, <2>6 DEF Turn
    <3> QED  BY <1>1, <2>1, <2>6, <3>1, Counts DEF Samples, Counted, Loop
  <2>8. Panel'
    BY <2>1, <2>3, <2>6 DEF Panel, Loop, Lines
  <2>9. ResultOK'
    BY <2>1 DEF ResultOK
  <2>10. Still' /\ StillRight'
    BY <2>1, <2>6 DEF Still, StillRight
  <2> QED  BY <2>7, <2>8, <2>9, <2>10
<1>6. CASE SampleX("xX", polarizexX(out, high), "yY")
  <2>1. /\ pc = "xX" /\ pc' = "yY" /\ UNCHANGED <<wire, finger, moved, ys, ts>>
        /\ out' = (out \cup {XL, XR}) \ {YU, YD} /\ high' = (high \cup {XR}) \ {XL}
        /\ \E v \in Readings(wire[2]) : GetADC(v) /\ xs' = Append(xs, v)
    BY <1>6 DEF SampleX, polarizexX
  <2>2. PICK m : Turn(m, xs, ys, 1, 1)
    BY <1>1, <2>1, Counts DEF Samples, Counted, Loop
  <2>3. {XL, XR} \subseteq out' /\ YU \notin out' /\ YD \notin out' /\ XL \notin high'
    BY <1>2, <2>1
  <2>4. (Len(xs) + 1) % 2 # 1
    BY <1>3, <2>2 DEF Turn
  <2>5. /\ xs' \in Seq(Values) /\ Len(xs') = Len(xs) + 1 /\ fails' \in 0..MaxFails
        /\ ~moved /\ fails' = 0 /\ finger # None => fails = 0 /\ XSamples(xs', finger[1])
    BY <2>1, <2>3, <2>4, XSampled
  <2>6. Samples'
    <3>1. Turn(m, xs', ys', 2, 1)
      BY <2>1, <2>2, <2>5 DEF Turn
    <3> QED  BY <1>1, <2>1, <2>5, <3>1, Counts DEF Samples, Counted, Loop
  <2>7. Panel'
    BY <1>2, <2>1, <2>5 DEF Panel, Loop, Lines
  <2>8. ResultOK'
    BY <2>1 DEF ResultOK
  <2>9. Still' /\ StillRight'
    BY <2>1, <2>5 DEF Still, StillRight
  <2> QED  BY <2>6, <2>7, <2>8, <2>9
<1>7. CASE SampleY("yY", polarizeyY(out, high), IF Len(ys) + 1 < 2 * NumSamples THEN "Xx" ELSE "sum")
  <2>1. /\ pc = "yY" /\ pc' = (IF Len(ys) + 1 < 2 * NumSamples THEN "Xx" ELSE "sum")
        /\ UNCHANGED <<wire, finger, moved, xs, ts>>
        /\ out' = DirY(out) /\ high' = (high \cup {YD}) \ {YU}
        /\ \E v \in Readings(wire[1]) : GetADC(v) /\ ys' = Append(ys, v)
    BY <1>7 DEF SampleY, polarizeyY
  <2>2. PICK m : Turn(m, xs, ys, 2, 1)
    BY <1>1, <2>1, Counts DEF Samples, Counted, Loop
  <2>3. {XL, XR} \subseteq out' /\ out' \subseteq Lines
    BY <1>2, <2>1 DEF DirY, Lines
  <2>4. wire[1] \in high' <=> wire[1] # XL
    BY <1>2, <2>1 DEF Panel
  <2>5. (Len(ys) + 1) % 2 # 1
    BY <1>3, <2>2 DEF Turn
  <2>6. /\ ys' \in Seq(Values) /\ Len(ys') = Len(ys) + 1 /\ fails' \in 0..MaxFails
        /\ ~moved /\ fails' = 0 /\ finger # None => fails = 0 /\ YSamples(ys', wire[1])
    BY <2>1, <2>3, <2>4, <2>5, YSampled
  <2>7. Samples'
    <3>1. m \in Nat /\ Len(xs') = 2 * m + 2 /\ Len(ys') = 2 * m + 2
      BY <2>1, <2>2, <2>6 DEF Turn
    <3>2. CASE m + 1 < NumSamples
      <4>1. pc' = "Xx"
        BY <2>1, <2>2, <3>2, Sizes DEF Turn
      <4>2. Turn(m + 1, xs', ys', 0, 0)
        BY <3>1, <3>2, Sizes DEF Turn
      <4> QED  BY <1>1, <2>1, <2>6, <4>1, <4>2, Counts DEF Samples, Counted, Loop
    <3>3. CASE ~(m + 1 < NumSamples)
      <4>1. m + 1 = NumSamples
        BY <2>2, <3>3, Sizes DEF Turn
      <4>2. pc' = "sum"
        BY <2>1, <2>2, <4>1, Sizes DEF Turn
      <4>3. Full(xs') /\ Full(ys')
        BY <1>1, <2>1, <2>6, <3>1, <4>1 DEF Full
      <4> QED  BY <4>2, <4>3 DEF Samples, SamplesAt, Loop, Full
    <3> QED  BY <3>2, <3>3
  <2>8. Panel'
    BY <2>1, <2>3, <2>6 DEF Panel, Loop, Lines
  <2>9. ResultOK'
    BY <2>1 DEF ResultOK
  <2>10. Still' /\ StillRight'
    BY <2>1, <2>6 DEF Still, StillRight
  <2> QED  BY <2>7, <2>8, <2>9, <2>10
<1> QED  BY <1>4, <1>5, <1>6, <1>7 DEF Sample

LEMMA InvHolds == Spec => []Inv
<1>1. Init => Inv
  BY Begin
<1>2. Inv /\ [Next]_vars => Inv'
  <2> SUFFICES ASSUME Inv, [Next]_vars  PROVE Inv'
    OBVIOUS
  <2>1. CASE UNCHANGED vars
    BY <2>1 DEF vars, Inv, Samples, Panel, ResultOK, Still, StillRight
  <2> QED  BY <2>1, MoveStep, SampleStep, ResultStep, AgainStep DEF Next
<1> QED  BY <1>1, <1>2, PTL DEF Spec

-----------------------------------------------------------------------------
(* Every result of GetTS is in the range of the converter, and every sum is  *)
(* of readings, however many of them failed: the -1 of a failed reading adds *)
(* no more to the unsigned sum than a reading could, at any number of        *)
(* samples.                                                                  *)
THEOREM TypeCorrect == Spec => []TypeOK
<1>1. Inv => TypeOK
  <2> SUFFICES ASSUME Inv  PROVE TypeOK
    OBVIOUS
  <2>1. /\ out \subseteq Lines /\ high \subseteq Lines /\ fails \in 0..MaxFails
        /\ pc \in {"Xx", "Yy", "xX", "yY", "sum", "shown"}
    BY DEF Inv, Panel, Loop
  <2>2. xs \in Seq(Values) /\ ys \in Seq(Values)
    BY DEF Inv, Samples, SamplesAt
  <2>3. Len(xs) <= 2 * NumSamples /\ Len(ys) <= 2 * NumSamples
    <3>1. CASE pc \in Loop
      <4>1. Counted(pc, xs, ys)
        BY <2>2, <3>1, Counts DEF Inv, Samples
      <4>2. PICK m : \/ Turn(m, xs, ys, 0, 0) \/ Turn(m, xs, ys, 1, 0)
                     \/ Turn(m, xs, ys, 1, 1) \/ Turn(m, xs, ys, 2, 1)
        BY <3>1, <4>1 DEF Counted, Loop
      <4> QED  BY <4>2, Sizes DEF Turn
    <3>2. CASE pc \notin Loop
      <4>1. \/ Full(xs) /\ Full(ys)
            \/ xs = <<>> /\ ys = <<>>
        BY <2>1, <3>2 DEF Inv, Samples, SamplesAt, Loop
      <4> QED  BY <4>1, Sizes DEF Full
    <3> QED  BY <3>1, <3>2
  <2>4. ASSUME NEW s \in {xs, ys}, NEW i \in DOMAIN s  PROVE s[i] \in 0..Word - 1
    <3>1. s \in Seq(Values)
      BY <2>2
    <3>2. i \in 1..Len(s)
      BY <3>1, LenProperties
    <3>3. s[i] \in Values
      BY <3>1, <3>2, ElementOfSeq
    <3>4. \A v \in Values : v \in 0..Word - 1
      BY Sizes DEF Values
    <3> QED  BY <3>3, <3>4
  <2>5. ts.x \in 0..Top + 1 /\ ts.y \in 0..Top + 1 /\ ts.p \in {0, 1024}
    BY DEF Inv, ResultOK
  <2> QED  BY <2>1, <2>3, <2>4, <2>5 DEF TypeOK
<1> QED  BY <1>1, InvHolds, PTL

(* A finger that is held still is reported where it is on the X axis, within *)
(* what the converter tells apart, at every place, however many samples are  *)
(* averaged and whatever the calls before have left on the lines.            *)
THEOREM StillRightHolds == Spec => []StillRight
<1>1. Inv => StillRight
  BY DEF Inv
<1> QED  BY <1>1, InvHolds, PTL
=============================================================================
