---------------------------- MODULE BarcodeProofs ---------------------------
(***************************************************************************)
(* Proofs about the bar code pen of Barcode.tla and about the time         *)
(* arithmetic of Clock.tla under it.  First the clock: what its operators  *)
(* compute, for counters of every width.  Then the code: Decode reads what *)
(* EAN-13 prints, for every number and in both directions.  Last the pen:  *)
(* the widths are measured right, so what main prints is the number.       *)
(***************************************************************************)
EXTENDS Barcode, TLAPS

-----------------------------------------------------------------------------
(* The clock.  T is the true time in ticks, d the ticks passed since.       *)

(* Quotient and remainder. *)
LEMMA DivMod ==
    ASSUME NEW a \in Int, NEW w \in Nat \ {0}
    PROVE  /\ a % w \in 0..w - 1
           /\ a \div w \in Int
           /\ a = w * (a \div w) + (a % w)
  OBVIOUS

(* A remainder is what is left of a multiple. *)
LEMMA ModUnique ==
    ASSUME NEW w \in Nat \ {0}, NEW q \in Int, NEW r \in 0..w - 1
    PROVE  (w * q + r) % w = r
  OBVIOUS

(* Products may be regrouped. *)
LEMMA MulAssoc ==
    ASSUME NEW a \in Int, NEW b \in Int, NEW e \in Int
    PROVE  (a * b) * e = a * (b * e) /\ b * e \in Int
  OBVIOUS

(* The reading a time d later: it has wrapped once or not at all. *)
LEMMA NextReading ==
    ASSUME NEW w \in Nat \ {0}, NEW T \in Nat, NEW d \in 0..w - 1
    PROVE  (T + d) % w = IF (T % w) + d < w THEN (T % w) + d ELSE (T % w) + d - w
<1> DEFINE q == T \div w
           r == T % w
<1>1. r \in 0..w - 1 /\ q \in Int /\ T = w * q + r
  BY DivMod
<1> HIDE DEF q, r
<1>2. CASE r + d < w
  <2>1. T + d = w * q + (r + d) /\ r + d \in 0..w - 1
    BY <1>1, <1>2
  <2>2. (T + d) % w = r + d
    BY <2>1, <1>1, ModUnique
  <2> QED  BY <2>2, <1>2 DEF r
<1>3. CASE ~(r + d < w)
  <2>1. T + d = w * (q + 1) + (r + d - w) /\ r + d - w \in 0..w - 1 /\ q + 1 \in Int
    <3>1. w * (q + 1) = w * q + w
      BY <1>1
    <3> QED  BY <1>1, <1>3, <3>1
  <2>2. (T + d) % w = r + d - w
    BY <2>1, ModUnique
  <2> QED  BY <2>2, <1>3 DEF r
<1> QED  BY <1>2, <1>3

(* The difference of two readings, as an unsigned number. *)
LEMMA Difference ==
    ASSUME NEW w \in Nat \ {0}, NEW T \in Nat, NEW d \in 0..w - 1
    PROVE  (((T + d) % w) - (T % w)) % w = d
<1> DEFINE r == T % w
<1>1. r \in 0..w - 1
  BY DivMod
<1>2. (T + d) % w = IF r + d < w THEN r + d ELSE r + d - w
  BY NextReading
<1> HIDE DEF r
<1>3. CASE r + d < w
  <2>1. ((T + d) % w) - r = w * 0 + d
    BY <1>1, <1>2, <1>3
  <2> QED  BY <2>1, ModUnique DEF r
<1>4. CASE ~(r + d < w)
  <2>1. ((T + d) % w) - r = w * (-1) + d
    BY <1>1, <1>2, <1>4
  <2> QED  BY <2>1, ModUnique DEF r
<1> QED  BY <1>3, <1>4

(* getElapsedSysTICs is the time that has passed, whether the timer has     *)
(* wrapped in between or not, as long as it is shorter than one round.      *)
THEOREM ElapsedRight ==
    ASSUME NEW T \in Nat, NEW d \in 0..Wrap - 1
    PROVE  getElapsedSysTICs((T + d) % Wrap, T % Wrap) = d
<1>1. Wrap \in Nat \ {0}
  BY WrapAssumption
<1> QED  BY <1>1, Difference DEF getElapsedSysTICs

(* getSysTICs keeps the time modulo the range of the timer, if it is called *)
(* at least once per round; L is the time of the last reading.              *)
THEOREM SysTICsRight ==
    ASSUME NEW T \in Nat, NEW L \in Nat, NEW d \in 0..Wrap - 1
    PROVE  getSysTICs(T % Wrap, L % Wrap, (L + d) % Wrap) = (T + d) % Wrap
<1> DEFINE r == T % Wrap
<1>1. Wrap \in Nat \ {0}
  BY WrapAssumption
<1>2. r \in 0..Wrap - 1
  BY <1>1, DivMod
<1>3. (T + d) % Wrap = IF r + d < Wrap THEN r + d ELSE r + d - Wrap
  BY <1>1, NextReading
<1>4. getSysTICs(r, L % Wrap, (L + d) % Wrap) = (r + d) % Wrap
  BY <1>1, Difference DEF getSysTICs
<1> HIDE DEF r
<1>5. CASE r + d < Wrap
  <2>1. r + d = Wrap * 0 + (r + d) /\ r + d \in 0..Wrap - 1
    BY <1>1, <1>2, <1>5
  <2>2. (r + d) % Wrap = r + d
    BY <1>1, <2>1, ModUnique
  <2> QED  BY <1>3, <1>4, <1>5, <2>2 DEF r
<1>6. CASE ~(r + d < Wrap)
  <2>1. r + d = Wrap * 1 + (r + d - Wrap) /\ r + d - Wrap \in 0..Wrap - 1
    BY <1>1, <1>2, <1>6
  <2>2. (r + d) % Wrap = r + d - Wrap
    BY <1>1, <2>1, ModUnique
  <2> QED  BY <1>3, <1>4, <1>6, <2>2 DEF r
<1> QED  BY <1>5, <1>6

(* The elapsed time in lan9118_udelay is right before the wrap of the       *)
(* free-running counter and one too much after it: a delay across the wrap  *)
(* ends one tick early, and no delay ends earlier than that or misses the   *)
(* wrap.                                                                    *)
THEOREM UdelayNearlyRight ==
    ASSUME NEW T \in Nat, NEW d \in 0..Wrap - 2
    PROVE  udelayElapsed((T + d) % Wrap, T % Wrap)
               = IF (T % Wrap) + d < Wrap THEN d ELSE d + 1
<1> DEFINE r == T % Wrap
           now == (T + d) % Wrap
<1>1. Wrap \in Nat \ {0} /\ d \in 0..Wrap - 1
  BY WrapAssumption
<1>2. r \in 0..Wrap - 1
  BY <1>1, DivMod
<1>3. now = IF r + d < Wrap THEN r + d ELSE r + d - Wrap
  BY <1>1, NextReading
<1> HIDE DEF r, now
<1>4. CASE r + d < Wrap
  <2>1. now >= r /\ now - r = d
    BY <1>1, <1>2, <1>3, <1>4
  <2> QED  BY <2>1, <1>4 DEF udelayElapsed, r, now
<1>5. CASE ~(r + d < Wrap)
  <2>1. ~(now >= r) /\ now - r + 1 = Wrap * (-1) + (d + 1) /\ d + 1 \in 0..Wrap - 1
    BY <1>1, <1>2, <1>3, <1>5
  <2>2. (now - r + 1) % Wrap = d + 1
    BY <2>1, <1>1, ModUnique
  <2> QED  BY <2>1, <2>2, <1>5 DEF udelayElapsed, r, now
<1> QED  BY <1>4, <1>5

(* The reading of ticks is the low part of the extended counter. *)
LEMMA LowPart ==
    ASSUME NEW T \in Nat
    PROVE  (T % (Wrap * Epochs)) % Wrap = T % Wrap
<1> DEFINE N == Wrap * Epochs
           r == T % Wrap
           c == T % N
           Q == T \div N
           q == T \div Wrap
<1>1. Wrap \in Nat \ {0} /\ Epochs \in Nat \ {0} /\ N \in Nat \ {0}
  BY WrapAssumption
<1>2. r \in 0..Wrap - 1 /\ q \in Int /\ T = Wrap * q + r
  BY <1>1, DivMod
<1>3. c \in 0..N - 1 /\ Q \in Int /\ T = N * Q + c
  <2> HIDE DEF N
  <2> QED  BY <1>1, DivMod
<1>4. N * Q = Wrap * (Epochs * Q) /\ Epochs * Q \in Int
  <2> HIDE DEF Q
  <2>1. (Wrap * Epochs) * Q = Wrap * (Epochs * Q) /\ Epochs * Q \in Int
    BY ONLY <1>1, <1>3, MulAssoc
  <2> QED  BY <2>1
<1> HIDE DEF N, r, c, q, Q
<1>5. c = Wrap * (q - Epochs * Q) + r /\ q - Epochs * Q \in Int
  <2>1. Wrap * (q - Epochs * Q) = Wrap * q - Wrap * (Epochs * Q)
    BY <1>1, <1>2, <1>4
  <2> QED  BY <1>1, <1>2, <1>3, <1>4, <2>1
<1>6. c % Wrap = r
  BY <1>1, <1>2, <1>5, ModUnique
<1> QED  BY <1>6 DEF N, r, c

(* counter_read extends the 16-bit tick count without an error, whatever    *)
(* the number of rounds so far, if it is called at least once per round.    *)
THEOREM CounterReadRight ==
    ASSUME NEW T \in Nat, NEW d \in 0..Wrap - 1
    PROVE  counter_read(T % (Wrap * Epochs), T % Wrap, (T + d) % Wrap)
               = (T + d) % (Wrap * Epochs)
<1> DEFINE N == Wrap * Epochs
           r == T % Wrap
           now == (T + d) % Wrap
           c == T % N
           Q == T \div N
           q == T \div Wrap
<1>1. Wrap \in Nat \ {0} /\ Epochs \in Nat \ {0} /\ N \in Nat \ {0}
  BY WrapAssumption
<1>2. r \in 0..Wrap - 1 /\ q \in Int /\ T = Wrap * q + r
  BY <1>1, DivMod
<1>3. c \in 0..N - 1 /\ Q \in Int /\ T = N * Q + c
  <2> HIDE DEF N
  <2> QED  BY <1>1, DivMod
<1>4. now = IF r + d < Wrap THEN r + d ELSE r + d - Wrap
  BY <1>1, NextReading
<1>5. c % Wrap = r
  BY LowPart
<1> HIDE DEF N, r, now, c, Q, q
<1>6. (IF now < r THEN (c - (c % Wrap)) + now + Wrap ELSE (c - (c % Wrap)) + now) = c + d
  BY <1>1, <1>2, <1>3, <1>4, <1>5
<1>7. (c + d) % N = (T + d) % N
  <2> DEFINE Q2 == (c + d) \div N
             R == (c + d) % N
  <2>1. R \in 0..N - 1 /\ Q2 \in Int /\ c + d = N * Q2 + R
    <3>1. c + d \in Int
      BY <1>1, <1>3
    <3> QED  BY <1>1, <3>1, DivMod
  <2> HIDE DEF Q2, R
  <2>2. T + d = N * (Q + Q2) + R /\ Q + Q2 \in Int
    <3>1. N * (Q + Q2) = N * Q + N * Q2
      BY <1>1, <1>3, <2>1
    <3> QED  BY <1>1, <1>3, <2>1, <3>1
  <2>3. (T + d) % N = R
    BY <1>1, <2>1, <2>2, ModUnique
  <2> QED  BY <2>3 DEF R
<1>8. counter_read(c, r, now)
        = (IF now < r THEN (c - (c % Wrap)) + now + Wrap ELSE (c - (c % Wrap)) + now) % N
  BY DEF counter_read, N
<1> QED  BY <1>6, <1>7, <1>8 DEF N, r, now, c

(* The time hand_barcode measures between two readings of the extended      *)
(* counter is right across both wraps.                                      *)
THEOREM MeasuredRight ==
    ASSUME NEW T \in Nat, NEW d \in 0..Wrap * Epochs - 1
    PROVE  timer_elapsed((T + d) % (Wrap * Epochs), T % (Wrap * Epochs)) = d
<1>1. Wrap * Epochs \in Nat \ {0}
  BY WrapAssumption
<1> QED  BY <1>1, Difference DEF timer_elapsed

-----------------------------------------------------------------------------
(* The code. *)

Row == 1..10

(* The rows of the tables are patterns, ... *)
LEMMA RowsType ==
    \A j \in Row : leftOdd[j] \in [1..4 -> 1..4] /\ leftEven[j] \in [1..4 -> 1..4]
  BY DEF Row, leftOdd, leftEven

(* ... all different from each other, *)
LEMMA OddDistinct == \A j, h \in Row : leftOdd[j] = leftOdd[h] => j = h
  BY DEF Row, leftOdd

LEMMA EvenDistinct == \A j, h \in Row : leftEven[j] = leftEven[h] => j = h
  BY DEF Row, leftEven

(* ... in the two tables too. *)
LEMMA TablesDisjoint == \A j, h \in Row : leftOdd[j] # leftEven[h]
  BY DEF Row, leftOdd, leftEven

LEMMA SeqDistinct == \A j, h \in Row : eanCodeSeq[j] = eanCodeSeq[h] => j = h
<1> DEFINE E(n, S) == n \in S
<1>1. \A j \in Row : eanCodeSeq[j] \in SUBSET (2..6)
  BY DEF Row, eanCodeSeq
<1> QED  BY DEF Row, eanCodeSeq

LEMMA WidthsUnique ==
    ASSUME NEW v \in Widths, NEW w \in Widths, Modules(v) = Modules(w)
    PROVE  v = w
<1>1. /\ v \in [1..4 -> 1..4] /\ v[1] + v[2] + v[3] + v[4] = 7
      /\ w \in [1..4 -> 1..4] /\ w[1] + w[2] + w[3] + w[4] = 7
  BY DEF Widths
<1>2. \A m \in 1..7 : (m <= v[1] \/ (v[1] + v[2] < m /\ m <= v[1] + v[2] + v[3]))
                        <=> (m <= w[1] \/ (w[1] + w[2] < m /\ m <= w[1] + w[2] + w[3]))
  <2>1. \A m \in 1..7 : Modules(v)[m] = Modules(w)[m]
    OBVIOUS
  <2> QED  BY <2>1 DEF Modules
<1>3. v[1] = w[1]
  BY <1>1, <1>2
<1>4. v[2] = w[2]
  BY <1>1, <1>2, <1>3
<1>5. v[3] = w[3]
  BY <1>1, <1>2, <1>3, <1>4
<1>6. v[4] = w[4]
  BY <1>1, <1>3, <1>4, <1>5
<1> QED  BY <1>1, <1>3, <1>4, <1>5, <1>6

LEMMA OddModules == \A j \in Row : leftOdd[j] \in Widths /\ Modules(leftOdd[j]) = OddBits[j]
<1>1. \A j \in Row : leftOdd[j] \in Widths
  BY DEF Row, leftOdd, Widths
<1>2. \A j \in Row : Modules(leftOdd[j]) = OddBits[j]
  BY DEF Row, leftOdd, Modules, OddBits
<1> QED  BY <1>1, <1>2

LEMMA OddIs == \A d \in 0..9 : Odd[d] = leftOdd[d + 1]
<1> SUFFICES ASSUME NEW d \in 0..9 PROVE Odd[d] = leftOdd[d + 1]
  OBVIOUS
<1>1. d + 1 \in Row
  BY DEF Row
<1>2. leftOdd[d + 1] \in Widths /\ Modules(leftOdd[d + 1]) = OddBits[d + 1]
  BY <1>1, OddModules
<1>3. Odd[d] = CHOOSE w \in Widths : Modules(w) = OddBits[d + 1]
  BY DEF Odd
<1>4. Odd[d] \in Widths /\ Modules(Odd[d]) = OddBits[d + 1]
  BY <1>2, <1>3
<1> QED  BY <1>2, <1>4, WidthsUnique

LEMMA ReverseRow ==
    ASSUME NEW f \in [1..4 -> 1..4]
    PROVE  Reverse(f) = [k \in 1..4 |-> f[5 - k]]
<1>1. Len(f) = 4
  OBVIOUS
<1> QED  BY <1>1 DEF Reverse

LEMMA EvenIs == \A d \in 0..9 : Even(d) = leftEven[d + 1]
<1>1. \A j \in Row : [k \in 1..4 |-> leftOdd[j][5 - k]] = leftEven[j]
  BY DEF Row, leftOdd, leftEven
<1> SUFFICES ASSUME NEW d \in 0..9 PROVE Even(d) = leftEven[d + 1]
  OBVIOUS
<1>2. d + 1 \in Row
  BY DEF Row
<1> QED  BY <1>1, <1>2, OddIs, RowsType, ReverseRow DEF Even

LEMMA ReverseEven == \A d \in 0..9 : [k \in 1..4 |-> Even(d)[5 - k]] = Odd[d]
<1> SUFFICES ASSUME NEW d \in 0..9 PROVE [k \in 1..4 |-> Even(d)[5 - k]] = Odd[d]
  OBVIOUS
<1>1. Odd[d] \in [1..4 -> 1..4]
  BY OddIs, RowsType DEF Row
<1>2. Even(d) = [k \in 1..4 |-> Odd[d][5 - k]]
  BY <1>1, ReverseRow DEF Even
<1> QED  BY <1>1, <1>2

LEMMA FindRow ==
    ASSUME NEW tab, NEW j \in Row, \A h \in Row : tab[h] = tab[j] => h = j
    PROVE  Find(tab[j], tab) = j - 1
<1> DEFINE at == {h \in 1..10 : tab[h] = tab[j]}
<1>1. at = {j}
  BY DEF Row
<1>2. (CHOOSE h \in at : \A g \in at : h <= g) = j
  BY <1>1 DEF Row
<1> QED  BY <1>1, <1>2 DEF Find

LEMMA FindNone ==
    ASSUME NEW tab, NEW s, \A h \in Row : tab[h] # s
    PROVE  Find(s, tab) = -1
  BY DEF Find, Row

LEMMA OddRead ==
    \A d \in 0..9 : IsOdd(Odd[d]) /\ ~IsEven(Odd[d]) /\ Digit(Odd[d]) = d
<1> SUFFICES ASSUME NEW d \in 0..9
             PROVE  IsOdd(Odd[d]) /\ ~IsEven(Odd[d]) /\ Digit(Odd[d]) = d
  OBVIOUS
<1>1. d + 1 \in Row
  BY DEF Row
<1>2. Find(leftOdd[d + 1], leftOdd) = (d + 1) - 1
  BY <1>1, OddDistinct, FindRow
<1> QED  BY <1>2, OddIs DEF IsOdd, IsEven, Digit

LEMMA EvenRead ==
    \A d \in 0..9 : ~IsOdd(Even(d)) /\ IsEven(Even(d)) /\ Digit(Even(d)) = d
<1> SUFFICES ASSUME NEW d \in 0..9
             PROVE  ~IsOdd(Even(d)) /\ IsEven(Even(d)) /\ Digit(Even(d)) = d
  OBVIOUS
<1>1. d + 1 \in Row
  BY DEF Row
<1>2. Find(leftEven[d + 1], leftEven) = (d + 1) - 1
  BY <1>1, EvenDistinct, FindRow
<1>3. Find(leftEven[d + 1], leftOdd) = -1
  BY <1>1, TablesDisjoint, FindNone
<1> QED  BY <1>2, <1>3, EvenIs DEF IsOdd, IsEven, Digit

LEMMA FirstDigitRead == \A d \in 0..9 : EanCode(EvenAt[d + 1]) = d
<1> SUFFICES ASSUME NEW d \in 0..9 PROVE EanCode(EvenAt[d + 1]) = d
  OBVIOUS
<1>1. d + 1 \in Row
  BY DEF Row
<1>2. EvenAt = eanCodeSeq
  BY DEF EvenAt, eanCodeSeq
<1>3. Find(eanCodeSeq[d + 1], eanCodeSeq) = (d + 1) - 1
  BY <1>1, SeqDistinct, FindRow
<1> QED  BY <1>2, <1>3 DEF EanCode

LEMMA EvenAtType == \A d \in 0..9 : EvenAt[d + 1] \subseteq 2..6
  BY DEF EvenAt

Number == [1..13 -> 0..9]

LEMMA PatternType ==
    ASSUME NEW d \in Number, NEW j \in 1..12
    PROVE  Pattern(d, j) \in [1..4 -> 1..4]
<1>1. d[j + 1] \in 0..9
  BY DEF Number
<1>2. Odd[d[j + 1]] \in [1..4 -> 1..4] /\ Even(d[j + 1]) \in [1..4 -> 1..4]
  BY <1>1, OddIs, EvenIs, RowsType DEF Row
<1> QED  BY <1>2 DEF Pattern

LEMMA EncodeType ==
    ASSUME NEW d \in Number
    PROVE  Encode(d) \in [1..59 -> 1..4]
<1>1. \A k \in 4..27 : k \div 4 \in 1..12 /\ (k % 4) + 1 \in 1..4
  OBVIOUS
<1>2. \A k \in 33..56 : (k - 5) \div 4 \in 1..12 /\ ((k - 5) % 4) + 1 \in 1..4
  OBVIOUS
<1>3. \A k \in 1..59 : Encode(d)[k] \in 1..4
  BY <1>1, <1>2, PatternType DEF Encode, ELEMENTS
<1> QED  BY <1>3 DEF Encode, ELEMENTS

LEMMA EncodeLeft ==
    ASSUME NEW d \in Number, NEW j \in 1..6, NEW k \in 1..4
    PROVE  Encode(d)[3 + 4 * (j - 1) + k] = Pattern(d, j)[k]
<1> DEFINE n == 3 + 4 * (j - 1) + k
<1>1. n \in 4..27 /\ n \div 4 = j /\ (n % 4) + 1 = k
  OBVIOUS
<1> HIDE DEF n
<1> QED  BY <1>1 DEF Encode, ELEMENTS

LEMMA EncodeRight ==
    ASSUME NEW d \in Number, NEW j \in 1..6, NEW k \in 1..4
    PROVE  Encode(d)[32 + 4 * (j - 1) + k] = Pattern(d, j + 6)[k]
<1> DEFINE n == 32 + 4 * (j - 1) + k
<1>1. n \in 33..56 /\ (n - 5) \div 4 = j + 6 /\ ((n - 5) % 4) + 1 = k
  OBVIOUS
<1> HIDE DEF n
<1> QED  BY <1>1 DEF Encode, ELEMENTS

LEMMA EncodeGuards ==
    ASSUME NEW d \in Number, NEW k \in (1..3) \cup (28..32) \cup (57..59)
    PROVE  Encode(d)[k] = 1
  BY DEF Encode, ELEMENTS

(* What Decode makes of its twelve patterns. *)
Digits(ptr) == [j \in 1..12 |-> IF j <= 6 THEN Digit(At(ptr, 3, j)) ELSE Digit(At(ptr, 32, j - 6))]

LEMMA DecodeForward ==
    ASSUME NEW ptr, NEW d \in Number,
           \A k \in (1..3) \cup (28..32) : ptr[k] = 1,
           ~IsEven(At(ptr, 3, 1)),
           {j \in 1..6 : IsEven(At(ptr, 3, j))} = EvenAt[d[1] + 1],
           \A j \in 1..12 : Digits(ptr)[j] = d[j + 1]
    PROVE  Decode(ptr) = d
<1>1. EanCode({j \in 1..6 : IsEven(At(ptr, 3, j))}) = d[1]
  BY FirstDigitRead DEF Number
<1>2. \A j \in 1..12 : Digits(ptr)[j] # -1
  BY DEF Number
<1>3. Decode(ptr) = [i \in 1..13 |-> IF i = 1 THEN EanCode({j \in 1..6 : IsEven(At(ptr, 3, j))})
                                     ELSE Digits(ptr)[i - 1]]
  BY <1>2 DEF Decode, Digits
<1>4. \A i \in 2..13 : Digits(ptr)[i - 1] = d[i]
  <2>1. \A i \in 2..13 : i - 1 \in 1..12 /\ (i - 1) + 1 = i
    OBVIOUS
  <2> QED  BY <2>1
<1> QED  BY <1>1, <1>3, <1>4 DEF Number

LEMMA DecodeBackward ==
    ASSUME NEW ptr, NEW d \in Number,
           \A k \in (1..3) \cup (28..32) : ptr[k] = 1,
           IsEven(At(ptr, 3, 1)),
           {Mirror(j) : j \in {h \in 1..6 : IsOdd(At(ptr, 32, h))}} = EvenAt[d[1] + 1],
           \A j \in 1..12 : Digits(ptr)[j] = d[14 - j]
    PROVE  Decode(ptr) = d
<1> DEFINE seq == {Mirror(j) : j \in {h \in 1..6 : IsOdd(At(ptr, 32, h))}}
<1>1. EanCode(seq) = d[1]
  BY FirstDigitRead DEF Number
<1>2. \A j \in 1..12 : Digits(ptr)[j] # -1
  BY DEF Number
<1>3. Decode(ptr) = [i \in 1..13 |-> IF i = 1 THEN EanCode(seq) ELSE Digits(ptr)[14 - i]]
  BY <1>2 DEF Decode, Digits
<1>4. \A i \in 2..13 : Digits(ptr)[14 - i] = d[i]
  <2>1. \A i \in 2..13 : 14 - i \in 1..12 /\ 14 - (14 - i) = i
    OBVIOUS
  <2> QED  BY <2>1
<1> QED  BY <1>1, <1>3, <1>4 DEF Number

LEMMA LeftRead ==
    ASSUME NEW d \in Number, NEW j \in 1..6
    PROVE  /\ IsEven(Pattern(d, j)) <=> j \in EvenAt[d[1] + 1]
           /\ Digit(Pattern(d, j)) = d[j + 1]
<1>1. d[j + 1] \in 0..9
  BY DEF Number
<1> QED  BY <1>1, OddRead, EvenRead DEF Pattern

LEMMA RightIs ==
    ASSUME NEW d \in Number, NEW j \in 7..12
    PROVE  Pattern(d, j) = Odd[d[j + 1]]
  BY DEF Pattern

LEMMA ReadForward == \A d \in Number : Decode(Encode(d)) = d
<1> SUFFICES ASSUME NEW d \in Number PROVE Decode(Encode(d)) = d
  OBVIOUS
<1> DEFINE ptr == Encode(d)
<1>1. \A k \in (1..3) \cup (28..32) : ptr[k] = 1
  BY EncodeGuards
<1>2. \A j \in 1..6 : At(ptr, 3, j) = Pattern(d, j)
  <2> SUFFICES ASSUME NEW j \in 1..6 PROVE At(ptr, 3, j) = Pattern(d, j)
    OBVIOUS
  <2>1. \A k \in 1..4 : At(ptr, 3, j)[k] = Pattern(d, j)[k]
    BY EncodeLeft DEF At
  <2>2. Pattern(d, j) \in [1..4 -> 1..4]
    BY PatternType
  <2> QED  BY <2>1, <2>2 DEF At
<1>3. \A j \in 1..6 : At(ptr, 32, j) = Pattern(d, j + 6)
  <2> SUFFICES ASSUME NEW j \in 1..6 PROVE At(ptr, 32, j) = Pattern(d, j + 6)
    OBVIOUS
  <2>1. \A k \in 1..4 : At(ptr, 32, j)[k] = Pattern(d, j + 6)[k]
    BY EncodeRight DEF At
  <2>2. Pattern(d, j + 6) \in [1..4 -> 1..4]
    BY PatternType
  <2> QED  BY <2>1, <2>2 DEF At
<1> HIDE DEF ptr
<1>4. EvenAt[d[1] + 1] \subseteq 2..6
  BY EvenAtType DEF Number
<1>5. ~IsEven(At(ptr, 3, 1)) /\ {j \in 1..6 : IsEven(At(ptr, 3, j))} = EvenAt[d[1] + 1]
  BY <1>2, <1>4, LeftRead
<1>6. \A j \in 1..12 : Digits(ptr)[j] = d[j + 1]
  <2>1. \A j \in 1..6 : Digit(At(ptr, 3, j)) = d[j + 1]
    BY <1>2, LeftRead
  <2>2. \A j \in 7..12 : Digit(At(ptr, 32, j - 6)) = d[j + 1]
    <3> SUFFICES ASSUME NEW j \in 7..12 PROVE Digit(At(ptr, 32, j - 6)) = d[j + 1]
      OBVIOUS
    <3>1. At(ptr, 32, j - 6) = Pattern(d, j)
      <4>1. j - 6 \in 1..6 /\ (j - 6) + 6 = j
        OBVIOUS
      <4> QED  BY <1>3, <4>1
    <3> QED  BY <3>1, RightIs, OddRead DEF Number
  <2> QED  BY <2>1, <2>2 DEF Digits
<1> QED  BY <1>1, <1>5, <1>6, DecodeForward DEF ptr

LEMMA ReverseEncode ==
    ASSUME NEW d \in Number
    PROVE  /\ Reverse(Encode(d)) \in [1..59 -> 1..4]
           /\ \A k \in 1..59 : Reverse(Encode(d))[k] = Encode(d)[60 - k]
<1>1. Encode(d) \in [1..59 -> 1..4]
  BY EncodeType
<1>2. Len(Encode(d)) = 59
  BY <1>1
<1> QED  BY <1>1, <1>2 DEF Reverse

Back(s) == [k \in 1..4 |-> s[5 - k]]

LEMMA BackRead ==
    ASSUME NEW d \in 0..9
    PROVE  Back(Odd[d]) = Even(d) /\ Back(Even(d)) = Odd[d]
<1>1. Odd[d] \in [1..4 -> 1..4]
  BY OddIs, RowsType DEF Row
<1> QED  BY <1>1, ReverseEven, ReverseRow DEF Back, Even

LEMMA ReadBackward == \A d \in Number : Decode(Reverse(Encode(d))) = d
<1> SUFFICES ASSUME NEW d \in Number PROVE Decode(Reverse(Encode(d))) = d
  OBVIOUS
<1> DEFINE ptr == Reverse(Encode(d))
<1>0. \A k \in 1..59 : ptr[k] = Encode(d)[60 - k]
  BY ReverseEncode
<1> HIDE DEF ptr
<1>1. \A k \in (1..3) \cup (28..32) : ptr[k] = 1
  BY <1>0, EncodeGuards
<1>2. \A j \in 1..6 : At(ptr, 3, j) = Back(Pattern(d, 13 - j))
  <2> SUFFICES ASSUME NEW j \in 1..6 PROVE At(ptr, 3, j) = Back(Pattern(d, 13 - j))
    OBVIOUS
  <2>1. ASSUME NEW k \in 1..4 PROVE ptr[3 + 4 * (j - 1) + k] = Pattern(d, 13 - j)[5 - k]
    <3>1. /\ 7 - j \in 1..6 /\ 5 - k \in 1..4 /\ (7 - j) + 6 = 13 - j
          /\ 3 + 4 * (j - 1) + k \in 1..59
          /\ 60 - (3 + 4 * (j - 1) + k) = 32 + 4 * ((7 - j) - 1) + (5 - k)
      OBVIOUS
    <3>2. Encode(d)[32 + 4 * ((7 - j) - 1) + (5 - k)] = Pattern(d, (7 - j) + 6)[5 - k]
      BY <3>1, EncodeRight
    <3> QED  BY <1>0, <3>1, <3>2
  <2> QED  BY <2>1 DEF At, Back
<1>3. \A j \in 1..6 : At(ptr, 32, j) = Back(Pattern(d, 7 - j))
  <2> SUFFICES ASSUME NEW j \in 1..6 PROVE At(ptr, 32, j) = Back(Pattern(d, 7 - j))
    OBVIOUS
  <2>1. ASSUME NEW k \in 1..4 PROVE ptr[32 + 4 * (j - 1) + k] = Pattern(d, 7 - j)[5 - k]
    <3>1. /\ 7 - j \in 1..6 /\ 5 - k \in 1..4
          /\ 32 + 4 * (j - 1) + k \in 1..59
          /\ 60 - (32 + 4 * (j - 1) + k) = 3 + 4 * ((7 - j) - 1) + (5 - k)
      OBVIOUS
    <3>2. Encode(d)[3 + 4 * ((7 - j) - 1) + (5 - k)] = Pattern(d, 7 - j)[5 - k]
      BY <3>1, EncodeLeft
    <3> QED  BY <1>0, <3>1, <3>2
  <2> QED  BY <2>1 DEF At, Back
<1>4. EvenAt[d[1] + 1] \subseteq 2..6
  BY EvenAtType DEF Number
<1>5. \A j \in 1..6 : At(ptr, 3, j) = Even(d[14 - j]) /\ d[14 - j] \in 0..9
  <2> SUFFICES ASSUME NEW j \in 1..6
               PROVE  At(ptr, 3, j) = Even(d[14 - j]) /\ d[14 - j] \in 0..9
    OBVIOUS
  <2>1. 13 - j \in 7..12 /\ (13 - j) + 1 = 14 - j /\ 14 - j \in 1..13
    OBVIOUS
  <2>2. Pattern(d, 13 - j) = Odd[d[14 - j]]
    BY <2>1, RightIs
  <2>3. d[14 - j] \in 0..9
    BY <2>1 DEF Number
  <2> QED  BY <1>2, <2>2, <2>3, BackRead
<1>6. \A j \in 1..6 : /\ d[8 - j] \in 0..9
                       /\ At(ptr, 32, j) = IF 7 - j \in EvenAt[d[1] + 1] THEN Odd[d[8 - j]]
                                           ELSE Even(d[8 - j])
  <2> SUFFICES ASSUME NEW j \in 1..6
               PROVE  /\ d[8 - j] \in 0..9
                      /\ At(ptr, 32, j) = IF 7 - j \in EvenAt[d[1] + 1] THEN Odd[d[8 - j]]
                                          ELSE Even(d[8 - j])
    OBVIOUS
  <2>1. (7 - j) + 1 = 8 - j /\ 8 - j \in 1..13 /\ 7 - j <= 6
    OBVIOUS
  <2>2. d[8 - j] \in 0..9
    BY <2>1 DEF Number
  <2>3. Pattern(d, 7 - j) = IF 7 - j \in EvenAt[d[1] + 1] THEN Even(d[8 - j]) ELSE Odd[d[8 - j]]
    BY <2>1 DEF Pattern
  <2> QED  BY <1>3, <2>2, <2>3, BackRead
<1>7. IsEven(At(ptr, 3, 1))
  BY <1>5, EvenRead
<1>8. \A j \in 1..6 : IsOdd(At(ptr, 32, j)) <=> 7 - j \in EvenAt[d[1] + 1]
  BY <1>6, OddRead, EvenRead
<1>9. {Mirror(j) : j \in {h \in 1..6 : IsOdd(At(ptr, 32, h))}} = EvenAt[d[1] + 1]
  <2>1. \A n \in EvenAt[d[1] + 1] : 7 - n \in 1..6 /\ 7 - (7 - n) = n
    BY <1>4
  <2> QED  BY <1>4, <1>8, <2>1 DEF Mirror
<1>10. \A j \in 1..12 : Digits(ptr)[j] = d[14 - j]
  <2>1. \A j \in 1..6 : Digit(At(ptr, 3, j)) = d[14 - j]
    BY <1>5, EvenRead
  <2>2. \A j \in 7..12 : Digit(At(ptr, 32, j - 6)) = d[14 - j]
    <3> SUFFICES ASSUME NEW j \in 7..12 PROVE Digit(At(ptr, 32, j - 6)) = d[14 - j]
      OBVIOUS
    <3>1. j - 6 \in 1..6 /\ 8 - (j - 6) = 14 - j
      OBVIOUS
    <3> QED  BY <1>6, <3>1, OddRead, EvenRead
  <2> QED  BY <2>1, <2>2 DEF Digits
<1> QED  BY <1>1, <1>7, <1>9, <1>10, DecodeBackward DEF ptr

-----------------------------------------------------------------------------
(* The pen. *)
Scanning == pc \in {"scan", "read"}
Started == pc \notin {"wait", "first"}

PenInv == /\ number \in Codes /\ bars \in Passes(number)
          /\ done \in 0..59 /\ extra \in Nat
          /\ speed \in Speeds /\ late \in 0..1
          /\ pc \in {"wait", "first", "scan", "read", "full", "shown"}

(* The tick count is the low part of the counter, and the time of the last  *)
(* edge is the last reading.                                                *)
ClockInv == /\ counter \in 0..Wrap * Epochs - 1 /\ timer \in 0..Wrap * Epochs - 1
            /\ ticks = counter % Wrap /\ actual = ticks
            /\ pc \in {"first", "scan"} => timer = counter

(* code holds the widths of the elements passed, and a one for every edge   *)
(* beyond the code.                                                         *)
CodeInv == /\ code \in Seq(0..4)
           /\ ~Started => code = <<>> /\ done = 0 /\ extra = 0 /\ late = 0
           /\ Started => /\ done > 0 /\ (extra > 0 => done = 59)
                         /\ Len(code) = done + extra
                         /\ \A k \in 1..Len(code) : code[k] = IF k <= done THEN bars[k] ELSE 1
           /\ Scanning => Len(code) <= CODE
           /\ pc = "full" => Len(code) = CODE + 1
           /\ Len(code) <= CODE + 1

(* How far the estimate may be from the speed.  The speed changes only      *)
(* after every fourth element, and the next two bring the estimate back;    *)
(* what the first of them leaves is undone by the late edge that caused it. *)
Close(e, l, n, x) ==
    IF x > 0 THEN e \in -3..2
    ELSE IF n % 4 \in {2, 3} THEN e \in -1..0
    ELSE e \in -2..1 /\ (n % 4 = 1 => (e = -2 => l = 1) /\ (e = 1 => l = 0))

TimeInv == Scanning => /\ bittime \in MinSpeed - 2..MaxSpeed + 1
                       /\ Close(bittime - speed, late, done, extra)

IInv == PenInv /\ ClockInv /\ CodeInv /\ TimeInv /\ ReadRight

-----------------------------------------------------------------------------
LEMMA PenFacts ==
    /\ Wrap \in Nat \ {0, 1} /\ Epochs \in Nat \ {0}
    /\ Wrap * Epochs \in Nat \ {0} /\ Wrap <= Wrap * Epochs
    /\ MinSpeed \in Nat /\ MaxSpeed \in Nat /\ Quiet \in Nat
    /\ 20 < MinSpeed /\ MinSpeed <= MaxSpeed /\ 4 * MaxSpeed < Quiet /\ Quiet + 1 < Wrap
<1>1. \A a \in Nat \ {0} : \A b \in Nat \ {0} : a * b \in Nat \ {0} /\ a <= a * b
  OBVIOUS
<1> QED  BY <1>1, WrapAssumption, PenAssumption, Zenon

(* The elements under the pen. *)
LEMMA BarsType ==
    ASSUME PenInv
    PROVE  bars \in [1..59 -> 1..4] /\ bars[1] = 1 /\ Decode(bars) = number
<1>1. number \in Number
  BY PenAssumption DEF PenInv, Number
<1>2. Encode(number)[1] = 1 /\ Encode(number)[59] = 1
  BY <1>1, EncodeGuards
<1>3. Reverse(Encode(number))[1] = 1
  BY <1>1, <1>2, ReverseEncode
<1> QED  BY <1>1, <1>2, <1>3, EncodeType, ReverseEncode, ReadForward, ReadBackward DEF PenInv, Passes

(* A reading of the clock after dt ticks. *)
LEMMA TickRight ==
    ASSUME ClockInv, NEW dt \in 0..Wrap - 1, Tick(dt)
    PROVE  /\ counter' \in 0..Wrap * Epochs - 1
           /\ ticks' = counter' % Wrap /\ actual' = ticks'
           /\ timer_elapsed(counter', counter) = dt
           /\ timer_restart(counter, dt) = counter'
<1> DEFINE N == Wrap * Epochs
<1>1. Wrap \in Nat \ {0} /\ N \in Nat \ {0} /\ Wrap <= N
  BY PenFacts
<1>2. counter \in 0..N - 1 /\ counter \in Nat /\ counter + dt \in Nat /\ dt \in 0..N - 1
  <2>1. counter \in 0..N - 1
    BY DEF ClockInv
  <2> HIDE DEF N
  <2> QED  BY <1>1, <2>1
<1>3. counter % N = counter
  <2> HIDE DEF N
  <2>1. counter = N * 0 + counter
    BY <1>1, <1>2
  <2> QED  BY <1>1, <1>2, <2>1, ModUnique
<1>4. ticks' = (counter + dt) % Wrap /\ actual = counter % Wrap
  <2>1. ticks = counter % Wrap /\ actual = ticks /\ ticks' = (ticks + dt) % Wrap
    BY DEF ClockInv, Tick
  <2>2. ticks \in 0..Wrap - 1 /\ ticks \in Nat
    BY <1>1, <1>2, <2>1, DivMod
  <2>3. ticks % Wrap = ticks
    <3>1. ticks = Wrap * 0 + ticks
      BY <1>1, <2>2
    <3> QED  BY <1>1, <2>2, <3>1, ModUnique
  <2>4. (counter + dt) % Wrap = IF ticks + dt < Wrap THEN ticks + dt ELSE ticks + dt - Wrap
    BY <1>1, <1>2, <2>1, NextReading
  <2>5. (ticks + dt) % Wrap = IF ticks + dt < Wrap THEN ticks + dt ELSE ticks + dt - Wrap
    BY <1>1, <2>2, <2>3, NextReading
  <2> QED  BY <2>1, <2>4, <2>5
<1>5. counter' = (counter + dt) % N
  <2>1. counter_read(counter % N, counter % Wrap, (counter + dt) % Wrap) = (counter + dt) % N
    BY <1>2, CounterReadRight
  <2> QED  BY <1>3, <1>4, <2>1 DEF Tick
<1>6. counter' % Wrap = (counter + dt) % Wrap
  BY <1>2, <1>5, LowPart
<1>7. counter' \in 0..N - 1
  <2> HIDE DEF N
  <2> QED  BY <1>1, <1>2, <1>5, DivMod
<1>8. timer_elapsed(counter', counter) = dt
  <2>1. timer_elapsed((counter + dt) % N, counter % N) = dt
    BY <1>2, MeasuredRight
  <2> QED  BY <1>3, <1>5, <2>1
<1>9. timer_restart(counter, dt) = counter'
  BY <1>5 DEF timer_restart
<1> QED  BY <1>4, <1>6, <1>7, <1>8, <1>9 DEF Tick

LEMMA QuotientUnique ==
    ASSUME NEW b \in Nat \ {0}, NEW q \in Int, NEW r \in 0..b - 1
    PROVE  (b * q + r) \div b = q
  OBVIOUS

(* The width of an element and the new estimate, from an estimate that is   *)
(* off by e and a measurement that is off by d.                             *)
LEMMA WidthRight ==
    ASSUME NEW s \in Nat, s > 20, NEW e \in -3..2, NEW d \in -1..1, NEW w \in 1..4,
           w > 1 => e \in -2..1
    PROVE  /\ ((w * s + d) + ((s + e) \div 2)) \div (s + e) = w
           /\ ((w * s + d) + (s + e)) \div (w + 1) = s + ((e + d) \div (w + 1))
<1> DEFINE b == s + e
           h == b \div 2
           t == w * s + d
           r == t + h - b * w
<1>1. b \in Nat \ {0} /\ h \in Nat /\ 2 * h <= b /\ b <= 2 * h + 1
  OBVIOUS
<1>2. t \in Int /\ r \in 0..b - 1
  <2>1. CASE w = 1
    BY <2>1
  <2>2. CASE w = 2
    BY <2>2
  <2>3. CASE w = 3
    BY <2>3
  <2>4. CASE w = 4
    BY <2>4
  <2> QED  BY <2>1, <2>2, <2>3, <2>4
<1>3. (t + h) \div b = w
  <2>1. b * w \in Int
    BY <1>1
  <2>2. t + h = b * w + r
    BY <1>1, <1>2, <2>1
  <2> HIDE DEF b, h, t, r
  <2> QED  BY <1>1, <1>2, <2>2, QuotientUnique
<1>4. (t + b) \div (w + 1) = s + ((e + d) \div (w + 1))
  <2>1. CASE w = 1
    BY <2>1
  <2>2. CASE w = 2
    BY <2>2
  <2>3. CASE w = 3
    BY <2>3
  <2>4. CASE w = 4
    BY <2>4
  <2> QED  BY <2>1, <2>2, <2>3, <2>4
<1> QED  BY <1>3, <1>4

(* The pen passes an element: what is measured, and the clock afterwards. *)
LEMMA PassRight ==
    ASSUME PenInv, ClockInv, pc \in {"first", "scan"}, NEW w \in 1..4, Pass(w)
    PROVE  /\ late' \in 0..1
           /\ Measured = w * speed + (late - late')
           /\ counter' \in 0..Wrap * Epochs - 1 /\ timer' = counter'
           /\ ticks' = counter' % Wrap /\ actual' = ticks'
           /\ speed' \in Speeds /\ speed' - speed \in -1..1
           /\ ~(number \in Drifting /\ done % 4 = 3) => speed' = speed
<1>1. speed \in Nat /\ speed > 20 /\ 4 * speed + 1 < Wrap /\ late \in 0..1 /\ speed \in Speeds
  BY PenFacts DEF PenInv, Speeds
<1>2. PICK l \in 0..1 : Tick(late + w * speed - l) /\ late' = l
  BY DEF Pass
<1>3. late + w * speed - l \in 0..Wrap - 1
  <2>1. CASE w = 1
    BY <2>1, <1>1, PenFacts
  <2>2. CASE w = 2
    BY <2>2, <1>1, PenFacts
  <2>3. CASE w = 3
    BY <2>3, <1>1, PenFacts
  <2>4. CASE w = 4
    BY <2>4, <1>1, PenFacts
  <2> QED  BY <2>1, <2>2, <2>3, <2>4
<1>4. timer = counter
  BY DEF ClockInv
<1>5. /\ counter' \in 0..Wrap * Epochs - 1
      /\ ticks' = counter' % Wrap /\ actual' = ticks'
      /\ Measured = late + w * speed - l
      /\ timer' = counter'
  <2>1. /\ counter' \in 0..Wrap * Epochs - 1
        /\ ticks' = counter' % Wrap /\ actual' = ticks'
        /\ timer_elapsed(counter', counter) = late + w * speed - l
        /\ timer_restart(counter, late + w * speed - l) = counter'
    BY <1>2, <1>3, TickRight, Zenon
  <2>2. Measured = late + w * speed - l
    BY <1>4, <2>1 DEF Measured
  <2>3. timer' = timer_restart(timer, Measured)
    BY DEF Pass
  <2> QED  BY <1>4, <2>1, <2>2, <2>3
<1>6. late + w * speed - l = w * speed + (late - late')
  <2>1. w * speed \in Int
    BY <1>1
  <2> QED  BY <1>1, <1>2, <2>1
<1>7. /\ speed' \in Speeds /\ speed' - speed \in -1..1
      /\ ~(number \in Drifting /\ done % 4 = 3) => speed' = speed
  <2>1. CASE number \in Drifting /\ done % 4 = 3
    <3>1. speed' \in {speed - 1, speed, speed + 1} \cap Speeds
      BY <2>1 DEF Pass
    <3>2. speed' \in Speeds /\ (speed' = speed - 1 \/ speed' = speed \/ speed' = speed + 1)
      BY <3>1
    <3>3. \A a \in Nat : \A c : (c = a - 1 \/ c = a \/ c = a + 1) => c - a \in -1..1
      OBVIOUS
    <3>4. speed' - speed \in -1..1
      BY <1>1, <3>2, <3>3, Zenon
    <3> QED  BY <2>1, <3>2, <3>4
  <2>2. CASE ~(number \in Drifting /\ done % 4 = 3)
    <3>1. speed' = speed
      BY <2>2 DEF Pass
    <3> QED  BY <1>1, <3>1
  <2> QED  BY <2>1, <2>2
<1> QED  BY <1>2, <1>5, <1>6, <1>7

(* The estimate after an element of width w is as close as it must be, for  *)
(* the number n of elements so far.                                         *)
LEMMA EstimateClose ==
    ASSUME NEW e \in -2..1, NEW l \in 0..1, NEW k \in 0..1, NEW n \in 1..58, NEW w \in 1..4,
           NEW v \in -1..1, Close(e, l, n, 0), n % 4 # 3 => v = 0
    PROVE  Close(((e + (l - k)) \div (w + 1)) - v, k, n + 1, 0)
<1> DEFINE f == (e + (l - k)) \div (w + 1)
<1>1. f \in -2..1 /\ (e + (l - k) \in -2..1 => f \in -1..0)
  <2>1. CASE w = 1
    BY <2>1
  <2>2. CASE w = 2
    BY <2>2
  <2>3. CASE w = 3
    BY <2>3
  <2>4. CASE w = 4
    BY <2>4
  <2> QED  BY <2>1, <2>2, <2>3, <2>4
<1> HIDE DEF f
<1>2. CASE n % 4 = 0
  <2>1. (n + 1) % 4 = 1 /\ v = 0
    BY <1>2
  <2> QED  BY <1>1, <1>2, <2>1 DEF Close, f
<1>3. CASE n % 4 = 1
  <2>1. (n + 1) % 4 = 2 /\ v = 0 /\ e + (l - k) \in -2..1
    BY <1>3 DEF Close
  <2> QED  BY <1>1, <1>3, <2>1 DEF Close, f
<1>4. CASE n % 4 = 2
  <2>1. (n + 1) % 4 = 3 /\ v = 0 /\ e + (l - k) \in -2..1
    BY <1>4 DEF Close
  <2> QED  BY <1>1, <1>4, <2>1 DEF Close, f
<1>5. CASE n % 4 = 3
  <2>1. (n + 1) % 4 = 0 /\ e + (l - k) \in -2..1
    BY <1>5 DEF Close
  <2> QED  BY <1>1, <1>5, <2>1 DEF Close, f
<1> QED  BY <1>2, <1>3, <1>4, <1>5

(* The estimate stays in its range. *)
LEMMA EstimateRange ==
    ASSUME NEW s \in Speeds, NEW b \in MinSpeed - 2..MaxSpeed + 1, NEW d \in -1..1, NEW w \in 1..4
    PROVE  ((w * s + d) + b) \div (w + 1) \in MinSpeed - 2..MaxSpeed + 1
<1>1. s \in Nat /\ MinSpeed <= s /\ s <= MaxSpeed /\ MinSpeed > 20
  BY PenFacts DEF Speeds
<1>2. CASE w = 1
  BY <1>1, <1>2, PenFacts
<1>3. CASE w = 2
  BY <1>1, <1>3, PenFacts
<1>4. CASE w = 3
  BY <1>1, <1>4, PenFacts
<1>5. CASE w = 4
  BY <1>1, <1>5, PenFacts
<1> QED  BY <1>2, <1>3, <1>4, <1>5

-----------------------------------------------------------------------------
(* The invariant. *)

LEMMA EmptyCode == <<>> \in Seq(0..4) /\ Len(<<>>) = 0
  OBVIOUS

LEMMA InitInv == Init => IInv
<1> SUFFICES ASSUME Init PROVE IInv
  OBVIOUS
<1>1. pc = "wait" /\ code = <<>> /\ done = 0 /\ extra = 0 /\ late = 0 /\ timer = 0
  BY DEF Init
<1>2. PenInv
  BY PenFacts DEF Init, PenInv, Speeds
<1>3. ClockInv
  <2>1. Starts \subseteq 0..Wrap * Epochs - 1 /\ 0 \in 0..Wrap * Epochs - 1
    BY PenAssumption, PenFacts
  <2> QED  BY <1>1, <2>1 DEF Init, ClockInv
<1>4. CodeInv
  BY <1>1, EmptyCode DEF CodeInv, Started, Scanning, CODE
<1> QED  BY <1>1, <1>2, <1>3, <1>4 DEF IInv, TimeInv, ReadRight, Scanning

LEMMA FirstEdgeInv == IInv /\ FirstEdge => IInv'
<1> SUFFICES ASSUME IInv, FirstEdge PROVE IInv'
  OBVIOUS
<1>1. PenInv /\ ClockInv /\ CodeInv
  BY DEF IInv
<1>2. /\ pc = "wait" /\ pc' = "first" /\ timer' = counter'
      /\ UNCHANGED <<number, bars, done, speed, late, extra, bittime, code, shown>>
  BY DEF FirstEdge, pen
<1>3. PICK dt \in {0, Wrap - 1} : Tick(dt)
  BY DEF FirstEdge
<1>4. dt \in 0..Wrap - 1
  BY PenFacts
<1>5. counter' \in 0..Wrap * Epochs - 1 /\ ticks' = counter' % Wrap /\ actual' = ticks'
  BY <1>1, <1>3, <1>4, TickRight
<1>6. ClockInv'
  BY <1>2, <1>5 DEF ClockInv
<1>7. PenInv'
  BY <1>1, <1>2 DEF PenInv
<1>8. CodeInv'
  BY <1>1, <1>2 DEF CodeInv, Started, Scanning
<1> QED  BY <1>2, <1>6, <1>7, <1>8 DEF IInv, TimeInv, ReadRight, Scanning

LEMMA FirstBarInv == IInv /\ FirstBar => IInv'
<1> SUFFICES ASSUME IInv, FirstBar PROVE IInv'
  OBVIOUS
<1>1. PenInv /\ ClockInv /\ CodeInv
  BY DEF IInv
<1>2. /\ pc = "first" /\ pc' = "scan" /\ Pass(bars[1]) /\ bittime' = Measured
      /\ code' = <<1>> /\ done' = 1
      /\ UNCHANGED <<number, bars, extra, shown>>
  BY DEF FirstBar
<1>3. bars \in [1..59 -> 1..4] /\ bars[1] = 1
  BY <1>1, BarsType
<1>4. done = 0 /\ extra = 0 /\ late = 0 /\ speed \in Speeds
  BY <1>1, <1>2 DEF CodeInv, PenInv, Started
<1>5. /\ late' \in 0..1
      /\ Measured = 1 * speed + (late - late')
      /\ counter' \in 0..Wrap * Epochs - 1 /\ timer' = counter'
      /\ ticks' = counter' % Wrap /\ actual' = ticks'
      /\ speed' \in Speeds
      /\ ~(number \in Drifting /\ done % 4 = 3) => speed' = speed
  BY <1>1, <1>2, <1>3, PassRight
<1>6. speed' = speed
  BY <1>4, <1>5
<1>7. PenInv'
  BY <1>1, <1>2, <1>5 DEF PenInv
<1>8. ClockInv'
  BY <1>2, <1>5 DEF ClockInv
<1>9. CodeInv'
  <2>1. <<1>> \in Seq(0..4) /\ Len(<<1>>) = 1 /\ <<1>>[1] = 1
    OBVIOUS
  <2>2. \A k \in 1..1 : k = 1
    OBVIOUS
  <2>3. \A k \in 1..1 : <<1>>[k] = IF k <= 1 THEN bars[k] ELSE 1
    BY <1>3, <2>1, <2>2
  <2>4. extra' = 0 /\ done' = 1 /\ Started' /\ pc' = "scan" /\ bars' = bars /\ code' = <<1>>
    BY <1>2, <1>4 DEF Started
  <2> QED  BY <2>1, <2>3, <2>4 DEF CodeInv, Scanning, CODE
<1>10. TimeInv'
  <2>1. bittime' = speed - late' /\ speed \in Nat /\ MinSpeed <= speed /\ speed <= MaxSpeed
    BY <1>2, <1>4, <1>5, PenFacts DEF Speeds
  <2>2. bittime' \in MinSpeed - 2..MaxSpeed + 1
    <3>1. \A l \in 0..1 : speed - l \in MinSpeed - 2..MaxSpeed + 1
      BY <2>1, PenFacts
    <3> QED  BY <1>5, <2>1, <3>1
  <2>3. bittime' - speed' = -late'
    BY <1>5, <1>6, <2>1
  <2>4. Close(-late', late', 1, 0)
    <3>1. \A l \in 0..1 : Close(-l, l, 1, 0)
      BY DEF Close
    <3> QED  BY <1>5, <3>1
  <2> QED  BY <1>2, <1>4, <2>2, <2>3, <2>4 DEF TimeInv
<1> QED  BY <1>2, <1>7, <1>8, <1>9, <1>10 DEF IInv, ReadRight

(* An element is stored with its width and with an estimate in its range. *)
LEMMA StoreRight ==
    ASSUME PenInv, ClockInv, TimeInv, pc = "scan", NEW w \in 1..4, Pass(w),
           w > 1 => bittime - speed \in -2..1
    PROVE  /\ Width(Measured) = w
           /\ BitTime(Measured, w) \in MinSpeed - 2..MaxSpeed + 1
           /\ BitTime(Measured, w)
                = speed + (((bittime - speed) + (late - late')) \div (w + 1))
<1> DEFINE e == bittime - speed
           d == late - late'
<1>1. late' \in 0..1 /\ Measured = w * speed + (late - late') /\ late \in 0..1
  BY PassRight DEF PenInv
<1>2. speed \in Speeds /\ speed \in Nat /\ speed > 20
  BY PenFacts DEF PenInv, Speeds
<1>3. bittime \in MinSpeed - 2..MaxSpeed + 1 /\ e \in -3..2
  BY DEF TimeInv, Scanning, Close
<1>4. bittime \in Int /\ bittime = speed + e /\ d \in -1..1
  <2>1. \A l, k \in 0..1 : l - k \in -1..1
    OBVIOUS
  <2>2. d \in -1..1
    BY <1>1, <2>1
  <2> QED  BY <1>2, <1>3, <2>2, PenFacts
<1> HIDE DEF e, d
<1>5. w > 1 => e \in -2..1
  BY DEF e
<1>6. /\ ((w * speed + d) + ((speed + e) \div 2)) \div (speed + e) = w
      /\ ((w * speed + d) + (speed + e)) \div (w + 1) = speed + ((e + d) \div (w + 1))
  BY <1>2, <1>3, <1>4, <1>5, WidthRight
<1>7. Measured = w * speed + d
  BY <1>1 DEF d
<1>8. Width(Measured) = w
  BY <1>4, <1>6, <1>7 DEF Width
<1>9. BitTime(Measured, w) = speed + ((e + d) \div (w + 1))
  BY <1>4, <1>6, <1>7 DEF BitTime
<1>10. BitTime(Measured, w) \in MinSpeed - 2..MaxSpeed + 1
  BY <1>2, <1>3, <1>4, <1>7, EstimateRange DEF BitTime
<1> QED  BY <1>8, <1>9, <1>10 DEF e, d

(* The next element of the code is stored. *)
LEMMA ElementInv == IInv /\ Element => IInv'
<1> SUFFICES ASSUME IInv, Element PROVE IInv'
  OBVIOUS
<1> DEFINE w == bars[done + 1]
           e == bittime - speed
<1>1. PenInv /\ ClockInv /\ CodeInv /\ TimeInv
  BY DEF IInv
<1>2. /\ pc = "scan" /\ done < 59 /\ Pass(w) /\ Store(Measured) /\ done' = done + 1
      /\ UNCHANGED <<number, bars, extra, shown>>
  BY DEF Element, ELEMENTS
<1>3. /\ done \in 1..58 /\ extra = 0 /\ Len(code) = done /\ code \in Seq(0..4)
      /\ \A k \in 1..done : code[k] = bars[k]
      /\ late \in 0..1 /\ speed \in Speeds /\ speed \in Nat
  <2>1. Started /\ done \in 0..59 /\ extra \in Nat
    BY <1>1, <1>2 DEF PenInv, Started
  <2>2. done \in 1..58 /\ extra = 0
    BY <1>1, <1>2, <2>1 DEF CodeInv
  <2> QED  BY <1>1, <2>1, <2>2, PenFacts DEF CodeInv, PenInv, Speeds
<1>4. w \in 1..4
  <2>1. done + 1 \in 1..59
    BY <1>3
  <2> QED  BY <1>1, <2>1, BarsType
<1>5. Close(e, late, done, 0) /\ e \in -2..1
  <2>1. Close(e, late, done, 0)
    BY <1>1, <1>2, <1>3 DEF TimeInv, Scanning
  <2> HIDE DEF e
  <2> QED  BY <2>1, <1>3 DEF Close
<1>6. /\ late' \in 0..1
      /\ counter' \in 0..Wrap * Epochs - 1 /\ timer' = counter'
      /\ ticks' = counter' % Wrap /\ actual' = ticks'
      /\ speed' \in Speeds /\ speed' - speed \in -1..1
      /\ ~(number \in Drifting /\ done % 4 = 3) => speed' = speed
  BY <1>1, <1>2, <1>4, PassRight
<1>7. /\ Width(Measured) = w
      /\ BitTime(Measured, w) \in MinSpeed - 2..MaxSpeed + 1
      /\ BitTime(Measured, w) = speed + ((e + (late - late')) \div (w + 1))
  BY <1>1, <1>2, <1>4, <1>5, StoreRight
<1>8. /\ bittime' = BitTime(Measured, w) /\ code' = Append(code, w)
      /\ pc' = IF Len(code') > CODE THEN "full" ELSE "scan"
  BY <1>2, <1>7 DEF Store
<1> HIDE DEF w, e
<1>9. /\ code' \in Seq(0..4) /\ Len(code') = done + 1
      /\ \A k \in 1..done : code'[k] = code[k]
      /\ code'[done + 1] = w
  BY <1>3, <1>4, <1>8
<1>10. pc' = "scan"
  BY <1>3, <1>8, <1>9 DEF CODE
<1>11. PenInv'
  <2>1. done' \in 0..59
    BY <1>2, <1>3
  <2> QED  BY <1>1, <1>2, <1>6, <1>10, <2>1 DEF PenInv
<1>12. ClockInv'
  BY <1>6 DEF ClockInv
<1>13. CodeInv'
  <2>1. \A k \in 1..done + 1 : code'[k] = bars[k]
    BY <1>3, <1>9 DEF w
  <2>2. extra' = 0 /\ done' = done + 1 /\ bars' = bars /\ Started' /\ done + 1 <= CODE
    BY <1>2, <1>3, <1>10 DEF Started, CODE
  <2>3. done' > 0 /\ Len(code') = done' + extra' /\ Len(code') <= CODE /\ Len(code') <= CODE + 1
    BY <1>3, <1>9, <2>2 DEF CODE
  <2>4. \A k \in 1..Len(code') : code'[k] = IF k <= done' THEN bars'[k] ELSE 1
    BY <1>3, <1>9, <2>1, <2>2
  <2> QED  BY <1>9, <1>10, <2>2, <2>3, <2>4 DEF CodeInv
<1>14. TimeInv'
  <2> DEFINE f == (e + (late - late')) \div (w + 1)
             v == speed' - speed
  <2>1. done % 4 # 3 => v = 0
    <3>1. done % 4 # 3 => speed' = speed
      BY <1>6
    <3>2. speed - speed = 0
      BY <1>3
    <3> QED  BY <3>1, <3>2
  <2>2. Close(f - v, late', done + 1, 0)
    <3>1. \A x \in -1..1 : (done % 4 # 3 => x = 0) => Close(f - x, late', done + 1, 0)
      BY <1>3, <1>4, <1>5, <1>6, EstimateClose
    <3> HIDE DEF f, v
    <3>2. v \in -1..1
      BY <1>6 DEF v
    <3> QED  BY <3>1, <3>2, <2>1
  <2>3. f \in Int
    BY <1>3, <1>4, <1>5, <1>6
  <2>4. speed' \in Nat
    BY <1>6, PenFacts DEF Speeds
  <2>5. bittime' = speed + f
    BY <1>7, <1>8
  <2>6. bittime' - speed' = f - v
    <3> HIDE DEF f
    <3> QED  BY ONLY <1>3, <2>3, <2>4, <2>5
  <2>7. bittime' \in MinSpeed - 2..MaxSpeed + 1
    BY <1>7, <1>8
  <2>8. extra' = 0 /\ done' = done + 1
    BY <1>2, <1>3
  <2> HIDE DEF f, v
  <2> QED  BY <2>2, <2>6, <2>7, <2>8 DEF TimeInv
<1>15. ReadRight'
  BY <1>10 DEF ReadRight
<1> QED  BY <1>11, <1>12, <1>13, <1>14, <1>15 DEF IInv

LEMMA ExtraInv == IInv /\ Extra => IInv'
<1> SUFFICES ASSUME IInv, Extra PROVE IInv'
  OBVIOUS
<1> DEFINE e == bittime - speed
<1>1. PenInv /\ ClockInv /\ CodeInv /\ TimeInv
  BY DEF IInv
<1>2. /\ pc = "scan" /\ done = 59 /\ Pass(1) /\ Store(Measured) /\ extra' = extra + 1
      /\ UNCHANGED <<number, bars, done, shown>>
  BY DEF Extra, ELEMENTS
<1>3. /\ extra \in Nat /\ Len(code) = 59 + extra /\ Len(code) <= CODE /\ code \in Seq(0..4)
      /\ \A k \in 1..Len(code) : code[k] = IF k <= 59 THEN bars[k] ELSE 1
      /\ late \in 0..1 /\ speed \in Speeds /\ speed \in Nat
  BY <1>1, <1>2, PenFacts DEF CodeInv, PenInv, Started, Scanning, Speeds
<1>4. e \in -3..2
  BY <1>1, <1>2 DEF TimeInv, Scanning, Close
<1>5. /\ late' \in 0..1
      /\ counter' \in 0..Wrap * Epochs - 1 /\ timer' = counter'
      /\ ticks' = counter' % Wrap /\ actual' = ticks'
      /\ speed' \in Speeds /\ speed' - speed \in -1..1
  BY <1>1, <1>2, PassRight
<1>6. /\ Width(Measured) = 1
      /\ BitTime(Measured, 1) \in MinSpeed - 2..MaxSpeed + 1
      /\ BitTime(Measured, 1) = speed + ((e + (late - late')) \div (1 + 1))
  BY <1>1, <1>2, StoreRight
<1>7. /\ bittime' = BitTime(Measured, 1) /\ code' = Append(code, 1)
      /\ pc' = IF Len(code') > CODE THEN "full" ELSE "scan"
  BY <1>2, <1>6 DEF Store
<1> HIDE DEF e
<1>8. /\ code' \in Seq(0..4) /\ Len(code') = Len(code) + 1
      /\ \A k \in 1..Len(code) : code'[k] = code[k]
      /\ code'[Len(code) + 1] = 1
  BY <1>3, <1>7
<1>9. pc' \in {"full", "scan"} /\ (pc' = "full" => Len(code') = CODE + 1)
      /\ (pc' = "scan" => Len(code') <= CODE) /\ Len(code') <= CODE + 1
  BY <1>3, <1>7, <1>8 DEF CODE
<1>10. PenInv'
  BY <1>1, <1>2, <1>3, <1>5, <1>9 DEF PenInv
<1>11. ClockInv'
  BY <1>5 DEF ClockInv
<1>12. CodeInv'
  <2>1. \A k \in 1..Len(code') : code'[k] = IF k <= 59 THEN bars[k] ELSE 1
    BY <1>3, <1>8
  <2>2. extra' > 0 /\ extra' \in Nat /\ Len(code') = 59 + extra' /\ done' = 59 /\ bars' = bars
    BY <1>2, <1>3, <1>8
  <2>3. Started' /\ (Scanning' => pc' = "scan")
    BY <1>9 DEF Started, Scanning
  <2> QED  BY <1>8, <1>9, <2>1, <2>2, <2>3 DEF CodeInv
<1>13. TimeInv'
  <2> DEFINE f == (e + (late - late')) \div (1 + 1)
  <2>1. f \in -2..1
    <3>1. \A x \in -3..2 : \A l, k \in 0..1 : (x + (l - k)) \div (1 + 1) \in -2..1
      OBVIOUS
    <3> QED  BY <1>3, <1>4, <1>5, <3>1
  <2>2. bittime' = speed + f
    BY <1>6, <1>7
  <2>3. speed' \in Nat
    BY <1>5, PenFacts DEF Speeds
  <2> HIDE DEF f
  <2>4. bittime' - speed' \in -3..2
    <3>1. \A s, t \in Nat : \A x \in -2..1 : t - s \in -1..1 => (s + x) - t \in -3..2
      OBVIOUS
    <3>2. speed' - speed \in -1..1
      BY <1>5
    <3> QED  BY ONLY <1>3, <2>1, <2>2, <2>3, <3>1, <3>2
  <2>5. bittime' \in MinSpeed - 2..MaxSpeed + 1
    BY <1>6, <1>7
  <2>6. extra' > 0
    BY <1>2, <1>3
  <2> QED  BY <2>4, <2>5, <2>6 DEF TimeInv, Close
<1>14. ReadRight'
  BY <1>9 DEF ReadRight
<1> QED  BY <1>10, <1>11, <1>12, <1>13, <1>14 DEF IInv

LEMMA PenLiftedInv == IInv /\ PenLifted => IInv'
<1> SUFFICES ASSUME IInv, PenLifted PROVE IInv'
  OBVIOUS
<1>1. PenInv /\ ClockInv /\ CodeInv /\ TimeInv
  BY DEF IInv
<1>2. /\ pc = "scan" /\ pc' = "read" /\ Tick(Quiet + 1)
      /\ UNCHANGED <<number, bars, done, speed, late, extra, timer, bittime, code, shown>>
  BY DEF PenLifted, pen
<1>3. Quiet + 1 \in 0..Wrap - 1
  BY PenFacts
<1>4. counter' \in 0..Wrap * Epochs - 1 /\ ticks' = counter' % Wrap /\ actual' = ticks'
  BY <1>1, <1>2, <1>3, TickRight
<1>5. ClockInv'
  BY <1>1, <1>2, <1>4 DEF ClockInv
<1>6. PenInv'
  BY <1>1, <1>2 DEF PenInv
<1>7. CodeInv'
  BY <1>1, <1>2 DEF CodeInv, Started, Scanning
<1>8. TimeInv'
  BY <1>1, <1>2 DEF TimeInv, Scanning
<1> QED  BY <1>2, <1>5, <1>6, <1>7, <1>8 DEF IInv, ReadRight

LEMMA ShowInv == IInv /\ Show => IInv'
<1> SUFFICES ASSUME IInv, Show PROVE IInv'
  OBVIOUS
<1>1. PenInv /\ ClockInv /\ CodeInv
  BY DEF IInv
<1>2. /\ pc \in {"read", "full"} /\ pc' = "shown"
      /\ shown' = IF pc = "read" /\ Len(code) = 59 THEN Decode(code) ELSE <<>>
      /\ UNCHANGED <<number, bars, done, speed, late, extra, ticks, actual, counter, timer,
                     bittime, code>>
  BY DEF Show, pen, clock, ELEMENTS
<1>3. PenInv' /\ ClockInv'
  BY <1>1, <1>2 DEF PenInv, ClockInv
<1>4. CodeInv'
  BY <1>1, <1>2 DEF CodeInv, Started, Scanning
<1>5. /\ done \in 1..59 /\ extra \in Nat /\ (extra > 0 => done = 59)
      /\ Len(code) = done + extra /\ code \in Seq(0..4)
      /\ \A k \in 1..Len(code) : code[k] = IF k <= done THEN bars[k] ELSE 1
      /\ pc = "full" => Len(code) = 61
  BY <1>1, <1>2 DEF CodeInv, PenInv, Started, CODE
<1>6. (pc = "read" /\ Len(code) = 59) <=> (done = 59 /\ extra = 0)
  BY <1>2, <1>5
<1>7. ASSUME done = 59, extra = 0 PROVE Decode(code) = number
  <2>1. Len(code) = 59 /\ code \in [1..59 -> 0..4]
    <3>1. Len(code) = 59
      BY <1>5, <1>7
    <3>2. code \in Seq(0..4)
      BY <1>5
    <3>3. \A c \in Seq(0..4) : c \in [1..Len(c) -> 0..4]
      OBVIOUS
    <3> QED  BY <3>1, <3>2, <3>3
  <2>2. \A k \in 1..59 : code[k] = bars[k]
    <3>1. \A k \in 1..59 : code[k] = IF k <= 59 THEN bars[k] ELSE 1
      BY <1>5, <1>7, <2>1
    <3> QED  BY ONLY <3>1
  <2>3. bars \in [1..59 -> 1..4] /\ Decode(bars) = number
    BY <1>1, BarsType
  <2>4. code = bars
    BY <2>1, <2>2, <2>3
  <2> QED  BY <2>3, <2>4
<1>8. ReadRight'
  BY <1>2, <1>6, <1>7 DEF ReadRight, ELEMENTS
<1> QED  BY <1>2, <1>3, <1>4, <1>8 DEF IInv, TimeInv, Scanning

LEMMA StutterInv == IInv /\ UNCHANGED vars => IInv'
<1> SUFFICES ASSUME IInv, UNCHANGED vars PROVE IInv'
  OBVIOUS
<1>1. UNCHANGED <<number, bars, done, speed, late, extra, ticks, actual, counter, timer, bittime,
                 code, pc, shown>>
  BY DEF vars, pen, clock
<1>2. PenInv' /\ ClockInv'
  BY <1>1 DEF IInv, PenInv, ClockInv
<1>3. CodeInv' /\ TimeInv'
  BY <1>1 DEF IInv, CodeInv, TimeInv, Started, Scanning
<1> QED  BY <1>1, <1>2, <1>3 DEF IInv, ReadRight

(* The invariant holds in every state. *)
LEMMA Invariant == Spec => []IInv
<1>1. IInv /\ [Next]_vars => IInv'
  BY FirstEdgeInv, FirstBarInv, ElementInv, ExtraInv, PenLiftedInv, ShowInv, StutterInv DEF Next
<1> QED  BY InitInv, <1>1, PTL DEF Spec

(* The ranges of the variables, the extended clock's included; at most one  *)
(* edge is stored past the end of code.                                     *)
THEOREM PenTypeCorrect == Spec => []TypeOK
<1>1. IInv => TypeOK
  <2> SUFFICES ASSUME IInv PROVE TypeOK
    OBVIOUS
  <2>1. ticks \in 0..Wrap - 1 /\ actual \in 0..Wrap - 1
    <3>1. counter \in 0..Wrap * Epochs - 1 /\ ticks = counter % Wrap /\ actual = ticks
      BY DEF IInv, ClockInv
    <3>2. counter \in Int /\ Wrap \in Nat \ {0}
      BY <3>1, PenFacts
    <3>3. counter % Wrap \in 0..Wrap - 1
      BY <3>2, DivMod
    <3> QED  BY <3>1, <3>3
  <2>2. counter \in 0..Wrap * Epochs - 1 /\ timer \in 0..Wrap * Epochs - 1
    BY DEF IInv, ClockInv
  <2>3. Len(code) <= CODE + 1 /\ \A j \in DOMAIN code : code[j] \in 0..4
    BY DEF IInv, CodeInv
  <2> QED  BY <2>1, <2>2, <2>3 DEF TypeOK
<1> QED  BY Invariant, <1>1, PTL

(* What main prints is the number on the paper, whatever the number, the    *)
(* direction, the drift of the speed between the limits, the edges that are *)
(* seen late and the clock at the start; a scan of anything less or more    *)
(* prints an error.                                                         *)
THEOREM NumberReadRight == Spec => []ReadRight
<1>1. IInv => ReadRight
  BY DEF IInv
<1> QED  BY Invariant, <1>1, PTL

(* The estimate of a module follows the pen and never reaches zero. *)
THEOREM EstimateFollowsPen == Spec => []BitTimeClose
<1>1. IInv => BitTimeClose
  BY DEF IInv, TimeInv, Scanning, BitTimeClose
<1> QED  BY Invariant, <1>1, PTL
=============================================================================
