----------------------- MODULE PhasorEstimation_proofs -----------------------
(* Proofs about the phasor of a channel: the transform is the discrete        *)
(* Fourier transform for windows of every power of two and samples of every   *)
(* size; the strongest bin of windows of 8 samples of every size.             *)
EXTENDS PhasorEstimation, WellFoundedInduction, TLAPS
-----------------------------------------------------------------------------
(* The coefficients of a polynomial, at every power of z.                     *)
LEMMA Size ==
    /\ BUFFER_SIZE \in Nat /\ BUFFER_SIZE >= 2 /\ Half \in Nat /\ Half >= 1
    /\ BUFFER_SIZE = Half + Half
<1>1. BUFFER_SIZE \in Nat \ {0, 1} /\ BUFFER_SIZE \in 2 .. BUFFER_SIZE
  BY BufferAssumption
<1>2. BUFFER_SIZE % BUFFER_SIZE = 0
  BY SMT, <1>1
<1>3. BUFFER_SIZE % 2 = 0
  BY <1>1, <1>2, BufferAssumption
<1> QED BY SMT, <1>1, <1>3 DEF Half

LEMMA Division ==
    ASSUME NEW B \in Nat \ {0}, NEW i \in Int
    PROVE  /\ i % B \in Int /\ 0 <= i % B /\ i % B < B
           /\ i \div B \in Int /\ i % B = i - B * (i \div B)
BY SMT

LEMMA Columnwise ==
    ASSUME NEW i \in Int
    PROVE  /\ i % BUFFER_SIZE \in Int /\ 0 <= i % BUFFER_SIZE /\ i % BUFFER_SIZE < BUFFER_SIZE
           /\ \E q \in Int : i = BUFFER_SIZE * q + (i % BUFFER_SIZE)
<1>1. BUFFER_SIZE \in Nat \ {0}
  BY Size
<1> DEFINE q == i \div BUFFER_SIZE
           j == i % BUFFER_SIZE
<1>2. /\ j \in Int /\ 0 <= j /\ j < BUFFER_SIZE
      /\ q \in Int /\ j = i - BUFFER_SIZE * q
  BY <1>1, Division
<1> HIDE DEF q, j
<1>3. i = BUFFER_SIZE * q + j
  BY SMT, <1>1, <1>2
<1> QED BY <1>2, <1>3 DEF j

\* The quotient and the remainder are the only ones.
LEMMA DivisionUnique ==
    ASSUME NEW B \in Nat \ {0}, NEW q \in Int, NEW j \in Int, 0 <= j, j < B,
           NEW i \in Int, i = B * q + j
    PROVE  i % B = j /\ i \div B = q
<1> DEFINE k == i % B
           p == i \div B
<1>1. k \in Int /\ 0 <= k /\ k < B /\ p \in Int /\ k = i - B * p
  BY Division
<1> HIDE DEF k, p
<1>2. B * (p - q) = j - k
  BY SMT, <1>1
<1> DEFINE d == p - q
<1>3. d \in Int /\ B * d = j - k
  BY <1>1, <1>2
<1>4. p = q + d
  BY <1>1
<1> HIDE DEF d
<1>5. ~(d >= 1)
  <2>1. d >= 1 => B * d >= B
    BY SMT, <1>3
  <2> QED BY SMT, <1>1, <1>3, <2>1
<1>6. ~(d <= -1)
  <2>1. d <= -1 => B * d <= -B
    BY SMT, <1>3
  <2> QED BY SMT, <1>1, <1>3, <2>1
<1>7. p = q /\ k = j
  <2>1. d = 0
    BY SMT, <1>3, <1>5, <1>6
  <2>2. B * d = 0
    BY SMT, <2>1
  <2> QED BY SMT, <1>1, <1>3, <1>4, <2>1, <2>2
<1> QED BY <1>7 DEF k, p

LEMMA ColumnUnique ==
    ASSUME NEW i \in Int, NEW q \in Int, NEW j \in 0 .. BUFFER_SIZE - 1, i = BUFFER_SIZE * q + j
    PROVE  i % BUFFER_SIZE = j
<1>1. BUFFER_SIZE \in Nat \ {0} /\ j \in Int /\ 0 <= j /\ j < BUFFER_SIZE
  BY Size
<1> QED BY <1>1, DivisionUnique

LEMMA CoefficientType ==
    ASSUME NEW a \in Ring, NEW i \in Int
    PROVE  Coefficient(a, i) \in Int
<1> DEFINE j == i % BUFFER_SIZE
<1>1. j \in Int /\ 0 <= j /\ j < BUFFER_SIZE
  BY Columnwise
<1> HIDE DEF j
<1>2. CASE j < Half
  <2>1. j \in Powers
    BY SMT, <1>1, <1>2, Size DEF Powers
  <2> QED BY <1>2, <2>1 DEF Ring, Coefficient, j
<1>3. CASE ~(j < Half)
  <2>1. j - Half \in Powers
    BY SMT, <1>1, <1>3, Size DEF Powers
  <2>2. a[j - Half] \in Int
    BY <2>1 DEF Ring
  <2> QED BY <1>3, <2>2 DEF Coefficient, j
<1> QED BY <1>2, <1>3

LEMMA CoefficientOf ==
    ASSUME NEW a \in Ring, NEW c \in Powers
    PROVE  Coefficient(a, c) = a[c]
<1>1. c \in Int /\ 0 <= c /\ c < Half /\ c \in 0 .. BUFFER_SIZE - 1
  BY SMT, Size DEF Powers
<1>2. c = BUFFER_SIZE * 0 + c
  BY SMT, <1>1, Size
<1>3. c % BUFFER_SIZE = c
  BY <1>1, <1>2, ColumnUnique
<1> QED BY <1>1, <1>3 DEF Coefficient

\* A whole turn.
LEMMA CoefficientTurn ==
    ASSUME NEW a, NEW i \in Int, NEW q \in Int
    PROVE  Coefficient(a, i + BUFFER_SIZE * q) = Coefficient(a, i)
<1> DEFINE j == i % BUFFER_SIZE
           k == i + BUFFER_SIZE * q
<1>1. PICK p \in Int : i = BUFFER_SIZE * p + j
  BY Columnwise
<1>2. j \in 0 .. BUFFER_SIZE - 1
  BY Columnwise, Size
<1> HIDE DEF j
<1>3. k \in Int /\ p + q \in Int /\ k = BUFFER_SIZE * (p + q) + j
  BY SMT, <1>1, <1>2, Size
<1> HIDE DEF k
<1>4. k % BUFFER_SIZE = j
  <2> DEFINE r == p + q
  <2>1. r \in Int /\ k = BUFFER_SIZE * r + j
    BY <1>3
  <2> HIDE DEF r
  <2> QED BY <1>2, <1>3, <2>1, ColumnUnique
<1>5. Coefficient(a, k) = Coefficient(a, i)
  BY <1>4 DEF Coefficient, j
<1> QED BY <1>5 DEF k

\* Half a turn.
LEMMA CoefficientHalfTurn ==
    ASSUME NEW a \in Ring, NEW i \in Int
    PROVE  /\ Coefficient(a, i + Half) = -Coefficient(a, i)
           /\ Coefficient(a, i - Half) = -Coefficient(a, i)
<1>1. ASSUME NEW m \in Int
      PROVE  Coefficient(a, m + Half) = -Coefficient(a, m)
  <2> DEFINE j == m % BUFFER_SIZE
             k == m + Half
  <2>1. PICK p \in Int : m = BUFFER_SIZE * p + j
    BY Columnwise
  <2>2. j \in Int /\ 0 <= j /\ j < BUFFER_SIZE /\ j = m % BUFFER_SIZE
    BY Columnwise
  <2> HIDE DEF j
  <2>3. CASE j < Half
    <3> DEFINE h == j + Half
    <3>1. k \in Int /\ h \in 0 .. BUFFER_SIZE - 1 /\ k = BUFFER_SIZE * p + h
      BY SMT, <2>1, <2>2, <2>3, Size
    <3>2. k % BUFFER_SIZE = h
      <4> HIDE DEF k, h
      <4> QED BY <3>1, ColumnUnique
    <3>3. ~(h < Half) /\ h - Half = j
      BY SMT, <2>2, Size
    <3> HIDE DEF k, h
    <3>4. Coefficient(a, k) = -a[j] /\ Coefficient(a, m) = a[j]
      BY <2>2, <2>3, <3>2, <3>3 DEF Coefficient
    <3> QED BY <3>4 DEF k
  <2>4. CASE ~(j < Half)
    <3> DEFINE h == j - Half
               r == p + 1
    <3>1. k \in Int /\ h \in 0 .. BUFFER_SIZE - 1 /\ r \in Int /\ k = BUFFER_SIZE * r + h
      BY SMT, <2>1, <2>2, <2>4, Size
    <3>2. h \in Powers /\ h < Half
      BY SMT, <2>2, <2>4, Size DEF Powers
    <3>3. k % BUFFER_SIZE = h
      <4> HIDE DEF k, h, r
      <4> QED BY <3>1, ColumnUnique
    <3>4. a[h] \in Int
      BY <3>2 DEF Ring
    <3>5. Coefficient(a, m) = -a[h]
      BY <2>2, <2>4 DEF Coefficient
    <3> HIDE DEF k, h
    <3>6. Coefficient(a, k) = a[h]
      BY <3>2, <3>3 DEF Coefficient
    <3>7. Coefficient(a, k) = -Coefficient(a, m)
      BY <3>4, <3>5, <3>6
    <3> QED BY <3>7 DEF k
  <2> QED BY <2>3, <2>4
<1>2. Coefficient(a, i - Half) = -Coefficient(a, i)
  <2> DEFINE m == i - Half
  <2>1. m \in Int /\ m + Half = i
    BY SMT, Size
  <2> HIDE DEF m
  <2>2. Coefficient(a, i) = -Coefficient(a, m)
    BY <1>1, <2>1
  <2>3. Coefficient(a, m) \in Int
    BY <2>1, CoefficientType
  <2>4. Coefficient(a, m) = -Coefficient(a, i)
    BY <2>2, <2>3
  <2> QED BY <2>4 DEF m
<1> QED BY <1>1, <1>2

-----------------------------------------------------------------------------
(* The ring.                                                                  *)
LEMMA RingTypes ==
    /\ \A v \in Int : Scalar(v) \in Ring
    /\ \A a, b \in Ring : RingPlus(a, b) \in Ring /\ RingMinus(a, b) \in Ring
    /\ \A a \in Ring, m \in Int : Rotated(a, m) \in Ring
<1>1. \A v \in Int : Scalar(v) \in Ring
  BY DEF Scalar, Ring
<1>2. ASSUME NEW a \in Ring, NEW b \in Ring
      PROVE  RingPlus(a, b) \in Ring /\ RingMinus(a, b) \in Ring
  BY DEF RingPlus, RingMinus, Ring
<1>3. ASSUME NEW a \in Ring, NEW m \in Int
      PROVE  Rotated(a, m) \in Ring
  <2>1. ASSUME NEW c \in Powers PROVE Coefficient(a, c - m) \in Int
    <3>1. c - m \in Int
      BY SMT, Size DEF Powers
    <3> QED BY <3>1, CoefficientType
  <2> QED BY <2>1 DEF Rotated, Ring
<1> QED BY <1>1, <1>2, <1>3

LEMMA RingEqual ==
    ASSUME NEW a \in Ring, NEW b \in Ring, \A c \in Powers : a[c] = b[c]
    PROVE  a = b
BY DEF Ring

LEMMA PlusLaws ==
    ASSUME NEW a \in Ring, NEW b \in Ring
    PROVE  /\ RingPlus(a, b) = RingPlus(b, a)
           /\ RingPlus(a, Scalar(0)) = a
           /\ \A d \in Ring : RingPlus(RingPlus(a, b), d) = RingPlus(a, RingPlus(b, d))
<1>1. \A c \in Powers : a[c] \in Int /\ b[c] \in Int
  BY DEF Ring
<1>2. RingPlus(a, b) = RingPlus(b, a)
  BY <1>1 DEF RingPlus
<1>3. RingPlus(a, Scalar(0)) = a
  <2>1. RingPlus(a, Scalar(0)) \in Ring
    BY RingTypes
  <2>2. \A c \in Powers : RingPlus(a, Scalar(0))[c] = a[c]
    BY <1>1 DEF RingPlus, Scalar
  <2> QED BY <2>1, <2>2, RingEqual
<1>4. ASSUME NEW d \in Ring
      PROVE  RingPlus(RingPlus(a, b), d) = RingPlus(a, RingPlus(b, d))
  <2>1. \A c \in Powers : d[c] \in Int
    BY DEF Ring
  <2> QED BY <1>1, <2>1 DEF RingPlus
<1> QED BY <1>2, <1>3, <1>4

\* Two sums of two.
LEMMA PlusSwap ==
    ASSUME NEW a \in Ring, NEW b \in Ring, NEW d \in Ring, NEW e \in Ring
    PROVE  RingPlus(RingPlus(RingPlus(a, b), d), e) = RingPlus(RingPlus(a, d), RingPlus(b, e))
<1>1. \A c \in Powers : a[c] \in Int /\ b[c] \in Int /\ d[c] \in Int /\ e[c] \in Int
  BY DEF Ring
<1> QED BY <1>1 DEF RingPlus

LEMMA CoefficientPlus ==
    ASSUME NEW a \in Ring, NEW b \in Ring, NEW i \in Int
    PROVE  Coefficient(RingPlus(a, b), i) = Coefficient(a, i) + Coefficient(b, i)
<1> DEFINE j == i % BUFFER_SIZE
<1>1. j \in Int /\ 0 <= j /\ j < BUFFER_SIZE /\ j = i % BUFFER_SIZE
  BY Columnwise
<1> HIDE DEF j
<1>2. \A c \in Powers : a[c] \in Int /\ b[c] \in Int /\ RingPlus(a, b)[c] = a[c] + b[c]
  BY DEF Ring, RingPlus
<1>3. CASE j < Half
  <2>1. j \in Powers
    BY SMT, <1>1, <1>3, Size DEF Powers
  <2> QED BY <1>1, <1>2, <1>3, <2>1 DEF Coefficient
<1>4. CASE ~(j < Half)
  <2>1. j - Half \in Powers
    BY SMT, <1>1, <1>4, Size DEF Powers
  <2> QED BY <1>1, <1>2, <1>4, <2>1 DEF Coefficient
<1> QED BY <1>3, <1>4

LEMMA RotatedAt ==
    ASSUME NEW a \in Ring, NEW m \in Int, NEW i \in Int
    PROVE  Coefficient(Rotated(a, m), i) = Coefficient(a, i - m)
<1> DEFINE j == i % BUFFER_SIZE
           r == Rotated(a, m)
<1>1. j \in Int /\ 0 <= j /\ j < BUFFER_SIZE /\ j = i % BUFFER_SIZE
  BY Columnwise
<1>2. PICK q \in Int : i = BUFFER_SIZE * q + j
  BY Columnwise
<1>3. \A c \in Powers : r[c] = Coefficient(a, c - m)
  BY DEF Rotated
<1> HIDE DEF j, r
<1>4. Coefficient(a, i - m) = Coefficient(a, j - m)
  <2> DEFINE k == j - m
  <2>1. k \in Int /\ i - m = k + BUFFER_SIZE * q
    BY SMT, <1>1, <1>2, Size
  <2> HIDE DEF k
  <2>2. Coefficient(a, i - m) = Coefficient(a, k)
    BY <2>1, CoefficientTurn
  <2> QED BY <2>2 DEF k
<1>5. CASE j < Half
  <2>1. j \in Powers
    BY SMT, <1>1, <1>5, Size DEF Powers
  <2> QED BY <1>1, <1>3, <1>4, <1>5, <2>1 DEF Coefficient, r
<1>6. CASE ~(j < Half)
  <2> DEFINE h == j - Half
             k == j - m
  <2>1. h \in Powers /\ k \in Int /\ h - m = k - Half
    BY SMT, <1>1, <1>6, Size DEF Powers
  <2>2. Coefficient(r, i) = -r[h]
    BY <1>1, <1>6 DEF Coefficient
  <2> HIDE DEF h, k
  <2>3. r[h] = Coefficient(a, k - Half)
    BY <1>3, <2>1
  <2>4. r[h] = -Coefficient(a, k) /\ Coefficient(a, k) \in Int
    BY <2>1, <2>3, CoefficientHalfTurn, CoefficientType
  <2>5. Coefficient(r, i) = Coefficient(a, k)
    BY <2>2, <2>4
  <2> QED BY <1>4, <2>5 DEF k, r
<1> QED BY <1>5, <1>6

LEMMA RotatedTwice ==
    ASSUME NEW a \in Ring, NEW m \in Int, NEW n \in Int
    PROVE  Rotated(Rotated(a, m), n) = Rotated(a, m + n)
<1>1. ASSUME NEW c \in Powers
      PROVE  Coefficient(Rotated(a, m), c - n) = Coefficient(a, c - (m + n))
  <2> DEFINE i == c - n
  <2>1. i \in Int /\ i - m = c - (m + n)
    BY SMT, Size DEF Powers
  <2> HIDE DEF i
  <2>2. Coefficient(Rotated(a, m), i) = Coefficient(a, i - m)
    BY <2>1, RotatedAt
  <2> QED BY <2>1, <2>2 DEF i
<1> DEFINE b == Rotated(a, m)
<1>2. \A c \in Powers : Coefficient(b, c - n) = Coefficient(a, c - (m + n))
  BY <1>1
<1> HIDE DEF b
<1>3. Rotated(b, n) = Rotated(a, m + n)
  BY <1>2 DEF Rotated
<1> QED BY <1>3 DEF b

LEMMA RotatedPlus ==
    ASSUME NEW a \in Ring, NEW b \in Ring, NEW m \in Int
    PROVE  Rotated(RingPlus(a, b), m) = RingPlus(Rotated(a, m), Rotated(b, m))
<1>1. ASSUME NEW c \in Powers
      PROVE  Coefficient(RingPlus(a, b), c - m) = Coefficient(a, c - m) + Coefficient(b, c - m)
  <2>1. c - m \in Int
    BY SMT, Size DEF Powers
  <2> QED BY <2>1, CoefficientPlus
<1> DEFINE d == RingPlus(a, b)
<1>2. \A c \in Powers : Coefficient(d, c - m) = Coefficient(a, c - m) + Coefficient(b, c - m)
  BY <1>1
<1> HIDE DEF d
<1>3. Rotated(d, m) = [c \in Powers |-> Coefficient(a, c - m) + Coefficient(b, c - m)]
  BY <1>2 DEF Rotated
<1>4. RingPlus(Rotated(a, m), Rotated(b, m))
        = [c \in Powers |-> Coefficient(a, c - m) + Coefficient(b, c - m)]
  BY DEF RingPlus, Rotated
<1> QED BY <1>3, <1>4 DEF d

\* Whole turns change nothing, half a turn the sign.
LEMMA RotatedTurns ==
    ASSUME NEW a \in Ring, NEW m \in Int
    PROVE  /\ \A q \in Int : Rotated(a, m + BUFFER_SIZE * q) = Rotated(a, m)
           /\ \A t \in Ring : RingMinus(t, Rotated(a, m)) = RingPlus(t, Rotated(a, m - Half))
           /\ Rotated(a, 0) = a
<1>1. ASSUME NEW q \in Int
      PROVE  Rotated(a, m + BUFFER_SIZE * q) = Rotated(a, m)
  <2> DEFINE n == m + BUFFER_SIZE * q
  <2>1. ASSUME NEW c \in Powers
        PROVE  Coefficient(a, c - n) = Coefficient(a, c - m)
    <3> DEFINE i == c - m
               p == -q
    <3>1. i \in Int /\ p \in Int /\ c - n = i + BUFFER_SIZE * p
      BY SMT, Size DEF Powers
    <3> HIDE DEF i, p
    <3>2. Coefficient(a, i + BUFFER_SIZE * p) = Coefficient(a, i)
      BY <3>1, CoefficientTurn
    <3>3. Coefficient(a, c - n) = Coefficient(a, i)
      BY <3>1, <3>2
    <3> QED BY <3>3 DEF i
  <2> HIDE DEF n
  <2>2. Rotated(a, n) = Rotated(a, m)
    BY <2>1 DEF Rotated
  <2> QED BY <2>2 DEF n
<1>2. ASSUME NEW t \in Ring
      PROVE  RingMinus(t, Rotated(a, m)) = RingPlus(t, Rotated(a, m - Half))
  <2> DEFINE n == m - Half
  <2>1. ASSUME NEW c \in Powers
        PROVE  t[c] - Coefficient(a, c - m) = t[c] + Coefficient(a, c - n)
    <3> DEFINE i == c - m
    <3>1. i \in Int /\ c - n = i + Half
      BY SMT, Size DEF Powers
    <3> HIDE DEF i
    <3>2. Coefficient(a, i + Half) = -Coefficient(a, i) /\ Coefficient(a, i) \in Int
      BY <3>1, CoefficientHalfTurn, CoefficientType
    <3>3. t[c] \in Int
      BY DEF Ring
    <3>4. t[c] - Coefficient(a, i) = t[c] + Coefficient(a, c - n)
      BY <3>1, <3>2, <3>3
    <3> QED BY <3>4 DEF i
  <2> HIDE DEF n
  <2>2. RingMinus(t, Rotated(a, m)) = RingPlus(t, Rotated(a, n))
    BY <2>1 DEF RingMinus, RingPlus, Rotated
  <2> QED BY <2>2 DEF n
<1>3. Rotated(a, 0) = a
  <2>1. \A c \in Powers : c \in Int /\ c - 0 = c
    BY SMT, Size DEF Powers
  <2>2. \A c \in Powers : Rotated(a, 0)[c] = a[c]
    BY <2>1, CoefficientOf DEF Rotated
  <2>3. Rotated(a, 0) \in Ring
    BY RingTypes
  <2> QED BY <2>2, <2>3, RingEqual
<1> QED BY <1>1, <1>2, <1>3
-----------------------------------------------------------------------------
(* Sums of n polynomials, one at a time.                                      *)
LEMMA LeastExists ==
    ASSUME NEW T \in SUBSET Nat, T # {}
    PROVE  \E x \in T : \A y \in T : x <= y
<1>1. PICK x \in T : \A y \in T : ~(<<y, x>> \in OpToRel(<, Nat))
  BY WFMin, NatLessThanWellFounded, Zenon
<1>2. \A y \in T : ~(y < x)
  BY <1>1 DEF OpToRel
<1> QED BY <1>2

\* Induction, over a set of numbers.
LEMMA SetInduction ==
    ASSUME NEW P \in SUBSET Nat, 0 \in P, \A n \in P : n + 1 \in P
    PROVE  P = Nat
<1> DEFINE T == Nat \ P
<1> SUFFICES ASSUME T # {} PROVE FALSE
  OBVIOUS
<1>1. PICK n \in T : \A m \in T : n <= m
  BY LeastExists
<1>2. n \in Nat /\ n \notin P /\ n # 0
  OBVIOUS
<1>3. n - 1 \in Nat /\ n - 1 < n /\ (n - 1) + 1 = n
  BY <1>2
<1>4. n - 1 \in P
  BY <1>1, <1>3
<1> QED BY <1>2, <1>3, <1>4

Summands == [Nat -> Ring]

PartialSums(t, n) ==
    {S \in [0 .. n -> Ring] : /\ S[0] = Scalar(0)
                              /\ \A j \in 0 .. n - 1 : S[j + 1] = RingPlus(S[j], t[j])}

Sum(t, n) == (CHOOSE S : S \in PartialSums(t, n))[n]

LEMMA SumsExist ==
    ASSUME NEW t \in Summands, NEW n \in Nat
    PROVE  PartialSums(t, n) # {}
<1> DEFINE P == {m \in Nat : PartialSums(t, m) # {}}
<1>1. 0 \in P
  <2> DEFINE S == [j \in 0 .. 0 |-> Scalar(0)]
  <2>1. S \in PartialSums(t, 0)
    BY RingTypes DEF PartialSums
  <2> QED BY <2>1
<1>2. ASSUME NEW m \in P PROVE m + 1 \in P
  <2>1. PICK S : S \in PartialSums(t, m)
    OBVIOUS
  <2>2. S \in [0 .. m -> Ring] /\ S[0] = Scalar(0) /\ t[m] \in Ring
    BY <2>1 DEF PartialSums, Summands
  <2> DEFINE R == [j \in 0 .. m + 1 |-> IF j = m + 1 THEN RingPlus(S[m], t[m]) ELSE S[j]]
  <2>3. R \in [0 .. m + 1 -> Ring]
    <3>1. RingPlus(S[m], t[m]) \in Ring
      BY <2>2, RingTypes
    <3> QED BY <2>2, <3>1
  <2>4. R[0] = Scalar(0)
    BY <2>2
  <2>5. ASSUME NEW j \in 0 .. (m + 1) - 1 PROVE R[j + 1] = RingPlus(R[j], t[j])
    <3>1. j \in 0 .. m /\ R[j] = S[j]
      OBVIOUS
    <3>2. CASE j = m
      BY <3>1, <3>2
    <3>3. CASE j # m
      <4>1. j \in 0 .. m - 1 /\ R[j + 1] = S[j + 1]
        BY <3>1, <3>3
      <4>2. S[j + 1] = RingPlus(S[j], t[j])
        BY <2>1, <4>1 DEF PartialSums
      <4> QED BY <3>1, <4>1, <4>2
    <3> QED BY <3>2, <3>3
  <2>6. R \in PartialSums(t, m + 1)
    <3> HIDE DEF R
    <3> QED BY <2>3, <2>4, <2>5 DEF PartialSums
  <2> QED BY <2>6
<1>3. P = Nat
  <2> HIDE DEF P
  <2>1. P \in SUBSET Nat
    BY DEF P
  <2> QED BY <1>1, <1>2, <2>1, SetInduction
<1> QED BY <1>3

\* The partial sums are the same, of however many summands.
LEMMA SumsAgree ==
    ASSUME NEW t \in Summands, NEW n \in Nat, NEW m \in Nat,
           NEW S \in PartialSums(t, n), NEW R \in PartialSums(t, m)
    PROVE  \A j \in Nat : j <= n /\ j <= m => S[j] = R[j]
<1> DEFINE P == {j \in Nat : j <= n /\ j <= m => S[j] = R[j]}
<1>1. 0 \in P
  BY DEF PartialSums
<1>2. ASSUME NEW j \in P PROVE j + 1 \in P
  <2>1. CASE j + 1 <= n /\ j + 1 <= m
    <3>1. j \in 0 .. n - 1 /\ j \in 0 .. m - 1 /\ S[j] = R[j]
      BY <2>1
    <3> QED BY <3>1 DEF PartialSums
  <2> QED BY <2>1
<1>3. P = Nat
  <2> HIDE DEF P
  <2>1. P \in SUBSET Nat
    BY DEF P
  <2> QED BY <1>1, <1>2, <2>1, SetInduction
<1> QED BY <1>3

LEMMA SumFacts ==
    ASSUME NEW t \in Summands, NEW n \in Nat
    PROVE  /\ Sum(t, n) \in Ring
           /\ Sum(t, 0) = Scalar(0)
           /\ Sum(t, n + 1) = RingPlus(Sum(t, n), t[n])
<1> DEFINE S(m) == CHOOSE S : S \in PartialSums(t, m)
<1>1. \A m \in Nat : S(m) \in PartialSums(t, m) /\ Sum(t, m) = S(m)[m]
  BY SumsExist DEF Sum
<1> HIDE DEF S
<1>2. \A m \in Nat : Sum(t, m) \in Ring
  BY <1>1 DEF PartialSums
<1>3. Sum(t, 0) = Scalar(0)
  BY <1>1 DEF PartialSums
<1>4. Sum(t, n + 1) = RingPlus(S(n + 1)[n], t[n])
  <2>1. S(n + 1) \in PartialSums(t, n + 1) /\ Sum(t, n + 1) = S(n + 1)[n + 1]
    BY <1>1
  <2> QED BY <2>1 DEF PartialSums
<1>5. S(n + 1)[n] = S(n)[n]
  <2> DEFINE m == n + 1
  <2>1. m \in Nat /\ n <= m /\ n <= n
    OBVIOUS
  <2>2. S(m) \in PartialSums(t, m) /\ S(n) \in PartialSums(t, n)
    BY <1>1
  <2> HIDE DEF m
  <2>3. S(m)[n] = S(n)[n]
    BY <2>1, <2>2, SumsAgree
  <2> QED BY <2>3 DEF m
<1> QED BY <1>1, <1>2, <1>3, <1>4, <1>5

LEMMA SumRotated ==
    ASSUME NEW t \in Summands, NEW m \in Int, NEW n \in Nat
    PROVE  Sum([j \in Nat |-> Rotated(t[j], m)], n) = Rotated(Sum(t, n), m)
<1> DEFINE u == [j \in Nat |-> Rotated(t[j], m)]
           P == {i \in Nat : Sum(u, i) = Rotated(Sum(t, i), m)}
<1>0. u \in Summands /\ \A j \in Nat : u[j] = Rotated(t[j], m) /\ t[j] \in Ring
  BY RingTypes DEF Summands
<1> HIDE DEF u
<1>1. 0 \in P
  <2>1. Rotated(Scalar(0), m) = Scalar(0)
    <3>1. ASSUME NEW c \in Powers PROVE Coefficient(Scalar(0), c - m) = 0
      <4> DEFINE i == (c - m) % BUFFER_SIZE
      <4>1. c - m \in Int
        BY SMT, Size DEF Powers
      <4>2. i \in Int /\ 0 <= i /\ i < BUFFER_SIZE /\ i = (c - m) % BUFFER_SIZE
        BY <4>1, Columnwise
      <4> HIDE DEF i
      <4>3. i < Half => i \in Powers
        BY SMT, <4>2, Size DEF Powers
      <4>4. ~(i < Half) => i - Half \in Powers
        BY SMT, <4>2, Size DEF Powers
      <4>5. \A p \in Powers : Scalar(0)[p] = 0
        BY DEF Scalar
      <4> DEFINE z == Scalar(0)
      <4>6. \A p \in Powers : z[p] = 0 /\ -z[p] = 0
        BY <4>5
      <4> HIDE DEF z
      <4>7. Coefficient(z, c - m) = IF i < Half THEN z[i] ELSE -z[i - Half]
        BY <4>2 DEF Coefficient
      <4>8. Coefficient(z, c - m) = 0
        BY <4>3, <4>4, <4>6, <4>7
      <4> QED BY <4>8 DEF z
    <3> QED BY <3>1 DEF Rotated, Scalar
  <2>2. Sum(u, 0) = Scalar(0) /\ Sum(t, 0) = Scalar(0)
    BY <1>0, SumFacts
  <2> QED BY <2>1, <2>2
<1>2. ASSUME NEW i \in P PROVE i + 1 \in P
  <2>1. /\ Sum(u, i + 1) = RingPlus(Sum(u, i), u[i])
        /\ Sum(t, i + 1) = RingPlus(Sum(t, i), t[i])
        /\ Sum(t, i) \in Ring /\ t[i] \in Ring
    BY <1>0, SumFacts
  <2>2. Rotated(RingPlus(Sum(t, i), t[i]), m) = RingPlus(Rotated(Sum(t, i), m), Rotated(t[i], m))
    BY <2>1, RotatedPlus
  <2>3. Sum(u, i) = Rotated(Sum(t, i), m) /\ u[i] = Rotated(t[i], m)
    BY <1>0
  <2> QED BY <2>1, <2>2, <2>3
<1>3. P = Nat
  <2> HIDE DEF P
  <2>1. P \in SUBSET Nat
    BY DEF P
  <2> QED BY <1>1, <1>2, <2>1, SetInduction
<1>4. Sum(u, n) = Rotated(Sum(t, n), m)
  BY <1>3
<1> QED BY <1>4 DEF u

\* The summands at even and at odd places.
LEMMA SumSplit ==
    ASSUME NEW t \in Summands, NEW n \in Nat
    PROVE  Sum(t, n + n) = RingPlus(Sum([j \in Nat |-> t[j + j]], n),
                                    Sum([j \in Nat |-> t[(j + j) + 1]], n))
<1> DEFINE u == [j \in Nat |-> t[j + j]]
           v == [j \in Nat |-> t[(j + j) + 1]]
           P == {i \in Nat : Sum(t, i + i) = RingPlus(Sum(u, i), Sum(v, i))}
<1>0. /\ u \in Summands /\ v \in Summands
      /\ \A j \in Nat : u[j] = t[j + j] /\ v[j] = t[(j + j) + 1] /\ u[j] \in Ring /\ v[j] \in Ring
  BY DEF Summands
<1> HIDE DEF u, v
<1>1. 0 \in P
  <2>1. Sum(u, 0) = Scalar(0) /\ Sum(v, 0) = Scalar(0) /\ Sum(t, 0) = Scalar(0)
    BY <1>0, SumFacts
  <2>2. RingPlus(Scalar(0), Scalar(0)) = Scalar(0)
    BY RingTypes, PlusLaws
  <2> QED BY <2>1, <2>2
<1>2. ASSUME NEW i \in P PROVE i + 1 \in P
  <2> DEFINE m == i + i
  <2>1. m \in Nat /\ m + 1 \in Nat /\ (i + 1) + (i + 1) = (m + 1) + 1
    OBVIOUS
  <2>2. /\ Sum(t, m) = RingPlus(Sum(u, i), Sum(v, i))
        /\ u[i] = t[m] /\ v[i] = t[m + 1] /\ u[i] \in Ring /\ v[i] \in Ring
    BY <1>0
  <2> HIDE DEF m
  <2>3. Sum(t, m + 1) = RingPlus(Sum(t, m), t[m])
    BY <2>1, SumFacts
  <2>4. Sum(t, (m + 1) + 1) = RingPlus(Sum(t, m + 1), t[m + 1])
    BY <2>1, SumFacts
  <2>5. /\ Sum(u, i + 1) = RingPlus(Sum(u, i), u[i]) /\ Sum(u, i) \in Ring
        /\ Sum(v, i + 1) = RingPlus(Sum(v, i), v[i]) /\ Sum(v, i) \in Ring
    BY <1>0, SumFacts
  <2> DEFINE a == Sum(u, i)
             b == Sum(v, i)
             d == u[i]
             e == v[i]
  <2>6. a \in Ring /\ b \in Ring /\ d \in Ring /\ e \in Ring
    BY <2>2, <2>5
  <2>7. RingPlus(RingPlus(RingPlus(a, b), d), e) = RingPlus(RingPlus(a, d), RingPlus(b, e))
    <3> HIDE DEF a, b, d, e
    <3> QED BY <2>6, PlusSwap
  <2>8. Sum(t, (m + 1) + 1) = RingPlus(Sum(u, i + 1), Sum(v, i + 1))
    BY Zenon, <2>2, <2>3, <2>4, <2>5, <2>7
  <2> QED BY <2>1, <2>8
<1>3. P = Nat
  <2> HIDE DEF P
  <2>1. P \in SUBSET Nat
    BY DEF P
  <2> QED BY <1>1, <1>2, <2>1, SetInduction
<1>4. Sum(t, n + n) = RingPlus(Sum(u, n), Sum(v, n))
  BY <1>3
<1> QED BY <1>4 DEF u, v
-----------------------------------------------------------------------------
(* fft_slow is the sum of the samples, each turned back by its angle.         *)
Windows == [Columns -> Int]
Extended(x) == [i \in Nat |-> IF i \in Columns THEN x[i] ELSE 0]

\* Every s-th sample from off on, turned for the output k.
Turned(x, off, s, k) ==
    [j \in Nat |-> Rotated(Scalar(Extended(x)[off + s * j]), 0 - s * (j * k))]

LEMMA TurnedFacts ==
    ASSUME NEW x \in Windows, NEW off \in Nat, NEW s \in Nat, NEW k \in Nat
    PROVE  /\ Turned(x, off, s, k) \in Summands
           /\ \A i \in Nat : Scalar(Extended(x)[i]) \in Ring
<1>1. \A i \in Nat : Extended(x)[i] \in Int
  BY DEF Extended, Windows
<1>2. \A i \in Nat : Scalar(Extended(x)[i]) \in Ring
  BY <1>1, RingTypes
<1>3. ASSUME NEW j \in Nat
      PROVE  Rotated(Scalar(Extended(x)[off + s * j]), 0 - s * (j * k)) \in Ring
  <2>1. off + s * j \in Nat /\ 0 - s * (j * k) \in Int
    BY SMT
  <2> QED BY <1>2, <2>1, RingTypes
<1> QED BY <1>2, <1>3 DEF Turned, Summands

LEMMA SlowIsSum ==
    ASSUME NEW x \in Windows, NEW k \in Nat
    PROVE  fft_slow(x, k) = Sum(Turned(x, 0, 1, k), BUFFER_SIZE)
<1> DEFINE t == Turned(x, 0, 1, k)
           Z(X) == [n \in 0 .. BUFFER_SIZE |->
                      IF n = 0 THEN Scalar(0)
                               ELSE RingPlus(X[n - 1],
                                             Rotated(Scalar(x[n - 1]), -((n - 1) * k)))]
           W == CHOOSE X : X = Z(X)
<1>1. fft_slow(x, k) = W[BUFFER_SIZE]
  BY DEF fft_slow
<1>2. t \in Summands /\ BUFFER_SIZE \in Nat
  BY TurnedFacts, Size
<1>3. ASSUME NEW j \in 0 .. BUFFER_SIZE - 1
      PROVE  t[j] = Rotated(Scalar(x[j]), -(j * k))
  <2>1. j \in Nat /\ j \in Columns /\ 0 + 1 * j = j /\ 0 - 1 * (j * k) = -(j * k)
    BY SMT, Size DEF Columns
  <2>2. t[j] = Rotated(Scalar(Extended(x)[0 + 1 * j]), 0 - 1 * (j * k))
    BY <2>1 DEF Turned
  <2>3. Extended(x)[j] = x[j]
    BY <2>1 DEF Extended
  <2> QED BY <2>1, <2>2, <2>3
<1> HIDE DEF t
<1>4. PICK S : S \in PartialSums(t, BUFFER_SIZE)
  BY <1>2, SumsExist
<1>5. S = Z(S)
  <2>1. S \in [0 .. BUFFER_SIZE -> Ring] /\ S[0] = Scalar(0)
    BY <1>4 DEF PartialSums
  <2>2. ASSUME NEW n \in 0 .. BUFFER_SIZE, n # 0
        PROVE  S[n] = RingPlus(S[n - 1], Rotated(Scalar(x[n - 1]), -((n - 1) * k)))
    <3> DEFINE j == n - 1
    <3>1. j \in 0 .. BUFFER_SIZE - 1 /\ j + 1 = n
      BY SMT, <1>2, <2>2
    <3> HIDE DEF j
    <3>2. S[j + 1] = RingPlus(S[j], t[j])
      BY <1>4, <3>1 DEF PartialSums
    <3>3. t[j] = Rotated(Scalar(x[j]), -(j * k))
      BY <1>3, <3>1
    <3>4. S[n] = RingPlus(S[j], Rotated(Scalar(x[j]), -(j * k)))
      BY <3>1, <3>2, <3>3
    <3> QED BY <3>4 DEF j
  <2>3. \A n \in 0 .. BUFFER_SIZE : S[n] = Z(S)[n]
    BY <2>1, <2>2
  <2> QED BY <2>1, <2>3
<1>6. W = Z(W)
  <2> HIDE DEF Z
  <2> QED BY <1>5
<1> HIDE DEF W
<1> DEFINE P == {n \in Nat : n <= BUFFER_SIZE => W[n] = Sum(t, n)}
<1>7. 0 \in P
  <2>1. W[0] = Scalar(0)
    BY <1>2, <1>6
  <2> QED BY <1>2, <2>1, SumFacts
<1>8. ASSUME NEW j \in P PROVE j + 1 \in P
  <2>1. CASE j + 1 <= BUFFER_SIZE
    <3> DEFINE n == j + 1
    <3>1. n \in 0 .. BUFFER_SIZE /\ n # 0 /\ n - 1 = j /\ j \in 0 .. BUFFER_SIZE - 1
      BY SMT, <1>2, <2>1
    <3> HIDE DEF n
    <3>2. W[n] = RingPlus(W[n - 1], Rotated(Scalar(x[n - 1]), -((n - 1) * k)))
      BY <1>6, <3>1
    <3>3. W[n] = RingPlus(W[j], t[j])
      BY <1>3, <3>1, <3>2
    <3>4. W[j] = Sum(t, j)
      BY <1>2, <2>1
    <3>5. Sum(t, j + 1) = RingPlus(Sum(t, j), t[j])
      BY <1>2, SumFacts
    <3>6. W[j + 1] = Sum(t, j + 1)
      BY <3>3, <3>4, <3>5 DEF n
    <3> QED BY <3>6
  <2> QED BY <2>1
<1>9. P = Nat
  <2> HIDE DEF P
  <2>1. P \in SUBSET Nat
    BY DEF P
  <2> QED BY <1>7, <1>8, <2>1, SetInduction
<1>10. W[BUFFER_SIZE] = Sum(t, BUFFER_SIZE)
  BY <1>2, <1>9
<1> QED BY <1>1, <1>10 DEF t
-----------------------------------------------------------------------------
(* fft_radix2 is the same sum, step by step.                                  *)
LEMMA Halved ==
    ASSUME NEW N \in Nat, N >= 2
    PROVE  N \div 2 \in Nat /\ N \div 2 >= 1 /\ N \div 2 < N
BY SMT

SingleSamples(x) == [off \in Columns |-> [k \in {0} |-> Scalar(x[off])]]

LEMMA StepsExist ==
    ASSUME NEW x
    PROVE  \A N \in 1 .. BUFFER_SIZE :
              fft_radix2(x)[N] = IF N = 1 THEN SingleSamples(x)
                                          ELSE Combined(fft_radix2(x)[N \div 2], N)
<1> DEFINE Z(g, n) == [N \in 1 .. n |-> IF N = 1 THEN SingleSamples(x)
                                                ELSE Combined(g[N \div 2], N)]
           P == {n \in Nat : \E g : g = Z(g, n + 1)}
<1>1. 0 \in P
  <2> DEFINE g == [N \in 1 .. 1 |-> SingleSamples(x)]
  <2>1. g = Z(g, 0 + 1)
    OBVIOUS
  <2> HIDE DEF g, Z
  <2> QED BY <2>1
<1>2. ASSUME NEW n \in P PROVE n + 1 \in P
  <2>1. PICK g : g = Z(g, n + 1)
    OBVIOUS
  <2> DEFINE m == n + 2
             h == [N \in 1 .. m |-> IF N = m THEN Combined(g[m \div 2], m) ELSE g[N]]
  <2>2. m \in Nat /\ m >= 2 /\ (n + 1) + 1 = m
    OBVIOUS
  <2>3. ASSUME NEW N \in 1 .. m
        PROVE  h[N] = IF N = 1 THEN SingleSamples(x) ELSE Combined(h[N \div 2], N)
    <3> DEFINE H == N \div 2
    <3>1. N # 1 => H \in 1 .. m /\ H # m
      BY SMT, <2>2, Halved
    <3>2. N # 1 => h[H] = g[H]
      BY <3>1
    <3>3. CASE N = m
      <4>1. h[N] = Combined(g[H], N) /\ N # 1
        BY <2>2, <3>3
      <4> HIDE DEF h
      <4> QED BY <3>2, <4>1
    <3>4. CASE N # m
      <4>1. N \in 1 .. n + 1
        BY <2>2, <3>4
      <4>2. g[N] = IF N = 1 THEN SingleSamples(x) ELSE Combined(g[H], N)
        BY <2>1, <4>1
      <4>3. h[N] = g[N]
        BY <3>4
      <4> HIDE DEF h
      <4> QED BY <3>2, <4>2, <4>3
    <3> QED BY <3>3, <3>4
  <2>4. h = Z(h, m)
    <3>1. h = [N \in 1 .. m |-> h[N]]
      OBVIOUS
    <3> HIDE DEF h, m
    <3> QED BY <2>3, <3>1
  <2>5. \E f : f = Z(f, (n + 1) + 1)
    <3> HIDE DEF h, Z, m
    <3> QED BY <2>2, <2>4
  <2> QED BY <2>5
<1>3. P = Nat
  <2> HIDE DEF P
  <2>1. P \in SUBSET Nat
    BY DEF P
  <2> QED BY <1>1, <1>2, <2>1, SetInduction
<1>4. \E g : g = Z(g, BUFFER_SIZE)
  <2>1. BUFFER_SIZE - 1 \in Nat /\ (BUFFER_SIZE - 1) + 1 = BUFFER_SIZE
    BY Size
  <2> HIDE DEF Z
  <2> QED BY <1>3, <2>1
<1> DEFINE W == CHOOSE g : g = Z(g, BUFFER_SIZE)
<1>5. fft_radix2(x) = W
  BY DEF fft_radix2, SingleSamples
<1>6. W = Z(W, BUFFER_SIZE)
  <2> HIDE DEF Z
  <2> QED BY <1>4
<1> HIDE DEF W
<1> QED BY <1>5, <1>6

Transformed(x, N, s) ==
    \A off \in 0 .. s - 1, k \in 0 .. N - 1 :
        fft_radix2(x)[N][off][k] = Sum(Turned(x, off, s, k), N)

LEMMA OneSample ==
    ASSUME NEW x \in Windows
    PROVE  Transformed(x, 1, BUFFER_SIZE)
<1>1. ASSUME NEW off \in 0 .. BUFFER_SIZE - 1
      PROVE  fft_radix2(x)[1][off][0] = Sum(Turned(x, off, BUFFER_SIZE, 0), 1)
  <2>1. 1 \in 1 .. BUFFER_SIZE /\ off \in Columns /\ off \in Nat /\ BUFFER_SIZE \in Nat
    BY Size DEF Columns
  <2>2. fft_radix2(x)[1][off][0] = Scalar(x[off])
    <3>1. fft_radix2(x)[1] = SingleSamples(x)
      BY <2>1, StepsExist
    <3>2. SingleSamples(x)[off][0] = Scalar(x[off])
      BY <2>1 DEF SingleSamples
    <3> QED BY <3>1, <3>2
  <2> DEFINE t == Turned(x, off, BUFFER_SIZE, 0)
  <2>3. t \in Summands /\ Scalar(Extended(x)[off]) \in Ring
    BY <2>1, TurnedFacts
  <2>4. t[0] = Scalar(x[off])
    <3>1. off + BUFFER_SIZE * 0 = off /\ 0 - BUFFER_SIZE * (0 * 0) = 0
      BY SMT, Size
    <3>2. t[0] = Rotated(Scalar(Extended(x)[off]), 0)
      BY <3>1 DEF Turned
    <3>3. Extended(x)[off] = x[off]
      BY <2>1 DEF Extended
    <3> QED BY <2>3, <3>2, <3>3, RotatedTurns
  <2> HIDE DEF t
  <2>5. Sum(t, 0 + 1) = RingPlus(Sum(t, 0), t[0]) /\ Sum(t, 0) = Scalar(0)
    BY <2>3, SumFacts
  <2>6. t[0] \in Ring /\ Scalar(0) \in Ring
    BY <2>3, RingTypes DEF Summands
  <2>7. RingPlus(Scalar(0), t[0]) = t[0]
    BY <2>6, PlusLaws
  <2>8. Sum(t, 1) = Scalar(x[off])
    BY <2>4, <2>5, <2>7
  <2> QED BY <2>2, <2>8 DEF t
<1> QED BY <1>1 DEF Transformed

\* The factor of the odd outputs, in both halves of the outputs.
LEMMA ButterflyTurns ==
    ASSUME NEW t \in Ring, NEW u \in Ring, NEW M \in Nat \ {0}, NEW s \in Nat \ {0},
           BUFFER_SIZE = (M + M) * s, NEW k \in 0 .. (M + M) - 1
    PROVE  Butterfly(t, u, k, M + M) = RingPlus(t, Rotated(u, 0 - s * k))
<1> DEFINE N == M + M
<1>1. N \div 2 = M
  <2>1. 2 \in Nat \ {0} /\ M \in Int /\ N \in Int /\ 0 \in Int /\ 0 < 2 /\ N = 2 * M + 0
    OBVIOUS
  <2> QED BY <2>1, DivisionUnique
<1>2. BUFFER_SIZE \div N = s
  <2>1. N \in Nat \ {0} /\ s \in Int /\ BUFFER_SIZE \in Int /\ BUFFER_SIZE = N * s + 0 /\ 0 < N
    BY SMT
  <2> HIDE DEF N
  <2> QED BY <2>1, DivisionUnique
<1>3. Half = M * s
  <2>1. BUFFER_SIZE = M * s + M * s /\ M * s \in Int
    BY SMT
  <2> DEFINE h == M * s
  <2>2. h \in Int /\ BUFFER_SIZE = h + h
    BY <2>1
  <2> HIDE DEF h
  <2>3. Half = h
    BY SMT, <2>2, Size
  <2> QED BY <2>3 DEF h
<1> HIDE DEF N
<1>4. CASE k < M
  <2>1. -(k * s) = 0 - s * k
    BY SMT
  <2> QED BY <1>1, <1>2, <1>4, <2>1 DEF Butterfly, N
<1>5. CASE ~(k < M)
  <2> DEFINE m == -((k - M) * s)
  <2>1. m \in Int /\ m - Half = 0 - s * k
    BY SMT, <1>3
  <2>2. Butterfly(t, u, k, N) = RingMinus(t, Rotated(u, m))
    BY <1>1, <1>2, <1>5 DEF Butterfly
  <2> HIDE DEF m
  <2>3. RingMinus(t, Rotated(u, m)) = RingPlus(t, Rotated(u, m - Half))
    BY <2>1, RotatedTurns
  <2> QED BY <2>1, <2>2, <2>3 DEF N
<1> QED BY <1>4, <1>5

(* The turns of the even and of the odd summands, as multiples of a full turn. *)
LEMMA TurnsOfHalves ==
    ASSUME NEW M \in Int, NEW s \in Int, NEW j \in Int, NEW p \in Int, NEW r \in Int,
           NEW k \in Int, k = M * p + r, BUFFER_SIZE = (M + M) * s
    PROVE  /\ 0 - s * ((j + j) * k) = (0 - (s + s) * (j * r)) + BUFFER_SIZE * (0 - j * p)
           /\ 0 - s * (((j + j) + 1) * k)
                 = ((0 - (s + s) * (j * r)) + (0 - s * k)) + BUFFER_SIZE * (0 - j * p)
<1> DEFINE u == s * (j * (M * p))
           v == s * (j * r)
           w == s * (j * k)
<1>1. w = u + v
  BY SMT
<1>2. BUFFER_SIZE * (0 - j * p) = 0 - (u + u)
  BY SMT
<1>3. (s + s) * (j * r) = v + v
  BY SMT
<1>4. s * ((j + j) * k) = w + w
  BY SMT
<1>5. s * (((j + j) + 1) * k) = (w + w) + s * k
  BY SMT
<1>6. u \in Int /\ v \in Int /\ w \in Int /\ s * k \in Int
  BY SMT
<1> DEFINE b == BUFFER_SIZE * (0 - j * p)
           c == (s + s) * (j * r)
           d == s * ((j + j) * k)
           e == s * (((j + j) + 1) * k)
           n == s * k
<1>7. /\ u \in Int /\ v \in Int /\ w \in Int /\ n \in Int /\ w = u + v
      /\ b = 0 - (u + u) /\ c = v + v /\ d = w + w /\ e = (w + w) + n
  BY <1>1, <1>2, <1>3, <1>4, <1>5, <1>6
<1> HIDE DEF u, v, w, b, c, d, e, n
<1>8. 0 - d = (0 - c) + b /\ 0 - e = ((0 - c) + (0 - n)) + b
  BY <1>7
<1> QED BY <1>8 DEF b, c, d, e, n

LEMMA DoubledStep ==
    ASSUME NEW x \in Windows, NEW M \in Nat \ {0}, NEW s \in Nat \ {0},
           BUFFER_SIZE = (M + M) * s, Transformed(x, M, s + s)
    PROVE  Transformed(x, M + M, s)
<1> DEFINE N == M + M
<1>1. /\ N \in 2 .. BUFFER_SIZE /\ N \div 2 = M /\ BUFFER_SIZE \div N = s
  <2>1. 2 \in Nat \ {0} /\ M \in Int /\ N \in Int /\ 0 \in Int /\ 0 < 2 /\ N = 2 * M + 0
    OBVIOUS
  <2>2. N \div 2 = M
    BY <2>1, DivisionUnique
  <2>3. /\ N \in Nat \ {0} /\ N >= 2
        /\ s \in Int /\ BUFFER_SIZE \in Int /\ BUFFER_SIZE = N * s + 0 /\ 0 < N
    BY SMT
  <2> HIDE DEF N
  <2>4. BUFFER_SIZE \div N = s
    BY <2>3, DivisionUnique
  <2>5. N <= BUFFER_SIZE
    <3>1. N * s >= N
      BY SMT, <2>3
    <3> QED BY SMT, <2>3, <3>1
  <2> QED BY <2>2, <2>3, <2>4, <2>5
<1> DEFINE F == fft_radix2(x)
<1>2. F[N] = Combined(F[M], N)
  <2>1. N # 1 /\ N \in 1 .. BUFFER_SIZE
    BY <1>1
  <2> HIDE DEF N
  <2> QED BY <1>1, <2>1, StepsExist
<1>3. ASSUME NEW off \in 0 .. s - 1, NEW k \in 0 .. N - 1
      PROVE  F[N][off][k] = Sum(Turned(x, off, s, k), N)
  <2> DEFINE r == k % M
             p == k \div M
  <2>1. r \in 0 .. M - 1 /\ p \in Int /\ k = M * p + r /\ r \in Nat
    <3>0. k \in Int
      OBVIOUS
    <3>1. r \in Int /\ 0 <= r /\ r < M /\ p \in Int /\ r = k - M * p
      <4> HIDE DEF N
      <4> QED BY <3>0, Division
    <3> HIDE DEF r, p
    <3>2. k = M * p + r
      BY SMT, <3>1
    <3> QED BY <3>1, <3>2
  <2> HIDE DEF r, p
  <2> DEFINE A == Turned(x, off, s + s, r)
             B == Turned(x, off + s, s + s, r)
             T == Turned(x, off, s, k)
  <2>2. /\ off \in 0 .. (s + s) - 1 /\ off + s \in 0 .. (s + s) - 1
        /\ off \in Nat /\ off + s \in Nat /\ s + s \in Nat /\ k \in Nat
    OBVIOUS
  <2>3. A \in Summands /\ B \in Summands /\ T \in Summands
    BY <2>1, <2>2, TurnedFacts
  <2>4. F[M][off][r] = Sum(A, M) /\ F[M][off + s][r] = Sum(B, M)
    <3> DEFINE o == off + s
               d == s + s
    <3>1. o \in 0 .. d - 1 /\ off \in 0 .. d - 1 /\ r \in 0 .. M - 1
      BY <2>1, <2>2
    <3>2. \A i \in 0 .. d - 1, j \in 0 .. M - 1 : F[M][i][j] = Sum(Turned(x, i, d, j), M)
      BY DEF Transformed
    <3> HIDE DEF o, d, F
    <3>3. F[M][off][r] = Sum(Turned(x, off, d, r), M) /\ F[M][o][r] = Sum(Turned(x, o, d, r), M)
      BY <3>1, <3>2
    <3> QED BY <3>3 DEF o, d
  <2>5. F[N][off][k] = Butterfly(F[M][off][r], F[M][off + s][r], k, N)
    <3> DEFINE G == F[M]
    <3>1. F[N] = Combined(G, N)
      BY <1>2
    <3> HIDE DEF F, G, N, r
    <3>2. Combined(G, N)[off][k]
            = Butterfly(G[off][k % (N \div 2)], G[off + (BUFFER_SIZE \div N)][k % (N \div 2)], k, N)
      <4>1. off \in 0 .. (BUFFER_SIZE \div N) - 1 /\ k \in 0 .. N - 1
        BY <1>1
      <4> QED BY <4>1, Zenon DEF Combined
    <3>3. F[N][off][k] = Butterfly(G[off][k % M], G[off + s][k % M], k, N)
      BY <1>1, <3>1, <3>2, Zenon
    <3> QED BY <3>3 DEF r, G
  <2>6. Sum(A, M) \in Ring /\ Sum(B, M) \in Ring
    BY <2>3, SumFacts
  <2>7. F[N][off][k] = RingPlus(Sum(A, M), Rotated(Sum(B, M), 0 - s * k))
    <3> DEFINE a == Sum(A, M)
               b == Sum(B, M)
    <3>1. F[N][off][k] = Butterfly(a, b, k, N) /\ a \in Ring /\ b \in Ring
      BY <2>4, <2>5, <2>6
    <3> HIDE DEF a, b, A, B, F
    <3>2. Butterfly(a, b, k, M + M) = RingPlus(a, Rotated(b, 0 - s * k))
      BY <3>1, ButterflyTurns
    <3> QED BY <3>1, <3>2 DEF a, b
  <2>8. [j \in Nat |-> T[j + j]] = A
    <3>1. ASSUME NEW j \in Nat PROVE T[j + j] = A[j]
      <4> DEFINE w == Scalar(Extended(x)[off + (s + s) * j])
                 m == 0 - (s + s) * (j * r)
                 q == 0 - j * p
      <4>1. /\ off + s * (j + j) = off + (s + s) * j /\ off + (s + s) * j \in Nat
            /\ j + j \in Nat
        BY SMT
      <4>2. T[j + j] = Rotated(w, 0 - s * ((j + j) * k))
        BY <4>1 DEF Turned
      <4>3. A[j] = Rotated(w, m)
        BY DEF Turned
      <4>4. w \in Ring
        BY <2>2, <4>1, TurnedFacts
      <4>5. m \in Int /\ q \in Int /\ 0 - s * ((j + j) * k) = m + BUFFER_SIZE * q
        <5>1. 0 - s * ((j + j) * k) = m + BUFFER_SIZE * q
          BY <1>1, <2>1, <2>2, TurnsOfHalves
        <5>2. m \in Int /\ q \in Int
          BY SMT, <2>1
        <5> QED BY <5>1, <5>2
      <4> HIDE DEF w, m, q
      <4>6. Rotated(w, m + BUFFER_SIZE * q) = Rotated(w, m)
        BY <4>4, <4>5, RotatedTurns
      <4> QED BY <4>2, <4>3, <4>5, <4>6
    <3>2. A = [j \in Nat |-> A[j]]
      BY DEF Turned
    <3> HIDE DEF A, T
    <3> QED BY <3>1, <3>2
  <2>9. [j \in Nat |-> T[(j + j) + 1]] = [j \in Nat |-> Rotated(B[j], 0 - s * k)]
    <3>1. ASSUME NEW j \in Nat PROVE T[(j + j) + 1] = Rotated(B[j], 0 - s * k)
      <4> DEFINE w == Scalar(Extended(x)[(off + s) + (s + s) * j])
                 m == 0 - (s + s) * (j * r)
                 n == 0 - s * k
                 q == 0 - j * p
      <4>1. /\ off + s * ((j + j) + 1) = (off + s) + (s + s) * j
            /\ (off + s) + (s + s) * j \in Nat
            /\ (j + j) + 1 \in Nat
        BY SMT
      <4>2. T[(j + j) + 1] = Rotated(w, 0 - s * (((j + j) + 1) * k))
        BY <4>1 DEF Turned
      <4>3. B[j] = Rotated(w, m)
        BY DEF Turned
      <4>4. w \in Ring
        BY <2>2, <4>1, TurnedFacts
      <4>5. /\ m \in Int /\ n \in Int /\ q \in Int /\ m + n \in Int
            /\ 0 - s * (((j + j) + 1) * k) = (m + n) + BUFFER_SIZE * q
        <5>1. 0 - s * (((j + j) + 1) * k) = (m + n) + BUFFER_SIZE * q
          BY <1>1, <2>1, <2>2, TurnsOfHalves
        <5>2. m \in Int /\ n \in Int /\ q \in Int
          BY SMT, <2>1
        <5> HIDE DEF m, n, q
        <5>3. m + n \in Int
          BY <5>2
        <5> QED BY <5>1, <5>2, <5>3
      <4> HIDE DEF w, m, n, q
      <4>6. Rotated(w, (m + n) + BUFFER_SIZE * q) = Rotated(w, m + n)
        <5> DEFINE u == m + n
        <5>1. u \in Int /\ q \in Int /\ w \in Ring
          BY <4>4, <4>5
        <5> HIDE DEF u
        <5>2. Rotated(w, u + BUFFER_SIZE * q) = Rotated(w, u)
          BY <5>1, RotatedTurns
        <5> QED BY <5>2 DEF u
      <4>7. Rotated(Rotated(w, m), n) = Rotated(w, m + n)
        BY <4>4, <4>5, RotatedTwice
      <4>8. T[(j + j) + 1] = Rotated(B[j], n)
        BY <4>2, <4>3, <4>5, <4>6, <4>7
      <4> QED BY <4>8 DEF n
    <3> HIDE DEF B, T
    <3> QED BY <3>1
  <2>10. Sum(T, M + M) = RingPlus(Sum(A, M), Rotated(Sum(B, M), 0 - s * k))
    <3> DEFINE n == 0 - s * k
    <3>1. n \in Int
      BY SMT
    <3>2. Sum(T, M + M) = RingPlus(Sum(A, M), Sum([j \in Nat |-> Rotated(B[j], n)], M))
      <4> HIDE DEF A, B, T
      <4> QED BY <2>3, <2>8, <2>9, SumSplit
    <3> HIDE DEF n, A, B, T
    <3>3. Sum([j \in Nat |-> Rotated(B[j], n)], M) = Rotated(Sum(B, M), n)
      BY <2>3, <3>1, SumRotated
    <3> QED BY <3>2, <3>3 DEF n
  <2> QED BY <2>7, <2>10
<1> QED BY <1>3 DEF Transformed

LEMMA EveryStep ==
    ASSUME NEW x \in Windows
    PROVE  \A N, s \in Nat \ {0} : BUFFER_SIZE = N * s => Transformed(x, N, s)
<1> DEFINE T == {N \in Nat \ {0} : \E s \in Nat \ {0} : /\ BUFFER_SIZE = N * s
                                                       /\ ~Transformed(x, N, s)}
<1> SUFFICES ASSUME T # {} PROVE FALSE
  OBVIOUS
<1>1. PICK N \in T : \A m \in T : N <= m
  <2>1. T \in SUBSET Nat
    OBVIOUS
  <2> HIDE DEF T
  <2> QED BY <2>1, LeastExists
<1>2. PICK s \in Nat \ {0} : BUFFER_SIZE = N * s /\ ~Transformed(x, N, s)
  OBVIOUS
<1> HIDE DEF T
<1>3. CASE N = 1
  <2>1. s = BUFFER_SIZE
    BY SMT, <1>2, <1>3
  <2> QED BY <1>2, <1>3, <2>1, OneSample
<1>4. CASE N # 1
  <2>1. N \in Nat \ {0} /\ N >= 2 /\ BUFFER_SIZE \in Int /\ BUFFER_SIZE = N * s + 0 /\ s \in Int
        /\ 0 \in Int /\ 0 <= 0 /\ 0 < N
    BY <1>2, <1>4 DEF T
  <2>2. BUFFER_SIZE % N = 0
    BY <2>1, DivisionUnique
  <2>3. N <= BUFFER_SIZE
    <3>1. N * s >= N
      BY SMT, <1>2, <2>1
    <3> QED BY SMT, <2>1, <3>1
  <2>4. N % 2 = 0
    BY <2>1, <2>2, <2>3, BufferAssumption
  <2>5. PICK M \in Nat \ {0} : N = M + M
    <3> DEFINE M == N \div 2
               r == N % 2
    <3>1. r = 0 /\ M \in Int /\ r = N - 2 * M
      BY SMT, <2>1, <2>4
    <3> HIDE DEF M, r
    <3>2. M \in Nat \ {0} /\ N = M + M
      BY SMT, <2>1, <3>1
    <3> QED BY <3>2
  <2>6. BUFFER_SIZE = M * (s + s) /\ BUFFER_SIZE = (M + M) * s /\ s + s \in Nat \ {0}
    <3>1. s \in Int /\ M \in Int => M * (s + s) = (M + M) * s
      BY SMT
    <3> QED BY <1>2, <2>5, <3>1
  <2>7. Transformed(x, M, s + s)
    <3>1. ~(N <= M)
      BY <2>5
    <3>2. M \notin T
      BY <1>1, <3>1
    <3> QED BY <2>6, <3>2 DEF T
  <2>8. Transformed(x, M + M, s)
    BY <2>6, <2>7, DoubledStep
  <2> QED BY <1>2, <2>5, <2>8
<1> QED BY <1>3, <1>4

LEMMA FftIsSlow ==
    ASSUME NEW x \in Windows, NEW k \in Columns
    PROVE  fft(x)[k] = fft_slow(x, k)
<1>1. BUFFER_SIZE \in Nat \ {0} /\ BUFFER_SIZE = BUFFER_SIZE * 1 /\ k \in Nat
      /\ k \in 0 .. BUFFER_SIZE - 1 /\ 0 \in 0 .. 1 - 1
  BY SMT, Size DEF Columns
<1>2. Transformed(x, BUFFER_SIZE, 1)
  <2>1. \A N, s \in Nat \ {0} : BUFFER_SIZE = N * s => Transformed(x, N, s)
    BY EveryStep
  <2>2. 1 \in Nat \ {0}
    OBVIOUS
  <2> QED BY <1>1, <2>1, <2>2, Zenon
<1>3. fft_radix2(x)[BUFFER_SIZE][0][k] = Sum(Turned(x, 0, 1, k), BUFFER_SIZE)
  BY <1>1, <1>2 DEF Transformed
<1> QED BY <1>1, <1>3, SlowIsSum DEF fft
-----------------------------------------------------------------------------
(* The state: a phasor is one of a window.                                    *)

(* Whenever a phasor is known, it is the phasor of the window in the buffer   *)
(* (get_phasors of phasor.c).                                                 *)
THEOREM PhasorOfWindow == PhasorSpec => []PhasorInv
<1>1. PhasorInit => PhasorInv
  BY DEF PhasorInit, PhasorInv, Estimated
<1>2. PhasorInv /\ [PhasorNext]_phasorVars => PhasorInv'
  <2> SUFFICES ASSUME PhasorInv, [PhasorNext]_phasorVars PROVE PhasorInv'
    OBVIOUS
  <2>1. CASE get_phasors
    BY <2>1 DEF get_phasors, PhasorInv, Estimated
  <2>2. CASE NextWindow
    BY <2>2 DEF NextWindow, PhasorInv, Estimated
  <2>3. CASE UNCHANGED phasorVars
    BY <2>3 DEF phasorVars, PhasorInv, Estimated
  <2> QED BY <2>1, <2>2, <2>3 DEF PhasorNext
<1> QED BY <1>1, <1>2, PTL DEF PhasorSpec

LEMMA WindowType == Estimated /\ PhasorInv => buffer \in Windows
<1>1. -MaxSample .. MaxSample \subseteq Int
  BY MaxSampleAssumption
<1> QED BY <1>1 DEF PhasorInv, Windows

(* The recursive transform that compute_phasor uses is the discrete Fourier   *)
(* transform as fft_slow writes it down, for windows of every power of two.   *)
THEOREM TransformIsFourier == PhasorSpec => []FftIsDft
<1>1. PhasorInv => FftIsDft
  BY WindowType, FftIsSlow DEF FftIsDft
<1> QED BY <1>1, PhasorOfWindow, PTL
-----------------------------------------------------------------------------
(* The spectrum of a window of 8 samples.                                     *)
LEMMA Eight ==
    ASSUME BUFFER_SIZE = 8
    PROVE  Half = 4 /\ Powers = 0 .. 3 /\ Columns = 0 .. 7 /\ SearchedBins = 0 .. 3
<1>1. Half = 4
  BY SMT, Size
<1> QED BY <1>1 DEF Powers, Columns, SearchedBins, Half

LEMMA ModuloEight ==
    ASSUME NEW i \in 0 .. 24
    PROVE  i % 8 = IF i < 8 THEN i ELSE IF i < 16 THEN i - 8 ELSE IF i < 24 THEN i - 16 ELSE 0
<1> DEFINE q == IF i < 8 THEN 0 ELSE IF i < 16 THEN 1 ELSE IF i < 24 THEN 2 ELSE 3
           j == i - 8 * q
<1>1. /\ 8 \in Nat \ {0} /\ q \in Int /\ j \in Int /\ 0 <= j /\ j < 8 /\ i \in Int
      /\ i = 8 * q + j
  OBVIOUS
<1>2. j = IF i < 8 THEN i ELSE IF i < 16 THEN i - 8 ELSE IF i < 24 THEN i - 16 ELSE 0
  OBVIOUS
<1> HIDE DEF q, j
<1>3. i % 8 = j
  BY <1>1, DivisionUnique
<1> QED BY <1>2, <1>3

\* What a sample adds to a coefficient, i columns of a turn away from it.
Share(v, i) == IF i \in {0, 8, 16, 24} THEN v ELSE IF i \in {4, 12, 20} THEN 0 - v ELSE 0

LEMMA ScalarShare ==
    ASSUME BUFFER_SIZE = 8, NEW v \in Int, NEW i \in 0 .. 24
    PROVE  Coefficient(Scalar(v), i) = Share(v, i)
<1> DEFINE a == Scalar(v)
           j == i % 8
<1>1. \A c \in 0 .. 3 : a[c] = IF c = 0 THEN v ELSE 0
  BY Eight DEF Scalar
<1>2. Coefficient(a, i) = IF j < 4 THEN a[j] ELSE -a[j - 4]
  BY Eight DEF Coefficient
<1>3. j = IF i < 8 THEN i ELSE IF i < 16 THEN i - 8 ELSE IF i < 24 THEN i - 16 ELSE 0
  BY ModuloEight
<1> HIDE DEF a, j
<1>4. j \in 0 .. 7
  BY <1>3
<1>5. CASE j < 4
  <2>1. Coefficient(a, i) = IF j = 0 THEN v ELSE 0
    BY <1>1, <1>2, <1>4, <1>5
  <2> QED BY <1>3, <1>5, <2>1 DEF Share, a
<1>6. CASE ~(j < 4)
  <2> DEFINE h == j - 4
  <2>1. h \in 0 .. 3 /\ Coefficient(a, i) = -a[h]
    BY <1>2, <1>4, <1>6
  <2>2. h = 0 <=> j = 4
    BY <1>4
  <2> HIDE DEF h
  <2>3. a[h] = IF h = 0 THEN v ELSE 0
    BY <1>1, <2>1
  <2>4. Coefficient(a, i) = IF j = 4 THEN 0 - v ELSE 0
    BY <2>1, <2>2, <2>3
  <2> QED BY <1>3, <1>6, <2>4 DEF Share, a
<1> QED BY <1>5, <1>6

LEMMA CoefficientIsShares ==
    ASSUME BUFFER_SIZE = 8, NEW x \in Windows, NEW k \in 0 .. 3, NEW c \in 0 .. 3
    PROVE  /\ fft(x)[k] \in Ring
           /\ fft(x)[k][c] = Share(x[0], c) + Share(x[1], c + k) + Share(x[2], c + 2 * k)
                             + Share(x[3], c + 3 * k) + Share(x[4], c + 4 * k)
                             + Share(x[5], c + 5 * k) + Share(x[6], c + 6 * k)
                             + Share(x[7], c + 7 * k)
<1> DEFINE t == Turned(x, 0, 1, k)
           S(n) == Sum(t, n)
<1>1. k \in Columns /\ k \in Nat /\ c \in Powers
  BY Eight
<1>2. fft(x)[k] = S(8)
  BY <1>1, FftIsSlow, SlowIsSum
<1>3. t \in Summands
  BY <1>1, TurnedFacts
<1>4. ASSUME NEW j \in 0 .. 7
      PROVE  t[j][c] = Share(x[j], c + j * k) /\ Share(x[j], c + j * k) \in Int
  <2> DEFINE i == c + j * k
             m == 0 - 1 * (j * k)
  <2>1. i \in 0 .. 24 /\ c - m = i /\ m \in Int /\ j \in Nat /\ 0 + 1 * j = j
    <3>1. j * k \in 0 .. 21
      BY SMT
    <3> QED BY SMT, <3>1
  <2>2. t[j] = Rotated(Scalar(Extended(x)[0 + 1 * j]), m)
    BY <2>1 DEF Turned
  <2>3. Extended(x)[j] = x[j] /\ x[j] \in Int
    BY <2>1, Eight DEF Extended, Windows
  <2> HIDE DEF i, m, t
  <2>4. t[j][c] = Coefficient(Scalar(x[j]), i)
    BY <1>1, <2>1, <2>2, <2>3 DEF Rotated
  <2>5. Coefficient(Scalar(x[j]), i) = Share(x[j], i)
    BY <2>1, <2>3, ScalarShare
  <2>6. Share(x[j], i) \in Int
    BY <2>3 DEF Share
  <2> QED BY <2>4, <2>5, <2>6 DEF i
<1> HIDE DEF t
<1>5. /\ \A n \in Nat : S(n) \in Ring /\ S(n + 1) = RingPlus(S(n), t[n])
      /\ S(0) = Scalar(0)
  BY <1>3, SumFacts
<1>6. S(0)[c] = 0
  BY <1>1, <1>5 DEF Scalar
<1>7. \A n \in Nat : S(n + 1)[c] = S(n)[c] + t[n][c]
  BY <1>1, <1>5 DEF RingPlus
<1> HIDE DEF S
<1>8. /\ S(1)[c] = S(0)[c] + t[0][c] /\ S(2)[c] = S(1)[c] + t[1][c]
      /\ S(3)[c] = S(2)[c] + t[2][c] /\ S(4)[c] = S(3)[c] + t[3][c]
      /\ S(5)[c] = S(4)[c] + t[4][c] /\ S(6)[c] = S(5)[c] + t[5][c]
      /\ S(7)[c] = S(6)[c] + t[6][c] /\ S(8)[c] = S(7)[c] + t[7][c]
  <2>1. /\ 0 + 1 = 1 /\ 1 + 1 = 2 /\ 2 + 1 = 3 /\ 3 + 1 = 4 /\ 4 + 1 = 5 /\ 5 + 1 = 6
        /\ 6 + 1 = 7 /\ 7 + 1 = 8
    OBVIOUS
  <2> QED BY <1>7, <2>1
<1>9. /\ t[0][c] = Share(x[0], c + 0 * k) /\ t[1][c] = Share(x[1], c + 1 * k)
      /\ t[2][c] = Share(x[2], c + 2 * k) /\ t[3][c] = Share(x[3], c + 3 * k)
      /\ t[4][c] = Share(x[4], c + 4 * k) /\ t[5][c] = Share(x[5], c + 5 * k)
      /\ t[6][c] = Share(x[6], c + 6 * k) /\ t[7][c] = Share(x[7], c + 7 * k)
      /\ \A j \in 0 .. 7 : t[j][c] \in Int
  BY <1>4
<1>10. c + 0 * k = c /\ c + 1 * k = c + k
  OBVIOUS
<1> HIDE DEF Share
<1>11. S(8)[c] = t[0][c] + t[1][c] + t[2][c] + t[3][c] + t[4][c] + t[5][c] + t[6][c] + t[7][c]
  BY <1>6, <1>8, <1>9
<1>12. S(8) \in Ring
  BY <1>5 DEF S
<1> QED BY <1>2, <1>9, <1>10, <1>11, <1>12

LEMMA Spectrum ==
    ASSUME BUFFER_SIZE = 8, NEW x \in Windows
    PROVE  /\ \A k \in 0 .. 3 : fft(x)[k] \in [0 .. 3 -> Int]
           /\ \A n \in 0 .. 7 : x[n] \in Int
           /\ fft(x)[0][0] = x[0] + x[1] + x[2] + x[3] + x[4] + x[5] + x[6] + x[7]
           /\ fft(x)[0][1] = 0
           /\ fft(x)[0][2] = 0
           /\ fft(x)[0][3] = 0
           /\ fft(x)[1][0] = x[0] - x[4] /\ fft(x)[1][1] = x[7] - x[3]
           /\ fft(x)[1][2] = x[6] - x[2] /\ fft(x)[1][3] = x[5] - x[1]
           /\ fft(x)[2][0] = x[0] + x[4] - x[2] - x[6]
           /\ fft(x)[2][1] = 0
           /\ fft(x)[2][2] = x[3] + x[7] - x[1] - x[5]
           /\ fft(x)[2][3] = 0
           /\ fft(x)[3][0] = x[0] - x[4] /\ fft(x)[3][1] = x[5] - x[1]
           /\ fft(x)[3][2] = x[2] - x[6] /\ fft(x)[3][3] = x[7] - x[3]
<1>1. \A n \in 0 .. 7 : x[n] \in Int
  BY Eight DEF Windows
<1>2. \A k \in 0 .. 3 : fft(x)[k] \in [0 .. 3 -> Int]
  BY CoefficientIsShares, Eight DEF Ring
<1> DEFINE a(k, c) == Share(x[0], c) + Share(x[1], c + k) + Share(x[2], c + 2 * k)
                      + Share(x[3], c + 3 * k) + Share(x[4], c + 4 * k)
                      + Share(x[5], c + 5 * k) + Share(x[6], c + 6 * k) + Share(x[7], c + 7 * k)
<1>3. \A k, c \in 0 .. 3 : fft(x)[k][c] = a(k, c)
  BY CoefficientIsShares
<1>4. /\ a(0, 0) = x[0] + x[1] + x[2] + x[3] + x[4] + x[5] + x[6] + x[7]
      /\ a(0, 1) = 0
      /\ a(0, 2) = 0
      /\ a(0, 3) = 0
  BY SMT, <1>1 DEF Share
<1>5. /\ a(1, 0) = x[0] - x[4]
      /\ a(1, 1) = x[7] - x[3]
      /\ a(1, 2) = x[6] - x[2]
      /\ a(1, 3) = x[5] - x[1]
  BY SMT, <1>1 DEF Share
<1>6. /\ a(2, 0) = x[0] + x[4] - x[2] - x[6]
      /\ a(2, 1) = 0
      /\ a(2, 2) = x[3] + x[7] - x[1] - x[5]
      /\ a(2, 3) = 0
  BY SMT, <1>1 DEF Share
<1>7. /\ a(3, 0) = x[0] - x[4]
      /\ a(3, 1) = x[5] - x[1]
      /\ a(3, 2) = x[2] - x[6]
      /\ a(3, 3) = x[7] - x[3]
  BY SMT, <1>1 DEF Share
<1> HIDE DEF a
<1> QED BY <1>1, <1>2, <1>3, <1>4, <1>5, <1>6, <1>7
-----------------------------------------------------------------------------
(* The order of the squared magnitudes: Above(p, q) is p + q * sqrt(2) > 0.   *)
Above(p, q) == \/ p > 0 /\ (q >= 0 \/ p * p > 2 * q * q)
               \/ q > 0 /\ (p >= 0 \/ 2 * q * q > p * p)

LEMMA ProductsOrdered ==
    ASSUME NEW u \in Nat, NEW v \in Nat, NEW m \in Nat, NEW n \in Nat, u <= m, v <= n
    PROVE  u * v <= m * n
<1>1. u * v <= m * v
  BY SMT
<1>2. m * v <= m * n
  BY SMT
<1>3. u * v \in Nat /\ m * v \in Nat /\ m * n \in Nat
  BY SMT
<1> QED BY <1>1, <1>2, <1>3

LEMMA RootsOrdered ==
    ASSUME NEW m \in Nat, NEW n \in Nat, m * m <= n * n
    PROVE  m <= n
<1> SUFFICES ASSUME n < m PROVE FALSE
  OBVIOUS
<1>1. n * n <= n * m /\ n * m < m * m
  BY SMT
<1> QED BY SMT, <1>1

\* Two lengths below sqrt(2) times two others, and their sums; and above.
LEMMA SumsBelow ==
    ASSUME NEW a \in Nat, NEW b \in Nat, NEW c \in Nat, NEW d \in Nat,
           a * a <= 2 * (b * b), c * c <= 2 * (d * d)
    PROVE  /\ (a + c) * (a + c) <= 2 * ((b + d) * (b + d))
           /\ a * a < 2 * (b * b) => (a + c) * (a + c) < 2 * ((b + d) * (b + d))
<1> DEFINE m == a * c
           n == 2 * (b * d)
<1>1. a * a \in Nat /\ c * c \in Nat /\ 2 * (b * b) \in Nat /\ 2 * (d * d) \in Nat
  BY SMT
<1>2. (a * a) * (c * c) <= (2 * (b * b)) * (2 * (d * d))
  BY <1>1, ProductsOrdered
<1>3. m * m = (a * a) * (c * c) /\ n * n = (2 * (b * b)) * (2 * (d * d)) /\ m \in Nat /\ n \in Nat
  BY SMT
<1> HIDE DEF m, n
<1>4. m <= n
  BY <1>2, <1>3, RootsOrdered
<1>5. a * c <= 2 * (b * d)
  BY <1>4 DEF m, n
<1>6. /\ (a + c) * (a + c) = a * a + 2 * (a * c) + c * c
      /\ (b + d) * (b + d) = b * b + 2 * (b * d) + d * d
      /\ a * c \in Nat /\ b * d \in Nat /\ b * b \in Nat /\ d * d \in Nat
  BY SMT
<1> QED BY <1>1, <1>5, <1>6, SMT

LEMMA SumsAbove ==
    ASSUME NEW a \in Nat, NEW b \in Nat, NEW c \in Nat, NEW d \in Nat,
           2 * (b * b) <= a * a, 2 * (d * d) <= c * c
    PROVE  /\ 2 * ((b + d) * (b + d)) <= (a + c) * (a + c)
           /\ 2 * (b * b) < a * a => 2 * ((b + d) * (b + d)) < (a + c) * (a + c)
<1> DEFINE m == a * c
           n == 2 * (b * d)
<1>1. a * a \in Nat /\ c * c \in Nat /\ 2 * (b * b) \in Nat /\ 2 * (d * d) \in Nat
  BY SMT
<1>2. (2 * (b * b)) * (2 * (d * d)) <= (a * a) * (c * c)
  BY <1>1, ProductsOrdered
<1>3. m * m = (a * a) * (c * c) /\ n * n = (2 * (b * b)) * (2 * (d * d)) /\ m \in Nat /\ n \in Nat
  BY SMT
<1> HIDE DEF m, n
<1>4. n <= m
  BY <1>2, <1>3, RootsOrdered
<1>5. 2 * (b * d) <= a * c
  BY <1>4 DEF m, n
<1>6. /\ (a + c) * (a + c) = a * a + 2 * (a * c) + c * c
      /\ (b + d) * (b + d) = b * b + 2 * (b * d) + d * d
      /\ a * c \in Nat /\ b * d \in Nat /\ b * b \in Nat /\ d * d \in Nat
  BY SMT
<1> QED BY <1>1, <1>5, <1>6, SMT

LEMMA AboveIsStrict ==
    ASSUME NEW p \in Int, NEW q \in Int, Above(p, q)
    PROVE  ~Above(0 - p, 0 - q)
BY SMT DEF Above

LEMMA SquaresOrdered ==
    ASSUME NEW m \in Nat, NEW n \in Nat
    PROVE  /\ m * m \in Nat
           /\ m <= n => m * m <= n * n
           /\ m < n => m * m < n * n
<1>1. m * m \in Nat /\ m * n \in Nat /\ n * n \in Nat
  BY SMT
<1>2. m <= n => m * m <= m * n /\ m * n <= n * n
  BY SMT
<1>3. m < n => m * n < n * n
  BY SMT
<1> QED BY <1>1, <1>2, <1>3

\* The signs of what is above, and of what is not below, and two lengths.
SignsOfAbove(p, q, a, b) ==
    \/ p = a /\ q = b /\ (a > 0 \/ b > 0)
    \/ p = a /\ q = 0 - b /\ a > 0 /\ b > 0 /\ 2 * (b * b) < a * a
    \/ p = 0 - a /\ q = b /\ a > 0 /\ b > 0 /\ a * a < 2 * (b * b)

SignsOfRest(r, s, c, d) ==
    \/ r = c /\ s = d
    \/ r = c /\ s = 0 - d /\ c > 0 /\ d > 0 /\ 2 * (d * d) <= c * c
    \/ r = 0 - c /\ s = d /\ c > 0 /\ d > 0 /\ c * c <= 2 * (d * d)

LEMMA AboveCases ==
    ASSUME NEW p \in Int, NEW q \in Int, Above(p, q)
    PROVE  \E a, b \in Nat : SignsOfAbove(p, q, a, b)
<1>1. CASE p >= 0 /\ q >= 0
  BY <1>1 DEF Above, SignsOfAbove
<1>2. CASE p >= 0 /\ q < 0
  <2> DEFINE b == 0 - q
  <2>1. p \in Nat /\ b \in Nat /\ q = 0 - b /\ b > 0 /\ 2 * (b * b) = 2 * q * q
    BY SMT, <1>2
  <2>2. p > 0 /\ p * p > 2 * q * q
    BY <1>2 DEF Above
  <2> HIDE DEF b
  <2> QED BY <2>1, <2>2 DEF SignsOfAbove
<1>3. CASE p < 0
  <2> DEFINE a == 0 - p
  <2>1. a \in Nat /\ p = 0 - a /\ a > 0 /\ a * a = p * p /\ 2 * (q * q) = 2 * q * q
    BY SMT, <1>3
  <2>2. q > 0 /\ 2 * q * q > p * p /\ q \in Nat
    BY <1>3 DEF Above
  <2> HIDE DEF a
  <2> QED BY <2>1, <2>2 DEF SignsOfAbove
<1> QED BY <1>1, <1>2, <1>3

LEMMA NotBelowCases ==
    ASSUME NEW r \in Int, NEW s \in Int, ~Above(0 - r, 0 - s)
    PROVE  \E c, d \in Nat : SignsOfRest(r, s, c, d)
<1>0. (0 - r) * (0 - r) = r * r /\ 2 * (0 - s) * (0 - s) = 2 * (s * s)
  BY SMT
<1>1. CASE r >= 0 /\ s >= 0
  BY <1>1 DEF SignsOfRest
<1>2. CASE s < 0
  <2> DEFINE d == 0 - s
  <2>1. d \in Nat /\ s = 0 - d /\ d > 0 /\ d * d = s * s
    BY SMT, <1>2
  <2>2. r > 0 /\ r \in Nat /\ ~(2 * (s * s) > r * r)
    BY <1>0, <1>2 DEF Above
  <2>3. 2 * (d * d) <= r * r
    <3>1. r * r \in Int /\ s * s \in Int
      BY SMT
    <3> QED BY <2>1, <2>2, <3>1
  <2> HIDE DEF d
  <2> QED BY <2>1, <2>2, <2>3 DEF SignsOfRest
<1>3. CASE r < 0 /\ s >= 0
  <2> DEFINE c == 0 - r
  <2>1. c \in Nat /\ r = 0 - c /\ c > 0 /\ c * c = r * r
    BY SMT, <1>3
  <2>2. s > 0 /\ s \in Nat /\ ~(r * r > 2 * (s * s))
    BY <1>0, <1>3 DEF Above
  <2>3. c * c <= 2 * (s * s)
    <3>1. r * r \in Int /\ s * s \in Int
      BY SMT
    <3> QED BY <2>1, <2>2, <3>1
  <2> HIDE DEF c
  <2> QED BY <2>1, <2>2, <2>3 DEF SignsOfRest
<1> QED BY <1>1, <1>2, <1>3

\* What is above, of two lengths a and b and their signs.
LEMMA AboveThese ==
    ASSUME NEW a \in Nat, NEW b \in Nat
    PROVE  /\ a > 0 \/ b > 0 => Above(a, b)
           /\ 2 * (b * b) < a * a => Above(a, 0 - b)
           /\ a * a < 2 * (b * b) => Above(0 - a, b)
<1>1. a > 0 \/ b > 0 => Above(a, b)
  BY DEF Above
<1>2. ASSUME 2 * (b * b) < a * a PROVE Above(a, 0 - b)
  <2>1. a > 0 /\ 2 * (0 - b) * (0 - b) = 2 * (b * b)
    BY SMT, <1>2
  <2> QED BY <1>2, <2>1 DEF Above
<1>3. ASSUME a * a < 2 * (b * b) PROVE Above(0 - a, b)
  <2>1. b > 0 /\ (0 - a) * (0 - a) = a * a /\ 2 * b * b = 2 * (b * b)
    BY SMT, <1>3
  <2> QED BY <1>3, <2>1 DEF Above
<1> QED BY <1>1, <1>2, <1>3

\* A length taken off leaves less than there was.
LEMMA TakenOff ==
    ASSUME NEW m \in Nat, NEW n \in Nat, n < m
    PROVE  \E e \in Nat : e > 0 /\ m = n + e
<1>1. m - n \in Nat /\ m - n > 0 /\ m = n + (m - n)
  OBVIOUS
<1> QED BY <1>1

LEMMA AbovePlusPositive ==
    ASSUME NEW a \in Nat, NEW b \in Nat, NEW c \in Nat, NEW d \in Nat, a > 0 \/ b > 0
    PROVE  /\ Above(a + c, b + d)
           /\ c > 0 /\ 2 * (d * d) <= c * c => Above(a + c, b - d)
           /\ d > 0 /\ c * c <= 2 * (d * d) => Above(a - c, b + d)
<1>1. Above(a + c, b + d)
  <2>1. a + c \in Nat /\ b + d \in Nat /\ (a + c > 0 \/ b + d > 0)
    OBVIOUS
  <2> QED BY <2>1, AboveThese
<1>2. ASSUME c > 0, 2 * (d * d) <= c * c PROVE Above(a + c, b - d)
  <2>1. CASE d <= b
    <3>1. a + c \in Nat /\ b - d \in Nat /\ a + c > 0
      BY <1>2, <2>1
    <3> QED BY <3>1, AboveThese
  <2>2. CASE b < d
    <3>1. PICK e \in Nat : e > 0 /\ d = b + e
      BY <2>2, TakenOff
    <3>2. e <= d /\ (b > 0 => e < d) /\ c <= a + c /\ (a > 0 => c < a + c) /\ a + c \in Nat
      BY <3>1
    <3>3. /\ e * e \in Nat /\ d * d \in Nat /\ c * c \in Nat /\ (a + c) * (a + c) \in Nat
          /\ e * e <= d * d /\ c * c <= (a + c) * (a + c)
          /\ b > 0 => e * e < d * d
          /\ a > 0 => c * c < (a + c) * (a + c)
      BY <3>2, SquaresOrdered
    <3>4. 2 * (e * e) < (a + c) * (a + c)
      BY <1>2, <3>3
    <3>5. b - d = 0 - e
      BY <3>1
    <3> QED BY <3>2, <3>4, <3>5, AboveThese
  <2> QED BY <2>1, <2>2
<1>3. ASSUME d > 0, c * c <= 2 * (d * d) PROVE Above(a - c, b + d)
  <2>1. CASE c <= a
    <3>1. b + d \in Nat /\ a - c \in Nat /\ b + d > 0
      BY <1>3, <2>1
    <3> QED BY <3>1, AboveThese
  <2>2. CASE a < c
    <3>1. PICK e \in Nat : e > 0 /\ c = a + e
      BY <2>2, TakenOff
    <3>2. e <= c /\ (a > 0 => e < c) /\ d <= b + d /\ (b > 0 => d < b + d) /\ b + d \in Nat
      BY <3>1
    <3>3. /\ e * e \in Nat /\ d * d \in Nat /\ c * c \in Nat /\ (b + d) * (b + d) \in Nat
          /\ e * e <= c * c /\ d * d <= (b + d) * (b + d)
          /\ a > 0 => e * e < c * c
          /\ b > 0 => d * d < (b + d) * (b + d)
      BY <3>2, SquaresOrdered
    <3>4. e * e < 2 * ((b + d) * (b + d))
      BY <1>3, <3>3
    <3>5. a - c = 0 - e
      BY <3>1
    <3> QED BY <3>2, <3>4, <3>5, AboveThese
  <2> QED BY <2>1, <2>2
<1> QED BY <1>1, <1>2, <1>3

LEMMA AbovePlusLong ==
    ASSUME NEW a \in Nat, NEW b \in Nat, NEW c \in Nat, NEW d \in Nat, 2 * (b * b) < a * a
    PROVE  /\ Above(a + c, d - b)
           /\ 2 * (d * d) <= c * c => Above(a + c, 0 - (b + d))
           /\ c * c <= 2 * (d * d) => Above(a - c, d - b)
<1>0. /\ a * a \in Nat /\ b * b \in Nat /\ c * c \in Nat /\ d * d \in Nat
      /\ a > 0
  <2>1. a * a \in Nat /\ b * b \in Nat /\ c * c \in Nat /\ d * d \in Nat
    BY SquaresOrdered
  <2>2. a = 0 => a * a = 0
    BY SMT
  <2> QED BY <2>1, <2>2
<1>1. Above(a + c, d - b)
  <2>1. CASE b <= d
    <3>1. a + c \in Nat /\ d - b \in Nat /\ a + c > 0
      BY <1>0, <2>1
    <3> QED BY <3>1, AboveThese
  <2>2. CASE d < b
    <3>1. PICK f \in Nat : f > 0 /\ b = d + f
      BY <2>2, TakenOff
    <3>2. f <= b /\ a <= a + c /\ a + c \in Nat
      BY <3>1
    <3>3. f * f \in Nat /\ f * f <= b * b /\ (a + c) * (a + c) \in Nat /\ a * a <= (a + c) * (a + c)
      BY <3>2, SquaresOrdered
    <3>4. 2 * (f * f) < (a + c) * (a + c)
      BY <1>0, <3>3
    <3>5. d - b = 0 - f
      BY <3>1
    <3> QED BY <3>2, <3>4, <3>5, AboveThese
  <2> QED BY <2>1, <2>2
<1>2. ASSUME 2 * (d * d) <= c * c PROVE Above(a + c, 0 - (b + d))
  <2>1. 2 * (b * b) <= a * a
    BY <1>0
  <2>2. 2 * ((b + d) * (b + d)) < (a + c) * (a + c)
    BY <1>2, <2>1, SumsAbove
  <2> QED BY <2>2, AboveThese
<1>3. ASSUME c * c <= 2 * (d * d) PROVE Above(a - c, d - b)
  <2>1. CASE c <= a /\ b <= d
    <3>1. a - c \in Nat /\ d - b \in Nat
      BY <2>1
    <3>2. ~(a = c /\ b = d)
      BY <1>0, <1>3
    <3>3. a - c > 0 \/ d - b > 0
      BY <2>1, <3>2
    <3> QED BY <3>1, <3>3, AboveThese
  <2>2. CASE c <= a /\ d < b
    <3>1. PICK f \in Nat : f > 0 /\ b = d + f
      BY <2>2, TakenOff
    <3> DEFINE e == a - c
    <3>2. e \in Nat /\ a = e + c /\ b = f + d /\ d - b = 0 - f
      BY <2>2, <3>1
    <3> HIDE DEF e
    <3>3. 2 * (f * f) < e * e
      <4> SUFFICES ASSUME e * e <= 2 * (f * f) PROVE FALSE
        BY <3>2, SquaresOrdered
      <4>1. (e + c) * (e + c) <= 2 * ((f + d) * (f + d))
        BY <1>3, <3>2, SumsBelow
      <4>2. a * a <= 2 * (b * b)
        BY <3>2, <4>1
      <4> QED BY <1>0, <4>2
    <3>4. Above(e, 0 - f)
      BY <3>2, <3>3, AboveThese
    <3> QED BY <3>2, <3>4 DEF e
  <2>3. CASE a < c /\ b <= d
    <3>1. PICK e \in Nat : e > 0 /\ c = a + e
      BY <2>3, TakenOff
    <3> DEFINE f == d - b
    <3>2. f \in Nat /\ d = b + f /\ a - c = 0 - e
      BY <2>3, <3>1
    <3> HIDE DEF f
    <3>3. e * e < 2 * (f * f)
      <4> SUFFICES ASSUME 2 * (f * f) <= e * e PROVE FALSE
        BY <3>2, SquaresOrdered
      <4>1. 2 * ((b + f) * (b + f)) < (a + e) * (a + e)
        BY <1>0, <3>2, SumsAbove
      <4>2. 2 * (d * d) < c * c
        BY <3>1, <3>2, <4>1
      <4> QED BY <1>0, <1>3, <4>2
    <3>4. Above(0 - e, f)
      BY <3>2, <3>3, AboveThese
    <3> QED BY <3>2, <3>4 DEF f
  <2>4. ~(a < c /\ d < b)
    <3>1. a < c => a * a < c * c
      BY SquaresOrdered
    <3>2. d < b => d * d < b * b
      BY SquaresOrdered
    <3> QED BY <1>0, <1>3, <3>1, <3>2
  <2> QED BY <2>1, <2>2, <2>3, <2>4
<1> QED BY <1>1, <1>2, <1>3

LEMMA AbovePlusShort ==
    ASSUME NEW a \in Nat, NEW b \in Nat, NEW c \in Nat, NEW d \in Nat, a * a < 2 * (b * b)
    PROVE  /\ Above(c - a, b + d)
           /\ 2 * (d * d) <= c * c => Above(c - a, b - d)
           /\ c * c <= 2 * (d * d) => Above(0 - (a + c), b + d)
<1>0. /\ a * a \in Nat /\ b * b \in Nat /\ c * c \in Nat /\ d * d \in Nat
      /\ b > 0
  <2>1. a * a \in Nat /\ b * b \in Nat /\ c * c \in Nat /\ d * d \in Nat
    BY SquaresOrdered
  <2>2. b = 0 => b * b = 0
    BY SMT
  <2> QED BY <2>1, <2>2
<1>1. Above(c - a, b + d)
  <2>1. CASE a <= c
    <3>1. b + d \in Nat /\ c - a \in Nat /\ b + d > 0
      BY <1>0, <2>1
    <3> QED BY <3>1, AboveThese
  <2>2. CASE c < a
    <3>1. PICK e \in Nat : e > 0 /\ a = c + e
      BY <2>2, TakenOff
    <3>2. e <= a /\ b <= b + d /\ b + d \in Nat
      BY <3>1
    <3>3. e * e \in Nat /\ e * e <= a * a /\ (b + d) * (b + d) \in Nat /\ b * b <= (b + d) * (b + d)
      BY <3>2, SquaresOrdered
    <3>4. e * e < 2 * ((b + d) * (b + d))
      BY <1>0, <3>3
    <3>5. c - a = 0 - e
      BY <3>1
    <3> QED BY <3>2, <3>4, <3>5, AboveThese
  <2> QED BY <2>1, <2>2
<1>2. ASSUME 2 * (d * d) <= c * c PROVE Above(c - a, b - d)
  <2>1. CASE a <= c /\ d <= b
    <3>1. c - a \in Nat /\ b - d \in Nat
      BY <2>1
    <3>2. ~(a = c /\ b = d)
      BY <1>0, <1>2
    <3>3. c - a > 0 \/ b - d > 0
      BY <2>1, <3>2
    <3> QED BY <3>1, <3>3, AboveThese
  <2>2. CASE a <= c /\ b < d
    <3>1. PICK f \in Nat : f > 0 /\ d = b + f
      BY <2>2, TakenOff
    <3> DEFINE e == c - a
    <3>2. e \in Nat /\ c = a + e /\ b - d = 0 - f
      BY <2>2, <3>1
    <3> HIDE DEF e
    <3>3. 2 * (f * f) < e * e
      <4> SUFFICES ASSUME e * e <= 2 * (f * f) PROVE FALSE
        BY <3>2, SquaresOrdered
      <4>1. (a + e) * (a + e) < 2 * ((b + f) * (b + f))
        BY <1>0, <3>2, SumsBelow
      <4>2. c * c < 2 * (d * d)
        BY <3>1, <3>2, <4>1
      <4> QED BY <1>0, <1>2, <4>2
    <3>4. Above(e, 0 - f)
      BY <3>2, <3>3, AboveThese
    <3> QED BY <3>2, <3>4 DEF e
  <2>3. CASE c < a /\ d <= b
    <3>1. PICK e \in Nat : e > 0 /\ a = c + e
      BY <2>3, TakenOff
    <3> DEFINE f == b - d
    <3>2. f \in Nat /\ b = f + d /\ a = e + c /\ c - a = 0 - e
      BY <2>3, <3>1
    <3> HIDE DEF f
    <3>3. e * e < 2 * (f * f)
      <4> SUFFICES ASSUME 2 * (f * f) <= e * e PROVE FALSE
        BY <3>2, SquaresOrdered
      <4>1. 2 * ((f + d) * (f + d)) <= (e + c) * (e + c)
        BY <1>2, <3>2, SumsAbove
      <4>2. 2 * (b * b) <= a * a
        BY <3>2, <4>1
      <4> QED BY <1>0, <4>2
    <3>4. Above(0 - e, f)
      BY <3>2, <3>3, AboveThese
    <3> QED BY <3>2, <3>4 DEF f
  <2>4. ~(c < a /\ b < d)
    <3>1. c < a => c * c < a * a
      BY SquaresOrdered
    <3>2. b < d => b * b < d * d
      BY SquaresOrdered
    <3> QED BY <1>0, <1>2, <3>1, <3>2
  <2> QED BY <2>1, <2>2, <2>3, <2>4
<1>3. ASSUME c * c <= 2 * (d * d) PROVE Above(0 - (a + c), b + d)
  <2>1. a * a <= 2 * (b * b)
    BY <1>0
  <2>2. (a + c) * (a + c) < 2 * ((b + d) * (b + d))
    BY <1>3, <2>1, SumsBelow
  <2> QED BY <2>2, AboveThese
<1> QED BY <1>1, <1>2, <1>3

LEMMA AboveSum ==
    ASSUME NEW p \in Int, NEW q \in Int, NEW r \in Int, NEW s \in Int,
           Above(p, q), ~Above(0 - r, 0 - s)
    PROVE  Above(p + r, q + s)
<1>1. PICK a, b \in Nat : SignsOfAbove(p, q, a, b)
  BY AboveCases
<1>2. PICK c, d \in Nat : SignsOfRest(r, s, c, d)
  BY NotBelowCases
<1>3. CASE p = a /\ q = b /\ (a > 0 \/ b > 0)
  <2>1. /\ Above(a + c, b + d)
        /\ c > 0 /\ 2 * (d * d) <= c * c => Above(a + c, b - d)
        /\ d > 0 /\ c * c <= 2 * (d * d) => Above(a - c, b + d)
    BY <1>3, AbovePlusPositive
  <2>2. b + (0 - d) = b - d /\ a + (0 - c) = a - c
    OBVIOUS
  <2> QED BY Zenon, <1>2, <1>3, <2>1, <2>2 DEF SignsOfRest
<1>4. CASE p = a /\ q = 0 - b /\ a > 0 /\ b > 0 /\ 2 * (b * b) < a * a
  <2>1. /\ Above(a + c, d - b)
        /\ 2 * (d * d) <= c * c => Above(a + c, 0 - (b + d))
        /\ c * c <= 2 * (d * d) => Above(a - c, d - b)
    BY <1>4, AbovePlusLong
  <2>2. (0 - b) + d = d - b /\ (0 - b) + (0 - d) = 0 - (b + d) /\ a + (0 - c) = a - c
    OBVIOUS
  <2> QED BY Zenon, <1>2, <1>4, <2>1, <2>2 DEF SignsOfRest
<1>5. CASE p = 0 - a /\ q = b /\ a > 0 /\ b > 0 /\ a * a < 2 * (b * b)
  <2>1. /\ Above(c - a, b + d)
        /\ 2 * (d * d) <= c * c => Above(c - a, b - d)
        /\ c * c <= 2 * (d * d) => Above(0 - (a + c), b + d)
    BY <1>5, AbovePlusShort
  <2>2. (0 - a) + c = c - a /\ (0 - a) + (0 - c) = 0 - (a + c) /\ b + (0 - d) = b - d
    OBVIOUS
  <2> QED BY Zenon, <1>2, <1>5, <2>1, <2>2 DEF SignsOfRest
<1> QED BY <1>1, <1>3, <1>4, <1>5 DEF SignsOfAbove

Magnitudes == [p : Int, q : Int]

LEMMA ExceedsIsOrder ==
    ASSUME NEW u \in Magnitudes, NEW v \in Magnitudes, NEW w \in Magnitudes
    PROVE  /\ ~Exceeds(u, u)
           /\ Exceeds(u, v) => ~Exceeds(v, u)
           /\ Exceeds(u, v) /\ ~Exceeds(w, v) => Exceeds(u, w)
<1>1. \A s, t : Exceeds(s, t) <=> Above(s.p - t.p, s.q - t.q)
  BY DEF Exceeds, Above
<1>2. /\ u.p \in Int /\ u.q \in Int /\ v.p \in Int /\ v.q \in Int /\ w.p \in Int /\ w.q \in Int
  BY DEF Magnitudes
<1>3. Exceeds(u, v) => ~Exceeds(v, u)
  <2> DEFINE p == u.p - v.p
             q == u.q - v.q
  <2>1. /\ Exceeds(u, v) <=> Above(p, q)
        /\ Exceeds(v, u) <=> Above(0 - p, 0 - q)
    <3>1. v.p - u.p = 0 - p /\ v.q - u.q = 0 - q
      BY <1>2
    <3> QED BY <1>1, <3>1
  <2>2. p \in Int /\ q \in Int
    BY <1>2
  <2> HIDE DEF p, q
  <2> QED BY <2>1, <2>2, AboveIsStrict
<1>4. ~Exceeds(u, u)
  <2>1. u.p - u.p = 0 /\ u.q - u.q = 0
    BY <1>2
  <2>2. ~Above(0, 0)
    BY DEF Above
  <2> QED BY <1>1, <2>1, <2>2
<1>5. ASSUME Exceeds(u, v), ~Exceeds(w, v) PROVE Exceeds(u, w)
  <2> DEFINE p == u.p - v.p
             q == u.q - v.q
             r == v.p - w.p
             s == v.q - w.q
  <2>1. /\ p \in Int /\ q \in Int /\ r \in Int /\ s \in Int
        /\ u.p - w.p = p + r /\ u.q - w.q = q + s
        /\ w.p - v.p = 0 - r /\ w.q - v.q = 0 - s
    BY <1>2
  <2>2. Above(p, q)
    BY <1>1, <1>5
  <2> HIDE DEF p, q, r, s
  <2>3. ~Above(0 - r, 0 - s)
    BY <1>1, <1>5, <2>1
  <2>4. Above(p + r, q + s)
    BY <2>1, <2>2, <2>3, AboveSum
  <2> QED BY <1>1, <2>1, <2>4
<1> QED BY <1>3, <1>4, <1>5
-----------------------------------------------------------------------------
(* The first of the strongest bins.                                           *)
Strength(x, k) == SquaredMagnitude(fft(x)[k])

\* max_index is m.
FirstStrongest(x, m) ==
    \A o \in 0 .. 3 : /\ ~Exceeds(Strength(x, o), Strength(x, m))
                      /\ o < m => Exceeds(Strength(x, m), Strength(x, o))

LEMMA MagnitudeType ==
    ASSUME NEW a \in [0 .. 3 -> Int]
    PROVE  SquaredMagnitude(a) \in Magnitudes
<1>1. a[0] \in Int /\ a[1] \in Int /\ a[2] \in Int /\ a[3] \in Int
  OBVIOUS
<1> QED BY <1>1, SMT DEF SquaredMagnitude, Magnitudes

LEMMA FirstStrongestExists ==
    ASSUME BUFFER_SIZE = 8, NEW x \in Windows
    PROVE  \E m \in 0 .. 3 : FirstStrongest(x, m)
<1> DEFINE E(k, m) == Exceeds(Strength(x, k), Strength(x, m))
<1>0. \A k \in 0 .. 3 : Strength(x, k) \in Magnitudes
  BY Spectrum, MagnitudeType DEF Strength
<1>1. \A k, m, o \in 0 .. 3 : /\ ~E(k, k)
                              /\ E(k, m) => ~E(m, k)
                              /\ (E(k, m) /\ ~E(o, m) => E(k, o))
  BY <1>0, ExceedsIsOrder
<1> HIDE DEF E
<1> DEFINE Best(n, m) == \A o \in 0 .. n : ~E(o, m) /\ (o < m => E(m, o))
           P == {n \in Nat : n <= 3 => \E m \in 0 .. n : Best(n, m)}
<1>2. 0 \in P
  <2>1. Best(0, 0)
    BY <1>1
  <2> QED BY <2>1
<1>3. ASSUME NEW n \in P PROVE n + 1 \in P
  <2> SUFFICES ASSUME n + 1 <= 3 PROVE \E m \in 0 .. n + 1 : Best(n + 1, m)
    OBVIOUS
  <2>1. PICK m \in 0 .. n : Best(n, m)
    OBVIOUS
  <2> DEFINE k == n + 1
  <2>2. /\ k \in 0 .. 3 /\ m \in 0 .. 3 /\ m \in 0 .. k /\ k \in 0 .. k /\ ~(k < m)
        /\ \A o \in 0 .. k : o \in 0 .. 3 /\ (o \in 0 .. n \/ o = k) /\ ~(k < k)
    OBVIOUS
  <2> HIDE DEF k
  <2>3. CASE E(k, m)
    <3>1. ASSUME NEW o \in 0 .. k PROVE ~E(o, k) /\ (o < k => E(k, o))
      <4>1. CASE o \in 0 .. n
        <5>1. ~E(o, m)
          BY <2>1, <4>1
        <5>2. E(k, o)
          BY <1>1, <2>2, <2>3, <5>1
        <5> QED BY <1>1, <2>2, <5>2
      <4>2. CASE o = k
        BY <1>1, <2>2, <4>2
      <4> QED BY <2>2, <4>1, <4>2
    <3> QED BY <2>2, <3>1 DEF k
  <2>4. CASE ~E(k, m)
    <3>1. ASSUME NEW o \in 0 .. k PROVE ~E(o, m) /\ (o < m => E(m, o))
      <4>1. CASE o \in 0 .. n
        BY <2>1, <4>1
      <4>2. CASE o = k
        BY <2>2, <2>4, <4>2
      <4> QED BY <2>2, <4>1, <4>2
    <3> QED BY <2>2, <3>1 DEF k
  <2> QED BY <2>3, <2>4
<1>4. P = Nat
  <2> HIDE DEF P
  <2>1. P \in SUBSET Nat
    BY DEF P
  <2> QED BY <1>2, <1>3, <2>1, SetInduction
<1>5. \E m \in 0 .. 3 : Best(3, m)
  <2>1. 3 \in P
    BY <1>4
  <2> QED BY <2>1
<1> QED BY <1>5 DEF FirstStrongest, E

\* The phasor is of the first of the strongest bins, and of no other.
LEMMA PhasorIs ==
    ASSUME BUFFER_SIZE = 8, NEW x \in Windows
    PROVE  /\ \A m \in 0 .. 3 : FirstStrongest(x, m) =>
                  compute_phasor(x) = [bin |-> m, value |-> fft(x)[m]]
           /\ \E m \in 0 .. 3 : /\ FirstStrongest(x, m)
                                /\ compute_phasor(x) = [bin |-> m, value |-> fft(x)[m]]
<1> DEFINE F(k) == [bin |-> k, value |-> fft(x)[k]]
           S == {F(k) : k \in 0 .. 3}
           First(p) == \A o \in S :
                         /\ ~Exceeds(SquaredMagnitude(o.value), SquaredMagnitude(p.value))
                         /\ o.bin < p.bin =>
                               Exceeds(SquaredMagnitude(p.value), SquaredMagnitude(o.value))
<1>1. compute_phasor(x) = CHOOSE p \in S : First(p)
  <2>1. SearchedBins = 0 .. 3
    BY Eight
  <2> QED BY <2>1 DEF compute_phasor, Strongest
<1>2. \A m \in 0 .. 3 : F(m) \in S /\ F(m).bin = m /\ SquaredMagnitude(F(m).value) = Strength(x, m)
  BY DEF Strength
<1>3. \A p \in S : \E m \in 0 .. 3 : p = F(m)
  OBVIOUS
<1> HIDE DEF S, F
<1>4. ASSUME NEW m \in 0 .. 3 PROVE First(F(m)) <=> FirstStrongest(x, m)
  <2>1. ASSUME First(F(m)) PROVE FirstStrongest(x, m)
    <3>1. ASSUME NEW o \in 0 .. 3
          PROVE  /\ ~Exceeds(Strength(x, o), Strength(x, m))
                 /\ o < m => Exceeds(Strength(x, m), Strength(x, o))
      BY <1>2, <2>1
    <3> QED BY <3>1 DEF FirstStrongest
  <2>2. ASSUME FirstStrongest(x, m) PROVE First(F(m))
    <3>1. ASSUME NEW o \in S
          PROVE  /\ ~Exceeds(SquaredMagnitude(o.value), SquaredMagnitude(F(m).value))
                 /\ o.bin < F(m).bin =>
                       Exceeds(SquaredMagnitude(F(m).value), SquaredMagnitude(o.value))
      <4>1. PICK n \in 0 .. 3 : o = F(n)
        BY <1>3
      <4> QED BY <1>2, <2>2, <4>1 DEF FirstStrongest
    <3> QED BY <3>1
  <2> QED BY <2>1, <2>2
<1>5. ASSUME NEW m \in 0 .. 3, NEW n \in 0 .. 3, FirstStrongest(x, m), FirstStrongest(x, n)
      PROVE  m = n
  <2>1. ~(m < n) /\ ~(n < m)
    BY <1>5 DEF FirstStrongest
  <2> QED BY <2>1
<1> HIDE DEF First
<1>6. ASSUME NEW m \in 0 .. 3, FirstStrongest(x, m)
      PROVE  compute_phasor(x) = F(m)
  <2>1. F(m) \in S /\ First(F(m))
    BY <1>2, <1>4, <1>6
  <2>2. ASSUME NEW p \in S, First(p) PROVE p = F(m)
    <3>1. PICK n \in 0 .. 3 : p = F(n)
      BY <1>3
    <3>2. FirstStrongest(x, n)
      BY <1>4, <2>2, <3>1
    <3>3. n = m
      BY <1>5, <1>6, <3>2
    <3> QED BY <3>1, <3>3
  <2> QED BY <1>1, <2>1, <2>2
<1> QED BY <1>6, FirstStrongestExists DEF F
-----------------------------------------------------------------------------
(* A window one sample later.                                                 *)

LEMMA LaterFacts ==
    ASSUME BUFFER_SIZE = 8, NEW x \in Windows
    PROVE  /\ Later(x) \in Windows
           /\ \A n \in 0 .. 6 : Later(x)[n] = x[n + 1]
           /\ Later(x)[7] = x[0]
<1>1. ASSUME NEW n \in 0 .. 7
      PROVE  /\ (n + 1) % BUFFER_SIZE = IF n = 7 THEN 0 ELSE n + 1
             /\ (n + 1) % BUFFER_SIZE \in 0 .. 7
  <2> DEFINE i == n + 1
  <2>1. i \in 0 .. 24
    OBVIOUS
  <2> HIDE DEF i
  <2>2. i % 8 = IF i < 8 THEN i ELSE IF i < 16 THEN i - 8 ELSE IF i < 24 THEN i - 16 ELSE 0
    BY <2>1, ModuloEight
  <2> QED BY <2>2 DEF i
<1>2. Columns = 0 .. 7
  BY Eight
<1> QED BY <1>1, <1>2 DEF Later, Windows

\* One column of a turn: the last coefficient comes back with the other sign.
LEMMA OneColumn ==
    ASSUME BUFFER_SIZE = 8, NEW a \in [0 .. 3 -> Int]
    PROVE  /\ Rotated(a, 1) \in [0 .. 3 -> Int]
           /\ Rotated(a, 1)[0] = 0 - a[3] /\ Rotated(a, 1)[1] = a[0]
           /\ Rotated(a, 1)[2] = a[1] /\ Rotated(a, 1)[3] = a[2]
<1>1. Powers = 0 .. 3 /\ a \in Ring
  BY Eight DEF Ring
<1>2. \A c \in Powers : Coefficient(a, c) = a[c]
  BY <1>1, CoefficientOf
<1>3. \A c \in 0 .. 3 : Rotated(a, 1)[c] = Coefficient(a, c - 1)
  BY <1>1 DEF Rotated
<1>4. Coefficient(a, 0 - 1) = 0 - a[3]
  <2>1. Half = 4 /\ 3 \in Int /\ 3 \in Powers
    BY <1>1, Eight
  <2>2. Coefficient(a, 3 - Half) = -Coefficient(a, 3)
    BY <1>1, <2>1, CoefficientHalfTurn
  <2>3. Coefficient(a, 3) = a[3] /\ a[3] \in Int
    BY <1>2, <2>1
  <2>4. 3 - Half = 0 - 1
    BY <2>1
  <2>5. -a[3] = 0 - a[3]
    BY <2>3
  <2> QED BY <2>2, <2>3, <2>4, <2>5
<1>5. Rotated(a, 1) \in Ring
  BY <1>1, RingTypes
<1>6. 1 - 1 = 0 /\ 2 - 1 = 1 /\ 3 - 1 = 2 /\ 0 \in Powers /\ 1 \in Powers /\ 2 \in Powers
  BY <1>1
<1> QED BY <1>1, <1>2, <1>3, <1>4, <1>5, <1>6 DEF Ring

LEMMA TurningKeepsMagnitude ==
    ASSUME BUFFER_SIZE = 8, NEW a \in [0 .. 3 -> Int], NEW k \in 0 .. 3
    PROVE  SquaredMagnitude(Rotated(a, k)) = SquaredMagnitude(a)
<1>0. Ring = [0 .. 3 -> Int]
  BY Eight DEF Ring
<1>1. ASSUME NEW d \in Ring
      PROVE  SquaredMagnitude(Rotated(d, 1)) = SquaredMagnitude(d)
  <2> DEFINE e == Rotated(d, 1)
  <2>1. /\ e[0] = 0 - d[3] /\ e[1] = d[0] /\ e[2] = d[1] /\ e[3] = d[2]
    BY <1>0, OneColumn
  <2>2. d[0] \in Int /\ d[1] \in Int /\ d[2] \in Int /\ d[3] \in Int
    BY <1>0
  <2> HIDE DEF e
  <2>3. e[0] * e[0] + e[1] * e[1] + e[2] * e[2] + e[3] * e[3]
          = d[0] * d[0] + d[1] * d[1] + d[2] * d[2] + d[3] * d[3]
    BY SMT, <2>1, <2>2
  <2>4. e[0] * e[1] + e[1] * e[2] + e[2] * e[3] - e[0] * e[3]
          = d[0] * d[1] + d[1] * d[2] + d[2] * d[3] - d[0] * d[3]
    BY SMT, <2>1, <2>2
  <2>5. SquaredMagnitude(e) = SquaredMagnitude(d)
    BY <2>3, <2>4 DEF SquaredMagnitude
  <2> QED BY <2>5 DEF e
<1>2. /\ Rotated(a, 0) = a
      /\ \A m \in 0 .. 2 : Rotated(Rotated(a, m), 1) = Rotated(a, m + 1)
      /\ \A m \in 0 .. 3 : Rotated(a, m) \in Ring
  BY <1>0, RotatedTurns, RotatedTwice, RingTypes
<1>3. \A m \in 0 .. 2 : SquaredMagnitude(Rotated(a, m + 1)) = SquaredMagnitude(Rotated(a, m))
  BY <1>1, <1>2
<1>4. /\ SquaredMagnitude(Rotated(a, 0 + 1)) = SquaredMagnitude(Rotated(a, 0))
      /\ SquaredMagnitude(Rotated(a, 1 + 1)) = SquaredMagnitude(Rotated(a, 1))
      /\ SquaredMagnitude(Rotated(a, 2 + 1)) = SquaredMagnitude(Rotated(a, 2))
  BY <1>3
<1>5. 0 + 1 = 1 /\ 1 + 1 = 2 /\ 2 + 1 = 3 /\ (k = 0 \/ k = 1 \/ k = 2 \/ k = 3)
  OBVIOUS
<1> QED BY <1>2, <1>4, <1>5

LEMMA LaterSpectrum ==
    ASSUME BUFFER_SIZE = 8, NEW x \in Windows, NEW k \in 0 .. 3
    PROVE  fft(Later(x))[k] = Rotated(fft(x)[k], k)
<1> DEFINE y == Later(x)
           X(m) == fft(x)[m]
           Y(m) == fft(y)[m]
<1>0. Ring = [0 .. 3 -> Int] /\ Powers = 0 .. 3
  BY Eight DEF Ring
<1>1. /\ y \in Windows
      /\ y[0] = x[1] /\ y[1] = x[2] /\ y[2] = x[3] /\ y[3] = x[4] /\ y[4] = x[5] /\ y[5] = x[6]
      /\ y[6] = x[7] /\ y[7] = x[0]
  BY LaterFacts
<1> HIDE DEF y
<1>2. /\ \A m \in 0 .. 3 : Y(m) \in [0 .. 3 -> Int]
      /\ Y(0)[0] = y[0] + y[1] + y[2] + y[3] + y[4] + y[5] + y[6] + y[7]
      /\ Y(0)[1] = 0 /\ Y(0)[2] = 0 /\ Y(0)[3] = 0
      /\ Y(1)[0] = y[0] - y[4] /\ Y(1)[1] = y[7] - y[3]
      /\ Y(1)[2] = y[6] - y[2] /\ Y(1)[3] = y[5] - y[1]
      /\ Y(2)[0] = y[0] + y[4] - y[2] - y[6] /\ Y(2)[1] = 0
      /\ Y(2)[2] = y[3] + y[7] - y[1] - y[5] /\ Y(2)[3] = 0
      /\ Y(3)[0] = y[0] - y[4] /\ Y(3)[1] = y[5] - y[1]
      /\ Y(3)[2] = y[2] - y[6] /\ Y(3)[3] = y[7] - y[3]
  BY <1>1, Spectrum
<1>3. /\ \A m \in 0 .. 3 : X(m) \in [0 .. 3 -> Int]
      /\ X(0)[0] = x[0] + x[1] + x[2] + x[3] + x[4] + x[5] + x[6] + x[7]
      /\ X(0)[1] = 0 /\ X(0)[2] = 0 /\ X(0)[3] = 0
      /\ X(1)[0] = x[0] - x[4] /\ X(1)[1] = x[7] - x[3]
      /\ X(1)[2] = x[6] - x[2] /\ X(1)[3] = x[5] - x[1]
      /\ X(2)[0] = x[0] + x[4] - x[2] - x[6] /\ X(2)[1] = 0
      /\ X(2)[2] = x[3] + x[7] - x[1] - x[5] /\ X(2)[3] = 0
      /\ X(3)[0] = x[0] - x[4] /\ X(3)[1] = x[5] - x[1]
      /\ X(3)[2] = x[2] - x[6] /\ X(3)[3] = x[7] - x[3]
  BY Spectrum
<1>4. /\ x[0] \in Int /\ x[1] \in Int /\ x[2] \in Int /\ x[3] \in Int
      /\ x[4] \in Int /\ x[5] \in Int /\ x[6] \in Int /\ x[7] \in Int
  BY Spectrum
<1> HIDE DEF X, Y
<1> DEFINE R(a) == Rotated(a, 1)
<1>5. \A a \in [0 .. 3 -> Int] : /\ R(a) \in [0 .. 3 -> Int]
                                 /\ R(a)[0] = 0 - a[3] /\ R(a)[1] = a[0]
                                 /\ R(a)[2] = a[1] /\ R(a)[3] = a[2]
  BY OneColumn
<1>6. \A a \in Ring : Rotated(a, 0) = a /\ Rotated(a, 2) = R(R(a)) /\ Rotated(a, 3) = R(R(R(a)))
  <2>1. 1 + 1 = 2 /\ 2 + 1 = 3
    OBVIOUS
  <2>2. ASSUME NEW a \in Ring
        PROVE  Rotated(a, 0) = a /\ Rotated(a, 2) = R(R(a)) /\ Rotated(a, 3) = R(R(R(a)))
    <3>1. Rotated(Rotated(a, 1), 1) = Rotated(a, 1 + 1)
      BY RotatedTwice
    <3>2. Rotated(Rotated(a, 2), 1) = Rotated(a, 2 + 1)
      BY RotatedTwice
    <3>3. Rotated(a, 0) = a
      BY RotatedTurns
    <3> QED BY <2>1, <3>1, <3>2, <3>3
  <2> QED BY <2>2
<1> HIDE DEF R
<1>7. \A a, b \in Ring : a[0] = b[0] /\ a[1] = b[1] /\ a[2] = b[2] /\ a[3] = b[3] => a = b
  <2>1. \A c \in Powers : c = 0 \/ c = 1 \/ c = 2 \/ c = 3
    BY <1>0
  <2>2. ASSUME NEW a \in Ring, NEW b \in Ring,
               a[0] = b[0], a[1] = b[1], a[2] = b[2], a[3] = b[3]
        PROVE  a = b
    BY <2>1, <2>2, RingEqual
  <2> QED BY <2>2
<1>8. Y(0) = X(0)
  BY <1>0, <1>1, <1>2, <1>3, <1>4, <1>7
<1>9. Y(1) = R(X(1))
  <2>1. X(1) \in [0 .. 3 -> Int] /\ Y(1) \in Ring
    BY <1>0, <1>2, <1>3
  <2> DEFINE r == R(X(1))
  <2>2. r \in Ring /\ r[0] = 0 - X(1)[3] /\ r[1] = X(1)[0] /\ r[2] = X(1)[1] /\ r[3] = X(1)[2]
    BY <1>0, <1>5, <2>1
  <2> HIDE DEF r
  <2>3. Y(1)[0] = r[0] /\ Y(1)[1] = r[1] /\ Y(1)[2] = r[2] /\ Y(1)[3] = r[3]
    BY SMT, <1>1, <1>2, <1>3, <1>4, <2>2
  <2> QED BY <1>7, <2>1, <2>2, <2>3 DEF r
<1>10. Y(2) = R(R(X(2)))
  <2>1. X(2) \in [0 .. 3 -> Int] /\ Y(2) \in Ring
    BY <1>0, <1>2, <1>3
  <2> DEFINE r == R(X(2))
             s == R(r)
  <2>2. /\ r \in [0 .. 3 -> Int]
        /\ r[0] = 0 - X(2)[3] /\ r[1] = X(2)[0] /\ r[2] = X(2)[1] /\ r[3] = X(2)[2]
    BY <1>5, <2>1
  <2> HIDE DEF r
  <2>3. s \in Ring /\ s[0] = 0 - r[3] /\ s[1] = r[0] /\ s[2] = r[1] /\ s[3] = r[2]
    BY <1>0, <1>5, <2>2
  <2> HIDE DEF s
  <2>4. Y(2)[0] = s[0] /\ Y(2)[1] = s[1] /\ Y(2)[2] = s[2] /\ Y(2)[3] = s[3]
    BY SMT, <1>1, <1>2, <1>3, <1>4, <2>2, <2>3
  <2> QED BY <1>7, <2>1, <2>3, <2>4 DEF r, s
<1>11. Y(3) = R(R(R(X(3))))
  <2>1. X(3) \in [0 .. 3 -> Int] /\ Y(3) \in Ring
    BY <1>0, <1>2, <1>3
  <2> DEFINE r == R(X(3))
             s == R(r)
             t == R(s)
  <2>2. /\ r \in [0 .. 3 -> Int]
        /\ r[0] = 0 - X(3)[3] /\ r[1] = X(3)[0] /\ r[2] = X(3)[1] /\ r[3] = X(3)[2]
    BY <1>5, <2>1
  <2> HIDE DEF r
  <2>3. s \in [0 .. 3 -> Int] /\ s[0] = 0 - r[3] /\ s[1] = r[0] /\ s[2] = r[1] /\ s[3] = r[2]
    BY <1>5, <2>2
  <2> HIDE DEF s
  <2>4. t \in Ring /\ t[0] = 0 - s[3] /\ t[1] = s[0] /\ t[2] = s[1] /\ t[3] = s[2]
    BY <1>0, <1>5, <2>3
  <2> HIDE DEF t
  <2>5. Y(3)[0] = t[0] /\ Y(3)[1] = t[1] /\ Y(3)[2] = t[2] /\ Y(3)[3] = t[3]
    BY SMT, <1>1, <1>2, <1>3, <1>4, <2>2, <2>3, <2>4
  <2> QED BY <1>7, <2>1, <2>4, <2>5 DEF r, s, t
<1>12. X(0) \in Ring /\ X(1) \in Ring /\ X(2) \in Ring /\ X(3) \in Ring
  BY <1>0, <1>3
<1>13. /\ Y(0) = Rotated(X(0), 0) /\ Y(1) = Rotated(X(1), 1)
       /\ Y(2) = Rotated(X(2), 2) /\ Y(3) = Rotated(X(3), 3)
  BY <1>6, <1>8, <1>9, <1>10, <1>11, <1>12 DEF R
<1>14. k = 0 \/ k = 1 \/ k = 2 \/ k = 3
  OBVIOUS
<1>15. Y(k) = Rotated(X(k), k)
  BY <1>13, <1>14
<1> QED BY <1>15 DEF X, Y, y

LEMMA LaterPhasor ==
    ASSUME BUFFER_SIZE = 8, NEW x \in Windows
    PROVE  /\ compute_phasor(Later(x)).bin = compute_phasor(x).bin
           /\ compute_phasor(Later(x)).value
                = Rotated(compute_phasor(x).value, compute_phasor(x).bin)
<1>1. Later(x) \in Windows
  BY LaterFacts
<1>2. PICK m \in 0 .. 3 : /\ FirstStrongest(x, m)
                          /\ compute_phasor(x) = [bin |-> m, value |-> fft(x)[m]]
  BY PhasorIs
<1>3. \A k \in 0 .. 3 : Strength(Later(x), k) = Strength(x, k)
  <2>1. \A k \in 0 .. 3 : fft(x)[k] \in [0 .. 3 -> Int]
    BY Spectrum
  <2> QED BY <2>1, LaterSpectrum, TurningKeepsMagnitude DEF Strength
<1>4. FirstStrongest(Later(x), m)
  BY <1>2, <1>3 DEF FirstStrongest
<1>5. compute_phasor(Later(x)) = [bin |-> m, value |-> fft(Later(x))[m]]
  BY <1>1, <1>4, PhasorIs
<1>6. fft(Later(x))[m] = Rotated(fft(x)[m], m)
  BY LaterSpectrum
<1> QED BY <1>2, <1>5, <1>6

(* A window of 8 samples, of any size, that starts one sample later in the    *)
(* same periodic signal has its phasor in the same bin, turned forward by     *)
(* that bin's angle (compute_phasor of phasor.c).                             *)
THEOREM LaterTurns ==
    ASSUME BUFFER_SIZE = 8 PROVE PhasorSpec => []LaterWindowTurns
<1>1. PhasorInv => LaterWindowTurns
  <2> SUFFICES ASSUME PhasorInv, Estimated
               PROVE  LET later == compute_phasor(Later(buffer))
                      IN  /\ later.bin = phasor.bin
                          /\ later.value = Rotated(phasor.value, phasor.bin)
    BY DEF LaterWindowTurns
  <2>1. buffer \in Windows /\ phasor = compute_phasor(buffer)
    BY WindowType DEF PhasorInv
  <2> QED BY <2>1, LaterPhasor
<1> QED BY <1>1, PhasorOfWindow, PTL
-----------------------------------------------------------------------------
(* What the phasor does not see.                                              *)

\* A magnitude that does not exceed zero.
LEMMA NotAboveZero ==
    ASSUME NEW p \in Nat, NEW q \in Int,
           ~Exceeds([p |-> p, q |-> q], [p |-> 0, q |-> 0])
    PROVE  p > 0 => q < 0
<1>1. p - 0 = p /\ q - 0 = q
  OBVIOUS
<1>2. ~Above(p, q)
  BY <1>1 DEF Exceeds, Above
<1> QED BY <1>2 DEF Above

LEMMA SquaresVanish ==
    ASSUME NEW a \in Int, NEW b \in Int, NEW c \in Int, NEW d \in Int
    PROVE  /\ a * a + b * b + c * c + d * d \in Nat
           /\ a * a + b * b + c * c + d * d = 0 => a = 0 /\ b = 0 /\ c = 0 /\ d = 0
<1>1. ASSUME NEW v \in Int PROVE v * v \in Nat /\ (v * v = 0 => v = 0)
  <2>1. v * v >= 0 /\ (v > 0 => v * v > 0) /\ (v < 0 => v * v > 0) /\ v * v \in Int
    BY SMT
  <2> QED BY <2>1
<1>2. /\ a * a \in Nat /\ (a * a = 0 => a = 0) /\ b * b \in Nat /\ (b * b = 0 => b = 0)
      /\ c * c \in Nat /\ (c * c = 0 => c = 0) /\ d * d \in Nat /\ (d * d = 0 => d = 0)
  BY <1>1
<1> DEFINE e == a * a
           f == b * b
           g == c * c
           h == d * d
<1>3. /\ e \in Nat /\ (e = 0 => a = 0) /\ f \in Nat /\ (f = 0 => b = 0)
      /\ g \in Nat /\ (g = 0 => c = 0) /\ h \in Nat /\ (h = 0 => d = 0)
  BY <1>2
<1> HIDE DEF e, f, g, h
<1>4. e + f + g + h \in Nat /\ (e + f + g + h = 0 => a = 0 /\ b = 0 /\ c = 0 /\ d = 0)
  BY <1>3
<1> QED BY <1>4 DEF e, f, g, h

\* b's magnitude has a's p and the other sign in q (bins 1 and 3 are such a
\* pair): one of them exceeds zero, unless both are zero.
LEMMA WeakIsNothing ==
    ASSUME NEW a \in [0 .. 3 -> Int], NEW b \in [0 .. 3 -> Int],
           b[0] = a[0], b[1] = a[3], b[2] = 0 - a[2], b[3] = a[1],
           ~Exceeds(SquaredMagnitude(a), [p |-> 0, q |-> 0]),
           ~Exceeds(SquaredMagnitude(b), [p |-> 0, q |-> 0])
    PROVE  a[0] = 0 /\ a[1] = 0 /\ a[2] = 0 /\ a[3] = 0
<1>1. a[0] \in Int /\ a[1] \in Int /\ a[2] \in Int /\ a[3] \in Int
  OBVIOUS
<1> DEFINE p == a[0] * a[0] + a[1] * a[1] + a[2] * a[2] + a[3] * a[3]
           q == a[0] * a[1] + a[1] * a[2] + a[2] * a[3] - a[0] * a[3]
           r == 0 - q
<1>2. p \in Nat /\ (p = 0 => a[0] = 0 /\ a[1] = 0 /\ a[2] = 0 /\ a[3] = 0)
  BY <1>1, SquaresVanish
<1>3. q \in Int /\ r \in Int
  BY SMT, <1>1
<1>4. SquaredMagnitude(a) = [p |-> p, q |-> q]
  BY DEF SquaredMagnitude
<1>5. SquaredMagnitude(b) = [p |-> p, q |-> r]
  <2>1. b[0] * b[0] + b[1] * b[1] + b[2] * b[2] + b[3] * b[3] = p
    BY SMT, <1>1
  <2>2. b[0] * b[1] + b[1] * b[2] + b[2] * b[3] - b[0] * b[3] = r
    BY SMT, <1>1
  <2> HIDE DEF p, q, r
  <2> QED BY <2>1, <2>2 DEF SquaredMagnitude
<1>6. r = 0 - q
  OBVIOUS
<1> HIDE DEF p, q, r
<1>7. p > 0 => q < 0
  BY <1>2, <1>3, <1>4, NotAboveZero
<1>8. p > 0 => r < 0
  BY <1>2, <1>3, <1>5, NotAboveZero
<1>9. p = 0
  BY <1>2, <1>3, <1>6, <1>7, <1>8
<1> QED BY <1>2, <1>9

\* The same of one without odd coefficients (bins 0 and 2).
LEMMA LoneIsNothing ==
    ASSUME NEW a \in [0 .. 3 -> Int], a[1] = 0, a[3] = 0,
           ~Exceeds(SquaredMagnitude(a), [p |-> 0, q |-> 0])
    PROVE  a[0] = 0 /\ a[2] = 0
<1>1. a[0] \in Int /\ a[1] \in Int /\ a[2] \in Int /\ a[3] \in Int
  OBVIOUS
<1> DEFINE p == a[0] * a[0] + a[1] * a[1] + a[2] * a[2] + a[3] * a[3]
           q == a[0] * a[1] + a[1] * a[2] + a[2] * a[3] - a[0] * a[3]
<1>2. p \in Nat /\ (p = 0 => a[0] = 0 /\ a[1] = 0 /\ a[2] = 0 /\ a[3] = 0)
  BY <1>1, SquaresVanish
<1>3. q = 0
  BY SMT, <1>1
<1>4. SquaredMagnitude(a) = [p |-> p, q |-> q]
  BY DEF SquaredMagnitude
<1> HIDE DEF p, q
<1>5. p > 0 => q < 0
  BY <1>2, <1>3, <1>4, NotAboveZero
<1> QED BY <1>2, <1>3, <1>5

LEMMA AlternatingFacts ==
    ASSUME BUFFER_SIZE = 8, NEW x \in Windows
    PROVE  Alternating(x) <=>
              /\ x[1] = 0 - x[0] /\ x[2] = 0 - x[1] /\ x[3] = 0 - x[2] /\ x[4] = 0 - x[3]
              /\ x[5] = 0 - x[4] /\ x[6] = 0 - x[5] /\ x[7] = 0 - x[6] /\ x[0] = 0 - x[7]
<1>1. Columns = 0 .. 7
  BY Eight
<1>2. \A n \in 0 .. 7 : x[n] \in Int /\ -x[n] = 0 - x[n]
  BY <1>1 DEF Windows
<1>3. \A n \in 0 .. 7 : Later(x)[n] = x[(n + 1) % BUFFER_SIZE]
  BY <1>1 DEF Later
<1>4. Alternating(x) <=> \A n \in 0 .. 7 : Later(x)[n] = 0 - x[n]
  BY <1>1, <1>2, <1>3 DEF Alternating
<1>5. \A n \in 0 .. 6 : Later(x)[n] = x[n + 1]
  BY LaterFacts
<1>6. Later(x)[7] = x[0]
  BY LaterFacts
<1> DEFINE y == Later(x)
<1>7. /\ y[0] = x[1] /\ y[1] = x[2] /\ y[2] = x[3] /\ y[3] = x[4]
      /\ y[4] = x[5] /\ y[5] = x[6] /\ y[6] = x[7] /\ y[7] = x[0]
  BY <1>5, <1>6
<1> HIDE DEF y
<1>8. Alternating(x) <=> \A n \in 0 .. 7 : y[n] = 0 - x[n]
  BY <1>4 DEF y
<1>9. \A n \in 0 .. 7 : n = 0 \/ n = 1 \/ n = 2 \/ n = 3 \/ n = 4 \/ n = 5 \/ n = 6 \/ n = 7
  OBVIOUS
<1>10. (\A n \in 0 .. 7 : y[n] = 0 - x[n]) <=>
              /\ y[0] = 0 - x[0] /\ y[1] = 0 - x[1] /\ y[2] = 0 - x[2] /\ y[3] = 0 - x[3]
              /\ y[4] = 0 - x[4] /\ y[5] = 0 - x[5] /\ y[6] = 0 - x[6] /\ y[7] = 0 - x[7]
  BY <1>9
<1> QED BY <1>7, <1>8, <1>10

\* Samples of which bins 0, 1 and 2 hold nothing.
LEMMA SilentSamples ==
    ASSUME NEW a \in Int, NEW b \in Int, NEW c \in Int, NEW d \in Int,
           NEW e \in Int, NEW f \in Int, NEW g \in Int, NEW h \in Int,
           a - e = 0, h - d = 0, g - c = 0, f - b = 0,
           a + e - c - g = 0, d + h - b - f = 0, a + b + c + d + e + f + g + h = 0
    PROVE  /\ b = 0 - a /\ c = 0 - b /\ d = 0 - c /\ e = 0 - d
           /\ f = 0 - e /\ g = 0 - f /\ h = 0 - g /\ a = 0 - h
<1>1. e = a /\ h = d /\ g = c /\ f = b
  BY SMT
<1>2. a = c /\ b = d
  BY SMT, <1>1
<1>3. b = 0 - a
  BY SMT, <1>1, <1>2
<1> QED BY SMT, <1>1, <1>2, <1>3

LEMMA ZeroOrAlternating ==
    ASSUME BUFFER_SIZE = 8, NEW x \in Windows
    PROVE  compute_phasor(x).value = Scalar(0) <=> Alternating(x)
<1> DEFINE X(m) == fft(x)[m]
           None == [p |-> 0, q |-> 0]
<1>0. Powers = 0 .. 3
  BY Eight
<1>1. /\ \A m \in 0 .. 3 : X(m) \in [0 .. 3 -> Int]
      /\ X(0)[0] = x[0] + x[1] + x[2] + x[3] + x[4] + x[5] + x[6] + x[7]
      /\ X(0)[1] = 0 /\ X(0)[2] = 0 /\ X(0)[3] = 0
      /\ X(1)[0] = x[0] - x[4] /\ X(1)[1] = x[7] - x[3]
      /\ X(1)[2] = x[6] - x[2] /\ X(1)[3] = x[5] - x[1]
      /\ X(2)[0] = x[0] + x[4] - x[2] - x[6] /\ X(2)[1] = 0
      /\ X(2)[2] = x[3] + x[7] - x[1] - x[5] /\ X(2)[3] = 0
      /\ X(3)[0] = x[0] - x[4] /\ X(3)[1] = x[5] - x[1]
      /\ X(3)[2] = x[2] - x[6] /\ X(3)[3] = x[7] - x[3]
  BY Spectrum
<1>2. /\ x[0] \in Int /\ x[1] \in Int /\ x[2] \in Int /\ x[3] \in Int
      /\ x[4] \in Int /\ x[5] \in Int /\ x[6] \in Int /\ x[7] \in Int
  BY Spectrum
<1>3. PICK m \in 0 .. 3 : /\ FirstStrongest(x, m)
                          /\ compute_phasor(x) = [bin |-> m, value |-> X(m)]
  BY PhasorIs
<1> HIDE DEF X
<1>4. ASSUME X(m) = Scalar(0) PROVE Alternating(x)
  <2>1. \A c \in 0 .. 3 : X(m)[c] = 0
    BY <1>0, <1>4 DEF Scalar
  <2>2. SquaredMagnitude(X(m)) = None
    <3> DEFINE a == X(m)
    <3>1. a[0] = 0 /\ a[1] = 0 /\ a[2] = 0 /\ a[3] = 0
      BY <2>1
    <3> HIDE DEF a
    <3>2. SquaredMagnitude(a) = None
      BY <3>1 DEF SquaredMagnitude
    <3> QED BY <3>2 DEF a
  <2>3. \A k \in 0 .. 3 : ~Exceeds(SquaredMagnitude(X(k)), None)
    BY <1>3, <2>2 DEF FirstStrongest, Strength, X
  <2> HIDE DEF None
  <2>4. X(0) \in [0 .. 3 -> Int] /\ X(2) \in [0 .. 3 -> Int]
        /\ X(1) \in [0 .. 3 -> Int] /\ X(3) \in [0 .. 3 -> Int]
        /\ ~Exceeds(SquaredMagnitude(X(0)), None) /\ ~Exceeds(SquaredMagnitude(X(2)), None)
        /\ ~Exceeds(SquaredMagnitude(X(1)), None) /\ ~Exceeds(SquaredMagnitude(X(3)), None)
    BY <1>1, <2>3
  <2>5. X(0)[0] = 0
    BY <1>1, <2>4, LoneIsNothing DEF None
  <2>6. X(2)[0] = 0 /\ X(2)[2] = 0
    BY <1>1, <2>4, LoneIsNothing DEF None
  <2>7. X(1)[0] = 0 /\ X(1)[1] = 0 /\ X(1)[2] = 0 /\ X(1)[3] = 0
    <3>1. X(3)[0] = X(1)[0] /\ X(3)[1] = X(1)[3] /\ X(3)[2] = 0 - X(1)[2] /\ X(3)[3] = X(1)[1]
      BY <1>1, <1>2
    <3> DEFINE a == X(1)
               b == X(3)
    <3>2. /\ a \in [0 .. 3 -> Int] /\ b \in [0 .. 3 -> Int]
          /\ b[0] = a[0] /\ b[1] = a[3] /\ b[2] = 0 - a[2] /\ b[3] = a[1]
          /\ ~Exceeds(SquaredMagnitude(a), None) /\ ~Exceeds(SquaredMagnitude(b), None)
      BY <2>4, <3>1
    <3> HIDE DEF a, b
    <3>3. a[0] = 0 /\ a[1] = 0 /\ a[2] = 0 /\ a[3] = 0
      BY <3>2, WeakIsNothing DEF None
    <3> QED BY <3>3 DEF a
  <2>8. /\ x[0] - x[4] = 0 /\ x[7] - x[3] = 0 /\ x[6] - x[2] = 0 /\ x[5] - x[1] = 0
        /\ x[0] + x[4] - x[2] - x[6] = 0 /\ x[3] + x[7] - x[1] - x[5] = 0
        /\ x[0] + x[1] + x[2] + x[3] + x[4] + x[5] + x[6] + x[7] = 0
    BY Zenon, <1>1, <2>5, <2>6, <2>7
  <2>9. /\ x[1] = 0 - x[0] /\ x[2] = 0 - x[1] /\ x[3] = 0 - x[2] /\ x[4] = 0 - x[3]
        /\ x[5] = 0 - x[4] /\ x[6] = 0 - x[5] /\ x[7] = 0 - x[6] /\ x[0] = 0 - x[7]
    <3> DEFINE a == x[0]
               b == x[1]
               c == x[2]
               d == x[3]
               e == x[4]
               f == x[5]
               g == x[6]
               h == x[7]
    <3>1. /\ a \in Int /\ b \in Int /\ c \in Int /\ d \in Int
          /\ e \in Int /\ f \in Int /\ g \in Int /\ h \in Int
      BY <1>2
    <3>2. /\ a - e = 0 /\ h - d = 0 /\ g - c = 0 /\ f - b = 0
          /\ a + e - c - g = 0 /\ d + h - b - f = 0 /\ a + b + c + d + e + f + g + h = 0
      BY Zenon, <2>8
    <3> HIDE DEF a, b, c, d, e, f, g, h
    <3>3. /\ b = 0 - a /\ c = 0 - b /\ d = 0 - c /\ e = 0 - d
          /\ f = 0 - e /\ g = 0 - f /\ h = 0 - g /\ a = 0 - h
      BY <3>1, <3>2, SilentSamples
    <3> QED BY Zenon, <3>3 DEF a, b, c, d, e, f, g, h
  <2> QED BY Zenon, <2>9, AlternatingFacts
<1>5. ASSUME Alternating(x) PROVE X(m) = Scalar(0)
  <2>1. /\ x[1] = 0 - x[0] /\ x[2] = x[0] /\ x[3] = 0 - x[0] /\ x[4] = x[0]
        /\ x[5] = 0 - x[0] /\ x[6] = x[0] /\ x[7] = 0 - x[0]
    BY <1>2, <1>5, AlternatingFacts
  <2>2. /\ X(0)[0] = 0 /\ X(1)[0] = 0 /\ X(1)[1] = 0 /\ X(1)[2] = 0 /\ X(1)[3] = 0
        /\ X(2)[0] = 0 /\ X(2)[2] = 0
        /\ X(3)[0] = 0 /\ X(3)[1] = 0 /\ X(3)[2] = 0 /\ X(3)[3] = 0
    <3> DEFINE v == x[0]
               w == 0 - v
    <3>1. /\ v \in Int /\ w = 0 - v /\ v - v = 0 /\ w - w = 0 /\ v + v - v - v = 0
          /\ w + w - w - w = 0 /\ v + w + v + w + v + w + v + w = 0
      BY <1>2
    <3>2. /\ x[0] = v /\ x[1] = w /\ x[2] = v /\ x[3] = w
          /\ x[4] = v /\ x[5] = w /\ x[6] = v /\ x[7] = w
      BY <2>1
    <3> HIDE DEF v, w
    <3> QED BY Zenon, <1>1, <3>1, <3>2
  <2>3. m = 0 \/ m = 1 \/ m = 2 \/ m = 3
    OBVIOUS
  <2>4. X(m)[0] = 0 /\ X(m)[1] = 0 /\ X(m)[2] = 0 /\ X(m)[3] = 0
    BY <1>1, <2>2, <2>3
  <2> DEFINE a == X(m)
  <2>5. a[0] = 0 /\ a[1] = 0 /\ a[2] = 0 /\ a[3] = 0 /\ a \in Ring
    BY <1>0, <1>1, <2>4 DEF Ring
  <2> HIDE DEF a
  <2>6. \A c \in Powers : a[c] = Scalar(0)[c]
    <3>1. \A c \in Powers : Scalar(0)[c] = 0 /\ (c = 0 \/ c = 1 \/ c = 2 \/ c = 3)
      BY <1>0 DEF Scalar
    <3> QED BY <2>5, <3>1
  <2>7. a = Scalar(0)
    BY <2>5, <2>6, RingTypes, RingEqual
  <2> QED BY <2>7 DEF a
<1> QED BY <1>3, <1>4, <1>5

(* The phasor of a window of 8 samples, of any size, is zero only if the      *)
(* window holds nothing but half the sampling rate (compute_phasor searches   *)
(* the bins below it).                                                        *)
THEOREM NothingBelowHalfIsUnseen ==
    ASSUME BUFFER_SIZE = 8 PROVE PhasorSpec => []NothingUnseen
<1>1. PhasorInv => NothingUnseen
  <2>1. ASSUME PhasorInv, Estimated
        PROVE  phasor.value = Scalar(0) <=> Alternating(buffer)
    <3>1. buffer \in Windows /\ phasor = compute_phasor(buffer)
      BY <2>1, WindowType DEF PhasorInv
    <3> QED BY <3>1, ZeroOrAlternating
  <2> QED BY <2>1 DEF NothingUnseen
<1> QED BY <1>1, PhasorOfWindow, PTL
-----------------------------------------------------------------------------
(* One bad sample.                                                            *)
LEMMA FundamentalSamples ==
    ASSUME BUFFER_SIZE = 8
    PROVE  /\ Fundamental[0] = 1 /\ Fundamental[1] = 1 /\ Fundamental[2] = 0
           /\ Fundamental[3] = 0 - 1 /\ Fundamental[4] = 0 - 1 /\ Fundamental[5] = 0 - 1
           /\ Fundamental[6] = 0 /\ Fundamental[7] = 1
<1> DEFINE t == <<1, 1, 0, -1, -1, -1, 0, 1>>
<1>1. \A n \in 0 .. 7 : Fundamental[n] = t[n + 1]
  BY Eight DEF Fundamental
<1>2. /\ t[0 + 1] = 1 /\ t[1 + 1] = 1 /\ t[2 + 1] = 0 /\ t[3 + 1] = 0 - 1 /\ t[4 + 1] = 0 - 1
      /\ t[5 + 1] = 0 - 1 /\ t[6 + 1] = 0 /\ t[7 + 1] = 1
  OBVIOUS
<1> HIDE DEF t
<1> QED BY <1>1, <1>2

\* One sample of x, at most, is not the one of good, and off by one.
OffByOne(x, good) ==
    \E n \in Columns : /\ x[n] - good[n] \in {-1, 0, 1}
                       /\ \A m \in Columns \ {n} : x[m] = good[m]

\* The first bin of the disturbed fundamental, and the others.
LEMMA FundamentalStrong ==
    ASSUME NEW a \in Int, NEW b \in Int, NEW c \in Int, NEW d \in Int, NEW e \in Int,
           e \in {0 - 1, 0, 1},
           \/ a = 2 + e /\ b = 2 /\ c = 0 /\ d = 0 - 2
           \/ a = 2 /\ b = 2 + e /\ c = 0 /\ d = 0 - 2
           \/ a = 2 /\ b = 2 /\ c = e /\ d = 0 - 2
           \/ a = 2 /\ b = 2 /\ c = 0 /\ d = e - 2
    PROVE  /\ a * a + b * b + c * c + d * d > 1
           /\ a * b + b * c + c * d - a * d > 0
<1>1. e = 0 - 1 \/ e = 0 \/ e = 1
  OBVIOUS
<1>2. CASE e = 0
  BY SMT, <1>2
<1>3. CASE e = 1
  BY SMT, <1>3
<1>4. CASE e = 0 - 1
  BY SMT, <1>4
<1> QED BY <1>1, <1>2, <1>3, <1>4

LEMMA DisturbedSamples ==
    ASSUME NEW a \in Int, NEW b \in Int, NEW c \in Int, NEW d \in Int,
           NEW e \in Int, NEW f \in Int, NEW g \in Int, NEW h \in Int,
           NEW v \in {0 - 1, 0, 1},
           \E n \in 0 .. 7 :
              /\ a = 1 + (IF n = 0 THEN v ELSE 0)
              /\ b = 1 + (IF n = 1 THEN v ELSE 0)
              /\ c = 0 + (IF n = 2 THEN v ELSE 0)
              /\ d = (0 - 1) + (IF n = 3 THEN v ELSE 0)
              /\ e = (0 - 1) + (IF n = 4 THEN v ELSE 0)
              /\ f = (0 - 1) + (IF n = 5 THEN v ELSE 0)
              /\ g = 0 + (IF n = 6 THEN v ELSE 0)
              /\ h = 1 + (IF n = 7 THEN v ELSE 0)
    PROVE  /\ \E w \in {0 - 1, 0, 1} :
                 \/ a - e = 2 + w /\ h - d = 2 /\ g - c = 0 /\ f - b = 0 - 2
                 \/ a - e = 2 /\ h - d = 2 + w /\ g - c = 0 /\ f - b = 0 - 2
                 \/ a - e = 2 /\ h - d = 2 /\ g - c = w /\ f - b = 0 - 2
                 \/ a - e = 2 /\ h - d = 2 /\ g - c = 0 /\ f - b = w - 2
           /\ a + b + c + d + e + f + g + h \in {0 - 1, 0, 1}
           /\ a + e - c - g \in {0 - 1, 0, 1} /\ d + h - b - f \in {0 - 1, 0, 1}
           /\ a + e - c - g = 0 \/ d + h - b - f = 0
<1> DEFINE w == 0 - v
<1>1. v \in Int /\ w \in {0 - 1, 0, 1} /\ w = 0 - v
  OBVIOUS
<1>2. PICK n \in 0 .. 7 :
              /\ a = 1 + (IF n = 0 THEN v ELSE 0)
              /\ b = 1 + (IF n = 1 THEN v ELSE 0)
              /\ c = 0 + (IF n = 2 THEN v ELSE 0)
              /\ d = (0 - 1) + (IF n = 3 THEN v ELSE 0)
              /\ e = (0 - 1) + (IF n = 4 THEN v ELSE 0)
              /\ f = (0 - 1) + (IF n = 5 THEN v ELSE 0)
              /\ g = 0 + (IF n = 6 THEN v ELSE 0)
              /\ h = 1 + (IF n = 7 THEN v ELSE 0)
  OBVIOUS
<1> HIDE DEF w
<1>3. n = 0 \/ n = 1 \/ n = 2 \/ n = 3 \/ n = 4 \/ n = 5 \/ n = 6 \/ n = 7
  OBVIOUS
<1>4. CASE n = 0
  BY <1>1, <1>2, <1>4
<1>5. CASE n = 1
  BY <1>1, <1>2, <1>5
<1>6. CASE n = 2
  BY <1>1, <1>2, <1>6
<1>7. CASE n = 3
  BY <1>1, <1>2, <1>7
<1>8. CASE n = 4
  BY <1>1, <1>2, <1>8
<1>9. CASE n = 5
  BY <1>1, <1>2, <1>9
<1>10. CASE n = 6
  BY <1>1, <1>2, <1>10
<1>11. CASE n = 7
  BY <1>1, <1>2, <1>11
<1> QED BY <1>3, <1>4, <1>5, <1>6, <1>7, <1>8, <1>9, <1>10, <1>11

LEMMA DisturbedFundamental ==
    ASSUME BUFFER_SIZE = 8, NEW x \in Windows, OffByOne(x, Fundamental)
    PROVE  compute_phasor(x).bin = 1
<1> DEFINE X(m) == fft(x)[m]
<1>1. /\ \A m \in 0 .. 3 : X(m) \in [0 .. 3 -> Int]
      /\ X(0)[0] = x[0] + x[1] + x[2] + x[3] + x[4] + x[5] + x[6] + x[7]
      /\ X(0)[1] = 0 /\ X(0)[2] = 0 /\ X(0)[3] = 0
      /\ X(1)[0] = x[0] - x[4] /\ X(1)[1] = x[7] - x[3]
      /\ X(1)[2] = x[6] - x[2] /\ X(1)[3] = x[5] - x[1]
      /\ X(2)[0] = x[0] + x[4] - x[2] - x[6] /\ X(2)[1] = 0
      /\ X(2)[2] = x[3] + x[7] - x[1] - x[5] /\ X(2)[3] = 0
      /\ X(3)[0] = x[0] - x[4] /\ X(3)[1] = x[5] - x[1]
      /\ X(3)[2] = x[2] - x[6] /\ X(3)[3] = x[7] - x[3]
  BY Spectrum
<1>2. /\ x[0] \in Int /\ x[1] \in Int /\ x[2] \in Int /\ x[3] \in Int
      /\ x[4] \in Int /\ x[5] \in Int /\ x[6] \in Int /\ x[7] \in Int
  BY Spectrum
<1> HIDE DEF X
<1> DEFINE a == X(1)
           b == X(3)
           s == X(0)[0]
           u == X(2)[0]
           t == X(2)[2]
           p == a[0] * a[0] + a[1] * a[1] + a[2] * a[2] + a[3] * a[3]
           q == a[0] * a[1] + a[1] * a[2] + a[2] * a[3] - a[0] * a[3]
<1>3. /\ a \in [0 .. 3 -> Int]
      /\ \E w \in {0 - 1, 0, 1} :
            \/ a[0] = 2 + w /\ a[1] = 2 /\ a[2] = 0 /\ a[3] = 0 - 2
            \/ a[0] = 2 /\ a[1] = 2 + w /\ a[2] = 0 /\ a[3] = 0 - 2
            \/ a[0] = 2 /\ a[1] = 2 /\ a[2] = w /\ a[3] = 0 - 2
            \/ a[0] = 2 /\ a[1] = 2 /\ a[2] = 0 /\ a[3] = w - 2
      /\ s \in {0 - 1, 0, 1} /\ u \in {0 - 1, 0, 1} /\ t \in {0 - 1, 0, 1}
      /\ u = 0 \/ t = 0
  <2>1. PICK n \in 0 .. 7 : /\ x[n] - Fundamental[n] \in {-1, 0, 1}
                            /\ \A m \in (0 .. 7) \ {n} : x[m] = Fundamental[m]
    BY Eight DEF OffByOne
  <2> DEFINE v == x[n] - Fundamental[n]
             x0 == x[0]
             x1 == x[1]
             x2 == x[2]
             x3 == x[3]
             x4 == x[4]
             x5 == x[5]
             x6 == x[6]
             x7 == x[7]
  <2>2. v \in {0 - 1, 0, 1}
    BY <2>1
  <2>3. \A m \in 0 .. 7 : /\ x[m] \in Int /\ Fundamental[m] \in Int
                          /\ x[m] = Fundamental[m] + (IF n = m THEN v ELSE 0)
    <3>1. \A m \in 0 .. 7 : m = 0 \/ m = 1 \/ m = 2 \/ m = 3 \/ m = 4 \/ m = 5 \/ m = 6 \/ m = 7
      OBVIOUS
    <3>2. \A m \in 0 .. 7 : Fundamental[m] \in Int
      BY <3>1, FundamentalSamples
    <3>3. \A m \in 0 .. 7 : x[m] \in Int
      BY <1>2, <3>1
    <3> QED BY <2>1, <3>2, <3>3
  <2> HIDE DEF v
  <2>4. /\ x0 = 1 + (IF n = 0 THEN v ELSE 0)
        /\ x1 = 1 + (IF n = 1 THEN v ELSE 0)
        /\ x2 = 0 + (IF n = 2 THEN v ELSE 0)
        /\ x3 = (0 - 1) + (IF n = 3 THEN v ELSE 0)
        /\ x4 = (0 - 1) + (IF n = 4 THEN v ELSE 0)
        /\ x5 = (0 - 1) + (IF n = 5 THEN v ELSE 0)
        /\ x6 = 0 + (IF n = 6 THEN v ELSE 0)
        /\ x7 = 1 + (IF n = 7 THEN v ELSE 0)
    BY <2>3, FundamentalSamples
  <2>5. /\ x0 \in Int /\ x1 \in Int /\ x2 \in Int /\ x3 \in Int
        /\ x4 \in Int /\ x5 \in Int /\ x6 \in Int /\ x7 \in Int
    BY <1>2
  <2>6. /\ a \in [0 .. 3 -> Int] /\ s = x0 + x1 + x2 + x3 + x4 + x5 + x6 + x7
        /\ u = x0 + x4 - x2 - x6 /\ t = x3 + x7 - x1 - x5
        /\ a[0] = x0 - x4 /\ a[1] = x7 - x3 /\ a[2] = x6 - x2 /\ a[3] = x5 - x1
    BY <1>1
  <2> HIDE DEF a, s, u, t, x0, x1, x2, x3, x4, x5, x6, x7
  <2>7. /\ \E w \in {0 - 1, 0, 1} :
              \/ x0 - x4 = 2 + w /\ x7 - x3 = 2 /\ x6 - x2 = 0 /\ x5 - x1 = 0 - 2
              \/ x0 - x4 = 2 /\ x7 - x3 = 2 + w /\ x6 - x2 = 0 /\ x5 - x1 = 0 - 2
              \/ x0 - x4 = 2 /\ x7 - x3 = 2 /\ x6 - x2 = w /\ x5 - x1 = 0 - 2
              \/ x0 - x4 = 2 /\ x7 - x3 = 2 /\ x6 - x2 = 0 /\ x5 - x1 = w - 2
        /\ x0 + x1 + x2 + x3 + x4 + x5 + x6 + x7 \in {0 - 1, 0, 1}
        /\ x0 + x4 - x2 - x6 \in {0 - 1, 0, 1} /\ x3 + x7 - x1 - x5 \in {0 - 1, 0, 1}
        /\ x0 + x4 - x2 - x6 = 0 \/ x3 + x7 - x1 - x5 = 0
    BY <2>2, <2>4, <2>5, DisturbedSamples
  <2> QED BY Zenon, <2>6, <2>7
<1>4. /\ p > 1 /\ q > 0 /\ p \in Int /\ q \in Int
  <2> DEFINE a0 == a[0]
             a1 == a[1]
             a2 == a[2]
             a3 == a[3]
  <2>1. PICK w \in {0 - 1, 0, 1} :
            \/ a0 = 2 + w /\ a1 = 2 /\ a2 = 0 /\ a3 = 0 - 2
            \/ a0 = 2 /\ a1 = 2 + w /\ a2 = 0 /\ a3 = 0 - 2
            \/ a0 = 2 /\ a1 = 2 /\ a2 = w /\ a3 = 0 - 2
            \/ a0 = 2 /\ a1 = 2 /\ a2 = 0 /\ a3 = w - 2
    BY <1>3
  <2>2. a0 \in Int /\ a1 \in Int /\ a2 \in Int /\ a3 \in Int /\ w \in Int
    BY <1>3
  <2> HIDE DEF a0, a1, a2, a3
  <2>3. /\ a0 * a0 + a1 * a1 + a2 * a2 + a3 * a3 > 1
        /\ a0 * a1 + a1 * a2 + a2 * a3 - a0 * a3 > 0
    BY <2>1, <2>2, FundamentalStrong
  <2>4. /\ a0 * a0 + a1 * a1 + a2 * a2 + a3 * a3 \in Int
        /\ a0 * a1 + a1 * a2 + a2 * a3 - a0 * a3 \in Int
    BY SMT, <2>2
  <2> QED BY Zenon, <2>3, <2>4 DEF a0, a1, a2, a3
<1>5. Strength(x, 1) = [p |-> p, q |-> q]
  BY DEF Strength, SquaredMagnitude, X
<1>6. Strength(x, 3) = [p |-> p, q |-> 0 - q]
  <2>1. /\ b[0] = a[0] /\ b[1] = a[3] /\ b[2] = 0 - a[2] /\ b[3] = a[1]
        /\ a[0] \in Int /\ a[1] \in Int /\ a[2] \in Int /\ a[3] \in Int
    BY <1>1, <1>2
  <2>2. Strength(x, 3) = SquaredMagnitude(b)
    BY DEF Strength, X
  <2> HIDE DEF a, b
  <2>3. b[0] * b[0] + b[1] * b[1] + b[2] * b[2] + b[3] * b[3] = p
    BY SMT, <2>1
  <2>4. b[0] * b[1] + b[1] * b[2] + b[2] * b[3] - b[0] * b[3] = 0 - q
    BY SMT, <2>1
  <2> HIDE DEF p, q
  <2> QED BY <2>2, <2>3, <2>4 DEF SquaredMagnitude
<1>7. \E m \in {0, 1} : Strength(x, 0) = [p |-> m, q |-> 0]
  <2> DEFINE d == X(0)
  <2>1. d[0] \in {0 - 1, 0, 1} /\ d[1] = 0 /\ d[2] = 0 /\ d[3] = 0
    BY <1>1, <1>3
  <2>2. Strength(x, 0) = SquaredMagnitude(d)
    BY DEF Strength, X
  <2> HIDE DEF d
  <2>3. d[0] = 0 - 1 \/ d[0] = 0 \/ d[0] = 1
    BY <2>1
  <2>4. d[0] * d[0] + d[1] * d[1] + d[2] * d[2] + d[3] * d[3] \in {0, 1}
    BY SMT, <2>1, <2>3
  <2>5. d[0] * d[1] + d[1] * d[2] + d[2] * d[3] - d[0] * d[3] = 0
    BY SMT, <2>1, <2>3
  <2> QED BY <2>2, <2>4, <2>5 DEF SquaredMagnitude
<1>8. \E m \in {0, 1} : Strength(x, 2) = [p |-> m, q |-> 0]
  <2> DEFINE d == X(2)
  <2>1. /\ d[0] \in {0 - 1, 0, 1} /\ d[1] = 0 /\ d[2] \in {0 - 1, 0, 1} /\ d[3] = 0
        /\ d[0] = 0 \/ d[2] = 0
    BY <1>1, <1>3
  <2>2. Strength(x, 2) = SquaredMagnitude(d)
    BY DEF Strength, X
  <2> HIDE DEF d
  <2>3. (d[0] = 0 - 1 \/ d[0] = 0 \/ d[0] = 1) /\ (d[2] = 0 - 1 \/ d[2] = 0 \/ d[2] = 1)
    BY <2>1
  <2>4. d[0] * d[0] + d[1] * d[1] + d[2] * d[2] + d[3] * d[3] \in {0, 1}
    BY SMT, <2>1, <2>3
  <2>5. d[0] * d[1] + d[1] * d[2] + d[2] * d[3] - d[0] * d[3] = 0
    BY SMT, <2>1, <2>3
  <2> QED BY <2>2, <2>4, <2>5 DEF SquaredMagnitude
<1> HIDE DEF p, q
<1>9. \A m \in {0, 1} : Exceeds([p |-> p, q |-> q], [p |-> m, q |-> 0])
  <2>1. \A m \in {0, 1} : p - m > 0 /\ q - 0 >= 0
    BY <1>4
  <2> QED BY <2>1 DEF Exceeds
<1>10. Exceeds([p |-> p, q |-> q], [p |-> p, q |-> 0 - q])
  <2>1. p - p = 0 /\ q - (0 - q) > 0
    BY <1>4
  <2> QED BY <2>1 DEF Exceeds
<1>11. \A o \in (0 .. 3) \ {1} : Exceeds(Strength(x, 1), Strength(x, o))
  <2>1. \A o \in (0 .. 3) \ {1} : o = 0 \/ o = 2 \/ o = 3
    OBVIOUS
  <2> QED BY <1>5, <1>6, <1>7, <1>8, <1>9, <1>10, <2>1
<1>12. \A o \in 0 .. 3 : Strength(x, o) \in Magnitudes
  BY Spectrum, MagnitudeType DEF Strength
<1>13. FirstStrongest(x, 1)
  BY <1>11, <1>12, ExceedsIsOrder DEF FirstStrongest
<1> QED BY <1>13, PhasorIs

Earlier(x) == [n \in Columns |-> IF n = 0 THEN x[7] ELSE x[n - 1]]

LEMMA EarlierFacts ==
    ASSUME BUFFER_SIZE = 8, NEW x \in Windows
    PROVE  Earlier(x) \in Windows /\ Later(Earlier(x)) = x
<1>0. Columns = 0 .. 7
  BY Eight
<1> DEFINE y == Earlier(x)
           z == Later(y)
<1>1. \A n \in 0 .. 7 : y[n] = IF n = 0 THEN x[7] ELSE x[n - 1]
  BY <1>0 DEF Earlier
<1>2. y \in Windows
  <2>1. \A n \in 0 .. 7 : x[n] \in Int
    BY <1>0 DEF Windows
  <2>2. \A n \in 0 .. 7 : (IF n = 0 THEN x[7] ELSE x[n - 1]) \in Int
    BY <2>1
  <2> QED BY <1>0, <2>2 DEF Earlier, Windows
<1> HIDE DEF y
<1>3. z \in Windows /\ (\A n \in 0 .. 6 : z[n] = y[n + 1]) /\ z[7] = y[0]
  BY <1>2, LaterFacts
<1> HIDE DEF z
<1>4. \A n \in 0 .. 6 : y[n + 1] = x[n]
  BY <1>1
<1>5. y[0] = x[7]
  BY <1>1
<1>6. \A n \in 0 .. 7 : z[n] = x[n]
  <2>1. \A n \in 0 .. 7 : n \in 0 .. 6 \/ n = 7
    OBVIOUS
  <2> QED BY <1>3, <1>4, <1>5, <2>1
<1>7. z = x
  BY <1>0, <1>3, <1>6 DEF Windows
<1> QED BY <1>2, <1>7 DEF y, z

LEMMA DelayedFacts ==
    ASSUME BUFFER_SIZE = 8, NEW r \in Nat
    PROVE  /\ Delayed(Fundamental, 0) = Fundamental
           /\ Delayed(Fundamental, r) = Earlier(Delayed(Fundamental, r + 1))
<1>0. Columns = 0 .. 7 /\ 8 \in Nat \ {0}
  BY Eight
<1>1. Delayed(Fundamental, 0) = Fundamental
  <2>1. \A n \in 0 .. 7 : n + 0 \in 0 .. 24 /\ n + 0 = n /\ n < 8
    OBVIOUS
  <2>2. \A n \in 0 .. 7 : (n + 0) % 8 = n
    BY <2>1, ModuloEight
  <2>3. Delayed(Fundamental, 0) = [n \in 0 .. 7 |-> Fundamental[n]]
    BY <1>0, <2>2 DEF Delayed
  <2>4. Fundamental = [n \in 0 .. 7 |-> Fundamental[n]]
    BY <1>0 DEF Fundamental
  <2> QED BY <2>3, <2>4
<1>2. (7 + (r + 1)) % 8 = r % 8
  <2> DEFINE q == r \div 8
             j == r % 8
  <2>1. j \in Int /\ 0 <= j /\ j < 8 /\ q \in Int /\ j = r - 8 * q
    BY <1>0, Division
  <2> HIDE DEF q, j
  <2>2. q + 1 \in Int /\ 7 + (r + 1) \in Int /\ 7 + (r + 1) = 8 * (q + 1) + j
    BY <2>1
  <2> DEFINE i == 7 + (r + 1)
             p == q + 1
  <2>3. i \in Int /\ p \in Int /\ i = 8 * p + j
    BY <2>2
  <2> HIDE DEF i, p
  <2>4. i % 8 = j
    BY <1>0, <2>1, <2>3, DivisionUnique
  <2> QED BY <2>4 DEF i, j
<1> DEFINE g == Delayed(Fundamental, r + 1)
           F == Fundamental
<1>3. \A n \in 0 .. 7 : g[n] = F[(n + (r + 1)) % 8]
  BY <1>0 DEF Delayed
<1>4. Delayed(Fundamental, r) = [n \in 0 .. 7 |-> F[(n + r) % 8]]
  BY <1>0 DEF Delayed
<1>5. Earlier(g) = [n \in 0 .. 7 |-> IF n = 0 THEN g[7] ELSE g[n - 1]]
  BY <1>0 DEF Earlier
<1> HIDE DEF g, F
<1>6. ASSUME NEW n \in 0 .. 7
      PROVE  F[(n + r) % 8] = IF n = 0 THEN g[7] ELSE g[n - 1]
  <2>1. CASE n = 0
    <3>1. n + r = r /\ 7 \in 0 .. 7
      BY <2>1
    <3> QED BY <1>2, <1>3, <2>1, <3>1
  <2>2. CASE n # 0
    <3>1. n - 1 \in 0 .. 7 /\ (n - 1) + (r + 1) = n + r
      BY <2>2
    <3> QED BY <1>3, <2>2, <3>1
  <2> QED BY <2>1, <2>2
<1>7. Delayed(Fundamental, r) = Earlier(g)
  BY <1>4, <1>5, <1>6
<1> QED BY <1>1, <1>7 DEF g

LEMMA OffByOneEarlier ==
    ASSUME BUFFER_SIZE = 8, NEW x, NEW good, OffByOne(x, good)
    PROVE  OffByOne(Earlier(x), Earlier(good))
<1>0. Columns = 0 .. 7
  BY Eight
<1>1. PICK n \in 0 .. 7 : /\ x[n] - good[n] \in {-1, 0, 1}
                          /\ \A m \in (0 .. 7) \ {n} : x[m] = good[m]
  BY <1>0 DEF OffByOne
<1> DEFINE k == IF n = 7 THEN 0 ELSE n + 1
           b(m) == IF m = 0 THEN 7 ELSE m - 1
<1>2. /\ k \in 0 .. 7 /\ b(k) = n
      /\ \A m \in (0 .. 7) \ {k} : b(m) \in (0 .. 7) \ {n}
  OBVIOUS
<1>3. \A m \in 0 .. 7 : Earlier(x)[m] = x[b(m)] /\ Earlier(good)[m] = good[b(m)]
  BY <1>0 DEF Earlier
<1> HIDE DEF k, b
<1>4. Earlier(x)[k] - Earlier(good)[k] \in {-1, 0, 1}
  BY <1>1, <1>2, <1>3
<1>5. \A m \in (0 .. 7) \ {k} : Earlier(x)[m] = Earlier(good)[m]
  BY <1>1, <1>2, <1>3
<1> QED BY <1>0, <1>2, <1>4, <1>5 DEF OffByOne

LEMMA DisturbedDelayed ==
    ASSUME BUFFER_SIZE = 8, NEW r \in Nat, NEW x \in Windows,
           OffByOne(x, Delayed(Fundamental, r))
    PROVE  compute_phasor(x).bin = 1
<1> DEFINE P == {i \in Nat : \A y \in Windows : OffByOne(y, Delayed(Fundamental, i))
                                                  => compute_phasor(y).bin = 1}
<1>1. 0 \in P
  BY DelayedFacts, DisturbedFundamental
<1>2. ASSUME NEW i \in P PROVE i + 1 \in P
  <2>1. ASSUME NEW y \in Windows, OffByOne(y, Delayed(Fundamental, i + 1))
        PROVE  compute_phasor(y).bin = 1
    <3> DEFINE w == Earlier(y)
    <3>1. w \in Windows /\ Later(w) = y
      BY EarlierFacts
    <3>2. OffByOne(w, Delayed(Fundamental, i))
      <4>1. Delayed(Fundamental, i) = Earlier(Delayed(Fundamental, i + 1))
        BY DelayedFacts
      <4> QED BY <2>1, <4>1, OffByOneEarlier
    <3> HIDE DEF w
    <3>3. compute_phasor(w).bin = 1
      BY <3>1, <3>2
    <3>4. compute_phasor(Later(w)).bin = compute_phasor(w).bin
      BY <3>1, LaterPhasor
    <3> QED BY <3>1, <3>3, <3>4
  <2>2. i + 1 \in Nat
    OBVIOUS
  <2> QED BY <2>1, <2>2
<1>3. P = Nat
  <2> HIDE DEF P
  <2>1. P \in SUBSET Nat
    BY DEF P
  <2> QED BY <1>1, <1>2, <2>1, SetInduction
<1>4. r \in P
  BY <1>3
<1> QED BY <1>4

(* A cycle of the fundamental with one disturbed sample, wherever the window  *)
(* starts, has its phasor in the fundamental's bin (compute_phasor of         *)
(* phasor.c).                                                                 *)
THEOREM BadSampleTolerated ==
    ASSUME BUFFER_SIZE = 8 PROVE PhasorSpec => []OneBadSampleTolerated
<1>1. PhasorInv => OneBadSampleTolerated
  <2> SUFFICES ASSUME PhasorInv, Estimated,
                      NEW r \in Columns, NEW n \in Columns,
                      LET good == Delayed(Fundamental, r)
                      IN  /\ buffer[n] - good[n] \in {-1, 0, 1}
                          /\ \A m \in Columns \ {n} : buffer[m] = good[m]
               PROVE  phasor.bin = 1
    BY DEF OneBadSampleTolerated
  <2>1. buffer \in Windows /\ phasor = compute_phasor(buffer)
    BY WindowType DEF PhasorInv
  <2>2. OffByOne(buffer, Delayed(Fundamental, r)) /\ r \in Nat
    <3>1. r \in Nat
      BY Eight
    <3> QED BY <3>1 DEF OffByOne
  <2> QED BY <2>1, <2>2, DisturbedDelayed
<1> QED BY <1>1, PhasorOfWindow, PTL
=============================================================================
