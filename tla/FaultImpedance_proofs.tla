------------------------ MODULE FaultImpedance_proofs ------------------------
(* Every unit in a fault's loop measures the impedance up to the fault, for    *)
(* every place on the line and every source behind the relay.                  *)
EXTENDS FaultImpedance, TLAPS

LEMMA Chosen == \A x : (CHOOSE y \in {x} : TRUE) = x
BY Zenon

\* The other phase of a fault between two.
LEMMA PartnerOf ==
    ASSUME NEW kind, NEW p, NEW q, Faulted[kind] = {p, q}, p # q
    PROVE  Partner(kind, p) = q /\ Partner(kind, q) = p
<1>1. \A r \in Faulted[kind] : r # p <=> r = q
  BY Zenon
<1>2. \A r \in Faulted[kind] : r # q <=> r = p
  BY Zenon
<1>3. Partner(kind, p) \in Faulted[kind] /\ Partner(kind, p) # p
  BY Zenon DEF Partner
<1>4. Partner(kind, q) \in Faulted[kind] /\ Partner(kind, q) # q
  BY Zenon DEF Partner
<1> QED BY <1>1, <1>2, <1>3, <1>4, Zenon

LEMMA Partners ==
    /\ \A k \in {"AB", "ABT"} : Partner(k, "A") = "B" /\ Partner(k, "B") = "A"
    /\ \A k \in {"BC", "BCT"} : Partner(k, "B") = "C" /\ Partner(k, "C") = "B"
    /\ \A k \in {"CA", "CAT"} : Partner(k, "C") = "A" /\ Partner(k, "A") = "C"
<1>1. ASSUME NEW k \in {"AB", "ABT"} PROVE Partner(k, "A") = "B" /\ Partner(k, "B") = "A"
  <2>1. Faulted[k] = {"A", "B"}
    BY DEF Faulted
  <2> QED BY <2>1, PartnerOf
<1>2. ASSUME NEW k \in {"BC", "BCT"} PROVE Partner(k, "B") = "C" /\ Partner(k, "C") = "B"
  <2>1. Faulted[k] = {"B", "C"}
    BY DEF Faulted
  <2> QED BY <2>1, PartnerOf
<1>3. ASSUME NEW k \in {"CA", "CAT"} PROVE Partner(k, "C") = "A" /\ Partner(k, "A") = "C"
  <2>1. Faulted[k] = {"C", "A"}
    BY DEF Faulted
  <2> QED BY <2>1, PartnerOf
<1> QED BY <1>1, <1>2, <1>3

\* The sum of the voltages of the two phases of a fault is the third's, negated.
LEMMA PairSum ==
    /\ Pair("ABT", "A") = <<0, -1>> /\ Pair("ABT", "B") = <<0, -1>>
    /\ Pair("BCT", "B") = <<-1, 0>> /\ Pair("BCT", "C") = <<-1, 0>>
    /\ Pair("CAT", "C") = <<1, 1>> /\ Pair("CAT", "A") = <<1, 1>>
BY Partners DEF Pair, Plus, Healthy

\* Its drop is along the earth current's part of the line: K0_N times a voltage.
LEMMA Drops ==
    /\ EarthDrop("AT") = Scale(K0_N, <<1, 0>>)
    /\ EarthDrop("BT") = Scale(K0_N, <<-1, -1>>)
    /\ EarthDrop("CT") = Scale(K0_N, <<0, 1>>)
    /\ EarthDrop("ABT") = Scale(K0_N, <<0, -1>>)
    /\ EarthDrop("BCT") = Scale(K0_N, <<-1, 0>>)
    /\ EarthDrop("CAT") = Scale(K0_N, <<1, 1>>)
    /\ \A k \in Kinds \ (SinglePhase \cup TwoPhaseEarth) : EarthDrop(k) = Zero
<1> USE DEF Kinds, SinglePhase, TwoPhaseEarth, EarthDrop
<1>1. /\ EarthDrop("AT") = Scale(K0_N, <<1, 0>>)
      /\ EarthDrop("BT") = Scale(K0_N, <<-1, -1>>)
      /\ EarthDrop("CT") = Scale(K0_N, <<0, 1>>)
  <2>1. ASSUME NEW k \in SinglePhase, NEW p, Faulted[k] = {p}
        PROVE  EarthDrop(k) = Scale(K0_N, Healthy[p])
    <3>1. (CHOOSE q \in Faulted[k] : TRUE) = p
      BY <2>1, Chosen, Zenon
    <3> QED BY <2>1, <3>1, Zenon
  <2> QED BY <2>1 DEF Faulted, Healthy
<1>2. ASSUME NEW k \in TwoPhaseEarth, NEW p, NEW q, NEW v, Faulted[k] = {p, q},
             Pair(k, p) = v, Pair(k, q) = v
      PROVE  EarthDrop(k) = Scale(K0_N, v)
  <2>1. (CHOOSE r \in Faulted[k] : TRUE) \in {p, q}
    BY <1>2, Zenon
  <2>2. Pair(k, CHOOSE r \in Faulted[k] : TRUE) = v
    BY <1>2, <2>1, Zenon
  <2>3. k \notin SinglePhase
    OBVIOUS
  <2> QED BY <1>2, <2>2, <2>3, Zenon
<1>3. Faulted["ABT"] = {"A", "B"} /\ Faulted["BCT"] = {"B", "C"} /\ Faulted["CAT"] = {"C", "A"}
  BY DEF Faulted
<1>4. EarthDrop("ABT") = Scale(K0_N, <<0, -1>>)
  BY <1>2, <1>3, PairSum
<1>5. EarthDrop("BCT") = Scale(K0_N, <<-1, 0>>)
  BY <1>2, <1>3, PairSum
<1>6. EarthDrop("CAT") = Scale(K0_N, <<1, 1>>)
  BY <1>2, <1>3, PairSum
<1>7. \A k \in Kinds \ (SinglePhase \cup TwoPhaseEarth) : EarthDrop(k) = Zero
  BY Zenon
<1> QED BY <1>1, <1>4, <1>5, <1>6, <1>7

-----------------------------------------------------------------------------
\* The currents of the ten faults, phase by phase.
LEMMA EarthFaultCurrents ==
    /\ \A k \in SinglePhase : \A p \in Phases :
          FaultCurrent(k, p) = IF p \in Faulted[k] THEN Scale(K0_D, Healthy[p]) ELSE Zero
    /\ FaultCurrent("ABT", "A") = <<36, 11>> /\ FaultCurrent("ABT", "B") = <<-36, -25>>
    /\ FaultCurrent("ABT", "C") = Zero
    /\ FaultCurrent("BCT", "B") = <<-25, -36>> /\ FaultCurrent("BCT", "C") = <<11, 36>>
    /\ FaultCurrent("BCT", "A") = Zero
    /\ FaultCurrent("CAT", "C") = <<-11, 25>> /\ FaultCurrent("CAT", "A") = <<25, -11>>
    /\ FaultCurrent("CAT", "B") = Zero
<1>1. ASSUME NEW k \in TwoPhaseEarth, NEW p \in Phases
      PROVE  FaultCurrent(k, p) =
               IF p \in Faulted[k]
               THEN Minus(Scale(K0_D + 2 * K0_N, Healthy[p]), Scale(K0_N, Pair(k, p)))
               ELSE Zero
  BY DEF FaultCurrent, TwoPhaseEarth, SinglePhase, Isolated
<1>2. \A k \in SinglePhase : \A p \in Phases :
          FaultCurrent(k, p) = IF p \in Faulted[k] THEN Scale(K0_D, Healthy[p]) ELSE Zero
  BY DEF FaultCurrent, TwoPhaseEarth, SinglePhase, Isolated
<1> QED BY <1>1, <1>2, PairSum
        DEF TwoPhaseEarth, Phases, Faulted, Minus, Scale, Healthy, K0_D, K0_N, Zero

LEMMA OtherCurrents ==
    /\ \A p \in Phases : FaultCurrent("ABC", p) = Healthy[p]
    /\ FaultCurrent("AB", "A") = <<2, 1>> /\ FaultCurrent("AB", "B") = <<-2, -1>>
    /\ FaultCurrent("BC", "B") = <<-1, -2>> /\ FaultCurrent("BC", "C") = <<1, 2>>
    /\ FaultCurrent("CA", "C") = <<-1, 1>> /\ FaultCurrent("CA", "A") = <<1, -1>>
<1>1. ASSUME NEW k \in Isolated, NEW p \in Faulted[k]
      PROVE  FaultCurrent(k, p) = Minus(Healthy[p], Healthy[Partner(k, p)])
  BY DEF FaultCurrent, TwoPhaseEarth, SinglePhase, Isolated
<1>2. \A p \in Phases : FaultCurrent("ABC", p) = Healthy[p]
  BY DEF FaultCurrent, Faulted, SinglePhase, Isolated, TwoPhaseEarth
<1> QED BY <1>1, <1>2, Partners DEF Isolated, Faulted, Minus, Healthy

LEMMA Denominators ==
    /\ \A k \in SinglePhase : Denominator(k) = 25
    /\ \A k \in Isolated : Denominator(k) = 2
    /\ \A k \in TwoPhaseEarth : Denominator(k) = 36
    /\ Denominator("ABC") = 1
BY DEF Denominator, SinglePhase, Isolated, TwoPhaseEarth, K0_D, K0_N

Earthed == SinglePhase \cup TwoPhaseEarth \cup {"ABC"}

\* A ground unit of the fault: its current and the earth's drop make up the
\* voltage of its phase.
LEMMA GroundLoop ==
    ASSUME NEW k \in Earthed, NEW p \in Faulted[k]
    PROVE  Plus(FaultCurrent(k, p), EarthDrop(k)) = Scale(Denominator(k), Healthy[p])
<1> USE DEF Plus, Scale, Healthy, K0_D, K0_N, Zero
<1>1. CASE k \in SinglePhase
  BY <1>1, Denominators, EarthFaultCurrents, Drops DEF Faulted, SinglePhase, Phases
<1>2. CASE k \in TwoPhaseEarth
  BY <1>2, Denominators, EarthFaultCurrents, Drops DEF Faulted, TwoPhaseEarth, Phases
<1>3. CASE k = "ABC"
  <2>1. EarthDrop(k) = Zero
    BY <1>3, Drops DEF Kinds, SinglePhase, TwoPhaseEarth
  <2> QED BY <1>3, <2>1, Denominators, OtherCurrents DEF Faulted, Phases
<1> QED BY <1>1, <1>2, <1>3 DEF Earthed

\* K0 * IN is what the earth adds to the drop.
LEMMA EarthCompensated ==
    ASSUME NEW l \in Lines, l.kind \in Earthed
    PROVE  K0_I_N(l) = EarthDrop(l.kind)
<1> USE DEF K0_I_N, I_N, I, Plus, Scale, Healthy, K0_D, K0_N, Zero
<1>1. CASE l.kind \in SinglePhase
  BY <1>1, EarthFaultCurrents, Drops DEF Faulted, SinglePhase, Phases
<1>2. CASE l.kind \in TwoPhaseEarth
  BY <1>2, EarthFaultCurrents, Drops DEF TwoPhaseEarth
<1>3. CASE l.kind = "ABC"
  <2>1. EarthDrop(l.kind) = Zero
    BY <1>3, Drops DEF Kinds, SinglePhase, TwoPhaseEarth
  <2> QED BY <1>3, <2>1, OtherCurrents DEF Phases
<1> QED BY <1>1, <1>2, <1>3 DEF Earthed

\* A phase unit of the fault: the difference of its currents is that of its
\* voltages.
LEMMA PhaseLoop ==
    ASSUME NEW k \in Kinds, NEW p \in Faulted[k], NextPhase[p] \in Faulted[k]
    PROVE  Minus(FaultCurrent(k, p), FaultCurrent(k, NextPhase[p])) =
               Scale(Denominator(k), Minus(Healthy[p], Healthy[NextPhase[p]]))
<1> USE DEF Minus, Scale, Healthy, NextPhase
<1>1. CASE k \in Isolated
  BY <1>1, Denominators, OtherCurrents DEF Faulted, Isolated
<1>2. CASE k \in TwoPhaseEarth
  BY <1>2, Denominators, EarthFaultCurrents DEF Faulted, TwoPhaseEarth
<1>3. CASE k = "ABC"
  BY <1>3, Denominators, OtherCurrents DEF Faulted, Phases
<1>4. CASE k \in SinglePhase \cup {"none"}
  BY <1>4 DEF Faulted, SinglePhase
<1> QED BY <1>1, <1>2, <1>3, <1>4 DEF Kinds, Isolated, TwoPhaseEarth, SinglePhase
-----------------------------------------------------------------------------
\* What a unit's loop makes of the source and the line, component by component.
LEMMA GroundDrop ==
    ASSUME NEW D \in Int, NEW s \in Int, NEW d \in Int, NEW h \in Int
    PROVE  (D * (s + d)) * h - s * (D * h) = d * (D * h)
OBVIOUS

LEMMA PhaseDrop ==
    ASSUME NEW D \in Int, NEW s \in Int, NEW d \in Int, NEW h \in Int, NEW g \in Int,
           NEW i \in Int, NEW j \in Int, NEW e \in Int, i - j = D * (h - g)
    PROVE  ((D * (s + d)) * h - s * (i + e)) - ((D * (s + d)) * g - s * (j + e)) = d * (i - j)
<1>1. s * (i + e) - s * (j + e) = s * (i - j)
  OBVIOUS
<1>2. (D * (s + d)) * h - (D * (s + d)) * g = (s + d) * (D * (h - g))
  OBVIOUS
<1>3. (s + d) * (i - j) - s * (i - j) = d * (i - j)
  OBVIOUS
<1> QED BY <1>1, <1>2, <1>3

LEMMA CurrentTypes ==
    ASSUME NEW k \in Kinds, NEW p \in Faulted[k]
    PROVE  /\ FaultCurrent(k, p) \in Int \X Int /\ EarthDrop(k) \in Int \X Int
           /\ Denominator(k) \in {1, 2, 25, 36} /\ Healthy[p] \in Int \X Int /\ Healthy[p] # Zero
<1>1. Healthy[p] \in Int \X Int /\ Healthy[p] # Zero /\ p \in Phases
  BY DEF Healthy, Faulted, Kinds, Phases, Zero
<1>2. EarthDrop(k) \in Int \X Int
  BY Drops DEF Kinds, SinglePhase, TwoPhaseEarth, Scale, K0_N, Zero
<1>3. Denominator(k) \in {1, 2, 25, 36}
  BY Denominators DEF Kinds, SinglePhase, TwoPhaseEarth, Isolated, Faulted
<1>4. FaultCurrent(k, p) \in Int \X Int
  <2>1. CASE k \in SinglePhase
    BY <1>1, <2>1, EarthFaultCurrents DEF Scale, K0_D
  <2>2. CASE k \in TwoPhaseEarth
    BY <2>2, EarthFaultCurrents DEF TwoPhaseEarth, Faulted
  <2>3. CASE k \in Isolated \cup {"ABC"}
    BY <1>1, <2>3, OtherCurrents DEF Isolated, Faulted
  <2> QED BY <2>1, <2>2, <2>3 DEF Kinds, SinglePhase, TwoPhaseEarth, Isolated, Faulted
<1> QED BY <1>1, <1>2, <1>3, <1>4

LEMMA GroundUnitMeasures ==
    ASSUME NEW l \in Lines, l.kind \in Earthed, NEW p \in Faulted[l.kind]
    PROVE  /\ GroundUnit(l, p).num = Scale(l.dist, GroundUnit(l, p).den)
           /\ GroundUnit(l, p).den \in (Int \X Int) \ {Zero}
<1> DEFINE D == Denominator(l.kind)
           h == Healthy[p]
<1>1. GroundUnit(l, p).den = Scale(D, h)
  BY EarthCompensated, GroundLoop DEF GroundUnit, I
<1>2. GroundUnit(l, p).num = Minus(Scale(D * (l.src + l.dist), h), Scale(l.src, Scale(D, h)))
  BY GroundLoop DEF GroundUnit, V, FaultVoltage
<1>3. D \in {1, 2, 25, 36} /\ h \in Int \X Int /\ h # Zero
  BY CurrentTypes DEF Lines
<1>4. l.dist \in Int /\ l.src \in Int
  BY LineAssumption DEF Lines
<1> HIDE DEF D, h
<1>5. \A n \in {1, 2} : (D * (l.src + l.dist)) * h[n] - l.src * (D * h[n]) = l.dist * (D * h[n])
  BY <1>3, <1>4, GroundDrop
<1>6. h[1] # 0 \/ h[2] # 0
  BY <1>3 DEF Zero
<1>7. D * h[1] # 0 \/ D * h[2] # 0
  BY <1>3, <1>6
<1>8. Scale(D, h) \in Int \X Int
  BY <1>3 DEF Scale
<1> QED BY <1>1, <1>2, <1>5, <1>7, <1>8 DEF Scale, Minus, Zero

LEMMA PhaseUnitMeasures ==
    ASSUME NEW l \in Lines, NEW p \in Faulted[l.kind], NextPhase[p] \in Faulted[l.kind]
    PROVE  /\ PhaseUnit(l, p).num = Scale(l.dist, PhaseUnit(l, p).den)
           /\ PhaseUnit(l, p).den \in (Int \X Int) \ {Zero}
<1> DEFINE D == Denominator(l.kind)
           q == NextPhase[p]
           h == Healthy[p]
           g == Healthy[q]
           i == FaultCurrent(l.kind, p)
           j == FaultCurrent(l.kind, q)
           e == EarthDrop(l.kind)
<1>1. PhaseUnit(l, p).den = Minus(i, j)
  BY DEF PhaseUnit, I
<1>2. PhaseUnit(l, p).num =
        Minus(Minus(Scale(D * (l.src + l.dist), h), Scale(l.src, Plus(i, e))),
              Minus(Scale(D * (l.src + l.dist), g), Scale(l.src, Plus(j, e))))
  BY DEF PhaseUnit, V, FaultVoltage
<1>3. /\ D \in {1, 2, 25, 36} /\ h \in Int \X Int /\ g \in Int \X Int
      /\ i \in Int \X Int /\ j \in Int \X Int /\ e \in Int \X Int
  BY CurrentTypes DEF Lines
<1>4. l.dist \in Int /\ l.src \in Int
  BY LineAssumption DEF Lines
<1>5. Minus(i, j) = Scale(D, Minus(h, g))
  BY PhaseLoop DEF Lines
<1>6. Minus(h, g) # Zero
  <2>1. p \in Phases
    BY DEF Faulted, Lines, Kinds, Phases
  <2> QED BY <2>1 DEF Healthy, NextPhase, Minus, Zero, Phases
<1> HIDE DEF D, q, h, g, i, j, e
<1>7. \A n \in {1, 2} : i[n] - j[n] = D * (h[n] - g[n])
  BY <1>3, <1>5 DEF Minus, Scale
<1>8. \A n \in {1, 2} :
        ((D * (l.src + l.dist)) * h[n] - l.src * (i[n] + e[n]))
          - ((D * (l.src + l.dist)) * g[n] - l.src * (j[n] + e[n])) = l.dist * (i[n] - j[n])
  <2> TAKE n \in {1, 2}
  <2> DEFINE hn == h[n]
             gn == g[n]
             in == i[n]
             jn == j[n]
             en == e[n]
             s == l.src
             d == l.dist
  <2>1. /\ D \in Int /\ s \in Int /\ d \in Int
        /\ hn \in Int /\ gn \in Int /\ in \in Int /\ jn \in Int /\ en \in Int
        /\ in - jn = D * (hn - gn)
    BY <1>3, <1>4, <1>7
  <2>2. ((D * (s + d)) * hn - s * (in + en)) - ((D * (s + d)) * gn - s * (jn + en)) = d * (in - jn)
    <3> HIDE DEF hn, gn, in, jn, en, s, d
    <3> QED BY <2>1, PhaseDrop
  <2> QED BY <2>2
<1>9. i[1] - j[1] # 0 \/ i[2] - j[2] # 0
  <2>1. h[1] - g[1] # 0 \/ h[2] - g[2] # 0
    BY <1>6 DEF Minus, Zero
  <2>2. h[1] - g[1] \in Int /\ h[2] - g[2] \in Int
    BY <1>3
  <2>3. D * (h[1] - g[1]) # 0 \/ D * (h[2] - g[2]) # 0
    BY <1>3, <2>1, <2>2
  <2> QED BY <1>7, <2>3
<1>10. Minus(i, j) \in Int \X Int
  BY <1>3 DEF Minus
<1> QED BY <1>1, <1>2, <1>8, <1>9, <1>10 DEF Scale, Minus, Plus, Zero

\* Every unit of every fault's loop.
LEMMA LoopUnits ==
    ASSUME NEW l \in Lines, NEW u \in Loops[l.kind]
    PROVE  /\ Z(l)[u].num = Scale(l.dist, Z(l)[u].den)
           /\ Z(l)[u].den \in (Int \X Int) \ {Zero}
<1> DEFINE PhaseOf == [AT |-> "A", BT |-> "B", CT |-> "C", AB |-> "A", BC |-> "B", CA |-> "C"]
           p == PhaseOf[u]
<1> USE DEF Lines, Kinds, Loops, Faulted, Relay!Units, Phases
<1>1. CASE u \in {"AT", "BT", "CT"}
  <2>1. l.kind \in Earthed /\ p \in Faulted[l.kind]
    BY <1>1 DEF Earthed, SinglePhase, TwoPhaseEarth
  <2>2. Z(l)[u] = GroundUnit(l, p)
    BY <1>1 DEF Z
  <2> QED BY <2>1, <2>2, GroundUnitMeasures
<1>2. CASE u \in {"AB", "BC", "CA"}
  <2>1. p \in Faulted[l.kind] /\ NextPhase[p] \in Faulted[l.kind]
    BY <1>2 DEF NextPhase
  <2>2. Z(l)[u] = PhaseUnit(l, p)
    BY <1>2 DEF Z
  <2> QED BY <2>1, <2>2, PhaseUnitMeasures
<1> QED BY <1>1, <1>2
-----------------------------------------------------------------------------
(* The impedance of a unit that measures the distance, in the R-X plane.       *)
Corner(x, y) == [R |-> Quad!Fin(x), X |-> Quad!Fin(y)]

LEMMA SquareNorm ==
    ASSUME NEW a \in Int, NEW b \in Int, a # 0 \/ b # 0
    PROVE  a * a - a * b + b * b > 0
<1>1. \A n \in Int : n * n >= 0 /\ (n # 0 => n * n > 0)
  OBVIOUS
<1>2. 4 * (a * a - a * b + b * b) = (2 * a - b) * (2 * a - b) + 3 * (b * b)
  OBVIOUS
<1>3. (2 * a - b) * (2 * a - b) >= 0 /\ b * b >= 0
  BY <1>1
<1>4. CASE b # 0
  BY <1>1, <1>2, <1>3, <1>4
<1>5. CASE b = 0
  BY <1>1, <1>5
<1> QED BY <1>4, <1>5

LEMMA Cancelled ==
    ASSUME NEW d \in Int, NEW n \in Int, n > 0
    PROVE  ((2 * (d * n) - 0) * 100) \div (2 * n) = 100 * d
<1> DEFINE m == 2 * n
<1>1. (2 * (d * n) - 0) * 100 = m * (100 * d) /\ m \in Int /\ m > 0
  OBVIOUS
<1> HIDE DEF m
<1>2. \A k \in Int : (m * k) \div m = k
  BY SMT, <1>1
<1> QED BY <1>1, <1>2 DEF m

\* 1% of the line is 0.6375 ohm at 84 degrees, in tenths of an ohm.
LEMMA ImpedanceAt ==
    ASSUME NEW z, NEW d \in Int, z.den \in Int \X Int, z.den # Zero, z.num = Scale(d, z.den)
    PROVE  LET re == ((100 * d) * 6375) \div 10000
           IN  Impedance(z) = Corner((re * 105) \div 10000, (re * 995) \div 10000)
<1> DEFINE a == z.den[1]
           b == z.den[2]
           n == Norm(z.den)
           q == Times(z.num, Conjugate(z.den))
           re == ((((2 * q[1] - q[2]) * 100) \div (2 * n)) * 6375) \div 10000
           im == (((((q[2] * 100) \div (2 * n)) * 1732) \div 1000) * 6375) \div 10000
<1>1. a \in Int /\ b \in Int /\ z.den = <<a, b>> /\ (a # 0 \/ b # 0)
  BY DEF Zero
<1>2. n = a * a - a * b + b * b /\ n \in Int /\ n > 0
  <2>1. n = a * a - a * b + b * b
    BY DEF Norm
  <2>2. a * a - a * b + b * b \in Int
    BY <1>1
  <2> HIDE DEF a, b, n
  <2> QED BY <1>1, <2>1, <2>2, SquareNorm
<1>3. q[1] = d * n /\ q[2] = 0
  <2>1. /\ q[1] = (d * a) * (a - b) - (d * b) * (-b)
        /\ q[2] = (d * a) * (-b) + (d * b) * (a - b) - (d * b) * (-b)
    BY DEF Times, Scale, Conjugate
  <2> HIDE DEF a, b, q
  <2>2. (d * a) * (a - b) - (d * b) * (-b) = d * (a * a - a * b + b * b)
    BY <1>1
  <2>3. (d * a) * (-b) + (d * b) * (a - b) - (d * b) * (-b) = 0
    BY <1>1
  <2> QED BY <1>2, <2>1, <2>2, <2>3
<1>4. Impedance(z) = Corner((re * 105 - im * 995) \div 10000, (re * 995 + im * 105) \div 10000)
  BY DEF Impedance, Corner
<1> HIDE DEF n, q
<1>5. re = ((100 * d) * 6375) \div 10000
  <2>1. ((2 * (d * n) - 0) * 100) \div (2 * n) = 100 * d
    BY <1>2, Cancelled
  <2> QED BY <1>3, <2>1
<1>6. im = 0
  <2>1. (0 * 100) \div (2 * n) = 0
    BY SMT, <1>2
  <2> QED BY SMT, <1>3, <2>1
<1>7. re \in Int
  BY SMT, <1>5
<1> HIDE DEF re, im
<1>8. re * 105 - im * 995 = re * 105 /\ re * 995 + im * 105 = re * 995
  BY SMT, <1>6, <1>7
<1> QED BY <1>4, <1>5, <1>8
-----------------------------------------------------------------------------
(* The zones over finite impedances, as sides.                                 *)
Side(a, b, c, d, x, y) == (c - a) * (y - b) - (d - b) * (x - a)

LEMMA FiniteSide ==
    ASSUME NEW a \in Int, NEW b \in Int, NEW c \in Int, NEW d \in Int,
           NEW x \in Int, NEW y \in Int
    PROVE  Quad!vectorProduct(Corner(a, b), Corner(c, d), Corner(x, y))
             = Quad!Fin(Side(a, b, c, d, x, y))
<1>1. ASSUME NEW m \in Int, NEW n \in Int
      PROVE  /\ Quad!DoubleMinus(Quad!Fin(m), Quad!Fin(n)) = Quad!Fin(m - n)
             /\ Quad!DoubleTimes(Quad!Fin(m), Quad!Fin(n)) = Quad!Fin(m * n)
  BY DEF Quad!DoubleMinus, Quad!DoubleTimes, Quad!Fin
<1>2. /\ c - a \in Int /\ y - b \in Int /\ d - b \in Int /\ x - a \in Int
      /\ (c - a) * (y - b) \in Int /\ (d - b) * (x - a) \in Int
  OBVIOUS
<1> DEFINE s == (c - a) * (y - b)
           t == (d - b) * (x - a)
<1>3. Quad!vectorProduct(Corner(a, b), Corner(c, d), Corner(x, y))
        = Quad!DoubleMinus(Quad!Fin(s), Quad!Fin(t))
  BY <1>1, <1>2 DEF Quad!vectorProduct, Corner
<1>4. s \in Int /\ t \in Int /\ Side(a, b, c, d, x, y) = s - t
  BY <1>2 DEF Side
<1> HIDE DEF s, t
<1> QED BY <1>1, <1>3, <1>4

Quadrilateral(a, b, c, d, e) == << Corner(0, 0), Corner(a, b), Corner(c, b), Corner(d, e) >>

\* Not to the left of any side is inside.
LEMMA WithinSides ==
    ASSUME NEW a \in Int, NEW b \in Int, NEW c \in Int, NEW d \in Int, NEW e \in Int,
           NEW x \in Int, NEW y \in Int,
           Side(0, 0, a, b, x, y) <= 0, Side(a, b, c, b, x, y) <= 0,
           Side(c, b, d, e, x, y) <= 0, Side(d, e, 0, 0, x, y) <= 0
    PROVE  Quad!isInsideQuadrilateral(Corner(x, y), Quadrilateral(a, b, c, d, e))
<1> DEFINE q == Quadrilateral(a, b, c, d, e)
           p == Corner(x, y)
<1>1. \A n \in Int : n <= 0 => Quad!NotPositive(Quad!Fin(n))
  BY DEF Quad!NotPositive, Quad!Fin
<1>2. /\ Side(0, 0, a, b, x, y) \in Int /\ Side(a, b, c, b, x, y) \in Int
      /\ Side(c, b, d, e, x, y) \in Int /\ Side(d, e, 0, 0, x, y) \in Int
  BY DEF Side
<1>3. /\ Quad!NotPositive(Quad!vectorProduct(q[1], q[2], p))
      /\ Quad!NotPositive(Quad!vectorProduct(q[2], q[3], p))
      /\ Quad!NotPositive(Quad!vectorProduct(q[3], q[4], p))
      /\ Quad!NotPositive(Quad!vectorProduct(q[4], q[1], p))
  <2>1. /\ q[1] = Corner(0, 0) /\ q[2] = Corner(a, b)
        /\ q[3] = Corner(c, b) /\ q[4] = Corner(d, e)
    BY DEF Quadrilateral
  <2>2. Quad!vectorProduct(Corner(0, 0), Corner(a, b), p) = Quad!Fin(Side(0, 0, a, b, x, y))
    BY SMTT(60), FiniteSide
  <2>3. Quad!vectorProduct(Corner(a, b), Corner(c, b), p) = Quad!Fin(Side(a, b, c, b, x, y))
    BY SMTT(60), FiniteSide
  <2>4. Quad!vectorProduct(Corner(c, b), Corner(d, e), p) = Quad!Fin(Side(c, b, d, e, x, y))
    BY SMTT(60), FiniteSide
  <2>5. Quad!vectorProduct(Corner(d, e), Corner(0, 0), p) = Quad!Fin(Side(d, e, 0, 0, x, y))
    BY SMTT(60), FiniteSide
  <2>6. /\ Quad!NotPositive(Quad!Fin(Side(0, 0, a, b, x, y)))
        /\ Quad!NotPositive(Quad!Fin(Side(a, b, c, b, x, y)))
        /\ Quad!NotPositive(Quad!Fin(Side(c, b, d, e, x, y)))
        /\ Quad!NotPositive(Quad!Fin(Side(d, e, 0, 0, x, y)))
    BY <1>1, <1>2
  <2> HIDE DEF q, p
  <2> QED BY Zenon, <2>1, <2>2, <2>3, <2>4, <2>5, <2>6
<1> HIDE DEF q, p
<1>4. \A i \in 1 .. 4 : Quad!NotPositive(Quad!vectorProduct(q[i], q[(i % 4) + 1], p))
  <2>1. 1 % 4 = 1 /\ 2 % 4 = 2 /\ 3 % 4 = 3 /\ 4 % 4 = 0
    BY SMT
  <2>2. \A i \in 1 .. 4 : i = 1 \/ i = 2 \/ i = 3 \/ i = 4
    BY SMT
  <2> QED BY <1>3, <2>1, <2>2
<1> QED BY <1>4 DEF Quad!isInsideQuadrilateral, Quad!Products, q, p

\* The vertices in tenths of an ohm, rounded down.
LEMMA RoundedVertex ==
    ASSUME NEW R \in Int, NEW X \in Int, NEW n \in Int, NEW m \in Int,
           10000 * n <= R, R < 10000 * n + 10000, 10000 * m <= X, X < 10000 * m + 10000
    PROVE  Quad!Vertex(R, X) = Corner(n, m)
<1>1. R \div 10000 = n /\ X \div 10000 = m
  BY SMT
<1> QED BY <1>1 DEF Quad!Vertex, Corner

LEMMA ZonesRounded ==
    /\ Quad!Zone1Ground = Quadrilateral(-293, 507, 698, 658, -266)
    /\ Quad!Zone1Phase = Quadrilateral(-293, 507, 474, 438, -178)
    /\ Quad!Zone2Ground = Quadrilateral(-440, 760, 711, 658, -266)
    /\ Quad!Zone2Phase = Quadrilateral(-440, 760, 487, 438, -178)
<1>1. /\ Quad!Vertex(0, 0) = Corner(0, 0)
      /\ Quad!Vertex(-2928321, 5072000) = Corner(-293, 507)
      /\ Quad!Vertex(6985812, 5072000) = Corner(698, 507)
      /\ Quad!Vertex(4745812, 5072000) = Corner(474, 507)
      /\ Quad!Vertex(6580660, -2658759) = Corner(658, -266)
      /\ Quad!Vertex(4387107, -1772506) = Corner(438, -178)
      /\ Quad!Vertex(-4392481, 7608000) = Corner(-440, 760)
      /\ Quad!Vertex(7118719, 7608000) = Corner(711, 760)
      /\ Quad!Vertex(4878719, 7608000) = Corner(487, 760)
  BY SMT, RoundedVertex
<1> QED BY <1>1
        DEF Quadrilateral, Quad!Zone1Ground, Quad!Zone1Phase, Quad!Zone2Ground, Quad!Zone2Phase

\* Along the line's angle each zone holds what is below its top.
LEMMA WithinReach ==
    ASSUME NEW x \in Int, NEW y \in Int, 0 <= x, x <= 80, 0 <= y
    PROVE  /\ y <= 507 => /\ Quad!isInsideQuadrilateral(Corner(x, y), Quad!Zone1Ground)
                          /\ Quad!isInsideQuadrilateral(Corner(x, y), Quad!Zone1Phase)
           /\ y <= 760 => /\ Quad!isInsideQuadrilateral(Corner(x, y), Quad!Zone2Ground)
                          /\ Quad!isInsideQuadrilateral(Corner(x, y), Quad!Zone2Phase)
<1>1. ASSUME y <= 507
      PROVE  /\ Side(0, 0, -293, 507, x, y) <= 0 /\ Side(-293, 507, 698, 507, x, y) <= 0
             /\ Side(698, 507, 658, -266, x, y) <= 0 /\ Side(658, -266, 0, 0, x, y) <= 0
             /\ Side(-293, 507, 474, 507, x, y) <= 0
             /\ Side(474, 507, 438, -178, x, y) <= 0 /\ Side(438, -178, 0, 0, x, y) <= 0
  BY SMT, <1>1 DEF Side
<1>2. ASSUME y <= 760
      PROVE  /\ Side(0, 0, -440, 760, x, y) <= 0 /\ Side(-440, 760, 711, 760, x, y) <= 0
             /\ Side(711, 760, 658, -266, x, y) <= 0 /\ Side(658, -266, 0, 0, x, y) <= 0
             /\ Side(-440, 760, 487, 760, x, y) <= 0
             /\ Side(487, 760, 438, -178, x, y) <= 0 /\ Side(438, -178, 0, 0, x, y) <= 0
  BY SMT, <1>2 DEF Side
<1>3. ASSUME y <= 507
      PROVE  Quad!isInsideQuadrilateral(Corner(x, y), Quadrilateral(-293, 507, 698, 658, -266))
  <2> DEFINE a == -293
             b == 507
             c == 698
             d == 658
             e == -266
  <2>1. /\ a \in Int /\ b \in Int /\ c \in Int /\ d \in Int /\ e \in Int
        /\ Side(0, 0, a, b, x, y) <= 0 /\ Side(a, b, c, b, x, y) <= 0
        /\ Side(c, b, d, e, x, y) <= 0 /\ Side(d, e, 0, 0, x, y) <= 0
    BY SMT, <1>1, <1>3
  <2> HIDE DEF a, b, c, d, e
  <2>2. Quad!isInsideQuadrilateral(Corner(x, y), Quadrilateral(a, b, c, d, e))
    BY <2>1, WithinSides
  <2> QED BY <2>2 DEF a, b, c, d, e
<1>4. ASSUME y <= 507
      PROVE  Quad!isInsideQuadrilateral(Corner(x, y), Quadrilateral(-293, 507, 474, 438, -178))
  <2> DEFINE a == -293
             b == 507
             c == 474
             d == 438
             e == -178
  <2>1. /\ a \in Int /\ b \in Int /\ c \in Int /\ d \in Int /\ e \in Int
        /\ Side(0, 0, a, b, x, y) <= 0 /\ Side(a, b, c, b, x, y) <= 0
        /\ Side(c, b, d, e, x, y) <= 0 /\ Side(d, e, 0, 0, x, y) <= 0
    BY SMT, <1>1, <1>4
  <2> HIDE DEF a, b, c, d, e
  <2>2. Quad!isInsideQuadrilateral(Corner(x, y), Quadrilateral(a, b, c, d, e))
    BY <2>1, WithinSides
  <2> QED BY <2>2 DEF a, b, c, d, e
<1>5. ASSUME y <= 760
      PROVE  Quad!isInsideQuadrilateral(Corner(x, y), Quadrilateral(-440, 760, 711, 658, -266))
  <2> DEFINE a == -440
             b == 760
             c == 711
             d == 658
             e == -266
  <2>1. /\ a \in Int /\ b \in Int /\ c \in Int /\ d \in Int /\ e \in Int
        /\ Side(0, 0, a, b, x, y) <= 0 /\ Side(a, b, c, b, x, y) <= 0
        /\ Side(c, b, d, e, x, y) <= 0 /\ Side(d, e, 0, 0, x, y) <= 0
    BY SMT, <1>2, <1>5
  <2> HIDE DEF a, b, c, d, e
  <2>2. Quad!isInsideQuadrilateral(Corner(x, y), Quadrilateral(a, b, c, d, e))
    BY <2>1, WithinSides
  <2> QED BY <2>2 DEF a, b, c, d, e
<1>6. ASSUME y <= 760
      PROVE  Quad!isInsideQuadrilateral(Corner(x, y), Quadrilateral(-440, 760, 487, 438, -178))
  <2> DEFINE a == -440
             b == 760
             c == 487
             d == 438
             e == -178
  <2>1. /\ a \in Int /\ b \in Int /\ c \in Int /\ d \in Int /\ e \in Int
        /\ Side(0, 0, a, b, x, y) <= 0 /\ Side(a, b, c, b, x, y) <= 0
        /\ Side(c, b, d, e, x, y) <= 0 /\ Side(d, e, 0, 0, x, y) <= 0
    BY SMT, <1>2, <1>6
  <2> HIDE DEF a, b, c, d, e
  <2>2. Quad!isInsideQuadrilateral(Corner(x, y), Quadrilateral(a, b, c, d, e))
    BY <2>1, WithinSides
  <2> QED BY <2>2 DEF a, b, c, d, e
<1> QED BY <1>3, <1>4, <1>5, <1>6, ZonesRounded

\* A distance within reach, in tenths of an ohm.
LEMMA ReachRounded ==
    ASSUME NEW d \in Nat, d > 0, d < 120
    PROVE  LET re == ((100 * d) * 6375) \div 10000
               x == (re * 105) \div 10000
               y == (re * 995) \div 10000
           IN  /\ x \in Int /\ y \in Int /\ 0 <= x /\ x <= 80 /\ 0 <= y /\ y <= 760
               /\ d < 80 => y <= 507
BY SMT

\* So each unit of a fault's loop is inside the zones that reach the fault.
LEMMA LoopsInside ==
    ASSUME NEW l \in Lines, NEW u \in Loops[l.kind]
    PROVE  /\ u \in Relay!Units
           /\ l.dist < Reach1 => u \in Measure(l).zone1
           /\ l.dist < Reach2 => u \in Measure(l).zone2
<1> DEFINE Zr == [w \in Relay!Units |-> Impedance(Z(l)[w])]
           d == l.dist
           re == ((100 * d) * 6375) \div 10000
           x == (re * 105) \div 10000
           y == (re * 995) \div 10000
<1>1. u \in Relay!Units
  BY DEF Loops, Lines, Kinds, Relay!Units
<1>2. d \in Nat /\ d > 0
  BY LineAssumption DEF Lines
<1>3. Zr[u] = Corner(x, y)
  <2>1. /\ Z(l)[u].num = Scale(d, Z(l)[u].den)
        /\ Z(l)[u].den \in Int \X Int /\ Z(l)[u].den # Zero
    BY LoopUnits
  <2>2. Impedance(Z(l)[u]) = Corner(x, y)
    <3>1. d \in Int
      BY <1>2
    <3> DEFINE z == Z(l)[u]
    <3>2. z.num = Scale(d, z.den) /\ z.den \in Int \X Int /\ z.den # Zero
      BY <2>1
    <3> HIDE DEF z, d
    <3>3. Impedance(z) = Corner(x, y)
      BY SMT, <3>1, <3>2, ImpedanceAt
    <3> QED BY <3>3 DEF z
  <2> QED BY <1>1, <2>2
<1>4. /\ Measure(l).zone1 = Inside(Zr, Quad!Zone1Ground, Quad!Zone1Phase)
      /\ Measure(l).zone2 = Inside(Zr, Quad!Zone2Ground, Quad!Zone2Phase)
  BY DEF Measure
<1>5. d < Reach2 => /\ x \in Int /\ y \in Int /\ 0 <= x /\ x <= 80 /\ 0 <= y /\ y <= 760
                    /\ d < Reach1 => y <= 507
  BY SMT, <1>2, ReachRounded DEF Reach1, Reach2
<1>6. d < Reach1 => d < Reach2
  BY SMT, <1>2 DEF Reach1, Reach2
<1> HIDE DEF Zr, d, x, y
<1>7. ASSUME d < Reach2
      PROVE  /\ Quad!isInsideQuadrilateral(Corner(x, y), Quad!Zone2Ground)
             /\ Quad!isInsideQuadrilateral(Corner(x, y), Quad!Zone2Phase)
  BY <1>5, <1>7, WithinReach
<1>8. ASSUME d < Reach1
      PROVE  /\ Quad!isInsideQuadrilateral(Corner(x, y), Quad!Zone1Ground)
             /\ Quad!isInsideQuadrilateral(Corner(x, y), Quad!Zone1Phase)
  BY <1>5, <1>6, <1>8, WithinReach
<1>9. d < Reach2 => u \in Measure(l).zone2
  BY Zenon, <1>1, <1>3, <1>4, <1>7 DEF Inside, ZoneOf
<1>10. d < Reach1 => u \in Measure(l).zone1
  BY Zenon, <1>1, <1>3, <1>4, <1>8 DEF Inside, ZoneOf
<1> QED BY <1>1, <1>9, <1>10 DEF d

-----------------------------------------------------------------------------
(* Units outside the fault's loop.  Of these the source is part of what they  *)
(* measure: an impedance whose product with the squared size of the current   *)
(* is <<q1, q2>>.                                                             *)
SeenAs(z, n, q1, q2) ==
    /\ z.den # Zero /\ Norm(z.den) = n
    /\ Times(z.num, Conjugate(z.den)) = <<q1, q2>>

\* k is n over m, rounded down.
Rounded(k, n, m) == m * k <= n /\ n < m * k + m

\* What the R-X plane makes of it, from step to step.
Steps(q1, q2, m, e, re, f, g, im, x, y) ==
    /\ Rounded(e, (2 * q1 - q2) * 100, m) /\ Rounded(re, e * 6375, 10000)
    /\ Rounded(f, q2 * 100, m) /\ Rounded(g, f * 1732, 1000) /\ Rounded(im, g * 6375, 10000)
    /\ Rounded(x, re * 105 - im * 995, 10000) /\ Rounded(y, re * 995 + im * 105, 10000)

Near(q1, q2, m, x, y) ==
    \E e \in Int, re \in Int, f \in Int, g \in Int, im \in Int :
        Steps(q1, q2, m, e, re, f, g, im, x, y)

LEMMA RoundedDown ==
    ASSUME NEW n \in Int, NEW m \in Int, m > 0
    PROVE  n \div m \in Int /\ Rounded(n \div m, n, m)
BY SMT DEF Rounded

LEMMA SeenNear ==
    ASSUME NEW z, NEW n \in Int, n > 0, NEW q1 \in Int, NEW q2 \in Int, SeenAs(z, n, q1, q2)
    PROVE  \E x \in Int, y \in Int :
              Impedance(z) = Corner(x, y) /\ Near(q1, q2, 2 * n, x, y)
<1> DEFINE q == Times(z.num, Conjugate(z.den))
           m == 2 * Norm(z.den)
           e == ((2 * q[1] - q[2]) * 100) \div m
           re == (e * 6375) \div 10000
           f == (q[2] * 100) \div m
           g == (f * 1732) \div 1000
           im == (g * 6375) \div 10000
           x == (re * 105 - im * 995) \div 10000
           y == (re * 995 + im * 105) \div 10000
<1>1. Impedance(z) = Corner(x, y)
  BY DEF Impedance, Corner, SeenAs
<1>2. q[1] = q1 /\ q[2] = q2 /\ m = 2 * n /\ m \in Int /\ m > 0
  BY DEF SeenAs
<1> HIDE DEF q, m
<1>3. e \in Int /\ Rounded(e, (2 * q1 - q2) * 100, m)
  BY <1>2, RoundedDown
<1>4. f \in Int /\ Rounded(f, q2 * 100, m)
  BY <1>2, RoundedDown
<1> HIDE DEF e, f
<1>5. re \in Int /\ Rounded(re, e * 6375, 10000)
  BY SMT, <1>3 DEF Rounded
<1>6. g \in Int /\ Rounded(g, f * 1732, 1000)
  BY SMT, <1>4 DEF Rounded
<1> HIDE DEF g
<1>7. im \in Int /\ Rounded(im, g * 6375, 10000)
  BY SMT, <1>6 DEF Rounded
<1> HIDE DEF re, im
<1>8. x \in Int /\ Rounded(x, re * 105 - im * 995, 10000)
  BY SMT, <1>5, <1>7 DEF Rounded
<1>9. y \in Int /\ Rounded(y, re * 995 + im * 105, 10000)
  BY SMT, <1>5, <1>7 DEF Rounded
<1> HIDE DEF x, y
<1>10. Near(q1, q2, m, x, y)
  <2>1. Steps(q1, q2, m, e, re, f, g, im, x, y)
    BY SMT, <1>3, <1>4, <1>5, <1>6, <1>7, <1>8, <1>9 DEF Steps
  <2>2. e \in Int /\ re \in Int /\ f \in Int /\ g \in Int /\ im \in Int
    BY SMT, <1>3, <1>4, <1>5, <1>6, <1>7
  <2> QED BY Zenon, <2>1, <2>2 DEF Near
<1> QED BY <1>1, <1>2, <1>8, <1>9, <1>10

\* A voltage or current <<v, w>>, turned from phase A to phase p.
TurnedBy(p, v, w) ==
    IF p = "A" THEN <<v, w>> ELSE IF p = "B" THEN <<w - v, 0 - v>> ELSE <<0 - w, v - w>>

\* One phase of a fault is as good as another.
LEMMA Turned ==
    ASSUME NEW z, NEW p \in Phases, NEW v \in Int, NEW w \in Int, NEW a \in Int, NEW b \in Int,
           a # 0 \/ b # 0,
           z.num = TurnedBy(p, v, w), z.den = TurnedBy(p, a, b),
           NEW n, NEW q1, NEW q2, n = a * a - a * b + b * b,
           q1 = v * (a - b) + w * b, q2 = w * a - v * b
    PROVE  SeenAs(z, n, q1, q2)
<1>1. ASSUME NEW c \in Int, NEW d \in Int, NEW i \in Int, NEW j \in Int
      PROVE  Times(<<c, d>>, Conjugate(<<i, j>>)) = <<c * (i - j) + d * j, d * i - c * j>>
  <2>1. /\ c * (i - j) - d * (-j) = c * (i - j) + d * j
        /\ c * (-j) + d * (i - j) - d * (-j) = d * i - c * j
    OBVIOUS
  <2> QED BY <2>1 DEF Times, Conjugate
<1>2. CASE p = "A"
  <2>1. z.num = <<v, w>> /\ z.den = <<a, b>>
    BY <1>2 DEF TurnedBy
  <2>2. Norm(<<a, b>>) = n /\ <<a, b>> # Zero
    BY DEF Norm, Zero
  <2>3. Times(<<v, w>>, Conjugate(<<a, b>>)) = <<q1, q2>>
    BY <1>1
  <2> QED BY Zenon, <2>1, <2>2, <2>3 DEF SeenAs
<1>3. CASE p = "B"
  <2>1. z.num = <<w - v, -v>> /\ z.den = <<b - a, -a>>
    BY <1>3 DEF TurnedBy
  <2>2. (b - a) * (b - a) - (b - a) * (-a) + (-a) * (-a) = n
    OBVIOUS
  <2>3. /\ (w - v) * ((b - a) - (-a)) + (-v) * (-a) = q1
        /\ (-v) * (b - a) - (w - v) * (-a) = q2
    OBVIOUS
  <2>4. Times(<<w - v, -v>>, Conjugate(<<b - a, -a>>)) = <<q1, q2>>
    BY <1>1, <2>3
  <2>5. Norm(<<b - a, -a>>) = n /\ <<b - a, -a>> # Zero
    BY <2>2 DEF Norm, Zero
  <2> QED BY Zenon, <2>1, <2>4, <2>5 DEF SeenAs
<1>4. CASE p = "C"
  <2>1. z.num = <<-w, v - w>> /\ z.den = <<-b, a - b>>
    BY <1>4 DEF TurnedBy
  <2>2. (-b) * (-b) - (-b) * (a - b) + (a - b) * (a - b) = n
    OBVIOUS
  <2>3. /\ (-w) * ((-b) - (a - b)) + (v - w) * (a - b) = q1
        /\ (v - w) * (-b) - (-w) * (a - b) = q2
    OBVIOUS
  <2>4. Times(<<-w, v - w>>, Conjugate(<<-b, a - b>>)) = <<q1, q2>>
    BY <1>1, <2>3
  <2>5. Norm(<<-b, a - b>>) = n /\ <<-b, a - b>> # Zero
    BY <2>2 DEF Norm, Zero
  <2> QED BY Zenon, <2>1, <2>4, <2>5 DEF SeenAs
<1> QED BY <1>2, <1>3, <1>4 DEF Phases

-----------------------------------------------------------------------------
(* A point is outside a zone when it is to the left of one side: it is not to *)
(* the left of all of them.                                                   *)
Outside(x, y, a, b, c, d, e) ==
    \/ Side(0, 0, a, b, x, y) > 0 \/ Side(a, b, c, b, x, y) > 0
    \/ Side(c, b, d, e, x, y) > 0 \/ Side(d, e, 0, 0, x, y) > 0

LEMMA OutsideSides ==
    ASSUME NEW a \in Int, NEW b \in Int, NEW c \in Int, NEW d \in Int, NEW e \in Int,
           NEW x \in Int, NEW y \in Int, Outside(x, y, a, b, c, d, e),
           Side(a, b, c, b, 0, 0) + Side(c, b, d, e, 0, 0) < 0
    PROVE  ~Quad!isInsideQuadrilateral(Corner(x, y), Quadrilateral(a, b, c, d, e))
<1> DEFINE q == Quadrilateral(a, b, c, d, e)
           p == Corner(x, y)
           s1 == Side(0, 0, a, b, x, y)
           s2 == Side(a, b, c, b, x, y)
           s3 == Side(c, b, d, e, x, y)
           s4 == Side(d, e, 0, 0, x, y)
<1>1. s1 \in Int /\ s2 \in Int /\ s3 \in Int /\ s4 \in Int
  BY DEF Side
<1>2. s1 + s2 + s3 + s4 < 0
  <2>1. s1 + s2 + s3 + s4 = Side(a, b, c, b, 0, 0) + Side(c, b, d, e, 0, 0)
    BY DEF Side
  <2>2. Side(a, b, c, b, 0, 0) + Side(c, b, d, e, 0, 0) \in Int
    BY DEF Side
  <2> QED BY <2>1, <2>2
<1>3. s1 > 0 \/ s2 > 0 \/ s3 > 0 \/ s4 > 0
  BY DEF Outside
<1>4. /\ Quad!vectorProduct(q[1], q[2], p) = Quad!Fin(s1)
      /\ Quad!vectorProduct(q[2], q[3], p) = Quad!Fin(s2)
      /\ Quad!vectorProduct(q[3], q[4], p) = Quad!Fin(s3)
      /\ Quad!vectorProduct(q[4], q[1], p) = Quad!Fin(s4)
  <2>1. /\ q[1] = Corner(0, 0) /\ q[2] = Corner(a, b)
        /\ q[3] = Corner(c, b) /\ q[4] = Corner(d, e)
    BY DEF Quadrilateral
  <2>2. Quad!vectorProduct(Corner(0, 0), Corner(a, b), p) = Quad!Fin(s1)
    BY SMTT(60), FiniteSide
  <2>3. Quad!vectorProduct(Corner(a, b), Corner(c, b), p) = Quad!Fin(s2)
    BY SMTT(60), FiniteSide
  <2>4. Quad!vectorProduct(Corner(c, b), Corner(d, e), p) = Quad!Fin(s3)
    BY SMTT(60), FiniteSide
  <2>5. Quad!vectorProduct(Corner(d, e), Corner(0, 0), p) = Quad!Fin(s4)
    BY SMTT(60), FiniteSide
  <2> HIDE DEF q, p, s1, s2, s3, s4
  <2> QED BY Zenon, <2>1, <2>2, <2>3, <2>4, <2>5
<1> HIDE DEF q, p, s1, s2, s3, s4
<1>5. {Quad!Fin(s1), Quad!Fin(s2), Quad!Fin(s3), Quad!Fin(s4)} \subseteq Quad!Products(p, q)
  <2>1. (1 % 4) + 1 = 2 /\ (2 % 4) + 1 = 3 /\ (3 % 4) + 1 = 4 /\ (4 % 4) + 1 = 1
    BY SMT
  <2>2. 1 \in 1 .. 4 /\ 2 \in 1 .. 4 /\ 3 \in 1 .. 4 /\ 4 \in 1 .. 4
    OBVIOUS
  <2> QED BY Zenon, <1>4, <2>1, <2>2 DEF Quad!Products
<1>6. \A n \in Int : /\ Quad!NotNegative(Quad!Fin(n)) <=> n >= 0
                     /\ Quad!NotPositive(Quad!Fin(n)) <=> n <= 0
  BY DEF Quad!NotNegative, Quad!NotPositive, Quad!Fin
<1>7. ~(\A s \in Quad!Products(p, q) : Quad!NotNegative(s))
  <2>1. s1 < 0 \/ s2 < 0 \/ s3 < 0 \/ s4 < 0
    BY <1>1, <1>2
  <2> QED BY <1>1, <1>5, <1>6, <2>1
<1>8. ~(\A s \in Quad!Products(p, q) : Quad!NotPositive(s))
  BY <1>1, <1>3, <1>5, <1>6
<1> QED BY Zenon, <1>7, <1>8 DEF Quad!isInsideQuadrilateral, p, q

OutsideGround1(x, y) == Outside(x, y, -293, 507, 698, 658, -266)
OutsidePhase1(x, y) == Outside(x, y, -293, 507, 474, 438, -178)
OutsideGround2(x, y) == Outside(x, y, -440, 760, 711, 658, -266)
OutsidePhase2(x, y) == Outside(x, y, -440, 760, 487, 438, -178)

LEMMA OutsideZones ==
    ASSUME NEW x \in Int, NEW y \in Int
    PROVE  /\ OutsideGround1(x, y) => ~Quad!isInsideQuadrilateral(Corner(x, y), Quad!Zone1Ground)
           /\ OutsidePhase1(x, y) => ~Quad!isInsideQuadrilateral(Corner(x, y), Quad!Zone1Phase)
           /\ OutsideGround2(x, y) => ~Quad!isInsideQuadrilateral(Corner(x, y), Quad!Zone2Ground)
           /\ OutsidePhase2(x, y) => ~Quad!isInsideQuadrilateral(Corner(x, y), Quad!Zone2Phase)
<1>1. OutsideGround1(x, y) => ~Quad!isInsideQuadrilateral(Corner(x, y), Quad!Zone1Ground)
  <2> DEFINE a == -293
             b == 507
             c == 698
             d == 658
             e == -266
  <2>1. /\ a \in Int /\ b \in Int /\ c \in Int /\ d \in Int /\ e \in Int
        /\ Side(a, b, c, b, 0, 0) + Side(c, b, d, e, 0, 0) < 0
    BY SMT DEF Side
  <2>2. /\ OutsideGround1(x, y) = Outside(x, y, a, b, c, d, e)
        /\ Quad!Zone1Ground = Quadrilateral(a, b, c, d, e)
    BY ZonesRounded DEF OutsideGround1
  <2> HIDE DEF a, b, c, d, e
  <2> QED BY <2>1, <2>2, OutsideSides
<1>2. OutsidePhase1(x, y) => ~Quad!isInsideQuadrilateral(Corner(x, y), Quad!Zone1Phase)
  <2> DEFINE a == -293
             b == 507
             c == 474
             d == 438
             e == -178
  <2>1. /\ a \in Int /\ b \in Int /\ c \in Int /\ d \in Int /\ e \in Int
        /\ Side(a, b, c, b, 0, 0) + Side(c, b, d, e, 0, 0) < 0
    BY SMT DEF Side
  <2>2. /\ OutsidePhase1(x, y) = Outside(x, y, a, b, c, d, e)
        /\ Quad!Zone1Phase = Quadrilateral(a, b, c, d, e)
    BY ZonesRounded DEF OutsidePhase1
  <2> HIDE DEF a, b, c, d, e
  <2> QED BY <2>1, <2>2, OutsideSides
<1>3. OutsideGround2(x, y) => ~Quad!isInsideQuadrilateral(Corner(x, y), Quad!Zone2Ground)
  <2> DEFINE a == -440
             b == 760
             c == 711
             d == 658
             e == -266
  <2>1. /\ a \in Int /\ b \in Int /\ c \in Int /\ d \in Int /\ e \in Int
        /\ Side(a, b, c, b, 0, 0) + Side(c, b, d, e, 0, 0) < 0
    BY SMT DEF Side
  <2>2. /\ OutsideGround2(x, y) = Outside(x, y, a, b, c, d, e)
        /\ Quad!Zone2Ground = Quadrilateral(a, b, c, d, e)
    BY ZonesRounded DEF OutsideGround2
  <2> HIDE DEF a, b, c, d, e
  <2> QED BY <2>1, <2>2, OutsideSides
<1>4. OutsidePhase2(x, y) => ~Quad!isInsideQuadrilateral(Corner(x, y), Quad!Zone2Phase)
  <2> DEFINE a == -440
             b == 760
             c == 487
             d == 438
             e == -178
  <2>1. /\ a \in Int /\ b \in Int /\ c \in Int /\ d \in Int /\ e \in Int
        /\ Side(a, b, c, b, 0, 0) + Side(c, b, d, e, 0, 0) < 0
    BY SMT DEF Side
  <2>2. /\ OutsidePhase2(x, y) = Outside(x, y, a, b, c, d, e)
        /\ Quad!Zone2Phase = Quadrilateral(a, b, c, d, e)
    BY ZonesRounded DEF OutsidePhase2
  <2> HIDE DEF a, b, c, d, e
  <2> QED BY <2>1, <2>2, OutsideSides
<1> QED BY <1>1, <1>2, <1>3, <1>4

-----------------------------------------------------------------------------
(* What keeps the units outside the loop out of the zones: a source weak      *)
(* enough, or a fault beyond reach.                                           *)
KeptOut(z, zone1, zone2, d, s) ==
    /\ s >= 50 \/ d > 80 => ~Quad!isInsideQuadrilateral(Impedance(z), zone1)
    /\ s >= 50 \/ d > 120 => ~Quad!isInsideQuadrilateral(Impedance(z), zone2)

KeptOutIsolated(z, zone1, zone2, s) ==
    s >= 200 => /\ ~Quad!isInsideQuadrilateral(Impedance(z), zone1)
                /\ ~Quad!isInsideQuadrilateral(Impedance(z), zone2)

\* A fault of one phase: the ground unit of the phase behind it.
LEMMA BehindOneFaulted ==
    ASSUME NEW z, NEW p \in Phases, NEW d \in Int, NEW s \in Int, d > 0, s > 0,
           z.num = TurnedBy(p, -25 * d - 36 * s, -25 * d - 25 * s),
           z.den = TurnedBy(p, 11, 0)
    PROVE  KeptOut(z, Quad!Zone1Ground, Quad!Zone2Ground, d, s)
<1> DEFINE a == 11
           b == 0
           n == 121
           v == -25 * d - 36 * s
           w == -25 * d - 25 * s
           q1 == -275 * d - 396 * s
           q2 == -275 * d - 275 * s
<1>1. /\ a \in Int /\ b \in Int /\ (a # 0 \/ b # 0) /\ n = a * a - a * b + b * b /\ n \in Int
      /\ n > 0 /\ v \in Int /\ w \in Int /\ q1 \in Int /\ q2 \in Int
      /\ q1 = v * (a - b) + w * b /\ q2 = w * a - v * b
  BY SMT
<1>2. \A x \in Int, y \in Int : Near(q1, q2, 2 * n, x, y) =>
              /\ s >= 50 \/ d > 80 => OutsideGround1(x, y)
              /\ s >= 50 \/ d > 120 => OutsideGround2(x, y)
  BY SMT DEF Near, Steps, Rounded, Side, Outside, OutsideGround1, OutsideGround2
<1>3. z.num = TurnedBy(p, v, w) /\ z.den = TurnedBy(p, a, b)
  OBVIOUS
<1> HIDE DEF a, b, n, v, w, q1, q2
<1>4. SeenAs(z, n, q1, q2)
  BY <1>1, <1>3, Turned
<1>5. PICK x \in Int, y \in Int : Impedance(z) = Corner(x, y) /\ Near(q1, q2, 2 * n, x, y)
  BY <1>1, <1>4, SeenNear
<1> QED BY <1>2, <1>5, OutsideZones DEF KeptOut

\* The ground unit of the phase ahead.
LEMMA AheadOfOneFaulted ==
    ASSUME NEW z, NEW p \in Phases, NEW d \in Int, NEW s \in Int, d > 0, s > 0,
           z.num = TurnedBy(p, -11 * s, 25 * d + 25 * s),
           z.den = TurnedBy(p, 11, 0)
    PROVE  KeptOut(z, Quad!Zone1Ground, Quad!Zone2Ground, d, s)
<1> DEFINE a == 11
           b == 0
           n == 121
           v == -11 * s
           w == 25 * d + 25 * s
           q1 == -121 * s
           q2 == 275 * d + 275 * s
<1>1. /\ a \in Int /\ b \in Int /\ (a # 0 \/ b # 0) /\ n = a * a - a * b + b * b /\ n \in Int
      /\ n > 0 /\ v \in Int /\ w \in Int /\ q1 \in Int /\ q2 \in Int
      /\ q1 = v * (a - b) + w * b /\ q2 = w * a - v * b
  BY SMT
<1>2. \A x \in Int, y \in Int : Near(q1, q2, 2 * n, x, y) =>
              /\ s >= 50 \/ d > 80 => OutsideGround1(x, y)
              /\ s >= 50 \/ d > 120 => OutsideGround2(x, y)
  BY SMT DEF Near, Steps, Rounded, Side, Outside, OutsideGround1, OutsideGround2
<1>3. z.num = TurnedBy(p, v, w) /\ z.den = TurnedBy(p, a, b)
  OBVIOUS
<1> HIDE DEF a, b, n, v, w, q1, q2
<1>4. SeenAs(z, n, q1, q2)
  BY <1>1, <1>3, Turned
<1>5. PICK x \in Int, y \in Int : Impedance(z) = Corner(x, y) /\ Near(q1, q2, 2 * n, x, y)
  BY <1>1, <1>4, SeenNear
<1> QED BY <1>2, <1>5, OutsideZones DEF KeptOut

\* The phase units with the faulted phase in them.
LEMMA PairOfOneFaulted ==
    ASSUME NEW z, NEW p \in Phases, NEW d \in Int, NEW s \in Int, d > 0, s > 0,
           z.num = TurnedBy(p, 50 * d + 36 * s, 25 * d + 25 * s),
           z.den = TurnedBy(p, 14, 0)
    PROVE  KeptOut(z, Quad!Zone1Phase, Quad!Zone2Phase, d, s)
<1> DEFINE a == 14
           b == 0
           n == 196
           v == 50 * d + 36 * s
           w == 25 * d + 25 * s
           q1 == 700 * d + 504 * s
           q2 == 350 * d + 350 * s
<1>1. /\ a \in Int /\ b \in Int /\ (a # 0 \/ b # 0) /\ n = a * a - a * b + b * b /\ n \in Int
      /\ n > 0 /\ v \in Int /\ w \in Int /\ q1 \in Int /\ q2 \in Int
      /\ q1 = v * (a - b) + w * b /\ q2 = w * a - v * b
  BY SMT
<1>2. \A x \in Int, y \in Int : Near(q1, q2, 2 * n, x, y) =>
              /\ s >= 50 \/ d > 80 => OutsidePhase1(x, y)
              /\ s >= 50 \/ d > 120 => OutsidePhase2(x, y)
  BY SMT DEF Near, Steps, Rounded, Side, Outside, OutsidePhase1, OutsidePhase2
<1>3. z.num = TurnedBy(p, v, w) /\ z.den = TurnedBy(p, a, b)
  OBVIOUS
<1> HIDE DEF a, b, n, v, w, q1, q2
<1>4. SeenAs(z, n, q1, q2)
  BY <1>1, <1>3, Turned
<1>5. PICK x \in Int, y \in Int : Impedance(z) = Corner(x, y) /\ Near(q1, q2, 2 * n, x, y)
  BY <1>1, <1>4, SeenNear
<1> QED BY <1>2, <1>5, OutsideZones DEF KeptOut

LEMMA OtherPairOfOneFaulted ==
    ASSUME NEW z, NEW p \in Phases, NEW d \in Int, NEW s \in Int, d > 0, s > 0,
           z.num = TurnedBy(p, -25 * d - 11 * s, 25 * d + 25 * s),
           z.den = TurnedBy(p, -14, 0)
    PROVE  KeptOut(z, Quad!Zone1Phase, Quad!Zone2Phase, d, s)
<1> DEFINE a == -14
           b == 0
           n == 196
           v == -25 * d - 11 * s
           w == 25 * d + 25 * s
           q1 == 350 * d + 154 * s
           q2 == -350 * d - 350 * s
<1>1. /\ a \in Int /\ b \in Int /\ (a # 0 \/ b # 0) /\ n = a * a - a * b + b * b /\ n \in Int
      /\ n > 0 /\ v \in Int /\ w \in Int /\ q1 \in Int /\ q2 \in Int
      /\ q1 = v * (a - b) + w * b /\ q2 = w * a - v * b
  BY SMT
<1>2. \A x \in Int, y \in Int : Near(q1, q2, 2 * n, x, y) =>
              /\ s >= 50 \/ d > 80 => OutsidePhase1(x, y)
              /\ s >= 50 \/ d > 120 => OutsidePhase2(x, y)
  BY SMT DEF Near, Steps, Rounded, Side, Outside, OutsidePhase1, OutsidePhase2
<1>3. z.num = TurnedBy(p, v, w) /\ z.den = TurnedBy(p, a, b)
  OBVIOUS
<1> HIDE DEF a, b, n, v, w, q1, q2
<1>4. SeenAs(z, n, q1, q2)
  BY <1>1, <1>3, Turned
<1>5. PICK x \in Int, y \in Int : Impedance(z) = Corner(x, y) /\ Near(q1, q2, 2 * n, x, y)
  BY <1>1, <1>4, SeenNear
<1> QED BY <1>2, <1>5, OutsideZones DEF KeptOut

\* A fault between two phases: their ground units.
LEMMA FirstOfPair ==
    ASSUME NEW z, NEW p \in Phases, NEW d \in Int, NEW s \in Int, d > 0, s > 0,
           z.num = TurnedBy(p, 2 * d, -s),
           z.den = TurnedBy(p, 2, 1)
    PROVE  KeptOutIsolated(z, Quad!Zone1Ground, Quad!Zone2Ground, s)
<1> DEFINE a == 2
           b == 1
           n == 3
           v == 2 * d
           w == -s
           q1 == 2 * d - s
           q2 == -2 * d - 2 * s
<1>1. /\ a \in Int /\ b \in Int /\ (a # 0 \/ b # 0) /\ n = a * a - a * b + b * b /\ n \in Int
      /\ n > 0 /\ v \in Int /\ w \in Int /\ q1 \in Int /\ q2 \in Int
      /\ q1 = v * (a - b) + w * b /\ q2 = w * a - v * b
  BY SMT
<1>2. \A x \in Int, y \in Int : Near(q1, q2, 2 * n, x, y) =>
              (s >= 200 => OutsideGround1(x, y) /\ OutsideGround2(x, y))
  BY SMT DEF Near, Steps, Rounded, Side, Outside, OutsideGround1, OutsideGround2
<1>3. z.num = TurnedBy(p, v, w) /\ z.den = TurnedBy(p, a, b)
  OBVIOUS
<1> HIDE DEF a, b, n, v, w, q1, q2
<1>4. SeenAs(z, n, q1, q2)
  BY <1>1, <1>3, Turned
<1>5. PICK x \in Int, y \in Int : Impedance(z) = Corner(x, y) /\ Near(q1, q2, 2 * n, x, y)
  BY <1>1, <1>4, SeenNear
<1> QED BY <1>2, <1>5, OutsideZones DEF KeptOutIsolated

LEMMA SecondOfPair ==
    ASSUME NEW z, NEW p \in Phases, NEW d \in Int, NEW s \in Int, d > 0, s > 0,
           z.num = TurnedBy(p, -2 * d, -2 * d - s),
           z.den = TurnedBy(p, -2, -1)
    PROVE  KeptOutIsolated(z, Quad!Zone1Ground, Quad!Zone2Ground, s)
<1> DEFINE a == -2
           b == -1
           n == 3
           v == -2 * d
           w == -2 * d - s
           q1 == 4 * d + s
           q2 == 2 * d + 2 * s
<1>1. /\ a \in Int /\ b \in Int /\ (a # 0 \/ b # 0) /\ n = a * a - a * b + b * b /\ n \in Int
      /\ n > 0 /\ v \in Int /\ w \in Int /\ q1 \in Int /\ q2 \in Int
      /\ q1 = v * (a - b) + w * b /\ q2 = w * a - v * b
  BY SMT
<1>2. \A x \in Int, y \in Int : Near(q1, q2, 2 * n, x, y) =>
              (s >= 200 => OutsideGround1(x, y) /\ OutsideGround2(x, y))
  BY SMT DEF Near, Steps, Rounded, Side, Outside, OutsideGround1, OutsideGround2
<1>3. z.num = TurnedBy(p, v, w) /\ z.den = TurnedBy(p, a, b)
  OBVIOUS
<1> HIDE DEF a, b, n, v, w, q1, q2
<1>4. SeenAs(z, n, q1, q2)
  BY <1>1, <1>3, Turned
<1>5. PICK x \in Int, y \in Int : Impedance(z) = Corner(x, y) /\ Near(q1, q2, 2 * n, x, y)
  BY <1>1, <1>4, SeenNear
<1> QED BY <1>2, <1>5, OutsideZones DEF KeptOutIsolated

\* And the phase units they share with the third phase.
LEMMA PairBehind ==
    ASSUME NEW z, NEW p \in Phases, NEW d \in Int, NEW s \in Int, d > 0, s > 0,
           z.num = TurnedBy(p, -2 * d, -4 * d - 3 * s),
           z.den = TurnedBy(p, -2, -1)
    PROVE  KeptOutIsolated(z, Quad!Zone1Phase, Quad!Zone2Phase, s)
<1> DEFINE a == -2
           b == -1
           n == 3
           v == -2 * d
           w == -4 * d - 3 * s
           q1 == 6 * d + 3 * s
           q2 == 6 * d + 6 * s
<1>1. /\ a \in Int /\ b \in Int /\ (a # 0 \/ b # 0) /\ n = a * a - a * b + b * b /\ n \in Int
      /\ n > 0 /\ v \in Int /\ w \in Int /\ q1 \in Int /\ q2 \in Int
      /\ q1 = v * (a - b) + w * b /\ q2 = w * a - v * b
  BY SMT
<1>2. \A x \in Int, y \in Int : Near(q1, q2, 2 * n, x, y) =>
              (s >= 200 => OutsidePhase1(x, y) /\ OutsidePhase2(x, y))
  BY SMT DEF Near, Steps, Rounded, Side, Outside, OutsidePhase1, OutsidePhase2
<1>3. z.num = TurnedBy(p, v, w) /\ z.den = TurnedBy(p, a, b)
  OBVIOUS
<1> HIDE DEF a, b, n, v, w, q1, q2
<1>4. SeenAs(z, n, q1, q2)
  BY <1>1, <1>3, Turned
<1>5. PICK x \in Int, y \in Int : Impedance(z) = Corner(x, y) /\ Near(q1, q2, 2 * n, x, y)
  BY <1>1, <1>4, SeenNear
<1> QED BY <1>2, <1>5, OutsideZones DEF KeptOutIsolated

LEMMA PairAhead ==
    ASSUME NEW z, NEW p \in Phases, NEW d \in Int, NEW s \in Int, d > 0, s > 0,
           z.num = TurnedBy(p, -2 * d, 2 * d + 3 * s),
           z.den = TurnedBy(p, -2, -1)
    PROVE  KeptOutIsolated(z, Quad!Zone1Phase, Quad!Zone2Phase, s)
<1> DEFINE a == -2
           b == -1
           n == 3
           v == -2 * d
           w == 2 * d + 3 * s
           q1 == -3 * s
           q2 == -6 * d - 6 * s
<1>1. /\ a \in Int /\ b \in Int /\ (a # 0 \/ b # 0) /\ n = a * a - a * b + b * b /\ n \in Int
      /\ n > 0 /\ v \in Int /\ w \in Int /\ q1 \in Int /\ q2 \in Int
      /\ q1 = v * (a - b) + w * b /\ q2 = w * a - v * b
  BY SMT
<1>2. \A x \in Int, y \in Int : Near(q1, q2, 2 * n, x, y) =>
              (s >= 200 => OutsidePhase1(x, y) /\ OutsidePhase2(x, y))
  BY SMT DEF Near, Steps, Rounded, Side, Outside, OutsidePhase1, OutsidePhase2
<1>3. z.num = TurnedBy(p, v, w) /\ z.den = TurnedBy(p, a, b)
  OBVIOUS
<1> HIDE DEF a, b, n, v, w, q1, q2
<1>4. SeenAs(z, n, q1, q2)
  BY <1>1, <1>3, Turned
<1>5. PICK x \in Int, y \in Int : Impedance(z) = Corner(x, y) /\ Near(q1, q2, 2 * n, x, y)
  BY <1>1, <1>4, SeenNear
<1> QED BY <1>2, <1>5, OutsideZones DEF KeptOutIsolated

\* A fault of two phases to earth: the ground unit of the third.
LEMMA SoundPhase ==
    ASSUME NEW z, NEW p \in Phases, NEW d \in Int, NEW s \in Int, d > 0, s > 0,
           z.num = TurnedBy(p, 0, 36 * d + 47 * s),
           z.den = TurnedBy(p, 0, -11)
    PROVE  KeptOut(z, Quad!Zone1Ground, Quad!Zone2Ground, d, s)
<1> DEFINE a == 0
           b == -11
           n == 121
           v == 0
           w == 36 * d + 47 * s
           q1 == -396 * d - 517 * s
           q2 == 0
<1>1. /\ a \in Int /\ b \in Int /\ (a # 0 \/ b # 0) /\ n = a * a - a * b + b * b /\ n \in Int
      /\ n > 0 /\ v \in Int /\ w \in Int /\ q1 \in Int /\ q2 \in Int
      /\ q1 = v * (a - b) + w * b /\ q2 = w * a - v * b
  BY SMT
<1>2. \A x \in Int, y \in Int : Near(q1, q2, 2 * n, x, y) =>
              /\ s >= 50 \/ d > 80 => OutsideGround1(x, y)
              /\ s >= 50 \/ d > 120 => OutsideGround2(x, y)
  BY SMT DEF Near, Steps, Rounded, Side, Outside, OutsideGround1, OutsideGround2
<1>3. z.num = TurnedBy(p, v, w) /\ z.den = TurnedBy(p, a, b)
  OBVIOUS
<1> HIDE DEF a, b, n, v, w, q1, q2
<1>4. SeenAs(z, n, q1, q2)
  BY <1>1, <1>3, Turned
<1>5. PICK x \in Int, y \in Int : Impedance(z) = Corner(x, y) /\ Near(q1, q2, 2 * n, x, y)
  BY <1>1, <1>4, SeenNear
<1> QED BY <1>2, <1>5, OutsideZones DEF KeptOut

\* And the phase units it shares with them.
LEMMA EarthedPairBehind ==
    ASSUME NEW z, NEW p \in Phases, NEW d \in Int, NEW s \in Int, d > 0, s > 0,
           z.num = TurnedBy(p, -36 * d, -72 * d - 47 * s),
           z.den = TurnedBy(p, -36, -25)
    PROVE  KeptOut(z, Quad!Zone1Phase, Quad!Zone2Phase, d, s)
<1> DEFINE a == -36
           b == -25
           n == 1021
           v == -36 * d
           w == -72 * d - 47 * s
           q1 == 2196 * d + 1175 * s
           q2 == 1692 * d + 1692 * s
<1>1. /\ a \in Int /\ b \in Int /\ (a # 0 \/ b # 0) /\ n = a * a - a * b + b * b /\ n \in Int
      /\ n > 0 /\ v \in Int /\ w \in Int /\ q1 \in Int /\ q2 \in Int
      /\ q1 = v * (a - b) + w * b /\ q2 = w * a - v * b
  BY SMT
<1>2. \A x \in Int, y \in Int : Near(q1, q2, 2 * n, x, y) =>
              /\ s >= 50 \/ d > 80 => OutsidePhase1(x, y)
              /\ s >= 50 \/ d > 120 => OutsidePhase2(x, y)
  BY SMT DEF Near, Steps, Rounded, Side, Outside, OutsidePhase1, OutsidePhase2
<1>3. z.num = TurnedBy(p, v, w) /\ z.den = TurnedBy(p, a, b)
  OBVIOUS
<1> HIDE DEF a, b, n, v, w, q1, q2
<1>4. SeenAs(z, n, q1, q2)
  BY <1>1, <1>3, Turned
<1>5. PICK x \in Int, y \in Int : Impedance(z) = Corner(x, y) /\ Near(q1, q2, 2 * n, x, y)
  BY <1>1, <1>4, SeenNear
<1> QED BY <1>2, <1>5, OutsideZones DEF KeptOut

LEMMA EarthedPairAhead ==
    ASSUME NEW z, NEW p \in Phases, NEW d \in Int, NEW s \in Int, d > 0, s > 0,
           z.num = TurnedBy(p, -36 * d, 36 * d + 47 * s),
           z.den = TurnedBy(p, -36, -11)
    PROVE  KeptOut(z, Quad!Zone1Phase, Quad!Zone2Phase, d, s)
<1> DEFINE a == -36
           b == -11
           n == 1021
           v == -36 * d
           w == 36 * d + 47 * s
           q1 == 504 * d - 517 * s
           q2 == -1692 * d - 1692 * s
<1>1. /\ a \in Int /\ b \in Int /\ (a # 0 \/ b # 0) /\ n = a * a - a * b + b * b /\ n \in Int
      /\ n > 0 /\ v \in Int /\ w \in Int /\ q1 \in Int /\ q2 \in Int
      /\ q1 = v * (a - b) + w * b /\ q2 = w * a - v * b
  BY SMT
<1>2. \A x \in Int, y \in Int : Near(q1, q2, 2 * n, x, y) =>
              /\ s >= 50 \/ d > 80 => OutsidePhase1(x, y)
              /\ s >= 50 \/ d > 120 => OutsidePhase2(x, y)
  BY SMT DEF Near, Steps, Rounded, Side, Outside, OutsidePhase1, OutsidePhase2
<1>3. z.num = TurnedBy(p, v, w) /\ z.den = TurnedBy(p, a, b)
  OBVIOUS
<1> HIDE DEF a, b, n, v, w, q1, q2
<1>4. SeenAs(z, n, q1, q2)
  BY <1>1, <1>3, Turned
<1>5. PICK x \in Int, y \in Int : Impedance(z) = Corner(x, y) /\ Near(q1, q2, 2 * n, x, y)
  BY <1>1, <1>4, SeenNear
<1> QED BY <1>2, <1>5, OutsideZones DEF KeptOut

-----------------------------------------------------------------------------
LEMMA IsolatedCurrents ==
    ASSUME NEW k \in Isolated
    PROVE  EarthDrop(k) = Zero /\ \A p \in Phases \ Faulted[k] : FaultCurrent(k, p) = Zero
BY Drops DEF Isolated, Kinds, SinglePhase, TwoPhaseEarth, FaultCurrent

\* What the other units of a fault of one phase to earth see, turned to each phase.
SinglePhaseTurnedA(d, s) ==
    /\ TurnedBy("A", -25 * d - 36 * s, -25 * d - 25 * s) = <<-25 * d - 36 * s, -25 * d - 25 * s>>
    /\ TurnedBy("A", -11 * s, 25 * d + 25 * s) = <<-11 * s, 25 * d + 25 * s>>
    /\ TurnedBy("A", 50 * d + 36 * s, 25 * d + 25 * s) = <<50 * d + 36 * s, 25 * d + 25 * s>>
    /\ TurnedBy("A", -25 * d - 11 * s, 25 * d + 25 * s) = <<-25 * d - 11 * s, 25 * d + 25 * s>>
    /\ TurnedBy("A", 11, 0) = <<11, 0>>
    /\ TurnedBy("A", 14, 0) = <<14, 0>>
    /\ TurnedBy("A", -14, 0) = <<-14, 0>>
SinglePhaseTurnedB(d, s) ==
    /\ TurnedBy("B", -25 * d - 36 * s, -25 * d - 25 * s) = <<11 * s, 25 * d + 36 * s>>
    /\ TurnedBy("B", -11 * s, 25 * d + 25 * s) = <<25 * d + 36 * s, 11 * s>>
    /\ TurnedBy("B", 50 * d + 36 * s, 25 * d + 25 * s) = <<-25 * d - 11 * s, -50 * d - 36 * s>>
    /\ TurnedBy("B", -25 * d - 11 * s, 25 * d + 25 * s) = <<50 * d + 36 * s, 25 * d + 11 * s>>
    /\ TurnedBy("B", 11, 0) = <<-11, -11>>
    /\ TurnedBy("B", 14, 0) = <<-14, -14>>
    /\ TurnedBy("B", -14, 0) = <<14, 14>>
SinglePhaseTurnedC(d, s) ==
    /\ TurnedBy("C", -25 * d - 36 * s, -25 * d - 25 * s) = <<25 * d + 25 * s, -11 * s>>
    /\ TurnedBy("C", -11 * s, 25 * d + 25 * s) = <<-25 * d - 25 * s, -25 * d - 36 * s>>
    /\ TurnedBy("C", 50 * d + 36 * s, 25 * d + 25 * s) = <<-25 * d - 25 * s, 25 * d + 11 * s>>
    /\ TurnedBy("C", -25 * d - 11 * s, 25 * d + 25 * s) = <<-25 * d - 25 * s, -50 * d - 36 * s>>
    /\ TurnedBy("C", 11, 0) = <<0, 11>>
    /\ TurnedBy("C", 14, 0) = <<0, 14>>
    /\ TurnedBy("C", -14, 0) = <<0, -14>>

LEMMA SinglePhaseTurnedFacts ==
    ASSUME NEW d \in Int, NEW s \in Int
    PROVE  SinglePhaseTurnedA(d, s) /\ SinglePhaseTurnedB(d, s) /\ SinglePhaseTurnedC(d, s)
BY SMT DEF SinglePhaseTurnedA, SinglePhaseTurnedB, SinglePhaseTurnedC, TurnedBy

\* A fault of one phase to earth: the currents of the others vanish.
LEMMA SinglePhaseUnits ==
    ASSUME NEW l \in Lines, NEW p \in Phases, NEW q, NEW r, q = NextPhase[p], r = NextPhase[q],
           l.kind \in SinglePhase, Faulted[l.kind] = {p},
           NEW d \in Int, NEW s \in Int, d = l.dist, s = l.src
    PROVE  /\ GroundUnit(l, q).num = TurnedBy(p, -25 * d - 36 * s, -25 * d - 25 * s)
           /\ GroundUnit(l, q).den = TurnedBy(p, 11, 0)
           /\ GroundUnit(l, r).num = TurnedBy(p, -11 * s, 25 * d + 25 * s)
           /\ GroundUnit(l, r).den = TurnedBy(p, 11, 0)
           /\ PhaseUnit(l, p).num = TurnedBy(p, 50 * d + 36 * s, 25 * d + 25 * s)
           /\ PhaseUnit(l, p).den = TurnedBy(p, 14, 0)
           /\ PhaseUnit(l, r).num = TurnedBy(p, -25 * d - 11 * s, 25 * d + 25 * s)
           /\ PhaseUnit(l, r).den = TurnedBy(p, -14, 0)
           /\ PhaseUnit(l, q).den = Zero
<1>0. SinglePhaseTurnedA(d, s) /\ SinglePhaseTurnedB(d, s) /\ SinglePhaseTurnedC(d, s)
  BY SinglePhaseTurnedFacts
<1>1. Denominator(l.kind) = 25 /\ K0_I_N(l) = EarthDrop(l.kind)
  BY Denominators, EarthCompensated DEF Earthed
<1>2. CASE p = "A"
  <2>1. /\ FaultCurrent(l.kind, "A") = <<14, 0>> /\ FaultCurrent(l.kind, "B") = <<0, 0>>
        /\ FaultCurrent(l.kind, "C") = <<0, 0>> /\ EarthDrop(l.kind) = <<11, 0>>
        /\ q = "B" /\ r = "C"
    BY <1>2, EarthFaultCurrents, Drops
       DEF Faulted, SinglePhase, Phases, Scale, Healthy, K0_D, K0_N, Zero, NextPhase
  <2>2. /\ I(l, "A") = <<14, 0>> /\ I(l, "B") = <<0, 0>> /\ I(l, "C") = <<0, 0>>
        /\ V(l, "A") = <<25 * d, 0>>
        /\ V(l, "B") = <<-25 * d - 36 * s, -25 * d - 25 * s>>
        /\ V(l, "C") = <<-11 * s, 25 * d + 25 * s>>
    BY SMT, <1>1, <2>1 DEF I, V, FaultVoltage, Minus, Scale, Plus, Healthy
  <2>3. K0_I_N(l) = <<11, 0>>
    BY <1>1, <2>1
  <2>4. /\ GroundUnit(l, "B").num = <<-25 * d - 36 * s, -25 * d - 25 * s>>
        /\ GroundUnit(l, "C").num = <<-11 * s, 25 * d + 25 * s>>
        /\ PhaseUnit(l, "A").num = <<50 * d + 36 * s, 25 * d + 25 * s>>
        /\ PhaseUnit(l, "C").num = <<-25 * d - 11 * s, 25 * d + 25 * s>>
    BY SMT, <2>2 DEF GroundUnit, PhaseUnit, Minus, NextPhase
  <2>5. /\ GroundUnit(l, "B").den = <<11, 0>>
        /\ GroundUnit(l, "C").den = <<11, 0>>
        /\ PhaseUnit(l, "A").den = <<14, 0>>
        /\ PhaseUnit(l, "C").den = <<-14, 0>>
        /\ PhaseUnit(l, "B").den = <<0, 0>>
    BY SMT, <2>2, <2>3 DEF GroundUnit, PhaseUnit, Plus, Minus, NextPhase
  <2>6. p = "A" /\ q = "B" /\ r = "C"
    BY <1>2, <2>1
  <2> QED BY <1>0, <2>4, <2>5, <2>6 DEF SinglePhaseTurnedA, Zero
<1>3. CASE p = "B"
  <2>1. /\ FaultCurrent(l.kind, "A") = <<0, 0>> /\ FaultCurrent(l.kind, "B") = <<-14, -14>>
        /\ FaultCurrent(l.kind, "C") = <<0, 0>> /\ EarthDrop(l.kind) = <<-11, -11>>
        /\ q = "C" /\ r = "A"
    BY <1>3, EarthFaultCurrents, Drops
       DEF Faulted, SinglePhase, Phases, Scale, Healthy, K0_D, K0_N, Zero, NextPhase
  <2>2. /\ I(l, "A") = <<0, 0>> /\ I(l, "B") = <<-14, -14>> /\ I(l, "C") = <<0, 0>>
        /\ V(l, "A") = <<25 * d + 36 * s, 11 * s>>
        /\ V(l, "B") = <<-25 * d, -25 * d>>
        /\ V(l, "C") = <<11 * s, 25 * d + 36 * s>>
    BY SMT, <1>1, <2>1 DEF I, V, FaultVoltage, Minus, Scale, Plus, Healthy
  <2>3. K0_I_N(l) = <<-11, -11>>
    BY <1>1, <2>1
  <2>4. /\ GroundUnit(l, "C").num = <<11 * s, 25 * d + 36 * s>>
        /\ GroundUnit(l, "A").num = <<25 * d + 36 * s, 11 * s>>
        /\ PhaseUnit(l, "B").num = <<-25 * d - 11 * s, -50 * d - 36 * s>>
        /\ PhaseUnit(l, "A").num = <<50 * d + 36 * s, 25 * d + 11 * s>>
    BY SMT, <2>2 DEF GroundUnit, PhaseUnit, Minus, NextPhase
  <2>5. /\ GroundUnit(l, "C").den = <<-11, -11>>
        /\ GroundUnit(l, "A").den = <<-11, -11>>
        /\ PhaseUnit(l, "B").den = <<-14, -14>>
        /\ PhaseUnit(l, "A").den = <<14, 14>>
        /\ PhaseUnit(l, "C").den = <<0, 0>>
    BY SMT, <2>2, <2>3 DEF GroundUnit, PhaseUnit, Plus, Minus, NextPhase
  <2>6. p = "B" /\ q = "C" /\ r = "A"
    BY <1>3, <2>1
  <2> QED BY <1>0, <2>4, <2>5, <2>6 DEF SinglePhaseTurnedB, Zero
<1>4. CASE p = "C"
  <2>1. /\ FaultCurrent(l.kind, "A") = <<0, 0>> /\ FaultCurrent(l.kind, "B") = <<0, 0>>
        /\ FaultCurrent(l.kind, "C") = <<0, 14>> /\ EarthDrop(l.kind) = <<0, 11>>
        /\ q = "A" /\ r = "B"
    BY <1>4, EarthFaultCurrents, Drops
       DEF Faulted, SinglePhase, Phases, Scale, Healthy, K0_D, K0_N, Zero, NextPhase
  <2>2. /\ I(l, "A") = <<0, 0>> /\ I(l, "B") = <<0, 0>> /\ I(l, "C") = <<0, 14>>
        /\ V(l, "A") = <<25 * d + 25 * s, -11 * s>>
        /\ V(l, "B") = <<-25 * d - 25 * s, -25 * d - 36 * s>>
        /\ V(l, "C") = <<0, 25 * d>>
    BY SMT, <1>1, <2>1 DEF I, V, FaultVoltage, Minus, Scale, Plus, Healthy
  <2>3. K0_I_N(l) = <<0, 11>>
    BY <1>1, <2>1
  <2>4. /\ GroundUnit(l, "A").num = <<25 * d + 25 * s, -11 * s>>
        /\ GroundUnit(l, "B").num = <<-25 * d - 25 * s, -25 * d - 36 * s>>
        /\ PhaseUnit(l, "C").num = <<-25 * d - 25 * s, 25 * d + 11 * s>>
        /\ PhaseUnit(l, "B").num = <<-25 * d - 25 * s, -50 * d - 36 * s>>
    BY SMT, <2>2 DEF GroundUnit, PhaseUnit, Minus, NextPhase
  <2>5. /\ GroundUnit(l, "A").den = <<0, 11>>
        /\ GroundUnit(l, "B").den = <<0, 11>>
        /\ PhaseUnit(l, "C").den = <<0, 14>>
        /\ PhaseUnit(l, "B").den = <<0, -14>>
        /\ PhaseUnit(l, "A").den = <<0, 0>>
    BY SMT, <2>2, <2>3 DEF GroundUnit, PhaseUnit, Plus, Minus, NextPhase
  <2>6. p = "C" /\ q = "A" /\ r = "B"
    BY <1>4, <2>1
  <2> QED BY <1>0, <2>4, <2>5, <2>6 DEF SinglePhaseTurnedC, Zero
<1> QED BY <1>2, <1>3, <1>4 DEF Phases

\* The same for a fault between two phases.
IsolatedTurnedA(d, s) ==
    /\ TurnedBy("A", 2 * d, -s) = <<2 * d, -s>>
    /\ TurnedBy("A", -2 * d, -2 * d - s) = <<-2 * d, -2 * d - s>>
    /\ TurnedBy("A", -2 * d, -4 * d - 3 * s) = <<-2 * d, -4 * d - 3 * s>>
    /\ TurnedBy("A", -2 * d, 2 * d + 3 * s) = <<-2 * d, 2 * d + 3 * s>>
    /\ TurnedBy("A", 2, 1) = <<2, 1>>
    /\ TurnedBy("A", -2, -1) = <<-2, -1>>
IsolatedTurnedB(d, s) ==
    /\ TurnedBy("B", 2 * d, -s) = <<-2 * d - s, -2 * d>>
    /\ TurnedBy("B", -2 * d, -2 * d - s) = <<-s, 2 * d>>
    /\ TurnedBy("B", -2 * d, -4 * d - 3 * s) = <<-2 * d - 3 * s, 2 * d>>
    /\ TurnedBy("B", -2 * d, 2 * d + 3 * s) = <<4 * d + 3 * s, 2 * d>>
    /\ TurnedBy("B", 2, 1) = <<-1, -2>>
    /\ TurnedBy("B", -2, -1) = <<1, 2>>
IsolatedTurnedC(d, s) ==
    /\ TurnedBy("C", 2 * d, -s) = <<s, 2 * d + s>>
    /\ TurnedBy("C", -2 * d, -2 * d - s) = <<2 * d + s, s>>
    /\ TurnedBy("C", -2 * d, -4 * d - 3 * s) = <<4 * d + 3 * s, 2 * d + 3 * s>>
    /\ TurnedBy("C", -2 * d, 2 * d + 3 * s) = <<-2 * d - 3 * s, -4 * d - 3 * s>>
    /\ TurnedBy("C", 2, 1) = <<-1, 1>>
    /\ TurnedBy("C", -2, -1) = <<1, -1>>

LEMMA IsolatedTurnedFacts ==
    ASSUME NEW d \in Int, NEW s \in Int
    PROVE  IsolatedTurnedA(d, s) /\ IsolatedTurnedB(d, s) /\ IsolatedTurnedC(d, s)
BY SMT DEF IsolatedTurnedA, IsolatedTurnedB, IsolatedTurnedC, TurnedBy

\* A fault between two phases: the third carries nothing, and nothing flows to earth.
LEMMA IsolatedUnits ==
    ASSUME NEW l \in Lines, NEW p \in Phases, NEW q, NEW r, q = NextPhase[p], r = NextPhase[q],
           l.kind \in Isolated, Faulted[l.kind] = {p, q},
           NEW d \in Int, NEW s \in Int, d = l.dist, s = l.src
    PROVE  /\ GroundUnit(l, p).num = TurnedBy(p, 2 * d, -s)
           /\ GroundUnit(l, p).den = TurnedBy(p, 2, 1)
           /\ GroundUnit(l, q).num = TurnedBy(p, -2 * d, -2 * d - s)
           /\ GroundUnit(l, q).den = TurnedBy(p, -2, -1)
           /\ PhaseUnit(l, q).num = TurnedBy(p, -2 * d, -4 * d - 3 * s)
           /\ PhaseUnit(l, q).den = TurnedBy(p, -2, -1)
           /\ PhaseUnit(l, r).num = TurnedBy(p, -2 * d, 2 * d + 3 * s)
           /\ PhaseUnit(l, r).den = TurnedBy(p, -2, -1)
           /\ GroundUnit(l, r).den = Zero
<1>0. IsolatedTurnedA(d, s) /\ IsolatedTurnedB(d, s) /\ IsolatedTurnedC(d, s)
  BY IsolatedTurnedFacts
<1>1. Denominator(l.kind) = 2
  BY Denominators
<1>2. CASE p = "A"
  <2>1. /\ FaultCurrent(l.kind, "A") = <<2, 1>> /\ FaultCurrent(l.kind, "B") = <<-2, -1>>
        /\ FaultCurrent(l.kind, "C") = <<0, 0>> /\ EarthDrop(l.kind) = <<0, 0>>
        /\ q = "B" /\ r = "C"
    BY <1>2, OtherCurrents, IsolatedCurrents DEF Faulted, Isolated, Phases, Zero, NextPhase
  <2>2. /\ I(l, "A") = <<2, 1>> /\ I(l, "B") = <<-2, -1>> /\ I(l, "C") = <<0, 0>>
        /\ V(l, "A") = <<2 * d, -s>>
        /\ V(l, "B") = <<-2 * d, -2 * d - s>>
        /\ V(l, "C") = <<0, 2 * d + 2 * s>>
    BY SMT, <1>1, <2>1 DEF I, V, FaultVoltage, Minus, Scale, Plus, Healthy
  <2>3. K0_I_N(l) = <<0, 0>>
    BY SMT, <2>2 DEF K0_I_N, I_N, Plus, Scale, K0_N, K0_D
  <2>4. /\ GroundUnit(l, "A").num = <<2 * d, -s>>
        /\ GroundUnit(l, "B").num = <<-2 * d, -2 * d - s>>
        /\ PhaseUnit(l, "B").num = <<-2 * d, -4 * d - 3 * s>>
        /\ PhaseUnit(l, "C").num = <<-2 * d, 2 * d + 3 * s>>
    BY SMT, <2>2 DEF GroundUnit, PhaseUnit, Minus, NextPhase
  <2>5. /\ GroundUnit(l, "A").den = <<2, 1>>
        /\ GroundUnit(l, "B").den = <<-2, -1>>
        /\ PhaseUnit(l, "B").den = <<-2, -1>>
        /\ PhaseUnit(l, "C").den = <<-2, -1>>
        /\ GroundUnit(l, "C").den = <<0, 0>>
    BY SMT, <2>2, <2>3 DEF GroundUnit, PhaseUnit, Plus, Minus, NextPhase
  <2>6. p = "A" /\ q = "B" /\ r = "C"
    BY <1>2, <2>1
  <2> QED BY <1>0, <2>4, <2>5, <2>6 DEF IsolatedTurnedA, Zero
<1>3. CASE p = "B"
  <2>1. /\ FaultCurrent(l.kind, "A") = <<0, 0>> /\ FaultCurrent(l.kind, "B") = <<-1, -2>>
        /\ FaultCurrent(l.kind, "C") = <<1, 2>> /\ EarthDrop(l.kind) = <<0, 0>>
        /\ q = "C" /\ r = "A"
    BY <1>3, OtherCurrents, IsolatedCurrents DEF Faulted, Isolated, Phases, Zero, NextPhase
  <2>2. /\ I(l, "A") = <<0, 0>> /\ I(l, "B") = <<-1, -2>> /\ I(l, "C") = <<1, 2>>
        /\ V(l, "A") = <<2 * d + 2 * s, 0>>
        /\ V(l, "B") = <<-2 * d - s, -2 * d>>
        /\ V(l, "C") = <<-s, 2 * d>>
    BY SMT, <1>1, <2>1 DEF I, V, FaultVoltage, Minus, Scale, Plus, Healthy
  <2>3. K0_I_N(l) = <<0, 0>>
    BY SMT, <2>2 DEF K0_I_N, I_N, Plus, Scale, K0_N, K0_D
  <2>4. /\ GroundUnit(l, "B").num = <<-2 * d - s, -2 * d>>
        /\ GroundUnit(l, "C").num = <<-s, 2 * d>>
        /\ PhaseUnit(l, "C").num = <<-2 * d - 3 * s, 2 * d>>
        /\ PhaseUnit(l, "A").num = <<4 * d + 3 * s, 2 * d>>
    BY SMT, <2>2 DEF GroundUnit, PhaseUnit, Minus, NextPhase
  <2>5. /\ GroundUnit(l, "B").den = <<-1, -2>>
        /\ GroundUnit(l, "C").den = <<1, 2>>
        /\ PhaseUnit(l, "C").den = <<1, 2>>
        /\ PhaseUnit(l, "A").den = <<1, 2>>
        /\ GroundUnit(l, "A").den = <<0, 0>>
    BY SMT, <2>2, <2>3 DEF GroundUnit, PhaseUnit, Plus, Minus, NextPhase
  <2>6. p = "B" /\ q = "C" /\ r = "A"
    BY <1>3, <2>1
  <2> QED BY <1>0, <2>4, <2>5, <2>6 DEF IsolatedTurnedB, Zero
<1>4. CASE p = "C"
  <2>1. /\ FaultCurrent(l.kind, "A") = <<1, -1>> /\ FaultCurrent(l.kind, "B") = <<0, 0>>
        /\ FaultCurrent(l.kind, "C") = <<-1, 1>> /\ EarthDrop(l.kind) = <<0, 0>>
        /\ q = "A" /\ r = "B"
    BY <1>4, OtherCurrents, IsolatedCurrents DEF Faulted, Isolated, Phases, Zero, NextPhase
  <2>2. /\ I(l, "A") = <<1, -1>> /\ I(l, "B") = <<0, 0>> /\ I(l, "C") = <<-1, 1>>
        /\ V(l, "A") = <<2 * d + s, s>>
        /\ V(l, "B") = <<-2 * d - 2 * s, -2 * d - 2 * s>>
        /\ V(l, "C") = <<s, 2 * d + s>>
    BY SMT, <1>1, <2>1 DEF I, V, FaultVoltage, Minus, Scale, Plus, Healthy
  <2>3. K0_I_N(l) = <<0, 0>>
    BY SMT, <2>2 DEF K0_I_N, I_N, Plus, Scale, K0_N, K0_D
  <2>4. /\ GroundUnit(l, "C").num = <<s, 2 * d + s>>
        /\ GroundUnit(l, "A").num = <<2 * d + s, s>>
        /\ PhaseUnit(l, "A").num = <<4 * d + 3 * s, 2 * d + 3 * s>>
        /\ PhaseUnit(l, "B").num = <<-2 * d - 3 * s, -4 * d - 3 * s>>
    BY SMT, <2>2 DEF GroundUnit, PhaseUnit, Minus, NextPhase
  <2>5. /\ GroundUnit(l, "C").den = <<-1, 1>>
        /\ GroundUnit(l, "A").den = <<1, -1>>
        /\ PhaseUnit(l, "A").den = <<1, -1>>
        /\ PhaseUnit(l, "B").den = <<1, -1>>
        /\ GroundUnit(l, "B").den = <<0, 0>>
    BY SMT, <2>2, <2>3 DEF GroundUnit, PhaseUnit, Plus, Minus, NextPhase
  <2>6. p = "C" /\ q = "A" /\ r = "B"
    BY <1>4, <2>1
  <2> QED BY <1>0, <2>4, <2>5, <2>6 DEF IsolatedTurnedC, Zero
<1> QED BY <1>2, <1>3, <1>4 DEF Phases

\* And for a fault of two phases to earth.
TwoPhaseEarthTurnedA(d, s) ==
    /\ TurnedBy("A", 0, 36 * d + 47 * s) = <<0, 36 * d + 47 * s>>
    /\ TurnedBy("A", -36 * d, -72 * d - 47 * s) = <<-36 * d, -72 * d - 47 * s>>
    /\ TurnedBy("A", -36 * d, 36 * d + 47 * s) = <<-36 * d, 36 * d + 47 * s>>
    /\ TurnedBy("A", 0, -11) = <<0, -11>>
    /\ TurnedBy("A", -36, -25) = <<-36, -25>>
    /\ TurnedBy("A", -36, -11) = <<-36, -11>>
TwoPhaseEarthTurnedB(d, s) ==
    /\ TurnedBy("B", 0, 36 * d + 47 * s) = <<36 * d + 47 * s, 0>>
    /\ TurnedBy("B", -36 * d, -72 * d - 47 * s) = <<-36 * d - 47 * s, 36 * d>>
    /\ TurnedBy("B", -36 * d, 36 * d + 47 * s) = <<72 * d + 47 * s, 36 * d>>
    /\ TurnedBy("B", 0, -11) = <<-11, 0>>
    /\ TurnedBy("B", -36, -25) = <<11, 36>>
    /\ TurnedBy("B", -36, -11) = <<25, 36>>
TwoPhaseEarthTurnedC(d, s) ==
    /\ TurnedBy("C", 0, 36 * d + 47 * s) = <<-36 * d - 47 * s, -36 * d - 47 * s>>
    /\ TurnedBy("C", -36 * d, -72 * d - 47 * s) = <<72 * d + 47 * s, 36 * d + 47 * s>>
    /\ TurnedBy("C", -36 * d, 36 * d + 47 * s) = <<-36 * d - 47 * s, -72 * d - 47 * s>>
    /\ TurnedBy("C", 0, -11) = <<11, 11>>
    /\ TurnedBy("C", -36, -25) = <<25, -11>>
    /\ TurnedBy("C", -36, -11) = <<11, -25>>

LEMMA TwoPhaseEarthTurnedFacts ==
    ASSUME NEW d \in Int, NEW s \in Int
    PROVE  TwoPhaseEarthTurnedA(d, s) /\ TwoPhaseEarthTurnedB(d, s) /\ TwoPhaseEarthTurnedC(d, s)
BY SMT DEF TwoPhaseEarthTurnedA, TwoPhaseEarthTurnedB, TwoPhaseEarthTurnedC, TurnedBy

\* A fault of two phases to earth: the third carries nothing.
LEMMA TwoPhaseEarthUnits ==
    ASSUME NEW l \in Lines, NEW p \in Phases, NEW q, NEW r, q = NextPhase[p], r = NextPhase[q],
           l.kind \in TwoPhaseEarth, Faulted[l.kind] = {p, q},
           NEW d \in Int, NEW s \in Int, d = l.dist, s = l.src
    PROVE  /\ GroundUnit(l, r).num = TurnedBy(p, 0, 36 * d + 47 * s)
           /\ GroundUnit(l, r).den = TurnedBy(p, 0, -11)
           /\ PhaseUnit(l, q).num = TurnedBy(p, -36 * d, -72 * d - 47 * s)
           /\ PhaseUnit(l, q).den = TurnedBy(p, -36, -25)
           /\ PhaseUnit(l, r).num = TurnedBy(p, -36 * d, 36 * d + 47 * s)
           /\ PhaseUnit(l, r).den = TurnedBy(p, -36, -11)
<1>0. TwoPhaseEarthTurnedA(d, s) /\ TwoPhaseEarthTurnedB(d, s) /\ TwoPhaseEarthTurnedC(d, s)
  BY TwoPhaseEarthTurnedFacts
<1>1. Denominator(l.kind) = 36 /\ K0_I_N(l) = EarthDrop(l.kind)
  BY Denominators, EarthCompensated DEF Earthed
<1>2. CASE p = "A"
  <2>1. /\ FaultCurrent(l.kind, "A") = <<36, 11>> /\ FaultCurrent(l.kind, "B") = <<-36, -25>>
        /\ FaultCurrent(l.kind, "C") = <<0, 0>> /\ EarthDrop(l.kind) = <<0, -11>>
        /\ q = "B" /\ r = "C"
    BY <1>2, EarthFaultCurrents, Drops
       DEF Faulted, TwoPhaseEarth, Phases, Scale, K0_N, Zero, NextPhase
  <2>2. /\ I(l, "A") = <<36, 11>> /\ I(l, "B") = <<-36, -25>> /\ I(l, "C") = <<0, 0>>
        /\ V(l, "A") = <<36 * d, 0>>
        /\ V(l, "B") = <<-36 * d, -36 * d>>
        /\ V(l, "C") = <<0, 36 * d + 47 * s>>
    BY SMT, <1>1, <2>1 DEF I, V, FaultVoltage, Minus, Scale, Plus, Healthy
  <2>3. K0_I_N(l) = <<0, -11>>
    BY <1>1, <2>1
  <2>4. /\ GroundUnit(l, "C").num = <<0, 36 * d + 47 * s>>
        /\ PhaseUnit(l, "B").num = <<-36 * d, -72 * d - 47 * s>>
        /\ PhaseUnit(l, "C").num = <<-36 * d, 36 * d + 47 * s>>
    BY SMT, <2>2 DEF GroundUnit, PhaseUnit, Minus, NextPhase
  <2>5. /\ GroundUnit(l, "C").den = <<0, -11>>
        /\ PhaseUnit(l, "B").den = <<-36, -25>>
        /\ PhaseUnit(l, "C").den = <<-36, -11>>
    BY SMT, <2>2, <2>3 DEF GroundUnit, PhaseUnit, Plus, Minus, NextPhase
  <2>6. p = "A" /\ q = "B" /\ r = "C"
    BY <1>2, <2>1
  <2> QED BY <1>0, <2>4, <2>5, <2>6 DEF TwoPhaseEarthTurnedA, Zero
<1>3. CASE p = "B"
  <2>1. /\ FaultCurrent(l.kind, "A") = <<0, 0>> /\ FaultCurrent(l.kind, "B") = <<-25, -36>>
        /\ FaultCurrent(l.kind, "C") = <<11, 36>> /\ EarthDrop(l.kind) = <<-11, 0>>
        /\ q = "C" /\ r = "A"
    BY <1>3, EarthFaultCurrents, Drops
       DEF Faulted, TwoPhaseEarth, Phases, Scale, K0_N, Zero, NextPhase
  <2>2. /\ I(l, "A") = <<0, 0>> /\ I(l, "B") = <<-25, -36>> /\ I(l, "C") = <<11, 36>>
        /\ V(l, "A") = <<36 * d + 47 * s, 0>>
        /\ V(l, "B") = <<-36 * d, -36 * d>>
        /\ V(l, "C") = <<0, 36 * d>>
    BY SMT, <1>1, <2>1 DEF I, V, FaultVoltage, Minus, Scale, Plus, Healthy
  <2>3. K0_I_N(l) = <<-11, 0>>
    BY <1>1, <2>1
  <2>4. /\ GroundUnit(l, "A").num = <<36 * d + 47 * s, 0>>
        /\ PhaseUnit(l, "C").num = <<-36 * d - 47 * s, 36 * d>>
        /\ PhaseUnit(l, "A").num = <<72 * d + 47 * s, 36 * d>>
    BY SMT, <2>2 DEF GroundUnit, PhaseUnit, Minus, NextPhase
  <2>5. /\ GroundUnit(l, "A").den = <<-11, 0>>
        /\ PhaseUnit(l, "C").den = <<11, 36>>
        /\ PhaseUnit(l, "A").den = <<25, 36>>
    BY SMT, <2>2, <2>3 DEF GroundUnit, PhaseUnit, Plus, Minus, NextPhase
  <2>6. p = "B" /\ q = "C" /\ r = "A"
    BY <1>3, <2>1
  <2> QED BY <1>0, <2>4, <2>5, <2>6 DEF TwoPhaseEarthTurnedB, Zero
<1>4. CASE p = "C"
  <2>1. /\ FaultCurrent(l.kind, "A") = <<25, -11>> /\ FaultCurrent(l.kind, "B") = <<0, 0>>
        /\ FaultCurrent(l.kind, "C") = <<-11, 25>> /\ EarthDrop(l.kind) = <<11, 11>>
        /\ q = "A" /\ r = "B"
    BY <1>4, EarthFaultCurrents, Drops
       DEF Faulted, TwoPhaseEarth, Phases, Scale, K0_N, Zero, NextPhase
  <2>2. /\ I(l, "A") = <<25, -11>> /\ I(l, "B") = <<0, 0>> /\ I(l, "C") = <<-11, 25>>
        /\ V(l, "A") = <<36 * d, 0>>
        /\ V(l, "B") = <<-36 * d - 47 * s, -36 * d - 47 * s>>
        /\ V(l, "C") = <<0, 36 * d>>
    BY SMT, <1>1, <2>1 DEF I, V, FaultVoltage, Minus, Scale, Plus, Healthy
  <2>3. K0_I_N(l) = <<11, 11>>
    BY <1>1, <2>1
  <2>4. /\ GroundUnit(l, "B").num = <<-36 * d - 47 * s, -36 * d - 47 * s>>
        /\ PhaseUnit(l, "A").num = <<72 * d + 47 * s, 36 * d + 47 * s>>
        /\ PhaseUnit(l, "B").num = <<-36 * d - 47 * s, -72 * d - 47 * s>>
    BY SMT, <2>2 DEF GroundUnit, PhaseUnit, Minus, NextPhase
  <2>5. /\ GroundUnit(l, "B").den = <<11, 11>>
        /\ PhaseUnit(l, "A").den = <<25, -11>>
        /\ PhaseUnit(l, "B").den = <<11, -25>>
    BY SMT, <2>2, <2>3 DEF GroundUnit, PhaseUnit, Plus, Minus, NextPhase
  <2>6. p = "C" /\ q = "A" /\ r = "B"
    BY <1>4, <2>1
  <2> QED BY <1>0, <2>4, <2>5, <2>6 DEF TwoPhaseEarthTurnedC, Zero
<1> QED BY <1>2, <1>3, <1>4 DEF Phases

-----------------------------------------------------------------------------
(* The units of the six loops, and what the zones make of each.               *)
GroundOf == [A |-> "AT", B |-> "BT", C |-> "CT"]
PairOf == [A |-> "AB", B |-> "BC", C |-> "CA"]

LEMMA MeasuredIn ==
    ASSUME NEW l \in Lines
    PROVE  /\ Measure(l).zone1 \subseteq Relay!Units /\ Measure(l).zone2 \subseteq Relay!Units
           /\ \A p \in Phases :
                /\ GroundOf[p] \in Measure(l).zone1
                     <=> Quad!isInsideQuadrilateral(Impedance(GroundUnit(l, p)), Quad!Zone1Ground)
                /\ GroundOf[p] \in Measure(l).zone2
                     <=> Quad!isInsideQuadrilateral(Impedance(GroundUnit(l, p)), Quad!Zone2Ground)
                /\ PairOf[p] \in Measure(l).zone1
                     <=> Quad!isInsideQuadrilateral(Impedance(PhaseUnit(l, p)), Quad!Zone1Phase)
                /\ PairOf[p] \in Measure(l).zone2
                     <=> Quad!isInsideQuadrilateral(Impedance(PhaseUnit(l, p)), Quad!Zone2Phase)
<1> DEFINE Zr == [w \in Relay!Units |-> Impedance(Z(l)[w])]
<1>1. /\ Measure(l).zone1 = Inside(Zr, Quad!Zone1Ground, Quad!Zone1Phase)
      /\ Measure(l).zone2 = Inside(Zr, Quad!Zone2Ground, Quad!Zone2Phase)
  BY DEF Measure
<1>2. ASSUME NEW p \in Phases
      PROVE  /\ GroundOf[p] \in Relay!Units /\ Zr[GroundOf[p]] = Impedance(GroundUnit(l, p))
             /\ PairOf[p] \in Relay!Units /\ Zr[PairOf[p]] = Impedance(PhaseUnit(l, p))
  BY DEF GroundOf, PairOf, Phases, Relay!Units, Z
<1>3. \A p \in Phases : \A g, f : ZoneOf(GroundOf[p], g, f) = g /\ ZoneOf(PairOf[p], g, f) = f
  BY DEF GroundOf, PairOf, Phases, ZoneOf
<1> HIDE DEF Zr
<1>4. \A g, f : Inside(Zr, g, f) \subseteq Relay!Units
  BY Zenon DEF Inside
<1>5. ASSUME NEW p \in Phases, NEW g, NEW f
      PROVE  /\ GroundOf[p] \in Inside(Zr, g, f)
                  <=> Quad!isInsideQuadrilateral(Impedance(GroundUnit(l, p)), g)
             /\ PairOf[p] \in Inside(Zr, g, f)
                  <=> Quad!isInsideQuadrilateral(Impedance(PhaseUnit(l, p)), f)
  <2>1. GroundOf[p] \in Inside(Zr, g, f)
          <=> Quad!isInsideQuadrilateral(Impedance(GroundUnit(l, p)), g)
    BY Zenon, <1>2, <1>3 DEF Inside
  <2>2. PairOf[p] \in Inside(Zr, g, f)
          <=> Quad!isInsideQuadrilateral(Impedance(PhaseUnit(l, p)), f)
    BY Zenon, <1>2, <1>3 DEF Inside
  <2> QED BY <2>1, <2>2
<1> QED BY Zenon, <1>1, <1>4, <1>5

\* The six units, from any phase on.
LEMMA UnitsFrom ==
    ASSUME NEW p \in Phases, NEW q, NEW r, q = NextPhase[p], r = NextPhase[q]
    PROVE  /\ q \in Phases /\ r \in Phases
           /\ Relay!Units = {GroundOf[p], GroundOf[q], GroundOf[r], PairOf[p], PairOf[q], PairOf[r]}
<1>1. \/ p = "A" /\ q = "B" /\ r = "C"
      \/ p = "B" /\ q = "C" /\ r = "A"
      \/ p = "C" /\ q = "A" /\ r = "B"
  BY DEF Phases, NextPhase
<1> QED BY <1>1 DEF Phases, Relay!Units, GroundOf, PairOf

\* A division by a current that is not there is in no zone.
LEMMA NoCurrent ==
    ASSUME NEW z, z.den = Zero, NEW q
    PROVE  ~Quad!isInsideQuadrilateral(Impedance(z), q)
<1> DEFINE p == [R |-> Quad!NaN, X |-> Quad!NaN]
<1>1. Impedance(z) = p
  BY DEF Impedance
<1>2. \A a, b : Quad!vectorProduct(a, b, p) = Quad!NaN
  <2>1. Quad!NaN.kind = "nan"
    BY DEF Quad!NaN
  <2>2. \A x : /\ Quad!DoubleMinus(Quad!NaN, x) = Quad!NaN
               /\ Quad!DoubleTimes(x, Quad!NaN) = Quad!NaN
    BY Zenon, <2>1 DEF Quad!DoubleMinus, Quad!DoubleTimes
  <2> QED BY Zenon, <2>2 DEF Quad!vectorProduct
<1>3. Quad!NaN \in Quad!Products(p, q)
  <2>1. 1 \in 1 .. 4
    OBVIOUS
  <2> QED BY Zenon, <1>2, <2>1 DEF Quad!Products
<1>4. ~Quad!NotNegative(Quad!NaN) /\ ~Quad!NotPositive(Quad!NaN)
  BY DEF Quad!NotNegative, Quad!NotPositive, Quad!NaN
<1> HIDE DEF p
<1> QED BY Zenon, <1>1, <1>3, <1>4 DEF Quad!isInsideQuadrilateral

\* Beyond a zone's reach the units of the fault's loop are above its top.
LEMMA LoopsBeyond ==
    ASSUME NEW l \in Lines, NEW u \in Loops[l.kind]
    PROVE  /\ l.dist > 80 => u \notin Measure(l).zone1
           /\ l.dist > 120 => u \notin Measure(l).zone2
<1> DEFINE d == l.dist
           re == ((100 * d) * 6375) \div 10000
           x == (re * 105) \div 10000
           y == (re * 995) \div 10000
<1>1. d \in Int /\ d > 0
  BY LineAssumption DEF Lines
<1>2. Impedance(Z(l)[u]) = Corner(x, y)
  <2> DEFINE z == Z(l)[u]
  <2>1. z.num = Scale(d, z.den) /\ z.den \in Int \X Int /\ z.den # Zero
    BY LoopUnits
  <2> HIDE DEF z, d
  <2>2. Impedance(z) = Corner(x, y)
    BY SMT, <1>1, <2>1, ImpedanceAt
  <2> QED BY <2>2 DEF z
<1>3. /\ x \in Int /\ y \in Int
      /\ d > 80 => OutsideGround1(x, y) /\ OutsidePhase1(x, y)
      /\ d > 120 => OutsideGround2(x, y) /\ OutsidePhase2(x, y)
  BY SMT, <1>1 DEF Outside, OutsideGround1, OutsideGround2, OutsidePhase1, OutsidePhase2, Side
<1> HIDE DEF x, y
<1>4. /\ d > 80 => /\ ~Quad!isInsideQuadrilateral(Impedance(Z(l)[u]), Quad!Zone1Ground)
                   /\ ~Quad!isInsideQuadrilateral(Impedance(Z(l)[u]), Quad!Zone1Phase)
      /\ d > 120 => /\ ~Quad!isInsideQuadrilateral(Impedance(Z(l)[u]), Quad!Zone2Ground)
                    /\ ~Quad!isInsideQuadrilateral(Impedance(Z(l)[u]), Quad!Zone2Phase)
  BY <1>2, <1>3, OutsideZones
<1>5. u \in Relay!Units
  BY DEF Loops, Lines, Kinds, Relay!Units
<1>6. /\ u \in Measure(l).zone1 =>
           Quad!isInsideQuadrilateral(Impedance(Z(l)[u]),
                                      ZoneOf(u, Quad!Zone1Ground, Quad!Zone1Phase))
      /\ u \in Measure(l).zone2 =>
           Quad!isInsideQuadrilateral(Impedance(Z(l)[u]),
                                      ZoneOf(u, Quad!Zone2Ground, Quad!Zone2Phase))
  <2> DEFINE Zr == [w \in Relay!Units |-> Impedance(Z(l)[w])]
  <2>1. /\ Measure(l).zone1 = Inside(Zr, Quad!Zone1Ground, Quad!Zone1Phase)
        /\ Measure(l).zone2 = Inside(Zr, Quad!Zone2Ground, Quad!Zone2Phase)
    BY DEF Measure
  <2>2. Zr[u] = Impedance(Z(l)[u])
    BY <1>5
  <2> HIDE DEF Zr
  <2> QED BY Zenon, <2>1, <2>2 DEF Inside
<1>7. \A g, f : ZoneOf(u, g, f) = g \/ ZoneOf(u, g, f) = f
  BY DEF ZoneOf
<1> HIDE DEF d
<1>8. ASSUME d > 80 PROVE u \notin Measure(l).zone1
  BY Zenon, <1>4, <1>6, <1>7, <1>8
<1>9. ASSUME d > 120 PROVE u \notin Measure(l).zone2
  BY Zenon, <1>4, <1>6, <1>7, <1>9
<1> QED BY <1>8, <1>9 DEF d

-----------------------------------------------------------------------------
(* The units outside the loop, fault by fault.                                *)
LEMMA OneFaulted ==
    ASSUME NEW l \in Lines, NEW p \in Phases, NEW q, NEW r, q = NextPhase[p], r = NextPhase[q],
           l.kind \in SinglePhase, Faulted[l.kind] = {p},
           NEW d \in Int, NEW s \in Int, d = l.dist, s = l.src,
           NEW u \in Relay!Units \ {GroundOf[p]}
    PROVE  /\ s >= 50 \/ d > 80 => u \notin Measure(l).zone1
           /\ s >= 50 \/ d > 120 => u \notin Measure(l).zone2
<1>1. d > 0 /\ s > 0 /\ q \in Phases /\ r \in Phases
  BY LineAssumption, UnitsFrom DEF Lines
<1>2. KeptOut(GroundUnit(l, q), Quad!Zone1Ground, Quad!Zone2Ground, d, s)
  <2> DEFINE z == GroundUnit(l, q)
  <2>1. z.num = TurnedBy(p, -25 * d - 36 * s, -25 * d - 25 * s) /\ z.den = TurnedBy(p, 11, 0)
    BY <1>1, SinglePhaseUnits
  <2> HIDE DEF z
  <2>2. KeptOut(z, Quad!Zone1Ground, Quad!Zone2Ground, d, s)
    BY <1>1, <2>1, BehindOneFaulted
  <2> QED BY <2>2 DEF z
<1>3. KeptOut(GroundUnit(l, r), Quad!Zone1Ground, Quad!Zone2Ground, d, s)
  <2> DEFINE z == GroundUnit(l, r)
  <2>1. z.num = TurnedBy(p, -11 * s, 25 * d + 25 * s) /\ z.den = TurnedBy(p, 11, 0)
    BY <1>1, SinglePhaseUnits
  <2> HIDE DEF z
  <2>2. KeptOut(z, Quad!Zone1Ground, Quad!Zone2Ground, d, s)
    BY <1>1, <2>1, AheadOfOneFaulted
  <2> QED BY <2>2 DEF z
<1>4. KeptOut(PhaseUnit(l, p), Quad!Zone1Phase, Quad!Zone2Phase, d, s)
  <2> DEFINE z == PhaseUnit(l, p)
  <2>1. z.num = TurnedBy(p, 50 * d + 36 * s, 25 * d + 25 * s) /\ z.den = TurnedBy(p, 14, 0)
    BY <1>1, SinglePhaseUnits
  <2> HIDE DEF z
  <2>2. KeptOut(z, Quad!Zone1Phase, Quad!Zone2Phase, d, s)
    BY <1>1, <2>1, PairOfOneFaulted
  <2> QED BY <2>2 DEF z
<1>5. KeptOut(PhaseUnit(l, r), Quad!Zone1Phase, Quad!Zone2Phase, d, s)
  <2> DEFINE z == PhaseUnit(l, r)
  <2>1. z.num = TurnedBy(p, -25 * d - 11 * s, 25 * d + 25 * s) /\ z.den = TurnedBy(p, -14, 0)
    BY <1>1, SinglePhaseUnits
  <2> HIDE DEF z
  <2>2. KeptOut(z, Quad!Zone1Phase, Quad!Zone2Phase, d, s)
    BY <1>1, <2>1, OtherPairOfOneFaulted
  <2> QED BY <2>2 DEF z
<1>6. \A zone : ~Quad!isInsideQuadrilateral(Impedance(PhaseUnit(l, q)), zone)
  BY SinglePhaseUnits, NoCurrent
<1>7. u \in {GroundOf[q], GroundOf[r], PairOf[p], PairOf[r], PairOf[q]}
  BY UnitsFrom
<1> QED BY <1>1, <1>2, <1>3, <1>4, <1>5, <1>6, <1>7, MeasuredIn DEF KeptOut

LEMMA TwoFaulted ==
    ASSUME NEW l \in Lines, NEW p \in Phases, NEW q, NEW r, q = NextPhase[p], r = NextPhase[q],
           l.kind \in Isolated, Faulted[l.kind] = {p, q},
           NEW d \in Int, NEW s \in Int, d = l.dist, s = l.src,
           NEW u \in Relay!Units \ {PairOf[p]}
    PROVE  s >= 200 => u \notin Measure(l).zone1 /\ u \notin Measure(l).zone2
<1>1. d > 0 /\ s > 0 /\ q \in Phases /\ r \in Phases
  BY LineAssumption, UnitsFrom DEF Lines
<1>2. KeptOutIsolated(GroundUnit(l, p), Quad!Zone1Ground, Quad!Zone2Ground, s)
  <2> DEFINE z == GroundUnit(l, p)
  <2>1. z.num = TurnedBy(p, 2 * d, -s) /\ z.den = TurnedBy(p, 2, 1)
    BY <1>1, IsolatedUnits
  <2> HIDE DEF z
  <2>2. KeptOutIsolated(z, Quad!Zone1Ground, Quad!Zone2Ground, s)
    BY <1>1, <2>1, FirstOfPair
  <2> QED BY <2>2 DEF z
<1>3. KeptOutIsolated(GroundUnit(l, q), Quad!Zone1Ground, Quad!Zone2Ground, s)
  <2> DEFINE z == GroundUnit(l, q)
  <2>1. z.num = TurnedBy(p, -2 * d, -2 * d - s) /\ z.den = TurnedBy(p, -2, -1)
    BY <1>1, IsolatedUnits
  <2> HIDE DEF z
  <2>2. KeptOutIsolated(z, Quad!Zone1Ground, Quad!Zone2Ground, s)
    BY <1>1, <2>1, SecondOfPair
  <2> QED BY <2>2 DEF z
<1>4. KeptOutIsolated(PhaseUnit(l, q), Quad!Zone1Phase, Quad!Zone2Phase, s)
  <2> DEFINE z == PhaseUnit(l, q)
  <2>1. z.num = TurnedBy(p, -2 * d, -4 * d - 3 * s) /\ z.den = TurnedBy(p, -2, -1)
    BY <1>1, IsolatedUnits
  <2> HIDE DEF z
  <2>2. KeptOutIsolated(z, Quad!Zone1Phase, Quad!Zone2Phase, s)
    BY <1>1, <2>1, PairBehind
  <2> QED BY <2>2 DEF z
<1>5. KeptOutIsolated(PhaseUnit(l, r), Quad!Zone1Phase, Quad!Zone2Phase, s)
  <2> DEFINE z == PhaseUnit(l, r)
  <2>1. z.num = TurnedBy(p, -2 * d, 2 * d + 3 * s) /\ z.den = TurnedBy(p, -2, -1)
    BY <1>1, IsolatedUnits
  <2> HIDE DEF z
  <2>2. KeptOutIsolated(z, Quad!Zone1Phase, Quad!Zone2Phase, s)
    BY <1>1, <2>1, PairAhead
  <2> QED BY <2>2 DEF z
<1>6. \A zone : ~Quad!isInsideQuadrilateral(Impedance(GroundUnit(l, r)), zone)
  BY IsolatedUnits, NoCurrent
<1>7. u \in {GroundOf[p], GroundOf[q], PairOf[q], PairOf[r], GroundOf[r]}
  BY UnitsFrom
<1> QED BY <1>1, <1>2, <1>3, <1>4, <1>5, <1>6, <1>7, MeasuredIn DEF KeptOutIsolated

LEMMA TwoEarthed ==
    ASSUME NEW l \in Lines, NEW p \in Phases, NEW q, NEW r, q = NextPhase[p], r = NextPhase[q],
           l.kind \in TwoPhaseEarth, Faulted[l.kind] = {p, q},
           NEW d \in Int, NEW s \in Int, d = l.dist, s = l.src,
           NEW u \in Relay!Units \ {GroundOf[p], GroundOf[q], PairOf[p]}
    PROVE  /\ s >= 50 \/ d > 80 => u \notin Measure(l).zone1
           /\ s >= 50 \/ d > 120 => u \notin Measure(l).zone2
<1>1. d > 0 /\ s > 0 /\ q \in Phases /\ r \in Phases
  BY LineAssumption, UnitsFrom DEF Lines
<1>2. KeptOut(GroundUnit(l, r), Quad!Zone1Ground, Quad!Zone2Ground, d, s)
  <2> DEFINE z == GroundUnit(l, r)
  <2>1. z.num = TurnedBy(p, 0, 36 * d + 47 * s) /\ z.den = TurnedBy(p, 0, -11)
    BY <1>1, TwoPhaseEarthUnits
  <2> HIDE DEF z
  <2>2. KeptOut(z, Quad!Zone1Ground, Quad!Zone2Ground, d, s)
    BY <1>1, <2>1, SoundPhase
  <2> QED BY <2>2 DEF z
<1>3. KeptOut(PhaseUnit(l, q), Quad!Zone1Phase, Quad!Zone2Phase, d, s)
  <2> DEFINE z == PhaseUnit(l, q)
  <2>1. z.num = TurnedBy(p, -36 * d, -72 * d - 47 * s) /\ z.den = TurnedBy(p, -36, -25)
    BY <1>1, TwoPhaseEarthUnits
  <2> HIDE DEF z
  <2>2. KeptOut(z, Quad!Zone1Phase, Quad!Zone2Phase, d, s)
    BY <1>1, <2>1, EarthedPairBehind
  <2> QED BY <2>2 DEF z
<1>4. KeptOut(PhaseUnit(l, r), Quad!Zone1Phase, Quad!Zone2Phase, d, s)
  <2> DEFINE z == PhaseUnit(l, r)
  <2>1. z.num = TurnedBy(p, -36 * d, 36 * d + 47 * s) /\ z.den = TurnedBy(p, -36, -11)
    BY <1>1, TwoPhaseEarthUnits
  <2> HIDE DEF z
  <2>2. KeptOut(z, Quad!Zone1Phase, Quad!Zone2Phase, d, s)
    BY <1>1, <2>1, EarthedPairAhead
  <2> QED BY <2>2 DEF z
<1>5. u \in {GroundOf[r], PairOf[q], PairOf[r]}
  BY UnitsFrom
<1> QED BY <1>1, <1>2, <1>3, <1>4, <1>5, MeasuredIn DEF KeptOut

LEMMA SoundOutside ==
    ASSUME NEW l \in Lines, l.kind # "none", NEW u \in Relay!Units \ Loops[l.kind]
    PROVE  /\ l.kind \in Isolated =>
                (l.src >= 200 => u \notin Measure(l).zone1 /\ u \notin Measure(l).zone2)
           /\ l.kind \notin Isolated =>
                /\ l.src >= 50 \/ l.dist > 80 => u \notin Measure(l).zone1
                /\ l.src >= 50 \/ l.dist > 120 => u \notin Measure(l).zone2
<1> DEFINE d == l.dist
           s == l.src
<1>1. d \in Int /\ s \in Int /\ d = l.dist /\ s = l.src
  BY LineAssumption DEF Lines
<1>2. \A p \in Phases : NextPhase[p] \in Phases
  BY DEF Phases, NextPhase
<1>3. CASE l.kind \in SinglePhase
  <2>1. PICK p \in Phases : Faulted[l.kind] = {p} /\ Loops[l.kind] = {GroundOf[p]}
    BY <1>3 DEF SinglePhase, Phases, Faulted, Loops, GroundOf
  <2>2. l.kind \notin Isolated
    BY <1>3 DEF SinglePhase, Isolated
  <2> HIDE DEF d, s
  <2> QED BY <1>1, <1>3, <2>1, <2>2, OneFaulted
<1>4. CASE l.kind \in Isolated
  <2>1. PICK p \in Phases :
          Faulted[l.kind] = {p, NextPhase[p]} /\ Loops[l.kind] = {PairOf[p]}
    BY <1>4 DEF Isolated, Phases, NextPhase, Faulted, Loops, PairOf
  <2> HIDE DEF d, s
  <2> QED BY <1>1, <1>4, <2>1, TwoFaulted
<1>5. CASE l.kind \in TwoPhaseEarth
  <2>1. PICK p \in Phases :
          /\ Faulted[l.kind] = {p, NextPhase[p]}
          /\ Loops[l.kind] = {GroundOf[p], GroundOf[NextPhase[p]], PairOf[p]}
    BY <1>5 DEF TwoPhaseEarth, Phases, NextPhase, Faulted, Loops, GroundOf, PairOf
  <2>2. l.kind \notin Isolated
    BY <1>5 DEF TwoPhaseEarth, Isolated
  <2> HIDE DEF d, s
  <2> QED BY <1>1, <1>5, <2>1, <2>2, TwoEarthed
<1>6. CASE l.kind = "ABC"
  BY <1>6 DEF Loops
<1> QED BY <1>3, <1>4, <1>5, <1>6 DEF Lines, Kinds, SinglePhase, Isolated, TwoPhaseEarth

\* A line without a fault carries no current.
LEMMA NoFaultSeen ==
    ASSUME NEW l \in Lines, l.kind = "none"
    PROVE  Measure(l).zone1 = {} /\ Measure(l).zone2 = {}
<1>1. \A p \in Phases : I(l, p) = Zero
  BY DEF I, FaultCurrent, Faulted, Zero
<1>2. K0_I_N(l) = Zero
  <2>1. I(l, "A") = <<0, 0>> /\ I(l, "B") = <<0, 0>> /\ I(l, "C") = <<0, 0>>
    BY <1>1 DEF Phases, Zero
  <2> QED BY SMT, <2>1 DEF K0_I_N, I_N, Plus, Scale, K0_N, K0_D, Zero
<1>3. \A p \in Phases : GroundUnit(l, p).den = Zero /\ PhaseUnit(l, p).den = Zero
  BY <1>1, <1>2 DEF GroundUnit, PhaseUnit, Plus, Minus, Zero, Phases, NextPhase
<1>4. \A p \in Phases : /\ {GroundOf[p], PairOf[p]} \cap Measure(l).zone1 = {}
                        /\ {GroundOf[p], PairOf[p]} \cap Measure(l).zone2 = {}
  BY <1>3, NoCurrent, MeasuredIn
<1>5. \A u \in Relay!Units : \E p \in Phases : u \in {GroundOf[p], PairOf[p]}
  BY DEF Relay!Units, Phases, GroundOf, PairOf
<1>6. Measure(l).zone1 \subseteq Relay!Units /\ Measure(l).zone2 \subseteq Relay!Units
  BY MeasuredIn
<1> QED BY <1>4, <1>5, <1>6

\* The selector: an arm for every fault's loops, and none for no unit.
LEMMA Arms ==
    /\ \A k \in Kinds \ {"none"} : Relay!Operates(Loops[k])
    /\ ~Relay!Operates({})
<1>1. /\ Loops["AT"] = {"AT"} /\ Loops["BT"] = {"BT"} /\ Loops["CT"] = {"CT"}
      /\ Loops["AB"] = {"AB"} /\ Loops["BC"] = {"BC"} /\ Loops["CA"] = {"CA"}
      /\ Loops["ABT"] = {"AT", "BT", "AB"} /\ Loops["BCT"] = {"BT", "CT", "BC"}
      /\ Loops["CAT"] = {"AT", "CT", "CA"} /\ Loops["ABC"] = Relay!Units
  BY DEF Loops
<1>2. \A k \in Kinds \ {"none"} : Loops[k] \in Relay!FaultPatterns
  BY Zenon, <1>1 DEF Kinds, Relay!FaultPatterns
<1>3. ~Relay!Operates({})
  BY DEF Relay!Operates, Relay!FaultPatterns, Relay!Units
<1> QED BY <1>2, <1>3 DEF Relay!Operates

-----------------------------------------------------------------------------
(* The fault on the line is always one of the eleven states, at one of the    *)
(* distances, from one of the sources, and the window the pass's measurement  *)
(* of it.                                                                     *)
THEOREM DistanceInvariant == DistanceSpec => []DistanceInv
<1>1. DistanceInit => DistanceInv
  BY DEF DistanceInit, DistanceInv, Lines, Kinds
<1>2. DistanceInv /\ [DistanceNext]_distanceVars => DistanceInv'
  BY DEF DistanceInv, DistanceNext, DistancePass, distanceVars, FaultStrikes, FaultSpreads,
         FaultCleared, SourceChanges, Lines, Kinds, Isolated
<1> QED BY <1>1, <1>2, PTL DEF DistanceSpec

(* Every unit in the loop of every fault measures the positive-sequence       *)
(* impedance up to it, from whatever source.                                  *)
THEOREM UnitsMeasureDistance == DistanceSpec => []LoopsMeasureDistance
<1>1. DistanceInv => LoopsMeasureDistance
  BY LoopUnits DEF DistanceInv, LoopsMeasureDistance
<1> QED BY <1>1, DistanceInvariant, PTL

(* However strong the source, the units of a fault within a zone's reach are  *)
(* inside that zone, rounding included: for every distance and every source.  *)
THEOREM ReachCovered == DistanceSpec => []ReachSeen
<1>1. DistanceInv => ReachSeen
  <2> SUFFICES ASSUME DistanceInv PROVE ReachSeen
    OBVIOUS
  <2>1. line \in Lines /\ window = Measure(line)
    BY DEF DistanceInv
  <2> QED BY Zenon, <2>1, LoopsInside DEF ReachSeen
<1> QED BY <1>1, DistanceInvariant, PTL

(* Each fault within reach is selected by its own arm, in both zones, for     *)
(* every distance and every source of the stated strength.                    *)
THEOREM FaultsSelected == DistanceSpec => []FaultSelected
<1>1. DistanceInv => FaultSelected
  <2> SUFFICES ASSUME DistanceInv, line.kind # "none", WeakSource
               PROVE  /\ line.dist < Reach1 => SelectedBy(window.zone1)
                      /\ line.dist < Reach2 => SelectedBy(window.zone2)
    BY DEF FaultSelected
  <2>1. line \in Lines /\ window = Measure(line)
    BY DEF DistanceInv
  <2>2. \A u \in Relay!Units \ Loops[line.kind] : u \notin window.zone1 /\ u \notin window.zone2
    <3>1. CASE line.kind = "ABC"
      BY <3>1 DEF Loops
    <3>2. CASE line.kind \in Isolated
      <4>1. line.src >= 200
        BY <3>2 DEF WeakSource, Isolated
      <4> QED BY <2>1, <3>2, <4>1, SoundOutside
    <3>3. CASE line.kind \notin Isolated \cup {"ABC"}
      <4>1. line.src >= 50
        BY <3>3 DEF WeakSource
      <4> QED BY <2>1, <3>3, <4>1, SoundOutside
    <3> QED BY <3>1, <3>2, <3>3
  <2>3. window.zone1 \subseteq Relay!Units /\ window.zone2 \subseteq Relay!Units
    BY <2>1, MeasuredIn
  <2>4. Relay!Operates(Loops[line.kind])
    BY <2>1, Arms DEF Lines
  <2>5. \A u \in Loops[line.kind] : /\ line.dist < Reach1 => u \in window.zone1
                                    /\ line.dist < Reach2 => u \in window.zone2
    BY Zenon, <2>1, LoopsInside
  <2>6. ASSUME line.dist < Reach1 PROVE window.zone1 = Loops[line.kind]
    <3>1. \A u \in window.zone1 : u \in Loops[line.kind]
      BY Zenon, <2>2, <2>3
    <3> QED BY Zenon, <2>5, <2>6, <3>1
  <2>7. ASSUME line.dist < Reach2 PROVE window.zone2 = Loops[line.kind]
    <3>1. \A u \in window.zone2 : u \in Loops[line.kind]
      BY Zenon, <2>2, <2>3
    <3> QED BY Zenon, <2>5, <2>7, <3>1
  <2> QED BY Zenon, <2>4, <2>6, <2>7 DEF SelectedBy
<1> QED BY <1>1, DistanceInvariant, PTL

(* Beyond its reach no zone operates for a fault to earth or of three phases, *)
(* from whatever source, and none does on a line without a fault.             *)
THEOREM ReachNotExceeded == DistanceSpec => []NoOverreach
<1>1. DistanceInv => NoOverreach
  <2> SUFFICES ASSUME DistanceInv, line.kind \notin Isolated
               PROVE  /\ line.dist > Reach1 \/ line.kind = "none" => ~Relay!Operates(window.zone1)
                      /\ line.dist > Reach2 \/ line.kind = "none" => ~Relay!Operates(window.zone2)
    BY DEF NoOverreach
  <2>1. line \in Lines /\ window = Measure(line)
    BY DEF DistanceInv
  <2>2. window.zone1 \subseteq Relay!Units /\ window.zone2 \subseteq Relay!Units
    BY <2>1, MeasuredIn
  <2>3. ASSUME line.kind # "none", NEW u \in Relay!Units
        PROVE  /\ line.dist > 80 => u \notin window.zone1
               /\ line.dist > 120 => u \notin window.zone2
    <3>1. CASE u \in Loops[line.kind]
      BY Zenon, <2>1, <3>1, LoopsBeyond
    <3>2. CASE u \notin Loops[line.kind]
      BY <2>1, <2>3, <3>2, SoundOutside
    <3> QED BY <3>1, <3>2
  <2>4. CASE line.kind = "none"
    BY <2>1, <2>4, NoFaultSeen, Arms
  <2>5. CASE line.kind # "none"
    <3>1. line.dist > Reach1 => window.zone1 = {}
      BY <2>2, <2>3, <2>5 DEF Reach1
    <3>2. line.dist > Reach2 => window.zone2 = {}
      BY <2>2, <2>3, <2>5 DEF Reach2
    <3> QED BY <2>5, <3>1, <3>2, Arms
  <2> QED BY <2>4, <2>5
<1> QED BY <1>1, DistanceInvariant, PTL
=============================================================================
