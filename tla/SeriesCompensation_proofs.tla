---------------------- MODULE SeriesCompensation_proofs ----------------------
(* The verdicts on a series compensated line: alike in its phases, at every    *)
(* instant, and from both sides of the bank.                                   *)
EXTENDS SeriesCompensation, TLAPS

Faults == {"AT", "BT", "CT", "AB", "BC", "CA"}
Sides == {"atras", "frente"}

\* A verdict is one of the fourteen tests that holds.
LEMMA VerdictIff ==
    ASSUME NEW V, NEW W, NEW f, NEW s
    PROVE  <<f, s>> \in Verdicts(V, W) <=>
             /\ s \in Sides
             /\ \/ f \in Faults /\ Matches(Angles(V, W), f, Signs[s])
                \/ f = "ABC" /\ ThreePhase(Angles(V, W), Signs[s])
BY DEF Verdicts, Faults, Sides, Criteria, Signs

LEMMA VerdictPairs ==
    ASSUME NEW V, NEW W, NEW v \in Verdicts(V, W)
    PROVE  v = <<v[1], v[2]>> /\ v[1] \in Faults \cup {"ABC"} /\ v[2] \in Sides
BY DEF Verdicts, Faults, Sides, Criteria, Signs
-----------------------------------------------------------------------------
\* The six angles, and the fourteen tests of them one by one.
AngleNames == {"A", "B", "C", "AB", "BC", "CA"}

LEMMA AnglesAre ==
    ASSUME NEW V, NEW W
    PROVE  /\ DOMAIN Angles(V, W) = AngleNames
           /\ \A p \in Phases : Angles(V, W)[p] = PhaseAngle(V, W, p)
           /\ Angles(V, W)["AB"] = LineAngle(V, W, "A")
           /\ Angles(V, W)["BC"] = LineAngle(V, W, "B")
           /\ Angles(V, W)["CA"] = LineAngle(V, W, "C")
BY DEF Angles, AngleNames, Phases

LEMMA CriteriaAre ==
    /\ Criteria["AT"][1] = "A" /\ Criteria["AT"][2] = "BC"
    /\ Criteria["BT"][1] = "B" /\ Criteria["BT"][2] = "CA"
    /\ Criteria["CT"][1] = "C" /\ Criteria["CT"][2] = "AB"
    /\ Criteria["AB"][1] = "AB" /\ Criteria["AB"][2] = "C"
    /\ Criteria["BC"][1] = "BC" /\ Criteria["BC"][2] = "A"
    /\ Criteria["CA"][1] = "CA" /\ Criteria["CA"][2] = "B"
BY DEF Criteria

LEMMA Tests ==
    ASSUME NEW angles, NEW sign, DOMAIN angles = AngleNames
    PROVE  /\ Matches(angles, "AT", sign) <=> angles["A"] * sign > 0 /\ angles["BC"] = 0
           /\ Matches(angles, "BT", sign) <=> angles["B"] * sign > 0 /\ angles["CA"] = 0
           /\ Matches(angles, "CT", sign) <=> angles["C"] * sign > 0 /\ angles["AB"] = 0
           /\ Matches(angles, "AB", sign) <=> angles["AB"] * sign > 0 /\ angles["C"] = 0
           /\ Matches(angles, "BC", sign) <=> angles["BC"] * sign > 0 /\ angles["A"] = 0
           /\ Matches(angles, "CA", sign) <=> angles["CA"] * sign > 0 /\ angles["B"] = 0
           /\ ThreePhase(angles, sign) <=> \A x \in AngleNames : angles[x] * sign > 0
BY Zenon, CriteriaAre DEF Matches, ThreePhase

\* Renaming the phases renames the angles.
LEMMA AnglesRenamed ==
    ASSUME NEW V, NEW W, NEW a, a = Angles(V, W), NEW r, r = Angles(Renamed(V), Renamed(W))
    PROVE  /\ r["A"] = a["C"] /\ r["B"] = a["A"] /\ r["C"] = a["B"]
           /\ r["AB"] = a["CA"] /\ r["BC"] = a["AB"] /\ r["CA"] = a["BC"]
BY DEF Angles, PhaseAngle, LineAngle, LineVoltage, Renamed, NextPhase

LEMMA TestsRenamed ==
    ASSUME NEW V, NEW W, NEW f \in Faults, NEW sign
    PROVE  /\ Matches(Angles(Renamed(V), Renamed(W)), RenamedFault[f], sign)
                 <=> Matches(Angles(V, W), f, sign)
           /\ ThreePhase(Angles(Renamed(V), Renamed(W)), sign)
                 <=> ThreePhase(Angles(V, W), sign)
<1> DEFINE a == Angles(V, W)
           r == Angles(Renamed(V), Renamed(W))
<1>1. DOMAIN a = AngleNames /\ DOMAIN r = AngleNames
  BY AnglesAre
<1>2. /\ r["A"] = a["C"] /\ r["B"] = a["A"] /\ r["C"] = a["B"]
      /\ r["AB"] = a["CA"] /\ r["BC"] = a["AB"] /\ r["CA"] = a["BC"]
  BY AnglesRenamed
<1> HIDE DEF a, r
<1>3. ThreePhase(r, sign) <=> ThreePhase(a, sign)
  BY Zenon, <1>1, <1>2, Tests DEF AngleNames
<1>4. /\ Matches(r, "BT", sign) <=> Matches(a, "AT", sign)
      /\ Matches(r, "CT", sign) <=> Matches(a, "BT", sign)
      /\ Matches(r, "AT", sign) <=> Matches(a, "CT", sign)
      /\ Matches(r, "BC", sign) <=> Matches(a, "AB", sign)
      /\ Matches(r, "CA", sign) <=> Matches(a, "BC", sign)
      /\ Matches(r, "AB", sign) <=> Matches(a, "CA", sign)
  BY Zenon, <1>1, <1>2, Tests
<1>5. Matches(r, RenamedFault[f], sign) <=> Matches(a, f, sign)
  BY <1>4 DEF Faults, RenamedFault
<1> QED BY <1>3, <1>5 DEF a, r

LEMMA RenamedVerdicts ==
    ASSUME NEW V, NEW W
    PROVE  Verdicts(Renamed(V), Renamed(W)) = {<<RenamedFault[v[1]], v[2]>> : v \in Verdicts(V, W)}
<1> DEFINE R == Verdicts(Renamed(V), Renamed(W))
           T == {<<RenamedFault[v[1]], v[2]>> : v \in Verdicts(V, W)}
<1>1. \A f \in Faults \cup {"ABC"} : \A s :
          <<RenamedFault[f], s>> \in R <=> <<f, s>> \in Verdicts(V, W)
  <2>1. ASSUME NEW f \in Faults, NEW s
        PROVE  <<RenamedFault[f], s>> \in R <=> <<f, s>> \in Verdicts(V, W)
    <3>1. RenamedFault[f] \in Faults /\ RenamedFault[f] # "ABC" /\ f # "ABC"
      BY DEF Faults, RenamedFault
    <3> QED BY Zenon, <3>1, VerdictIff, TestsRenamed
  <2>2. ASSUME NEW s
        PROVE  <<RenamedFault["ABC"], s>> \in R <=> <<"ABC", s>> \in Verdicts(V, W)
    <3>1. RenamedFault["ABC"] = "ABC" /\ "ABC" \notin Faults /\ "AT" \in Faults
      BY DEF Faults, RenamedFault
    <3> QED BY Zenon, <3>1, VerdictIff, TestsRenamed
  <2> QED BY Zenon, <2>1, <2>2
<1>2. ASSUME NEW g \in Faults \cup {"ABC"}
      PROVE  \E f \in Faults \cup {"ABC"} : RenamedFault[f] = g
  BY DEF Faults, RenamedFault
<1>3. T \subseteq R
  <2> SUFFICES ASSUME NEW v \in Verdicts(V, W) PROVE <<RenamedFault[v[1]], v[2]>> \in R
    BY Zenon
  <2> QED BY Zenon, <1>1, VerdictPairs
<1>4. R \subseteq T
  <2> SUFFICES ASSUME NEW v \in R PROVE v \in T
    BY Zenon
  <2>1. v = <<v[1], v[2]>> /\ v[1] \in Faults \cup {"ABC"}
    BY VerdictPairs
  <2>2. PICK f \in Faults \cup {"ABC"} : RenamedFault[f] = v[1]
    BY Zenon, <1>2, <2>1
  <2>3. <<f, v[2]>> \in Verdicts(V, W)
    BY Zenon, <1>1, <2>1, <2>2
  <2>4. <<f, v[2]>>[1] = f /\ <<f, v[2]>>[2] = v[2]
    OBVIOUS
  <2> QED BY Zenon, <2>1, <2>2, <2>3, <2>4
<1> QED BY Zenon, <1>3, <1>4
-----------------------------------------------------------------------------
\* The directions InSextant lists, in the sextant they are turned into.
Listed(x, y) == y = 0 \/ x = 2 * y \/ x = y \/ y = 2 * x

Known(v) ==
    LET x == v[1] - v[2]
        y == v[2]
    IN  /\ v \in Int \X Int
        /\ x > 0 /\ y >= 0 => Listed(x, y)
        /\ x <= 0 /\ x + y > 0 => Listed(x + y, -x)
        /\ x + y <= 0 /\ y > 0 => Listed(y, -(x + y))
        /\ x < 0 /\ y < 0 => Listed(-x, -y)
        /\ x >= 0 /\ x + y < 0 => Listed(-(x + y), x)
        /\ x + y >= 0 /\ y < 0 => Listed(-y, x + y)

LEMMA SextantAngles ==
    ASSUME NEW x \in Int, NEW y \in Int, x > 0, y >= 0, Listed(x, y)
    PROVE  InSextant(x, y) \in Int /\ 0 <= InSextant(x, y) /\ InSextant(x, y) < 60000
           /\ (InSextant(x, y) = 0 <=> y = 0)
<1>1. InSextant(x, y) \in {0, 19107, 30000, 40893}
  BY SMT DEF InSextant, Listed
<1>2. InSextant(x, y) = 0 <=> y = 0
  BY SMT DEF InSextant, Listed
<1> QED BY SMT, <1>1, <1>2

\* carg, sextant by sextant.
ArgAt(t, x, y) ==
    /\ x > 0 /\ y >= 0 => t = InSextant(x, y)
    /\ x <= 0 /\ x + y > 0 => t = InSextant(x + y, -x) + 60000
    /\ x + y <= 0 /\ y > 0 => t = InSextant(y, -(x + y)) + 120000
    /\ x < 0 /\ y = 0 => t = 180000
    /\ x < 0 /\ y < 0 => t = InSextant(-x, -y) - 180000
    /\ x >= 0 /\ x + y < 0 => t = InSextant(-(x + y), x) - 120000
    /\ x + y >= 0 /\ y < 0 => t = InSextant(-y, x + y) - 60000
    /\ x = 0 /\ y = 0 => t = 0

LEMMA ArgIn ==
    ASSUME NEW v \in Int \X Int, NEW x, NEW y, x = v[1] - v[2], y = v[2]
    PROVE  ArgAt(carg(v), x, y)
BY SMT DEF carg, Zero, ArgAt

LEMMA ArgRange ==
    ASSUME NEW v, Known(v)
    PROVE  carg(v) \in Int /\ -180000 < carg(v) /\ carg(v) <= 180000
<1> DEFINE x == v[1] - v[2]
           y == v[2]
<1>1. v \in Int \X Int /\ x \in Int /\ y \in Int
  BY SMT DEF Known
<1>2. /\ x > 0 /\ y >= 0 => Listed(x, y)
      /\ x <= 0 /\ x + y > 0 => Listed(x + y, -x)
      /\ x + y <= 0 /\ y > 0 => Listed(y, -(x + y))
      /\ x < 0 /\ y < 0 => Listed(-x, -y)
      /\ x >= 0 /\ x + y < 0 => Listed(-(x + y), x)
      /\ x + y >= 0 /\ y < 0 => Listed(-y, x + y)
  BY Zenon DEF Known
<1>3. ArgAt(carg(v), x, y)
  BY Zenon, <1>1, ArgIn
<1> USE DEF ArgAt
<1> HIDE DEF x, y
<1>4. CASE x > 0 /\ y >= 0
  BY SMT, <1>1, <1>2, <1>3, <1>4, SextantAngles
<1>5. CASE x <= 0 /\ x + y > 0
  BY SMT, <1>1, <1>2, <1>3, <1>5, SextantAngles
<1>6. CASE x + y <= 0 /\ y > 0
  BY SMT, <1>1, <1>2, <1>3, <1>6, SextantAngles
<1>7. CASE x < 0 /\ y < 0
  BY SMT, <1>1, <1>2, <1>3, <1>7, SextantAngles
<1>8. CASE x >= 0 /\ x + y < 0
  BY SMT, <1>1, <1>2, <1>3, <1>8, SextantAngles
<1>9. CASE x + y >= 0 /\ y < 0
  BY SMT, <1>1, <1>2, <1>3, <1>9, SextantAngles
<1>10. CASE y = 0 /\ x <= 0
  BY SMT, <1>1, <1>3, <1>10
<1> QED BY SMT, <1>1, <1>4, <1>5, <1>6, <1>7, <1>8, <1>9, <1>10

\* A sixth of a turn later the angle is 60 degrees more, or 300 less.
Later(v) == Times(Sextant, v)

LEMMA ArgLater ==
    ASSUME NEW v, Known(v), v # Zero
    PROVE  /\ Known(Later(v)) /\ Later(v) # Zero
           /\ carg(Later(v)) = carg(v) + 60000 \/ carg(Later(v)) = carg(v) - 300000
<1> DEFINE x == v[1] - v[2]
           y == v[2]
           w == Later(v)
           x2 == w[1] - w[2]
           y2 == w[2]
<1>1. v \in Int \X Int /\ x \in Int /\ y \in Int /\ ~(x = 0 /\ y = 0)
  BY SMT DEF Known, Zero
<1>2. w \in Int \X Int /\ x2 = -y /\ y2 = x + y
  BY SMT, <1>1 DEF Later, Times, Sextant
<1>3. w # Zero
  BY SMT, <1>1, <1>2 DEF Zero
<1>4. /\ x > 0 /\ y >= 0 => Listed(x, y)
      /\ x <= 0 /\ x + y > 0 => Listed(x + y, -x)
      /\ x + y <= 0 /\ y > 0 => Listed(y, -(x + y))
      /\ x < 0 /\ y < 0 => Listed(-x, -y)
      /\ x >= 0 /\ x + y < 0 => Listed(-(x + y), x)
      /\ x + y >= 0 /\ y < 0 => Listed(-y, x + y)
  BY Zenon DEF Known
<1>5. ArgAt(carg(v), x, y) /\ carg(v) \in Int
  BY SMT, <1>1, ArgIn, ArgRange
<1>6. ArgAt(carg(w), x2, y2)
  BY SMT, <1>2, ArgIn
<1>7. Known(w) <=> /\ w \in Int \X Int
                   /\ x2 > 0 /\ y2 >= 0 => Listed(x2, y2)
                   /\ x2 <= 0 /\ x2 + y2 > 0 => Listed(x2 + y2, -x2)
                   /\ x2 + y2 <= 0 /\ y2 > 0 => Listed(y2, -(x2 + y2))
                   /\ x2 < 0 /\ y2 < 0 => Listed(-x2, -y2)
                   /\ x2 >= 0 /\ x2 + y2 < 0 => Listed(-(x2 + y2), x2)
                   /\ x2 + y2 >= 0 /\ y2 < 0 => Listed(-y2, x2 + y2)
  BY Zenon DEF Known
<1> DEFINE s == carg(v)
           t == carg(w)
<1> HIDE DEF x, y, x2, y2, w, s, t
<1>8. Known(w)
  BY SMT, <1>1, <1>2, <1>4, <1>7 DEF Listed
<1>9. ArgAt(s, x, y) /\ ArgAt(t, x2, y2) /\ s \in Int
  BY <1>5, <1>6 DEF s, t
<1>10. t = s + 60000 \/ t = s - 300000
  <2> USE DEF ArgAt
  <2>1. CASE x > 0 /\ y >= 0
    BY SMT, <1>1, <1>2, <1>4, <1>9, <2>1, SextantAngles
  <2>2. CASE x <= 0 /\ x + y > 0
    BY SMT, <1>1, <1>2, <1>4, <1>9, <2>2, SextantAngles
  <2>3. CASE x + y <= 0 /\ y > 0
    BY SMT, <1>1, <1>2, <1>4, <1>9, <2>3, SextantAngles
  <2>4. CASE x < 0 /\ y < 0
    BY SMT, <1>1, <1>2, <1>4, <1>9, <2>4, SextantAngles
  <2>5. CASE x >= 0 /\ x + y < 0
    BY SMT, <1>1, <1>2, <1>4, <1>9, <2>5, SextantAngles
  <2>6. CASE x + y >= 0 /\ y < 0
    BY SMT, <1>1, <1>2, <1>4, <1>9, <2>6, SextantAngles
  <2>7. CASE y = 0 /\ x < 0
    <3>1. s = 180000 /\ x2 >= 0 /\ x2 + y2 < 0 /\ t = InSextant(-(x2 + y2), x2) - 120000
      BY SMT, <1>1, <1>2, <1>9, <2>7
    <3>2. InSextant(-(x2 + y2), x2) = 0
      BY SMT, <1>1, <1>2, <2>7, SextantAngles DEF Listed
    <3> QED BY SMT, <3>1, <3>2
  <2> QED BY SMT, <1>1, <2>1, <2>2, <2>3, <2>4, <2>5, <2>6, <2>7
<1> QED BY SMT, <1>3, <1>8, <1>10 DEF w, s, t

-----------------------------------------------------------------------------
\* The difference of two angles, brought back to half a turn.
Wrap(n) == IF n <= -180000 THEN n + 360000 ELSE IF n > 180000 THEN n - 360000 ELSE n

LEMMA DivIsWrap ==
    ASSUME NEW v, NEW w, Known(v), Known(w)
    PROVE  phase_angle_div(v, w) = Wrap(carg(v) - carg(w))
<1>1. carg(v) - carg(w) \in Int
  BY SMT, ArgRange
<1> QED BY SMT, <1>1 DEF phase_angle_div, Wrap, Turn

LEMMA WrapFacts ==
    ASSUME NEW n \in Int
    PROVE  /\ Wrap(n) \in Int
           /\ n # 180000 /\ n # -180000 => Wrap(-n) = -Wrap(n)
           /\ n = 180000 \/ n = -180000 => Wrap(n) = 180000
           /\ -360000 < n /\ n < 360000 => (Wrap(n) = 0 <=> n = 0)
           /\ -360000 < n /\ n < 0 => Wrap(n + 360000) = Wrap(n)
           /\ 0 < n /\ n < 360000 => Wrap(n - 360000) = Wrap(n)
BY SMT DEF Wrap

\* Turning both leaves the angle between them.
LEMMA DivLater ==
    ASSUME NEW v, NEW w, Known(v), Known(w), v # Zero, w # Zero
    PROVE  phase_angle_div(Later(v), Later(w)) = phase_angle_div(v, w)
<1> DEFINE s == carg(v)
           t == carg(w)
           s2 == carg(Later(v))
           t2 == carg(Later(w))
<1>1. /\ Known(Later(v)) /\ Known(Later(w))
      /\ s2 = s + 60000 \/ s2 = s - 300000
      /\ t2 = t + 60000 \/ t2 = t - 300000
  BY SMT, ArgLater
<1>2. /\ s \in Int /\ -180000 < s /\ s <= 180000
      /\ t \in Int /\ -180000 < t /\ t <= 180000
      /\ s2 \in Int /\ -180000 < s2 /\ s2 <= 180000
      /\ t2 \in Int /\ -180000 < t2 /\ t2 <= 180000
  BY SMT, <1>1, ArgRange
<1>3. /\ phase_angle_div(Later(v), Later(w)) = Wrap(s2 - t2)
      /\ phase_angle_div(v, w) = Wrap(s - t)
  BY SMT, <1>1, DivIsWrap
<1> HIDE DEF s, t, s2, t2
<1>4. Wrap(s2 - t2) = Wrap(s - t)
  BY SMT, <1>1, <1>2 DEF Wrap
<1> QED BY SMT, <1>3, <1>4

-----------------------------------------------------------------------------
\* The voltages a side of the bank may have, one by one.
Vectors == {<<0, 0>>, <<1, 0>>, <<1, 1>>, <<0, 1>>, <<-1, 0>>, <<-1, -1>>, <<0, -1>>,
            <<2, 0>>, <<2, 2>>, <<0, 2>>, <<-2, 0>>, <<-2, -2>>, <<0, -2>>}

LEMMA MultiplesAre == Multiples = Vectors
<1>1. Multiples = {Scale(k, u) : k \in {0, 1, 2}, u \in Sextants}
  <2>1. 0 .. 2 = {0, 1, 2}
    BY SMT
  <2> QED BY <2>1 DEF Multiples
<1>2. \A k \in {0, 1, 2} : \A u \in Sextants : Scale(k, u) \in Vectors
  BY SMT DEF Scale, Sextants, Vectors
<1>3. ASSUME NEW v \in Vectors
      PROVE  \E k \in {0, 1, 2} : \E u \in Sextants : v = Scale(k, u)
  <2>1. v = <<0, 0>> => v = Scale(0, <<1, 0>>)
    BY SMT DEF Scale
  <2>2. \A u \in Sextants : v = u => v = Scale(1, u)
    BY SMT DEF Scale, Sextants
  <2>3. v = <<0, 0>> \/ v \in Sextants \/ \E u \in Sextants : v = Scale(2, u)
    BY SMT DEF Scale, Sextants, Vectors
  <2>4. <<1, 0>> \in Sextants
    BY Zenon DEF Sextants
  <2> QED BY Zenon, <2>1, <2>2, <2>3, <2>4
<1> QED BY <1>1, <1>2, <1>3

LEMMA MultiplesTurn ==
    ASSUME NEW u \in Multiples, NEW p \in Phases
    PROVE  Times(u, Healthy[p]) \in Multiples /\ Healthy[p] \in Multiples
BY SMT, MultiplesAre DEF Vectors, Times, Healthy, Phases

LEMMA KnownMultiples == \A v \in Multiples : Known(v)
<1> SUFFICES ASSUME NEW v \in Vectors PROVE Known(v)
  BY MultiplesAre
<1> QED BY SMT DEF Vectors, Known, Listed

\* So have the differences of two of them an angle InSextant lists.
LEMMA KnownDifferences ==
    ASSUME NEW u \in Multiples, NEW v \in Multiples
    PROVE  Known(Minus(u, v))
<1>1. u \in Vectors /\ v \in Vectors
  BY MultiplesAre
<1> DEFINE a == u[1]
           b == u[2]
           c == v[1]
           d == v[2]
           x == a - c - (b - d)
           y == b - d
<1>2. /\ a \in Int /\ b \in Int /\ c \in Int /\ d \in Int
      /\ \/ b = 0 /\ -2 <= a /\ a <= 2
         \/ a = 0 /\ -2 <= b /\ b <= 2
         \/ a = b /\ -2 <= a /\ a <= 2
      /\ \/ d = 0 /\ -2 <= c /\ c <= 2
         \/ c = 0 /\ -2 <= d /\ d <= 2
         \/ c = d /\ -2 <= c /\ c <= 2
  BY SMT, <1>1 DEF Vectors
<1>3. Minus(u, v) \in Int \X Int /\ Minus(u, v)[1] - Minus(u, v)[2] = x /\ Minus(u, v)[2] = y
  BY SMT, <1>2 DEF Minus
<1>4. Known(Minus(u, v)) <=>
        /\ x > 0 /\ y >= 0 => Listed(x, y)
        /\ x <= 0 /\ x + y > 0 => Listed(x + y, -x)
        /\ x + y <= 0 /\ y > 0 => Listed(y, -(x + y))
        /\ x < 0 /\ y < 0 => Listed(-x, -y)
        /\ x >= 0 /\ x + y < 0 => Listed(-(x + y), x)
        /\ x + y >= 0 /\ y < 0 => Listed(-y, x + y)
  BY <1>3 DEF Known
<1> HIDE DEF a, b, c, d
<1>5. /\ x > 0 /\ y >= 0 => Listed(x, y)
      /\ x <= 0 /\ x + y > 0 => Listed(x + y, -x)
      /\ x + y <= 0 /\ y > 0 => Listed(y, -(x + y))
      /\ x < 0 /\ y < 0 => Listed(-x, -y)
      /\ x >= 0 /\ x + y < 0 => Listed(-(x + y), x)
      /\ x + y >= 0 /\ y < 0 => Listed(-y, x + y)
  BY SMT, <1>2 DEF Listed
<1> QED BY <1>4, <1>5

\* Voltages of one side, phase and line, have angles.
LEMMA KnownVoltages ==
    ASSUME NEW V \in [Phases -> Multiples], NEW p \in Phases
    PROVE  Known(V[p]) /\ Known(LineVoltage(V, p)) /\ NextPhase[p] \in Phases
<1>1. V[p] \in Multiples /\ NextPhase[p] \in Phases
  BY DEF Phases, NextPhase
<1>2. V[NextPhase[p]] \in Multiples
  BY <1>1
<1> QED BY <1>1, <1>2, KnownMultiples, KnownDifferences DEF LineVoltage
-----------------------------------------------------------------------------
\* An angle is between the two sides' voltages of a phase or of a line.
LEMMA AngleOf ==
    ASSUME NEW x \in AngleNames
    PROVE  \E p \in Phases :
             \/ x = p /\ \A V, W : Angles(V, W)[x] = phase_angle_div(V[p], W[p])
             \/ \A V, W : Angles(V, W)[x]
                            = phase_angle_div(LineVoltage(V, p), LineVoltage(W, p))
<1>1. CASE x \in Phases
  BY ZenonT(60), <1>1, AnglesAre DEF PhaseAngle
<1>2. ASSUME NEW p \in Phases, \A V, W : Angles(V, W)[x] = LineAngle(V, W, p)
      PROVE  \A V, W : Angles(V, W)[x] = phase_angle_div(LineVoltage(V, p), LineVoltage(W, p))
  BY Zenon, <1>2 DEF LineAngle
<1>3. x = "AB" \/ x = "BC" \/ x = "CA" \/ x \in Phases
  BY Zenon DEF AngleNames, Phases
<1>4. "A" \in Phases /\ "B" \in Phases /\ "C" \in Phases
  BY Zenon DEF Phases
<1> QED BY Zenon, <1>1, <1>2, <1>3, <1>4, AnglesAre

LEMMA AnglesKnown ==
    ASSUME NEW V \in [Phases -> Multiples], NEW W \in [Phases -> Multiples], NEW x \in AngleNames
    PROVE  \E v, w : /\ Known(v) /\ Known(w)
                     /\ Angles(V, W)[x] = phase_angle_div(v, w)
                     /\ Angles(W, V)[x] = phase_angle_div(w, v)
<1>1. PICK p \in Phases :
             \/ x = p /\ \A S, T : Angles(S, T)[x] = phase_angle_div(S[p], T[p])
             \/ \A S, T : Angles(S, T)[x]
                            = phase_angle_div(LineVoltage(S, p), LineVoltage(T, p))
  BY Zenon, AngleOf
<1>2. /\ Known(V[p]) /\ Known(LineVoltage(V, p))
      /\ Known(W[p]) /\ Known(LineVoltage(W, p))
  BY KnownVoltages
<1>3. CASE \A S, T : Angles(S, T)[x] = phase_angle_div(S[p], T[p])
  <2> WITNESS V[p], W[p]
  <2> QED BY Zenon, <1>2, <1>3
<1>4. CASE \A S, T : Angles(S, T)[x] = phase_angle_div(LineVoltage(S, p), LineVoltage(T, p))
  <2> WITNESS LineVoltage(V, p), LineVoltage(W, p)
  <2> QED BY Zenon, <1>2, <1>4
<1> QED BY Zenon, <1>1, <1>3, <1>4

\* Between equal voltages there is no angle, and no verdict.
LEMMA NoVerdictOfEquals ==
    ASSUME NEW V \in [Phases -> Multiples]
    PROVE  Verdicts(V, V) = {}
<1>1. ASSUME NEW v, Known(v) PROVE phase_angle_div(v, v) = 0
  <2>1. phase_angle_div(v, v) = Wrap(carg(v) - carg(v)) /\ carg(v) \in Int
    BY <1>1, DivIsWrap, ArgRange
  <2> QED BY SMT, <2>1 DEF Wrap
<1> DEFINE a == Angles(V, V)
<1>2. \A x \in AngleNames : a[x] = 0
  <2> TAKE x \in AngleNames
  <2>1. PICK p \in Phases :
             \/ x = p /\ \A S, T : Angles(S, T)[x] = phase_angle_div(S[p], T[p])
             \/ \A S, T : Angles(S, T)[x]
                            = phase_angle_div(LineVoltage(S, p), LineVoltage(T, p))
    BY Zenon, AngleOf
  <2>2. Known(V[p]) /\ Known(LineVoltage(V, p))
    BY KnownVoltages
  <2> QED BY Zenon, <1>1, <2>1, <2>2
<1>3. DOMAIN a = AngleNames
  BY AnglesAre
<1>4. \A s \in Sides : Signs[s] \in Int /\ ~(0 * Signs[s] > 0)
  BY SMT DEF Sides, Signs
<1> HIDE DEF a
<1>5. ASSUME NEW f \in Faults \cup {"ABC"}, NEW s \in Sides
      PROVE  ~Matches(a, f, Signs[s]) \/ f = "ABC"
  <2>1. \A x \in {"A", "B", "C", "AB", "BC", "CA"} : ~(a[x] * Signs[s] > 0)
    BY <1>2, <1>4 DEF AngleNames
  <2> QED BY Zenon, <1>3, <2>1, Tests DEF Faults
<1>6. ASSUME NEW s \in Sides PROVE ~ThreePhase(a, Signs[s])
  <2>1. "A" \in AngleNames
    BY Zenon DEF AngleNames
  <2> QED BY <1>2, <1>3, <1>4, <2>1 DEF ThreePhase
<1>7. "ABC" \notin Faults
  BY DEF Faults
<1>8. ASSUME NEW v \in Verdicts(V, V) PROVE FALSE
  <2>1. /\ <<v[1], v[2]>> \in Verdicts(V, V)
        /\ v[1] \in Faults \cup {"ABC"} /\ v[2] \in Sides
    BY Zenon, VerdictPairs
  <2>2. \/ v[1] \in Faults /\ Matches(a, v[1], Signs[v[2]])
        \/ v[1] = "ABC" /\ ThreePhase(a, Signs[v[2]])
    BY Zenon, <2>1, VerdictIff DEF a
  <2> QED BY Zenon, <1>5, <1>6, <1>7, <2>1, <2>2
<1> QED BY <1>8

LEMMA HealthyVoltages == Healthy \in [Phases -> Multiples]
<1>1. \A p \in Phases : Healthy[p] \in Multiples
  BY SMT, MultiplesAre DEF Healthy, Phases, Vectors
<1> QED BY <1>1 DEF Healthy, Phases

(* The voltages that one changed phase after another gives are multiples of    *)
(* the healthy ones, and the verdicts are those of the window they were read   *)
(* in.                                                                         *)
THEOREM SeriesInvariant == SeriesSpec => []SeriesInv
<1>1. SeriesInit => SeriesInv
  BY HealthyVoltages, NoVerdictOfEquals DEF SeriesInit, SeriesInv
<1>2. SeriesInv /\ [SeriesNext]_seriesVars => SeriesInv'
  <2> SUFFICES ASSUME SeriesInv, [SeriesNext]_seriesVars PROVE SeriesInv'
    OBVIOUS
  <2>1. ASSUME NEW p \in Phases, NEW v \in Voltages(p) PROVE v \in Multiples
    BY <2>1, MultiplesTurn, DeviationsAssumption DEF Voltages
  <2>2. CASE Behind
    BY <2>1, <2>2 DEF Behind, SeriesPass, SeriesInv
  <2>3. CASE Ahead
    BY <2>1, <2>3 DEF Ahead, SeriesPass, SeriesInv
  <2>4. CASE UNCHANGED seriesVars
    BY <2>4 DEF SeriesInv, seriesVars
  <2> QED BY <2>2, <2>3, <2>4 DEF SeriesNext
<1> QED BY <1>1, <1>2, PTL DEF SeriesSpec

(* The fourteen hand-written arms of one pass treat the three phases alike.    *)
THEOREM PhasesTreatedAlike == SeriesSpec => []PhasesAlike
<1>1. SeriesInv => PhasesAlike
  BY RenamedVerdicts DEF SeriesInv, PhasesAlike
<1> QED BY <1>1, SeriesInvariant, PTL
-----------------------------------------------------------------------------
\* Turning the phases' voltages turns the lines'.
LEMMA LineLater ==
    ASSUME NEW V \in [Phases -> Multiples], NEW p \in Phases
    PROVE  /\ SextantLater(V)[p] = Later(V[p])
           /\ LineVoltage(SextantLater(V), p) = Later(LineVoltage(V, p))
<1>1. SextantLater(V)[p] = Later(V[p])
  BY DEF SextantLater, Later
<1> DEFINE u == V[p]
           w == V[NextPhase[p]]
<1>2. u \in Int \X Int /\ w \in Int \X Int
  <2>1. u \in Multiples /\ w \in Multiples
    BY KnownVoltages
  <2> QED BY Zenon, <2>1, KnownMultiples DEF Known
<1>3. Minus(Later(u), Later(w)) = Later(Minus(u, w))
  <2> HIDE DEF u, w
  <2> QED BY SMT, <1>2 DEF Minus, Later, Times, Sextant
<1>4. LineVoltage(SextantLater(V), p) = Minus(Later(u), Later(w))
  <2>1. NextPhase[p] \in Phases
    BY DEF NextPhase, Phases
  <2> QED BY <2>1 DEF LineVoltage, SextantLater, Later
<1> QED BY <1>1, <1>3, <1>4 DEF LineVoltage

LEMMA AnglesLater ==
    ASSUME NEW V \in [Phases -> Multiples], NEW W \in [Phases -> Multiples],
           Energised(V), Energised(W)
    PROVE  Angles(SextantLater(V), SextantLater(W)) = Angles(V, W)
<1>1. ASSUME NEW p \in Phases
      PROVE  /\ PhaseAngle(SextantLater(V), SextantLater(W), p) = PhaseAngle(V, W, p)
             /\ LineAngle(SextantLater(V), SextantLater(W), p) = LineAngle(V, W, p)
  <2>1. /\ Known(V[p]) /\ Known(LineVoltage(V, p))
        /\ Known(W[p]) /\ Known(LineVoltage(W, p))
    BY KnownVoltages
  <2>2. /\ V[p] # Zero /\ LineVoltage(V, p) # Zero
        /\ W[p] # Zero /\ LineVoltage(W, p) # Zero
    BY Zenon DEF Energised
  <2>3. /\ SextantLater(V)[p] = Later(V[p])
        /\ LineVoltage(SextantLater(V), p) = Later(LineVoltage(V, p))
        /\ SextantLater(W)[p] = Later(W[p])
        /\ LineVoltage(SextantLater(W), p) = Later(LineVoltage(W, p))
    BY LineLater
  <2>4. PhaseAngle(SextantLater(V), SextantLater(W), p) = PhaseAngle(V, W, p)
    BY Zenon, <2>1, <2>2, <2>3, DivLater DEF PhaseAngle
  <2>5. LineAngle(SextantLater(V), SextantLater(W), p) = LineAngle(V, W, p)
    BY Zenon, <2>1, <2>2, <2>3, DivLater DEF LineAngle
  <2> QED BY <2>4, <2>5
<1> QED BY <1>1 DEF Angles, Phases

(* All the voltages a sixth of a turn later, which is what a later window sees *)
(* of the same line, give the same verdicts, wherever the angles wrap.         *)
THEOREM AnyInstant == SeriesSpec => []InstantIndependent
<1>1. SeriesInv => InstantIndependent
  <2> SUFFICES ASSUME SeriesInv, Energised(V1), Energised(V2)
               PROVE  Verdicts(SextantLater(V1), SextantLater(V2)) = announced
    BY DEF InstantIndependent
  <2>1. Angles(SextantLater(V1), SextantLater(V2)) = Angles(V1, V2)
    BY AnglesLater DEF SeriesInv
  <2> QED BY Zenon, <2>1 DEF Verdicts, SeriesInv
<1> QED BY <1>1, SeriesInvariant, PTL
-----------------------------------------------------------------------------
\* The angle that has no opposite.
HalfTurn == 180000

\* Seen from its other side, the bank turns every angle but half a turn round.
LEMMA AnglesOpposite ==
    ASSUME NEW V \in [Phases -> Multiples], NEW W \in [Phases -> Multiples], NEW x \in AngleNames,
           Angles(V, W)[x] # HalfTurn
    PROVE  Angles(V, W)[x] \in Int /\ Angles(W, V)[x] = -Angles(V, W)[x]
<1>1. PICK v, w : /\ Known(v) /\ Known(w)
                  /\ Angles(V, W)[x] = phase_angle_div(v, w)
                  /\ Angles(W, V)[x] = phase_angle_div(w, v)
  BY Zenon, AnglesKnown
<1> DEFINE n == carg(v) - carg(w)
           m == carg(w) - carg(v)
<1>2. n \in Int /\ m = -n
  BY SMT, <1>1, ArgRange
<1>3. Angles(V, W)[x] = Wrap(n) /\ Angles(W, V)[x] = Wrap(m)
  BY <1>1, DivIsWrap
<1> HIDE DEF n, m
<1> QED BY SMT, <1>2, <1>3, WrapFacts DEF HalfTurn

\* A test of the one side is the other side's test of the angles turned round.
LEMMA TestsOpposite ==
    ASSUME NEW a, NEW b, NEW s \in Sides, NEW f \in Faults,
           DOMAIN a = AngleNames, DOMAIN b = AngleNames,
           \A x \in AngleNames : a[x] \in Int /\ b[x] = -a[x]
    PROVE  /\ Matches(b, f, Signs[OtherSide[s]]) <=> Matches(a, f, Signs[s])
           /\ ThreePhase(b, Signs[OtherSide[s]]) <=> ThreePhase(a, Signs[s])
<1> DEFINE i == Signs[s]
           j == Signs[OtherSide[s]]
<1>1. i \in {1, -1} /\ j = -i
  BY DEF Sides, Signs, OtherSide
<1> HIDE DEF i, j
<1>2. ASSUME NEW x \in AngleNames
      PROVE  (b[x] * j > 0 <=> a[x] * i > 0) /\ (b[x] = 0 <=> a[x] = 0)
  BY SMT, <1>1
<1>3. Criteria[f][1] \in AngleNames /\ Criteria[f][2] \in AngleNames
  BY Zenon, CriteriaAre DEF Faults, AngleNames
<1>4. Matches(b, f, j) <=> Matches(a, f, i)
  BY Zenon, <1>2, <1>3 DEF Matches
<1>5. ThreePhase(b, j) <=> ThreePhase(a, i)
  BY Zenon, <1>2 DEF ThreePhase
<1> QED BY <1>4, <1>5 DEF i, j

LEMMA VerdictsOpposite ==
    ASSUME NEW V \in [Phases -> Multiples], NEW W \in [Phases -> Multiples],
           \A x \in AngleNames : Angles(V, W)[x] # HalfTurn
    PROVE  Verdicts(W, V) = {<<v[1], OtherSide[v[2]]>> : v \in Verdicts(V, W)}
<1> DEFINE a == Angles(V, W)
           b == Angles(W, V)
           T == {<<v[1], OtherSide[v[2]]>> : v \in Verdicts(V, W)}
<1>1. /\ DOMAIN a = AngleNames /\ DOMAIN b = AngleNames
      /\ \A x \in AngleNames : a[x] \in Int /\ b[x] = -a[x]
  BY AnglesAre, AnglesOpposite
<1>2. \A s \in Sides : OtherSide[s] \in Sides /\ OtherSide[OtherSide[s]] = s
  BY DEF Sides, OtherSide
<1>3. ASSUME NEW f \in Faults \cup {"ABC"}, NEW s \in Sides
      PROVE  <<f, OtherSide[s]>> \in Verdicts(W, V) <=> <<f, s>> \in Verdicts(V, W)
  <2>1. <<f, OtherSide[s]>> \in Verdicts(W, V) <=>
             /\ OtherSide[s] \in Sides
             /\ \/ f \in Faults /\ Matches(b, f, Signs[OtherSide[s]])
                \/ f = "ABC" /\ ThreePhase(b, Signs[OtherSide[s]])
    BY Zenon, VerdictIff
  <2>2. <<f, s>> \in Verdicts(V, W) <=>
             /\ s \in Sides
             /\ \/ f \in Faults /\ Matches(a, f, Signs[s])
                \/ f = "ABC" /\ ThreePhase(a, Signs[s])
    BY Zenon, VerdictIff
  <2>3. f \in Faults => (Matches(b, f, Signs[OtherSide[s]]) <=> Matches(a, f, Signs[s]))
    BY Zenon, <1>1, TestsOpposite
  <2>4. ThreePhase(b, Signs[OtherSide[s]]) <=> ThreePhase(a, Signs[s])
    <3>1. "AT" \in Faults
      BY DEF Faults
    <3> QED BY Zenon, <1>1, <3>1, TestsOpposite
  <2> HIDE DEF a, b
  <2> QED BY Zenon, <1>2, <2>1, <2>2, <2>3, <2>4
<1>4. T \subseteq Verdicts(W, V)
  <2> SUFFICES ASSUME NEW v \in Verdicts(V, W) PROVE <<v[1], OtherSide[v[2]]>> \in Verdicts(W, V)
    BY Zenon
  <2>1. /\ <<v[1], v[2]>> \in Verdicts(V, W)
        /\ v[1] \in Faults \cup {"ABC"} /\ v[2] \in Sides
    BY Zenon, VerdictPairs
  <2> QED BY Zenon, <1>3, <2>1
<1>5. Verdicts(W, V) \subseteq T
  <2> SUFFICES ASSUME NEW v \in Verdicts(W, V) PROVE v \in T
    BY Zenon
  <2>1. v = <<v[1], v[2]>> /\ v[1] \in Faults \cup {"ABC"} /\ v[2] \in Sides
    BY Zenon, VerdictPairs
  <2> DEFINE s == OtherSide[v[2]]
             u == <<v[1], s>>
  <2>2. s \in Sides /\ OtherSide[s] = v[2]
    BY Zenon, <1>2, <2>1
  <2>3. u \in Verdicts(V, W)
    <3>1. <<v[1], OtherSide[s]>> \in Verdicts(W, V) <=> <<v[1], s>> \in Verdicts(V, W)
      BY Zenon, <1>3, <2>1, <2>2
    <3> QED BY Zenon, <2>1, <2>2, <3>1
  <2>4. v = <<u[1], OtherSide[u[2]]>>
    <3>1. u[1] = v[1] /\ u[2] = s
      OBVIOUS
    <3> QED BY Zenon, <2>1, <2>2, <3>1
  <2> QED BY Zenon, <2>3, <2>4
<1> QED BY <1>4, <1>5

(* Seen from its other side the bank has the same faults on the other side,    *)
(* unless two voltages of which the angle is asked are in opposition.          *)
THEOREM SidesAreOpposite == SeriesSpec => []SidesOpposite
<1>1. SeriesInv => SidesOpposite
  <2> SUFFICES ASSUME SeriesInv, Turn \div 2 \notin Range(Angles(V1, V2))
               PROVE  Verdicts(V2, V1) = {<<v[1], OtherSide[v[2]]>> : v \in announced}
    BY DEF SidesOpposite
  <2>1. Turn \div 2 = HalfTurn
    BY SMT DEF Turn, HalfTurn
  <2>2. \A x \in AngleNames : Angles(V1, V2)[x] # HalfTurn
    BY <2>1, AnglesAre DEF Range
  <2> QED BY Zenon, <2>2, VerdictsOpposite DEF SeriesInv
<1> QED BY <1>1, SeriesInvariant, PTL
-----------------------------------------------------------------------------
\* From a phase's voltage to its line's, in a balanced set.
Across(v) == Times(<<2, 1>>, v)
Quarter(t) == IF t = 180000 THEN -150000 ELSE t + 30000

LEMMA ArgAcross ==
    ASSUME NEW v \in Multiples, v # Zero
    PROVE  /\ Known(Across(v)) /\ Across(v) # Zero
           /\ carg(Across(v)) = Quarter(carg(v))
<1> DEFINE w == Across(v)
           x == v[1] - v[2]
           y == v[2]
           x2 == w[1] - w[2]
           y2 == w[2]
           s == carg(v)
           t == carg(w)
<1>1. v \in Vectors /\ v # <<0, 0>>
  BY MultiplesAre DEF Zero
<1>2. /\ v \in Int \X Int /\ x \in Int /\ y \in Int
      /\ \/ y = 0 /\ x \in {1, 2, -1, -2}
         \/ x = 0 /\ y \in {1, 2, -1, -2}
         \/ x = -y /\ y \in {1, 2, -1, -2}
  BY SMT, <1>1 DEF Vectors
<1>3. w \in Int \X Int /\ x2 = x - y /\ y2 = x + 2 * y
  BY SMT, <1>2 DEF Across, Times
<1>4. w # Zero
  <2>1. ~(x2 = 0 /\ y2 = 0)
    <3> HIDE DEF x, y, w, x2, y2
    <3> QED BY SMT, <1>2, <1>3
  <2> QED BY <2>1 DEF Zero
<1>5. Known(w) <=> /\ w \in Int \X Int
                   /\ x2 > 0 /\ y2 >= 0 => Listed(x2, y2)
                   /\ x2 <= 0 /\ x2 + y2 > 0 => Listed(x2 + y2, -x2)
                   /\ x2 + y2 <= 0 /\ y2 > 0 => Listed(y2, -(x2 + y2))
                   /\ x2 < 0 /\ y2 < 0 => Listed(-x2, -y2)
                   /\ x2 >= 0 /\ x2 + y2 < 0 => Listed(-(x2 + y2), x2)
                   /\ x2 + y2 >= 0 /\ y2 < 0 => Listed(-y2, x2 + y2)
  BY Zenon DEF Known
<1>6. ArgAt(s, x, y) /\ ArgAt(t, x2, y2)
  <2>1. ArgAt(s, x, y)
    BY <1>2, ArgIn
  <2>2. ArgAt(t, x2, y2)
    <3> HIDE DEF w
    <3> QED BY <1>3, ArgIn
  <2> QED BY <2>1, <2>2
<1>7. \A k \in Int : k > 0 => InSextant(k, 0) = 0 /\ InSextant(k, k) = 30000
  BY SMT DEF InSextant
<1> HIDE DEF x, y, x2, y2, w, s, t
<1>8. Known(w)
  BY SMT, <1>2, <1>3, <1>5 DEF Listed
<1>9. t = Quarter(s)
  <2> USE DEF ArgAt, Quarter
  <2>1. CASE y = 0 /\ x \in {1, 2}
    BY SMT, <1>3, <1>6, <1>7, <2>1
  <2>2. CASE y = 0 /\ x \in {-1, -2}
    BY SMT, <1>3, <1>6, <1>7, <2>2
  <2>3. CASE x = 0 /\ y \in {1, 2}
    BY SMT, <1>3, <1>6, <1>7, <2>3
  <2>4. CASE x = 0 /\ y \in {-1, -2}
    BY SMT, <1>3, <1>6, <1>7, <2>4
  <2>5. CASE x = -y /\ y \in {1, 2}
    BY SMT, <1>3, <1>6, <1>7, <2>5
  <2>6. CASE x = -y /\ y \in {-1, -2}
    BY SMT, <1>3, <1>6, <1>7, <2>6
  <2> QED BY <1>2, <2>1, <2>2, <2>3, <2>4, <2>5, <2>6
<1> QED BY <1>4, <1>8, <1>9 DEF w, s, t

\* There is an angle between two lines' voltages just when there is one between
\* their phases'.
LEMMA DivAcross ==
    ASSUME NEW v \in Multiples, NEW w \in Multiples, v # Zero, w # Zero
    PROVE  /\ phase_angle_div(v, w) \in Int
           /\ phase_angle_div(v, w) = 0 <=> phase_angle_div(Across(v), Across(w)) = 0
<1> DEFINE s == carg(v)
           t == carg(w)
<1>1. /\ Known(v) /\ Known(w) /\ Known(Across(v)) /\ Known(Across(w))
      /\ carg(Across(v)) = Quarter(s) /\ carg(Across(w)) = Quarter(t)
  BY KnownMultiples, ArgAcross
<1>2. /\ s \in Int /\ -180000 < s /\ s <= 180000
      /\ t \in Int /\ -180000 < t /\ t <= 180000
  BY SMT, <1>1, ArgRange
<1>3. /\ phase_angle_div(v, w) = Wrap(s - t)
      /\ phase_angle_div(Across(v), Across(w)) = Wrap(Quarter(s) - Quarter(t))
  BY <1>1, DivIsWrap
<1> HIDE DEF s, t
<1>4. Wrap(s - t) \in Int /\ (Wrap(s - t) = 0 <=> Wrap(Quarter(s) - Quarter(t)) = 0)
  BY SMT, <1>2 DEF Wrap, Quarter
<1> QED BY <1>3, <1>4

\* Every phase of a balanced set is a third of a turn before the next one, and
\* so are the lines.
LEMMA BalancedSet ==
    ASSUME NEW V \in [Phases -> Multiples], Balanced(V), NEW p \in Phases
    PROVE  /\ V[p] # Zero /\ V[p] = Later(Later(V[NextPhase[p]]))
           /\ LineVoltage(V, p) = Across(V[p])
           /\ LineVoltage(V, p) = Later(Later(LineVoltage(V, NextPhase[p])))
<1>1. ASSUME NEW q \in Phases
      PROVE  /\ V[q] \in Int \X Int /\ NextPhase[q] \in Phases
             /\ V[NextPhase[q]] = Times(Healthy["B"], V[q])
  <2>1. V[q] \in Multiples
    OBVIOUS
  <2> QED BY <2>1, KnownMultiples DEF Known, Balanced, NextPhase, Phases
<1>2. ASSUME NEW u \in Int \X Int, NEW v, v = Times(Healthy["B"], u)
      PROVE  /\ v \in Int \X Int /\ u = Later(Later(v))
             /\ Minus(u, v) = Across(u) /\ Minus(u, v) \in Int \X Int
             /\ u # Zero => v # Zero
  BY SMT, <1>2 DEF Times, Healthy, Later, Sextant, Minus, Across, Zero
<1>3. ASSUME NEW q \in Phases
      PROVE  LineVoltage(V, NextPhase[q]) = Times(Healthy["B"], LineVoltage(V, q))
  <2> DEFINE u == V[q]
             v == V[NextPhase[q]]
             w == V[NextPhase[NextPhase[q]]]
  <2>1. /\ u \in Int \X Int /\ v = Times(Healthy["B"], u) /\ w = Times(Healthy["B"], v)
    BY <1>1
  <2>2. Minus(v, w) = Times(Healthy["B"], Minus(u, v))
    <3> HIDE DEF u, v, w
    <3> QED BY SMT, <2>1 DEF Times, Healthy, Minus
  <2> QED BY <2>2 DEF LineVoltage
<1>4. V[p] # Zero
  <2>1. V["A"] # Zero
    BY DEF Balanced
  <2>2. NextPhase["A"] = "B" /\ NextPhase["B"] = "C" /\ "A" \in Phases /\ "B" \in Phases
    BY DEF NextPhase, Phases
  <2>3. V["B"] # Zero
    BY <1>1, <1>2, <2>1, <2>2
  <2>4. V["C"] # Zero
    BY <1>1, <1>2, <2>2, <2>3
  <2> QED BY <2>1, <2>3, <2>4 DEF Phases
<1>5. V[p] = Later(Later(V[NextPhase[p]])) /\ LineVoltage(V, p) = Across(V[p])
      /\ LineVoltage(V, p) \in Int \X Int
  BY <1>1, <1>2 DEF LineVoltage
<1>6. LineVoltage(V, p) = Later(Later(LineVoltage(V, NextPhase[p])))
  BY <1>2, <1>3, <1>5
<1> QED BY <1>4, <1>5, <1>6

LEMMA DivThird ==
    ASSUME NEW v, NEW w, Known(v), Known(w), v # Zero, w # Zero
    PROVE  phase_angle_div(Later(Later(v)), Later(Later(w))) = phase_angle_div(v, w)
<1>1. /\ Known(Later(v)) /\ Later(v) # Zero
      /\ Known(Later(w)) /\ Later(w) # Zero
  BY SMT, ArgLater
<1>2. phase_angle_div(Later(v), Later(w)) = phase_angle_div(v, w)
  BY Zenon, DivLater
<1> DEFINE v2 == Later(v)
           w2 == Later(w)
<1> HIDE DEF v2, w2
<1>3. Known(v2) /\ v2 # Zero /\ Known(w2) /\ w2 # Zero
  BY <1>1 DEF v2, w2
<1>4. phase_angle_div(Later(v2), Later(w2)) = phase_angle_div(v2, w2)
  BY Zenon, <1>3, DivLater
<1> QED BY Zenon, <1>2, <1>4 DEF v2, w2

\* So one angle separates all the phases of two balanced sides, and one their
\* lines; the second is zero just when the first is.
LEMMA BalancedAngles ==
    ASSUME NEW V \in [Phases -> Multiples], NEW W \in [Phases -> Multiples],
           Balanced(V), Balanced(W)
    PROVE  LET a == Angles(V, W)
           IN  /\ a["A"] \in Int /\ a["B"] = a["A"] /\ a["C"] = a["A"]
               /\ a["BC"] = a["AB"] /\ a["CA"] = a["AB"]
               /\ a["A"] = 0 <=> a["AB"] = 0
<1>1. ASSUME NEW p \in Phases
      PROVE  /\ PhaseAngle(V, W, p) = PhaseAngle(V, W, NextPhase[p])
             /\ LineAngle(V, W, p) = LineAngle(V, W, NextPhase[p])
  <2> DEFINE q == NextPhase[p]
  <2>1. q \in Phases
    BY DEF NextPhase, Phases
  <2>2. /\ V[q] \in Multiples /\ W[q] \in Multiples
        /\ Known(V[q]) /\ Known(W[q]) /\ V[q] # Zero /\ W[q] # Zero
    BY <2>1, KnownMultiples, BalancedSet
  <2>3. /\ V[p] = Later(Later(V[q])) /\ W[p] = Later(Later(W[q]))
        /\ LineVoltage(V, p) = Later(Later(LineVoltage(V, q)))
        /\ LineVoltage(W, p) = Later(Later(LineVoltage(W, q)))
        /\ LineVoltage(V, q) = Across(V[q]) /\ LineVoltage(W, q) = Across(W[q])
    BY <2>1, BalancedSet
  <2>4. /\ Known(LineVoltage(V, q)) /\ LineVoltage(V, q) # Zero
        /\ Known(LineVoltage(W, q)) /\ LineVoltage(W, q) # Zero
    BY <2>2, <2>3, ArgAcross
  <2> HIDE DEF q
  <2>5. PhaseAngle(V, W, p) = PhaseAngle(V, W, q)
    BY Zenon, <2>2, <2>3, DivThird DEF PhaseAngle
  <2>6. LineAngle(V, W, p) = LineAngle(V, W, q)
    BY Zenon, <2>3, <2>4, DivThird DEF LineAngle
  <2> QED BY <2>5, <2>6 DEF q
<1>2. /\ PhaseAngle(V, W, "A") \in Int
      /\ PhaseAngle(V, W, "A") = 0 <=> LineAngle(V, W, "A") = 0
  <2>1. "A" \in Phases
    BY DEF Phases
  <2>2. /\ V["A"] \in Multiples /\ W["A"] \in Multiples
        /\ V["A"] # Zero /\ LineVoltage(V, "A") = Across(V["A"])
        /\ W["A"] # Zero /\ LineVoltage(W, "A") = Across(W["A"])
    BY <2>1, BalancedSet
  <2> QED BY <2>2, DivAcross DEF PhaseAngle, LineAngle
<1>3. /\ NextPhase["A"] = "B" /\ NextPhase["B"] = "C"
      /\ "A" \in Phases /\ "B" \in Phases /\ "C" \in Phases
  BY DEF NextPhase, Phases
<1> QED BY <1>1, <1>2, <1>3, AnglesAre

LEMMA BalancedVerdicts ==
    ASSUME NEW V \in [Phases -> Multiples], NEW W \in [Phases -> Multiples],
           Balanced(V), Balanced(W)
    PROVE  \/ Verdicts(V, W) \subseteq {<<"ABC", "atras">>}
           \/ Verdicts(V, W) \subseteq {<<"ABC", "frente">>}
<1> DEFINE a == Angles(V, W)
<1>1. /\ a["A"] \in Int /\ a["B"] = a["A"] /\ a["C"] = a["A"]
      /\ a["BC"] = a["AB"] /\ a["CA"] = a["AB"] /\ (a["A"] = 0 <=> a["AB"] = 0)
      /\ DOMAIN a = AngleNames
  BY BalancedAngles, AnglesAre
<1>2. \A s \in Sides : Signs[s] \in Int /\ ~(0 * Signs[s] > 0)
  BY SMT DEF Sides, Signs
<1>3. Signs["atras"] = 1 /\ Signs["frente"] = -1
  BY DEF Signs
<1> HIDE DEF a
<1>4. ASSUME NEW f \in Faults, NEW s \in Sides
      PROVE  ~Matches(a, f, Signs[s])
  <2>1. \A x \in AngleNames : a[x] = a["A"] \/ a[x] = a["AB"]
    BY Zenon, <1>1 DEF AngleNames
  <2>2. CASE a["A"] = 0
    <3>1. \A x \in AngleNames : ~(a[x] * Signs[s] > 0)
      BY Zenon, <1>1, <1>2, <2>1, <2>2
    <3>2. Criteria[f][1] \in AngleNames
      BY Zenon, CriteriaAre DEF Faults, AngleNames
    <3> QED BY Zenon, <3>1, <3>2 DEF Matches
  <2>3. CASE a["A"] # 0
    <3>1. \A x \in AngleNames : a[x] # 0
      BY Zenon, <1>1, <2>1, <2>3
    <3>2. Criteria[f][2] \in AngleNames
      BY Zenon, CriteriaAre DEF Faults, AngleNames
    <3> QED BY Zenon, <3>1, <3>2 DEF Matches
  <2> QED BY <2>2, <2>3
<1>5. ~(ThreePhase(a, Signs["atras"]) /\ ThreePhase(a, Signs["frente"]))
  <2>1. "A" \in AngleNames
    BY DEF AngleNames
  <2>2. ~(a["A"] * 1 > 0 /\ a["A"] * (-1) > 0)
    BY SMT, <1>1
  <2> QED BY <1>1, <1>3, <2>1, <2>2 DEF ThreePhase
<1>6. ASSUME NEW v \in Verdicts(V, W)
      PROVE  /\ v = <<"ABC", v[2]>> /\ v[2] \in {"atras", "frente"}
             /\ ThreePhase(a, Signs[v[2]])
  <2>1. /\ v = <<v[1], v[2]>> /\ <<v[1], v[2]>> \in Verdicts(V, W) /\ v[2] \in Sides
    BY Zenon, VerdictPairs
  <2>2. \/ v[1] \in Faults /\ Matches(a, v[1], Signs[v[2]])
        \/ v[1] = "ABC" /\ ThreePhase(a, Signs[v[2]])
    BY Zenon, <2>1, VerdictIff DEF a
  <2>3. v[1] = "ABC" /\ ThreePhase(a, Signs[v[2]])
    BY Zenon, <1>4, <2>1, <2>2
  <2> QED BY Zenon, <2>1, <2>3 DEF Sides
<1> QED BY Zenon, <1>5, <1>6

(* Whatever the angle across the bank, balanced voltages give no verdict but   *)
(* the three-phase one, and that for one side.                                 *)
THEOREM BalancedOnlyThreePhase == SeriesSpec => []BalancedIsThreePhase
<1>1. SeriesInv => BalancedIsThreePhase
  BY BalancedVerdicts DEF SeriesInv, BalancedIsThreePhase
<1> QED BY <1>1, SeriesInvariant, PTL
=============================================================================
