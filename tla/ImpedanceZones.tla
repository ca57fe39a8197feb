--------------------------- MODULE ImpedanceZones ---------------------------
(* The quadrilateral zones of Distancia21_A.c and Distancia21_B.c: vertices,  *)
(* vectorProduct and isInsideQuadrilateral, over impedances as the relay      *)
(* computes them - with the infinities and NaNs of a division by a current    *)
(* that is zero.                                                              *)
EXTENDS Integers

CONSTANT Resolution   \* one unit of this model, in 10^-5 ohm: the vertices
                      \* are written with five decimals

\* At most 10 ohm: rounded further, vertices of a zone fall together.
ASSUME ResolutionAssumption == Resolution \in Nat \ {0} /\ Resolution <= 1000000
-----------------------------------------------------------------------------
(* A double: a finite number (rounded to the resolution), an infinity (val is *)
(* its sign) or not a number.                                                 *)
Fin(n) == [kind |-> "fin", val |-> n]
Inf(sign) == [kind |-> "inf", val |-> sign]
NaN == [kind |-> "nan", val |-> 0]

Sign(n) == IF n > 0 THEN 1 ELSE IF n < 0 THEN -1 ELSE 0

\* IEEE 754: inf - inf and 0 * inf are NaN, and NaN spreads.
DoubleMinus(x, y) ==
    CASE "nan" \in {x.kind, y.kind} -> NaN
      [] x.kind = "inf" /\ y.kind = "inf" ->
            IF x.val = y.val THEN NaN ELSE x
      [] x.kind = "inf" /\ y.kind = "fin" -> x
      [] x.kind = "fin" /\ y.kind = "inf" -> Inf(-y.val)
      [] OTHER -> Fin(x.val - y.val)

DoubleTimes(x, y) ==
    IF "nan" \in {x.kind, y.kind} THEN NaN
    ELSE IF "inf" \notin {x.kind, y.kind} THEN Fin(x.val * y.val)
    ELSE IF 0 \in {x.val, y.val} THEN NaN
    ELSE Inf(Sign(x.val) * Sign(y.val))

\* Mutant: prod >= 0 written as !(prod < 0).
NotNegative_nanPasses(x) == x.val >= 0

\* Comparisons with NaN are false.
NotNegative(x) == x.kind # "nan" /\ x.val >= 0
NotPositive(x) == x.kind # "nan" /\ x.val <= 0
-----------------------------------------------------------------------------
\* An Impedance, from hundred-thousandths of an ohm.
Vertex(R, X) == [R |-> Fin(R \div Resolution), X |-> Fin(X \div Resolution)]

\* Mutants: the first vertex behind the relay, and in front of it; zone 2's
\* reach mistyped below zone 1's; zone 2's vertices pasted into zone 1.
Zone1Ground_behind  == << Vertex(-500000, -500000), Vertex(-2928321, 5072000),
                          Vertex(6985812, 5072000), Vertex(6580660, -2658759) >>
Zone1Phase_ahead    == << Vertex(500000, 500000), Vertex(-2928321, 5072000),
                          Vertex(4745812, 5072000), Vertex(4387107, -1772506) >>
Zone1Ground_pasted  == << Vertex(0, 0), Vertex(-4392481, 7608000),
                          Vertex(7118719, 7608000), Vertex(6580660, -2658759) >>
Zone2Ground_short   == << Vertex(0, 0), Vertex(-4392481, 4608000),
                          Vertex(7118719, 4608000), Vertex(6580660, -2658759) >>

\* p1 .. p4 of the ground and the phase units, zone 1 and zone 2.
Zone1Ground == << Vertex(0, 0), Vertex(-2928321, 5072000),
                  Vertex(6985812, 5072000), Vertex(6580660, -2658759) >>
Zone1Phase  == << Vertex(0, 0), Vertex(-2928321, 5072000),
                  Vertex(4745812, 5072000), Vertex(4387107, -1772506) >>
Zone2Ground == << Vertex(0, 0), Vertex(-4392481, 7608000),
                  Vertex(7118719, 7608000), Vertex(6580660, -2658759) >>
Zone2Phase  == << Vertex(0, 0), Vertex(-4392481, 7608000),
                  Vertex(4878719, 7608000), Vertex(4387107, -1772506) >>

Zones == {Zone1Ground, Zone1Phase, Zone2Ground, Zone2Phase}

vectorProduct(p1, p2, p) ==
    DoubleMinus(DoubleTimes(DoubleMinus(p2.R, p1.R), DoubleMinus(p.X, p1.X)),
          DoubleTimes(DoubleMinus(p2.X, p1.X), DoubleMinus(p.R, p1.R)))

\* prod1 .. prod4: Zr against each side of the quadrilateral q.
Products(Zr, q) ==
    {vectorProduct(q[i], q[(i % 4) + 1], Zr) : i \in 1 .. 4}

isInsideQuadrilateral(Zr, q) ==
    LET products == Products(Zr, q)
    IN  \/ \A prod \in products : NotNegative(prod)
        \/ \A prod \in products : NotPositive(prod)
=============================================================================
