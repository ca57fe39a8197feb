---------------------------- MODULE ZoneGeometry ----------------------------
(* The zones of ImpedanceZones under every impedance a measuring unit may     *)
(* show, finite or not.                                                       *)
EXTENDS ImpedanceZones
-----------------------------------------------------------------------------
(* The impedance one unit of the relay sees, as the line's state changes.     *)
CONSTANT Reach   \* bound on the finite impedances, in units

ASSUME ReachAssumption == Reach \in Nat \ {0}

VARIABLE Zr

Finite(z) == z.R.kind = "fin" /\ z.X.kind = "fin"

\* What the magnitude and phase of a division by zero current come back as:
\* an infinite magnitude times a cosine and a sine, or nothing but NaN.
NonFinite == {Inf(1), Inf(-1), NaN}
Undefined == [R : NonFinite, X : NonFinite]

ZoneInit == Zr = [R |-> Fin(0), X |-> Fin(0)]

Shift(x, d) == IF x.kind = "fin" THEN Fin(x.val + d) ELSE Fin(0)

\* The impedance moves in the R-X plane, from wherever it was.
Moves ==
    \E d \in {-1, 0, 1}, e \in {-1, 0, 1} :
        /\ Zr' = [R |-> Shift(Zr.R, d), X |-> Shift(Zr.X, e)]
        /\ {Zr'.R.val, Zr'.X.val} \subseteq -Reach .. Reach

\* The current it is divided by vanishes.
CurrentVanishes == Zr' \in Undefined

ZoneNext == Moves \/ CurrentVanishes

ZoneSpec == ZoneInit /\ [][ZoneNext]_Zr

\* What a unit shows: two numbers, or nothing finite in either coordinate.
ZoneInv == Zr \in [R : {Fin(n) : n \in Int}, X : {Fin(n) : n \in Int}] \cup Undefined
-----------------------------------------------------------------------------
Scaled(z, k) == [R |-> Fin(k * z.R.val), X |-> Fin(k * z.X.val)]

(* Directional: a fault behind the relay, whose impedance is the opposite of  *)
(* one in front of it, is in no zone that holds the other.                    *)
Directional ==
    Finite(Zr) /\ Zr # [R |-> Fin(0), X |-> Fin(0)] =>
        \A q \in Zones :
            ~(isInsideQuadrilateral(Zr, q) /\ isInsideQuadrilateral(Scaled(Zr, -1), q))

(* A zone that sees a fault sees the same fault at half the distance.         *)
CloserFaultSeen ==
    Finite(Zr) =>
        \A q \in Zones :
            isInsideQuadrilateral(Scaled(Zr, 2), q) => isInsideQuadrilateral(Zr, q)

(* No current, no measurement, no trip: an impedance that is not a number or  *)
(* is infinite lies in no zone.  It is the flat top side that decides it: an  *)
(* infinite resistance makes its product 0 * inf.                             *)
UndefinedRestrains ==
    Zr \in Undefined => \A q \in Zones : ~isInsideQuadrilateral(Zr, q)

(* Zone 2 backs zone 1 up: what lies inside zone 1 by one unit of resolution  *)
(* (the two zones' left and right sides are the same lines, each rounded on   *)
(* its own) lies inside zone 2 of the same units.                             *)
Around(z) == {[R |-> Shift(z.R, d), X |-> Shift(z.X, e)] : d, e \in {-1, 0, 1}}

Overreaches(q1, q2) ==
    (\A z \in Around(Zr) : isInsideQuadrilateral(z, q1)) => isInsideQuadrilateral(Zr, q2)

ZoneTwoBacksUp ==
    Finite(Zr) =>
        Overreaches(Zone1Ground, Zone2Ground) /\ Overreaches(Zone1Phase, Zone2Phase)
=============================================================================
