--------------------------- MODULE FaultImpedance ---------------------------
(* What the six units of the distance relay measure of a fault on their line, *)
(* and which zones' selectors it makes operate: the impedance loop of         *)
(* Distancia21_A.c (the same in Distancia21_B.c and Impedancias.c) over the   *)
(* steady states of a line fed from the relay's end, unloaded, with bolted    *)
(* faults.                                                                    *)
(*                                                                            *)
(* Source and line have the same angle and the same zero-sequence ratio, so   *)
(* their impedances are multiples of 1% of the line's and every voltage and   *)
(* current is a multiple of an Eisenstein integer.                            *)
EXTENDS Eisenstein

CONSTANTS
    Distances,   \* where faults are, in percent of the line
    Sources      \* impedances of the source behind the relay, in percent

ASSUME LineAssumption == Distances \cup Sources \subseteq Nat \ {0}

Quad == INSTANCE ImpedanceZones WITH Resolution <- 10000   \* tenths of an ohm
Relay == INSTANCE DistanceRelay WITH CYCLE_MS <- 1, ZONE2_MS <- 1, Windows <- {}

\* K0 = (ZL0 - ZL1) / (3 ZL1) = 0.7852, in fourteenths.
K0_N == 11
K0_D == 14
-----------------------------------------------------------------------------
(* The line: currents of each fault, times the impedance up to the fault and  *)
(* times Denominator(kind), so that they are integers.                        *)
Kinds == {"none", "AT", "BT", "CT", "AB", "BC", "CA", "ABT", "BCT", "CAT", "ABC"}

\* The faulted phases.
Faulted == [none |-> {}, AT |-> {"A"}, BT |-> {"B"}, CT |-> {"C"},
            AB |-> {"A", "B"}, BC |-> {"B", "C"}, CA |-> {"C", "A"},
            ABT |-> {"A", "B"}, BCT |-> {"B", "C"}, CAT |-> {"C", "A"},
            ABC |-> Phases]
Isolated == {"AB", "BC", "CA"}   \* not to earth
SinglePhase == {"AT", "BT", "CT"}
TwoPhaseEarth == {"ABT", "BCT", "CAT"}

Denominator(kind) == CASE kind \in SinglePhase -> K0_D + K0_N
                       [] kind \in Isolated -> 2
                       [] kind \in TwoPhaseEarth -> K0_D + 2 * K0_N
                       [] OTHER -> 1

\* The other faulted phase of a fault between two.
Partner(kind, p) == CHOOSE q \in Faulted[kind] : q # p
\* The sum of the voltages of a two-phase fault.
Pair(kind, p) == Plus(Healthy[p], Healthy[Partner(kind, p)])

FaultCurrent(kind, p) ==
    IF p \notin Faulted[kind] THEN Zero
    ELSE CASE kind \in SinglePhase -> Scale(K0_D, Healthy[p])
           [] kind \in Isolated -> Minus(Healthy[p], Healthy[Partner(kind, p)])
           [] kind \in TwoPhaseEarth ->
                 Minus(Scale(K0_D + 2 * K0_N, Healthy[p]), Scale(K0_N, Pair(kind, p)))
           [] OTHER -> Healthy[p]

\* The voltage each phase's current leaves at the relay: the source's, less
\* the drop on it of the phase's current and its part of the earth current.
EarthDrop(kind) ==
    CASE kind \in SinglePhase -> Scale(K0_N, Healthy[CHOOSE p \in Faulted[kind] : TRUE])
      [] kind \in TwoPhaseEarth -> Scale(K0_N, Pair(kind, CHOOSE p \in Faulted[kind] : TRUE))
      [] OTHER -> Zero

FaultVoltage(kind, dist, src, p) ==
    Minus(Scale(Denominator(kind) * (src + dist), Healthy[p]),
          Scale(src, Plus(FaultCurrent(kind, p), EarthDrop(kind))))
-----------------------------------------------------------------------------
VARIABLES
    line,     \* the fault on it: kind, distance, and the source's impedance
    window    \* the units inside zone 1 and inside zone 2 in the last pass

distanceVars == <<line, window>>

I(l, p) == FaultCurrent(l.kind, p)
V(l, p) == FaultVoltage(l.kind, l.dist, l.src, p)
I_N(l) == Plus(Plus(I(l, "A"), I(l, "B")), I(l, "C"))

\* Mutant: K0 without its third, (ZL0 - ZL1) / ZL1.
K0_I_N_unscaled(l) == Scale(3 * K0_N, <<I_N(l)[1] \div K0_D, I_N(l)[2] \div K0_D>>)

\* K0 * IN: every fault's IN is a multiple of K0_D.
K0_I_N(l) == Scale(K0_N, <<I_N(l)[1] \div K0_D, I_N(l)[2] \div K0_D>>)

\* VA / (IA + K0 * IN), and (VA - VB) / (IA - IB), as numerator and
\* denominator.
GroundUnit(l, p) == [num |-> V(l, p), den |-> Plus(I(l, p), K0_I_N(l))]

PhaseUnit(l, p) ==
    [num |-> Minus(V(l, p), V(l, NextPhase[p])), den |-> Minus(I(l, p), I(l, NextPhase[p]))]

Z(l) == [AT |-> GroundUnit(l, "A"), BT |-> GroundUnit(l, "B"), CT |-> GroundUnit(l, "C"),
         AB |-> PhaseUnit(l, "A"), BC |-> PhaseUnit(l, "B"), CA |-> PhaseUnit(l, "C")]

\* A quotient in the R-X plane, in tenths of an ohm: 1% of the line is 0.6375
\* ohm at 84 degrees.
Impedance(z) ==
    IF z.den = Zero THEN [R |-> Quad!NaN, X |-> Quad!NaN]
    ELSE LET q == Times(z.num, Conjugate(z.den))
             n == 2 * Norm(z.den)
             \* its coordinates, first in hundredths of 1% of the line, then
             \* in hundredths of an ohm
             re == ((((2 * q[1] - q[2]) * 100) \div n) * 6375) \div 10000
             im == (((((q[2] * 100) \div n) * 1732) \div 1000) * 6375) \div 10000
         IN  [R |-> Quad!Fin((re * 105 - im * 995) \div 10000),
              X |-> Quad!Fin((re * 995 + im * 105) \div 10000)]

ZoneOf(unit, ground, phase) == IF unit \in {"AT", "BT", "CT"} THEN ground ELSE phase

Inside(Zr, ground, phase) ==
    {u \in Relay!Units : Quad!isInsideQuadrilateral(Zr[u], ZoneOf(u, ground, phase))}

Measure(l) ==
    LET z == Z(l)
        Zr == [u \in Relay!Units |-> Impedance(z[u])]
    IN  [zone1 |-> Inside(Zr, Quad!Zone1Ground, Quad!Zone1Phase),
         zone2 |-> Inside(Zr, Quad!Zone2Ground, Quad!Zone2Phase)]
-----------------------------------------------------------------------------
\* One pass of the loop over a window of the line's next steady state.
DistancePass(l) == line' = l /\ window' = Measure(l)

DistanceInit ==
    /\ line \in [kind : {"none"}, dist : Distances, src : Sources]
    /\ window = Measure(line)

FaultStrikes ==
    /\ line.kind = "none"
    /\ \E k \in Kinds : DistancePass([line EXCEPT !.kind = k])

\* A fault spreads to more phases, or to earth.
FaultSpreads ==
    /\ line.kind # "none"
    /\ \E k \in Kinds \ Isolated :
          Faulted[line.kind] \subseteq Faulted[k] /\ DistancePass([line EXCEPT !.kind = k])

FaultCleared == line.kind # "none" /\ DistancePass([line EXCEPT !.kind = "none"])

SourceChanges ==
    /\ line.kind = "none"
    /\ \E s \in Sources : DistancePass([line EXCEPT !.src = s])

DistanceNext == FaultStrikes \/ FaultSpreads \/ FaultCleared \/ SourceChanges

DistanceSpec == DistanceInit /\ [][DistanceNext]_distanceVars

\* The lines there are; window is what the last pass measured of this one.
Lines == [kind : Kinds, dist : Distances, src : Sources]

DistanceInv == line \in Lines /\ window = Measure(line)
-----------------------------------------------------------------------------
\* The units that are in the fault's loop.
Loops == [none |-> {}, AT |-> {"AT"}, BT |-> {"BT"}, CT |-> {"CT"},
          AB |-> {"AB"}, BC |-> {"BC"}, CA |-> {"CA"},
          ABT |-> {"AT", "BT", "AB"}, BCT |-> {"BT", "CT", "BC"},
          CAT |-> {"CT", "AT", "CA"}, ABC |-> Relay!Units]

(* Whatever the fault and the source, every unit in its loop measures the     *)
(* positive-sequence impedance up to it: the earth current is compensated for *)
(* by exactly what the line's zero-sequence impedance adds.                   *)
LoopsMeasureDistance ==
    \A u \in Loops[line.kind] :
        Z(line)[u].num = Scale(line.dist, Z(line)[u].den) /\ Z(line)[u].den # Zero

\* What zone 1 and zone 2 are to cover: X = 50.72 and 76.08 ohm on the line.
Reach1 == 80
Reach2 == 120

(* However strong the source, the units of a fault within a zone's reach are  *)
(* inside that zone: nothing but units too many keeps a selector from it.     *)
ReachSeen ==
    /\ line.dist < Reach1 => Loops[line.kind] \subseteq window.zone1
    /\ line.dist < Reach2 => Loops[line.kind] \subseteq window.zone2

\* Selected by exactly its units, and so by an arm of the selector.
SelectedBy(inside) == inside = Loops[line.kind] /\ Relay!Operates(inside)

\* The sources weak enough for the other units to stay outside.
WeakSource == CASE line.kind = "ABC" -> TRUE
                [] line.kind \in Isolated -> line.src >= 200
                [] OTHER -> line.src >= 50

(* Each of the ten faults is selected by its own arm in both zones: from      *)
(* every source if it is three-phase, from half the line's impedance on if it *)
(* is to earth, from twice the line's on if it is between two phases.         *)
FaultSelected ==
    line.kind # "none" /\ WeakSource =>
        /\ line.dist < Reach1 => SelectedBy(window.zone1)
        /\ line.dist < Reach2 => SelectedBy(window.zone2)

(* No zone operates for a fault to earth, or of three phases, beyond its      *)
(* reach, nor on a line without one.                                          *)
NoOverreach ==
    line.kind \notin Isolated =>
        /\ line.dist > Reach1 \/ line.kind = "none" => ~Relay!Operates(window.zone1)
        /\ line.dist > Reach2 \/ line.kind = "none" => ~Relay!Operates(window.zone2)

(* "Região de atuação do relé para faltas fase-fase - Zona 1": the relay      *)
(* operates for a fault between two phases that lies in that region.          *)
PhaseFaultOperates ==
    line.kind \in Isolated /\ line.kind \in window.zone1 => Relay!Operates(window.zone1)
=============================================================================
