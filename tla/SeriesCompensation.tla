------------------------- MODULE SeriesCompensation -------------------------
(* Compser.c: on which side of a series capacitor bank a fault lies, from the *)
(* angles of the six ratios between the voltages behind the bank and those    *)
(* ahead of it.                                                               *)
EXTENDS Eisenstein, Functions

CONSTANT Deviations   \* what a phase voltage may be, as a multiple of the
                      \* healthy voltage of its phase

\* Nothing, or the healthy voltage or twice it, turned by sixths of a turn.
Sextants == {<<1, 0>>, <<1, 1>>, <<0, 1>>, <<-1, 0>>, <<-1, -1>>, <<0, -1>>}
Multiples == {Scale(k, u) : k \in 0 .. 2, u \in Sextants}

ASSUME DeviationsAssumption == Deviations \subseteq Multiples
-----------------------------------------------------------------------------
(* Angles are in thousandths of a degree: what phase_angle_div rounds to.     *)
Turn == 360000

\* The angle of x + y*Sextant with x > 0 and y >= 0.  The directions of the
\* voltages of this model and of their differences are those listed.
InSextant(x, y) ==
    CASE y = 0     -> 0
      [] x = 2 * y -> 19107
      [] x = y     -> 30000
      [] y = 2 * x -> 40893

\* carg, in (-180, 180] degrees; 0 of a zero voltage.
carg(v) ==
    LET x == v[1] - v[2]   \* v = x + y*Sextant
        y == v[2]
    IN  CASE v = Zero               -> 0
          [] x > 0 /\ y >= 0        -> InSextant(x, y)
          [] x <= 0 /\ x + y > 0    -> InSextant(x + y, -x) + 60000
          [] x + y <= 0 /\ y > 0    -> InSextant(y, -(x + y)) + 120000
          [] x < 0 /\ y = 0         -> 180000
          [] x < 0 /\ y < 0         -> InSextant(-x, -y) - 180000
          [] x >= 0 /\ x + y < 0    -> InSextant(-(x + y), x) - 120000
          [] x + y >= 0 /\ y < 0    -> InSextant(-y, x + y) - 60000

\* Mutant: the difference is not brought back to half a turn.
phase_angle_div_raw(p1, p2) == carg(p1) - carg(p2)

phase_angle_div(p1, p2) ==
    LET angle == carg(p1) - carg(p2)
    IN  CASE angle <= -(Turn \div 2) -> angle + Turn
          [] angle > Turn \div 2     -> angle - Turn
          [] OTHER                   -> angle
-----------------------------------------------------------------------------
\* Voltages of one side of the bank: the phases', and the lines' by their
\* first phase.
LineVoltage(V, p) == Minus(V[p], V[NextPhase[p]])

\* ph_VA1_VA2 ... and ph_VAB1_VAB2 ...: angles of the ratios of the two sides.
PhaseAngle(V1, V2, p) == phase_angle_div(V1[p], V2[p])
LineAngle(V1, V2, p) ==
    phase_angle_div(LineVoltage(V1, p), LineVoltage(V2, p))

Angles(V1, V2) ==
    [A |-> PhaseAngle(V1, V2, "A"), B |-> PhaseAngle(V1, V2, "B"),
     C |-> PhaseAngle(V1, V2, "C"), AB |-> LineAngle(V1, V2, "A"),
     BC |-> LineAngle(V1, V2, "B"), CA |-> LineAngle(V1, V2, "C")]

\* Mutant: the angle that must be zero is BT's in CT's arms too.
Criteria_copied == [
    AT |-> <<"A", "BC">>, BT |-> <<"B", "CA">>, CT |-> <<"C", "CA">>,
    AB |-> <<"AB", "C">>, BC |-> <<"BC", "A">>, CA |-> <<"CA", "B">>]

\* For each fault the angle whose sign gives the side and the angle that must
\* be 0.000.
Criteria == [
    AT |-> <<"A", "BC">>, BT |-> <<"B", "CA">>, CT |-> <<"C", "AB">>,
    AB |-> <<"AB", "C">>, BC |-> <<"BC", "A">>, CA |-> <<"CA", "B">>]

ThreePhase(angles, sign) == \A x \in DOMAIN angles : angles[x] * sign > 0

\* Mutants: the arms without the angle that must be zero; the second test of
\* each pair with >= for <.
Matches_unguarded(angles, fault, sign) == angles[Criteria[fault][1]] * sign > 0

Matches_aheadAtZero(angles, fault, sign) ==
    /\ angles[Criteria[fault][1]] * sign > 0 \/ (sign = -1 /\ angles[Criteria[fault][1]] = 0)
    /\ angles[Criteria[fault][2]] = 0

Matches(angles, fault, sign) ==
    /\ angles[Criteria[fault][1]] * sign > 0
    /\ angles[Criteria[fault][2]] = 0

Signs == [atras |-> 1, frente |-> -1]

\* The messages of one pass: fourteen tests, none of which excludes another.
Verdicts(V1, V2) ==
    LET angles == Angles(V1, V2)
    IN  {v \in (DOMAIN Criteria) \X (DOMAIN Signs) : Matches(angles, v[1], Signs[v[2]])}
        \cup {v \in {"ABC"} \X (DOMAIN Signs) : ThreePhase(angles, Signs[v[2]])}
-----------------------------------------------------------------------------
VARIABLES
    V1, V2,     \* VA1 .. VC1 and VA2 .. VC2 of the last window
    announced,  \* verdicts of the last pass
    trip

seriesVars == <<V1, V2, announced, trip>>

Voltages(p) == {Times(d, Healthy[p]) : d \in Deviations}

\* Before the first window.
SeriesInit ==
    /\ V1 = Healthy /\ V2 = Healthy
    /\ announced = {} /\ trip = FALSE

\* One pass of while(1): the next window, in which one phase voltage of one
\* side has changed, its angles, its verdicts; a verdict latches the trip.
SeriesPass(W1, W2) ==
    /\ V1' = W1 /\ V2' = W2
    /\ announced' = Verdicts(W1, W2)
    /\ trip' = (trip \/ announced' # {})

Behind == \E p \in Phases : \E v \in Voltages(p) \ {V1[p]} : SeriesPass([V1 EXCEPT ![p] = v], V2)
Ahead  == \E p \in Phases : \E v \in Voltages(p) \ {V2[p]} : SeriesPass(V1, [V2 EXCEPT ![p] = v])

SeriesNext == Behind \/ Ahead

SeriesSpec == SeriesInit /\ [][SeriesNext]_seriesVars

\* The voltages stay multiples of the healthy ones, and the verdicts are those
\* of the last window.
SeriesInv ==
    /\ V1 \in [Phases -> Multiples] /\ V2 \in [Phases -> Multiples]
    /\ announced = Verdicts(V1, V2)
-----------------------------------------------------------------------------
\* The same line with its phases renamed A -> B -> C -> A.
Renamed(V) == [A |-> V["C"], B |-> V["A"], C |-> V["B"]]
RenamedFault == [AT |-> "BT", BT |-> "CT", CT |-> "AT",
                 AB |-> "BC", BC |-> "CA", CA |-> "AB", ABC |-> "ABC"]

(* The three phases are treated alike: fourteen hand-copied arms give the     *)
(* renamed faults, on the same sides, for the renamed voltages.               *)
PhasesAlike ==
    Verdicts(Renamed(V1), Renamed(V2)) =
        {<<RenamedFault[v[1]], v[2]>> : v \in announced}

\* No voltage of which the angle is asked is zero.
Energised(V) == \A p \in Phases : V[p] # Zero /\ LineVoltage(V, p) # Zero

SextantLater(V) == [p \in Phases |-> Times(Sextant, V[p])]

(* When the window begins does not matter: all the voltages turned by the     *)
(* same angle, which is what a later window sees of the same line, give the   *)
(* same verdicts, wherever the angles wrap.                                   *)
InstantIndependent ==
    Energised(V1) /\ Energised(V2) =>
        Verdicts(SextantLater(V1), SextantLater(V2)) = announced

(* Behind and ahead are opposites: the bank seen from its other side gives    *)
(* the same faults on the other side, unless two voltages are in opposition.  *)
OtherSide == [atras |-> "frente", frente |-> "atras"]

SidesOpposite ==
    Turn \div 2 \notin Range(Angles(V1, V2)) =>
        Verdicts(V2, V1) = {<<v[1], OtherSide[v[2]]>> : v \in announced}

\* A positive-sequence set: each phase lags the one before by 120 degrees.
Balanced(V) ==
    V["A"] # Zero /\ \A p \in Phases : V[NextPhase[p]] = Times(Healthy["B"], V[p])

(* Balanced voltages never look like an unbalanced fault: whatever the angle  *)
(* across the bank, only the three-phase verdict can be given, for one side.  *)
BalancedIsThreePhase ==
    Balanced(V1) /\ Balanced(V2) =>
        announced \subseteq {<<"ABC", "atras">>} \/ announced \subseteq {<<"ABC", "frente">>}
=============================================================================
