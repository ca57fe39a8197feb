---------------------------- MODULE MCAlgorithms ----------------------------
(* The relays' algorithms - a channel's phasor, the six impedances and the    *)
(* fault selector, the zones, the series compensation's verdicts - share no   *)
(* state, so one of them moves while the others rest.                         *)
EXTENDS PhasorEstimation, FaultImpedance, ZoneGeometry, SeriesCompensation

algorithmVars == <<phasorVars, distanceVars, Zr, seriesVars>>

Init == PhasorInit /\ DistanceInit /\ ZoneInit /\ SeriesInit

PhasorRests == phasor = NoPhasor
DistanceRests == line.kind = "none" /\ \A l \in {"dist", "src"} : line[l] = 5
ZonesRest == Zr = [R |-> Fin(0), X |-> Fin(0)]
SeriesRests == V1 = Healthy /\ V2 = Healthy /\ trip = FALSE

Next ==
    \/ DistanceRests /\ ZonesRest /\ SeriesRests /\ PhasorNext /\ UNCHANGED <<distanceVars, Zr, seriesVars>>
    \/ PhasorRests /\ ZonesRest /\ SeriesRests /\ DistanceNext /\ UNCHANGED <<phasorVars, Zr, seriesVars>>
    \/ PhasorRests /\ DistanceRests /\ SeriesRests /\ ZoneNext /\ UNCHANGED <<phasorVars, distanceVars, seriesVars>>
    \/ PhasorRests /\ DistanceRests /\ ZonesRest /\ SeriesNext /\ UNCHANGED <<phasorVars, distanceVars, Zr>>

Spec == Init /\ [][Next]_algorithmVars

\* Nothing, the healthy voltage, a sixth of a turn to either side of it, the
\* opposite voltage.
MCDeviations == {<<0, 0>>, <<1, 0>>, <<1, 1>>, <<0, -1>>, <<-1, 0>>}
=============================================================================
