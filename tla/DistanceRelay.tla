--------------------------- MODULE DistanceRelay ---------------------------
(* What Distancia21_A.c and Distancia21_B.c share: the two zones' fault       *)
(* selector and the two waits of the protection loop.                         *)
(*                                                                            *)
(* Each zone turns six booleans, "this unit's impedance is inside the zone",  *)
(* into a trip through a chain of ten exact patterns; any other set of units  *)
(* operates nothing.                                                          *)
EXTENDS Integers

\* The six measuring units: three phase-to-ground, three phase-to-phase.
Units == {"AT", "BT", "CT", "AB", "BC", "CA"}

\* One pass's measurement: the units seen inside zone 1 and inside zone 2.
Window == [zone1 : SUBSET Units, zone2 : SUBSET Units]

CONSTANTS CYCLE_MS,   \* wait_ms(1000.0 / 60.0)
          ZONE2_MS,   \* wait_ms(200.0)
          Windows     \* the measurements the line may present

ASSUME RelayAssumption ==
    /\ CYCLE_MS \in Nat \ {0}
    /\ ZONE2_MS \in Nat \ {0}
    /\ Windows \subseteq Window

\* Mutant: the arm of CAT looks at BC.
FaultPatterns_wrongUnit ==
    { {"AT"}, {"BT"}, {"CT"},
      {"AB"}, {"BC"}, {"CA"},
      {"AT", "BT", "AB"}, {"BT", "CT", "BC"}, {"AT", "CT", "BC"},
      Units }

\* The ten if/else-if arms, each as the exact set of units found inside.
FaultPatterns ==
    { {"AT"}, {"BT"}, {"CT"},
      {"AB"}, {"BC"}, {"CA"},
      {"AT", "BT", "AB"}, {"BT", "CT", "BC"}, {"AT", "CT", "CA"},
      Units }

Operates(inside) == inside \in FaultPatterns

\* Where a pass goes after its zone 2 test, and how long it sleeps there.
PassPc(w) == IF Operates(w.zone2) THEN "zone2" ELSE "loop"
PassSleep(w) == IF Operates(w.zone2) THEN ZONE2_MS ELSE CYCLE_MS
=============================================================================
