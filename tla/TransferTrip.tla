---------------------------- MODULE TransferTrip ---------------------------
(* What the two relays promise together, with no threads, frames or clock:    *)
(* a direct transfer trip.  A relay operates only on a fault its own zones    *)
(* saw, or, at B, because B was told that A operated; a telling is never      *)
(* invented.  Either relay may be restarted, which forgets what it holds but  *)
(* not what happened.                                                         *)
EXTENDS Integers

VARIABLES
    faultA, faultB,   \* a zone of this relay has picked a fault up (history)
    operatedA,        \* A has operated (history)
    tripA, told, tripB

vars == <<faultA, faultB, operatedA, tripA, told, tripB>>

Init ==
    /\ faultA = FALSE /\ faultB = FALSE /\ operatedA = FALSE
    /\ tripA = 0 /\ told = 0 /\ tripB = 0

\* A measures the line and may operate if it has ever seen a fault.
MeasureA ==
    /\ faultA' \in {faultA, TRUE}
    /\ tripA' \in {tripA, 1}
    /\ tripA' # tripA => faultA'
    /\ operatedA' = (operatedA \/ tripA' = 1)
    /\ UNCHANGED <<faultB, told, tripB>>

\* The news that A operated reaches B, at any later time.
Tell ==
    /\ operatedA
    /\ told' = 1
    /\ UNCHANGED <<faultA, faultB, operatedA, tripA, tripB>>

\* B measures the line, looks whether it was told, and may operate.
MeasureB ==
    /\ faultB' \in {faultB, TRUE}
    /\ tripB' \in {tripB, 1}
    /\ tripB' # tripB => faultB' \/ told = 1
    /\ UNCHANGED <<faultA, operatedA, tripA, told>>

RestartA == tripA' = 0 /\ UNCHANGED <<faultA, faultB, operatedA, told, tripB>>

RestartB ==
    /\ told' = 0 /\ tripB' = 0
    /\ UNCHANGED <<faultA, faultB, operatedA, tripA>>

Next == MeasureA \/ Tell \/ MeasureB \/ RestartA \/ RestartB

Spec == Init /\ [][Next]_vars
=============================================================================
