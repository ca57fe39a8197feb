-------------------------- MODULE MCTeleprotection --------------------------
(* The small instance of Teleprotection that TLC explores: one window of each *)
(* kind that the selector tells apart.                                        *)
EXTENDS Teleprotection

healthy == [zone1 |-> {}, zone2 |-> {}]
near    == [zone1 |-> {"AT"}, zone2 |-> {"AT"}]
far     == [zone1 |-> {}, zone2 |-> {"BC"}]
\* Two ground units without their phase unit: no arm of either chain.
unclassified == [zone1 |-> {"AT", "BT"}, zone2 |-> {"AT", "BT"}]
\* A zone 1 pattern whose zone 2 set is no pattern: trips, then no wait.
mixed == [zone1 |-> {"AT"}, zone2 |-> {"AT", "BT"}]

\* "unclassified" moves the relays exactly as "healthy" does.
SafetyWindows == {unclassified, near, far, mixed}
LiveWindows == {healthy, far}
=============================================================================
