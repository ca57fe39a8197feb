------------------------------- MODULE MCTimed -------------------------------
(* The small instance of TeleprotectionTimed that TLC explores: the waits are *)
(* the code's, with the power cycle and the zone 2 wait shortened.            *)
EXTENDS TeleprotectionTimed

near    == [zone1 |-> {"AT"}, zone2 |-> {"AT"}]
far     == [zone1 |-> {}, zone2 |-> {"BC"}]
healthy == [zone1 |-> {}, zone2 |-> {}]

TimedWindows == {healthy, near, far}
=============================================================================
