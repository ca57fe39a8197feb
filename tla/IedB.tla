-------------------------------- MODULE IedB --------------------------------
(* IED B, Distancia21_B.c with goose_sub.c: the relay loop of IED A plus, at  *)
(* each pass, a look at tripA, which the GOOSE receiver thread sets from      *)
(* gooseListener and nothing ever clears.                                     *)
EXTENDS DistanceRelay

VARIABLES
    bPc,       \* "start", "loop", "zone2", "exit"
    bSleep,    \* ms left of wait_ms
    tripB,     \* volatile int trip (IED B's own)
    tripA,     \* volatile int tripA
    ptrSet,    \* goose_sub.c's tripA_ptr # NULL
    rPc,       \* receiver: "off", "create", "running", "deaf", "done"
    announced  \* trip_("Falta detectada pelo relé no barramento A - Zona 1!")
               \* has been printed

bVars == <<bPc, bSleep, tripB, tripA, ptrSet, rPc, announced>>

BTypeOK ==
    /\ bPc \in {"start", "loop", "zone2", "exit"}
    /\ bSleep \in 0 .. (CYCLE_MS + ZONE2_MS)
    /\ tripB \in {0, 1}
    /\ tripA \in {0, 1}
    /\ ptrSet \in BOOLEAN
    /\ rPc \in {"off", "create", "running", "deaf", "done"}
    /\ announced \in BOOLEAN

BInit ==
    /\ bPc = "start" /\ bSleep = 0
    /\ tripB = 0 /\ tripA = 0
    /\ ptrSet = FALSE /\ rPc = "off" /\ announced = FALSE

\* set_trip_ptr(&tripA), then the listener thread; without it main returns 1.
B_start ==
    /\ bPc = "start"
    /\ ptrSet' = TRUE
    /\ \/ bPc' = "loop" /\ rPc' = "create"
       \/ bPc' = "exit" /\ rPc' = "off"
    /\ UNCHANGED <<bSleep, tripB, tripA, announced>>

\* goose_listen_loop: the receiver runs; or its socket cannot be made and the
\* listener thread returns; or the socket is there (isRunning) but the thread
\* that should read it is not, and nobody notices.
goose_listen_loop ==
    /\ rPc = "create"
    /\ rPc' \in {"running", "done", "deaf"}
    /\ UNCHANGED <<bPc, bSleep, tripB, tripA, ptrSet, announced>>

\* Mutants: any message trips; the latest value is assigned.
gooseListener_anyMessage(value) ==
    /\ rPc = "running"
    /\ tripA' = IF ptrSet THEN 1 ELSE tripA
    /\ UNCHANGED <<bPc, bSleep, tripB, ptrSet, rPc, announced>>

gooseListener_assigns(value) ==
    /\ rPc = "running"
    /\ tripA' = IF ~ptrSet THEN tripA ELSE IF value THEN 1 ELSE 0
    /\ UNCHANGED <<bPc, bSleep, tripB, ptrSet, rPc, announced>>

\* gooseListener, called in the receiver thread for each matching message.
gooseListener(value) ==
    /\ rPc = "running"
    /\ tripA' = IF value /\ ptrSet THEN 1 ELSE tripA
    /\ UNCHANGED <<bPc, bSleep, tripB, ptrSet, rPc, announced>>

\* Mutant: any unit inside zone 1 trips, whatever the pattern.
B_cycle_anyUnit(w) ==
    /\ bPc = "loop" /\ bSleep = 0
    /\ tripB' = IF tripA = 1 \/ w.zone1 # {} THEN 1 ELSE tripB
    /\ announced' = (announced \/ tripA = 1)
    /\ bPc' = PassPc(w) /\ bSleep' = PassSleep(w)
    /\ UNCHANGED <<tripA, ptrSet, rPc>>

\* One pass of while(1): the remote trip is read once, after get_phasors and
\* before zone 1.
B_cycle(w) ==
    /\ bPc = "loop"
    /\ bSleep = 0
    /\ tripB' = IF tripA = 1 \/ Operates(w.zone1) THEN 1 ELSE tripB
    /\ announced' = (announced \/ tripA = 1)
    /\ bPc' = PassPc(w)
    /\ bSleep' = PassSleep(w)
    /\ UNCHANGED <<tripA, ptrSet, rPc>>

\* The zone 2 wait is over; tripA was not looked at while it lasted.
B_zone2 ==
    /\ bPc = "zone2"
    /\ bSleep = 0
    /\ tripB' = 1
    /\ bPc' = "loop"
    /\ bSleep' = CYCLE_MS
    /\ UNCHANGED <<tripA, ptrSet, rPc, announced>>

\* The process is stopped and run again: its statics are as the loader left
\* them and all of its threads are gone.
B_restart ==
    /\ bPc # "start"
    /\ bPc' = "start" /\ bSleep' = 0
    /\ tripB' = 0 /\ tripA' = 0
    /\ ptrSet' = FALSE /\ rPc' = "off" /\ announced' = FALSE
=============================================================================
