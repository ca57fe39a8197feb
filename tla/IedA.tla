-------------------------------- MODULE IedA --------------------------------
(* IED A, Distancia21_A.c: main() starts the GOOSE thread, opens its log and  *)
(* then for ever reads a window, runs zone 1, runs zone 2 (a 200 ms sleep in  *)
(* the same thread, then an unconditional trip), and sleeps one power cycle.  *)
(* Between two accesses to shared memory a thread's steps are one action: in  *)
(* a pass the only shared access is the write of trip.                        *)
EXTENDS GooseTripThread, DistanceRelay

VARIABLES
    aPc,     \* "start", "open", "loop" (top of while(1)), "zone2", "exit"
    aSleep,  \* ms left of wait_ms
    trip     \* volatile int trip

aVars == <<aPc, aSleep, trip>>

ATypeOK ==
    /\ aPc \in {"start", "open", "loop", "zone2", "exit"}
    /\ aSleep \in 0 .. (CYCLE_MS + ZONE2_MS)
    /\ trip \in {0, 1}

AInit == aPc = "start" /\ aSleep = 0 /\ trip = 0

\* pthread_create(&goose_tid, ...): its result is not looked at.
A_start ==
    /\ aPc = "start"
    /\ aPc' = "open"
    /\ gPc' \in {"create", "off"}
    /\ UNCHANGED <<gSleep, tripValue, aSleep, trip>>

\* fopen("Dados/dados_intervalos.txt", "w"): on failure main returns 1, which
\* ends the process and the GOOSE thread started before it.
A_open ==
    /\ aPc = "open"
    /\ \/ aPc' = "loop" /\ UNCHANGED gPc
       \/ aPc' = "exit" /\ gPc' = "off"
    /\ UNCHANGED <<gSleep, tripValue, aSleep, trip>>

\* Mutant: a pass that finds no zone 1 fault takes the trip back.
A_cycle_unlatched(w) ==
    /\ aPc = "loop" /\ aSleep = 0
    /\ trip' = IF Operates(w.zone1) THEN 1 ELSE 0
    /\ aPc' = PassPc(w) /\ aSleep' = PassSleep(w)
    /\ UNCHANGED gVars

\* One pass of while(1) up to the sleep it ends in: zone 1 trips at once, a
\* zone 2 pattern starts the 200 ms wait, no pattern goes to the cycle wait.
A_cycle(w) ==
    /\ aPc = "loop"
    /\ aSleep = 0
    /\ trip' = IF Operates(w.zone1) THEN 1 ELSE trip
    /\ aPc' = PassPc(w)
    /\ aSleep' = PassSleep(w)
    /\ UNCHANGED gVars

\* Mutant: zone 2 trips without its wait.
A_zone2_noWait ==
    /\ aPc = "zone2"
    /\ trip' = 1
    /\ aPc' = "loop" /\ aSleep' = CYCLE_MS
    /\ UNCHANGED gVars

\* The zone 2 wait is over: trip_() whatever the line looks like by now, the
\* interval is logged, and the cycle wait follows.
A_zone2 ==
    /\ aPc = "zone2"
    /\ aSleep = 0
    /\ trip' = 1
    /\ aPc' = "loop"
    /\ aSleep' = CYCLE_MS
    /\ UNCHANGED gVars

\* The process is stopped and run again: its statics are as the loader left
\* them and both of its threads are gone.
A_restart ==
    /\ aPc # "start"
    /\ aPc' = "start" /\ aSleep' = 0 /\ trip' = 0
    /\ gPc' = "off" /\ gSleep' = 0 /\ tripValue' = FALSE
=============================================================================
