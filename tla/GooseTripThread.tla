--------------------------- MODULE GooseTripThread --------------------------
(* IED A's publishing thread, goose_publisher_trip() of goose_pub.c: it       *)
(* copies *trip_ptr into the one-element data set, publishes it, sleeps and   *)
(* repeats, for ever.  The copy and the send are two steps: the main thread   *)
(* may set trip between them.                                                 *)
EXTENDS Integers

CONSTANT PUB_MS     \* Thread_sleep(1): the retransmission period

ASSUME PubAssumption == PUB_MS \in Nat \ {0}

VARIABLES
    gPc,        \* "off" (no thread), "create", "loop", "publish", "done"
    gSleep,     \* ms left of Thread_sleep
    tripValue   \* the MmsValue boolean in dataSetValues

gVars == <<gPc, gSleep, tripValue>>

GTypeOK ==
    /\ gPc \in {"off", "create", "loop", "publish", "done"}
    /\ gSleep \in 0 .. PUB_MS
    /\ tripValue \in BOOLEAN

GInit == gPc = "off" /\ gSleep = 0 /\ tripValue = FALSE

\* GoosePublisher_create: without the interface or the permission it returns
\* NULL, the thread prints, frees its data set and ends; nobody restarts it.
goose_create(trip) ==
    /\ gPc = "create"
    /\ tripValue' = (trip = 1)
    /\ gPc' \in {"loop", "done"}
    /\ UNCHANGED gSleep

\* Mutants: the value is inverted; the thread publishes only a changed value.
goose_setBoolean_inverted(trip) ==
    /\ gPc = "loop" /\ gSleep = 0
    /\ tripValue' = (trip = 0)
    /\ gPc' = "publish"
    /\ UNCHANGED gSleep

goose_setBoolean_onChange(trip) ==
    /\ gPc = "loop" /\ gSleep = 0
    /\ tripValue # (trip = 1)
    /\ tripValue' = (trip = 1)
    /\ gPc' = "publish"
    /\ UNCHANGED gSleep

\* MmsValue_setBoolean(tripValue, *trip_ptr)
goose_setBoolean(trip) ==
    /\ gPc = "loop"
    /\ gSleep = 0
    /\ tripValue' = (trip = 1)
    /\ gPc' = "publish"
    /\ UNCHANGED gSleep

\* Mutant: the thread sleeps the 20 ms of the time allowed to live.
goose_publish_atTTL ==
    /\ gPc = "publish"
    /\ gPc' = "loop"
    /\ gSleep' = 20 * PUB_MS
    /\ UNCHANGED tripValue

\* GoosePublisher_publish of tripValue, then Thread_sleep; what the network
\* does with the frame is the composition's business.
goose_publish ==
    /\ gPc = "publish"
    /\ gPc' = "loop"
    /\ gSleep' = PUB_MS
    /\ UNCHANGED tripValue
=============================================================================
