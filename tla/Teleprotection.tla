--------------------------- MODULE Teleprotection ---------------------------
(* The two IEDs and the wire between them.  IED A's two threads, IED B's two  *)
(* threads, the socket buffer that holds the GOOSE frames B has not read, and *)
(* time.  Nothing here bounds how late a thread may run: a sleep lasts AT     *)
(* LEAST what it asks for, which is what nanosleep and Thread_sleep promise.  *)
EXTENDS IedA, IedB, Sequences, FiniteSets

CONSTANTS NetCap,       \* frames the receiver's socket buffer holds
          MaxRestarts   \* bound on the restarts of one behaviour

ASSUME NetAssumption == NetCap \in Nat \ {0} /\ MaxRestarts \in Nat

VARIABLES
    net,        \* the trip values of the frames waiting in B's socket buffer
    restarts,   \* process restarts so far, of either IED
    \* History, read by the properties only:
    verdicts,   \* <<ied, zone>>: that zone of that relay has matched a pattern
    operatedA,  \* IED A's trip has been 1 at some time
    sincePick   \* ms since the first verdict of any relay, up to ZONE2_MS

wire == <<net, restarts>>
history == <<verdicts, operatedA, sincePick>>
vars == <<gVars, aVars, bVars, wire, history>>

Relays == {"A", "B"}

TypeOK ==
    /\ GTypeOK /\ ATypeOK /\ BTypeOK
    /\ net \in Seq(BOOLEAN) /\ Len(net) <= NetCap
    /\ restarts \in 0 .. MaxRestarts
    /\ verdicts \in SUBSET (Relays \X {1, 2})
    /\ operatedA \in BOOLEAN
    /\ sincePick \in 0 .. ZONE2_MS

Init ==
    /\ GInit /\ AInit /\ BInit
    /\ net = <<>> /\ restarts = 0
    /\ verdicts = {} /\ operatedA = FALSE /\ sincePick = 0
-----------------------------------------------------------------------------
\* The zones of relay r that operate on window w.
Picked(r, w) ==
    (IF Operates(w.zone1) THEN {<<r, 1>>} ELSE {})
      \cup (IF Operates(w.zone2) THEN {<<r, 2>>} ELSE {})

\* IED A's main thread.
MainA ==
    /\ \/ (A_start \/ A_open) /\ UNCHANGED verdicts
       \/ \E w \in Windows : A_cycle(w) /\ verdicts' = verdicts \cup Picked("A", w)
       \/ A_zone2 /\ UNCHANGED verdicts
    /\ operatedA' = (operatedA \/ trip' = 1)
    /\ UNCHANGED <<bVars, wire, sincePick>>

\* IED A's GOOSE thread, up to the send.
PublisherA ==
    /\ goose_create(trip) \/ goose_setBoolean(trip)
    /\ UNCHANGED <<aVars, bVars, wire, history>>

\* A frame reaches B's socket, if B has one and its buffer has room.
Publish_delivered ==
    /\ goose_publish
    /\ rPc \in {"running", "deaf"} /\ Len(net) < NetCap
    /\ net' = Append(net, tripValue)
    /\ UNCHANGED <<aVars, bVars, restarts, history>>

\* A frame is lost: no socket, no room, a send error (Ethernet_sendPacket
\* reports none), a broken cable.  The publisher goes on as if it had gone.
Publish_lost ==
    /\ goose_publish
    /\ UNCHANGED <<aVars, bVars, wire, history>>

\* IED B's receiver thread takes the oldest frame and calls the listener.
ReceiverB ==
    /\ net # <<>>
    /\ gooseListener(Head(net))
    /\ net' = Tail(net)
    /\ UNCHANGED <<gVars, aVars, restarts, history>>

\* IED B's listener thread starts the receiver.
ListenB == goose_listen_loop /\ UNCHANGED <<gVars, aVars, wire, history>>

\* IED B's main thread.
MainB ==
    /\ \/ B_start /\ UNCHANGED verdicts
       \/ \E w \in Windows : B_cycle(w) /\ verdicts' = verdicts \cup Picked("B", w)
       \/ B_zone2 /\ UNCHANGED verdicts
    /\ UNCHANGED <<gVars, aVars, wire, operatedA, sincePick>>

\* Mutant: a sleep that does not end at zero.
Less_past(ms) == ms - 1

\* One millisecond passes.
Less(ms) == IF ms > 0 THEN ms - 1 ELSE 0

Tick ==
    /\ aSleep' = Less(aSleep) /\ gSleep' = Less(gSleep) /\ bSleep' = Less(bSleep)
    /\ sincePick' = IF verdicts # {} /\ sincePick < ZONE2_MS
                    THEN sincePick + 1 ELSE sincePick
    /\ UNCHANGED <<gPc, tripValue, aPc, trip, bPc, tripB, tripA, ptrSet, rPc,
                   announced, wire, verdicts, operatedA>>

\* The operator stops a process and runs it again: its memory is gone, and
\* with B's process its socket buffer.
RestartA ==
    /\ restarts < MaxRestarts
    /\ A_restart
    /\ restarts' = restarts + 1
    /\ UNCHANGED <<bVars, net, history>>

RestartB ==
    /\ restarts < MaxRestarts
    /\ B_restart
    /\ net' = <<>>
    /\ restarts' = restarts + 1
    /\ UNCHANGED <<gVars, aVars, history>>

Next ==
    \/ MainA \/ PublisherA \/ Publish_delivered \/ Publish_lost
    \/ ReceiverB \/ ListenB \/ MainB
    \/ Tick \/ RestartA \/ RestartB

Spec == Init /\ [][Next]_vars

(* Every thread is scheduled and time passes; a link that is not cut delivers *)
(* a frame now and then.  Restarts are never owed.                            *)
Fairness ==
    /\ WF_vars(MainA) /\ WF_vars(PublisherA) /\ WF_vars(ReceiverB)
    /\ WF_vars(ListenB) /\ WF_vars(MainB) /\ WF_vars(Tick)
    /\ WF_vars(Publish_delivered \/ Publish_lost) /\ SF_vars(Publish_delivered)

FairSpec == Spec /\ Fairness
-----------------------------------------------------------------------------
(* A's trip travels: *trip_ptr -> tripValue -> frame -> *tripA_ptr.  Nowhere  *)
(* on that way, whatever is lost or restarted, does a TRUE appear that A did  *)
(* not operate for.                                                           *)
NoInventedTransfer ==
    tripA = 1 \/ tripValue \/ (\E i \in DOMAIN net : net[i]) => operatedA

(* B operates only on a fault its own zones matched, or one A operated for.   *)
TripBHasCause ==
    tripB = 1 => operatedA \/ \E z \in {1, 2} : <<"B", z>> \in verdicts

(* Selectivity: while no zone 1 anywhere has matched, neither breaker - not   *)
(* even B's, through the transfer - opens before the 200 ms zone 2 wait       *)
(* measured from the first zone 2 match.                                      *)
ZoneTwoIsDelayed ==
    (trip = 1 \/ tripB = 1) /\ (\A r \in Relays : <<r, 1>> \notin verdicts)
        => sincePick >= ZONE2_MS

(* The strengthening that makes the properties above inductive: operatedA     *)
(* remembers every trip of A, and a relay in its zone 2 wait has a zone 2     *)
(* verdict and as much of the wait left as sincePick lacks.                   *)
FlowInv ==
    /\ trip = 1 => operatedA
    /\ tripA = 1 => operatedA
    /\ tripValue => operatedA
    /\ \A i \in DOMAIN net : net[i] => operatedA

NoZone1 == \A r \in Relays : <<r, 1>> \notin verdicts

WaitInv ==
    /\ aPc = "zone2" => <<"A", 2>> \in verdicts /\ sincePick + aSleep >= ZONE2_MS
    /\ bPc = "zone2" => <<"B", 2>> \in verdicts /\ sincePick + bSleep >= ZONE2_MS
    /\ operatedA /\ NoZone1 => sincePick >= ZONE2_MS
    /\ tripB = 1 /\ NoZone1 => sincePick >= ZONE2_MS

CauseInv ==
    /\ TripBHasCause
    /\ operatedA => \E z \in {1, 2} : <<"A", z>> \in verdicts

SafetyInv == FlowInv /\ WaitInv /\ CauseInv

(* Until A is restarted, the values waiting at B never go back from tripped   *)
(* to normal: a reader of the socket sees A's latch as A set it, and a 0 in   *)
(* the data set after a 1 means a restarted relay.                            *)
FramesFollowLatch ==
    restarts = 0 =>
        /\ \A i, j \in DOMAIN net : i < j /\ net[i] => net[j]
        /\ (\E i \in DOMAIN net : net[i]) => tripValue
        /\ tripValue => trip = 1

(* A breaker command is withdrawn by nothing but a restart of that relay: not *)
(* by a healthy window, not by a FALSE frame that arrives after a TRUE one.   *)
TripsLatch ==
    [][/\ (trip' < trip => RestartA)
       /\ (tripB' < tripB \/ tripA' < tripA => RestartB)]_vars

(* The link can carry a trip: A's publisher is up, B's receiver and relay too. *)
LinkUp ==
    /\ aPc \in {"loop", "zone2"} /\ gPc \in {"loop", "publish"}
    /\ bPc \in {"loop", "zone2"} /\ rPc = "running"

(* While the link is up, A's trip opens B's breaker, however many frames are  *)
(* lost on the way and whatever B was doing.                                  *)
TransferHappens == (trip = 1 /\ LinkUp) ~> (tripB = 1 \/ trip = 0 \/ ~LinkUp)

(* "Falta detectada pelo relé no barramento A - Zona 1!"                      *)
RemoteReportIsZone1 == announced => <<"A", 1>> \in verdicts

(* The abstract transfer trip this composition implements.                    *)
Transfer == INSTANCE TransferTrip WITH
    faultA <- \E z \in {1, 2} : <<"A", z>> \in verdicts,
    faultB <- \E z \in {1, 2} : <<"B", z>> \in verdicts,
    tripA <- trip,
    told <- tripA

ImplementsTransfer == Transfer!Spec
=============================================================================
