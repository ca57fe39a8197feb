------------------------- MODULE TeleprotectionTimed -------------------------
(* Teleprotection on machines and a wire that are never late: a thread that   *)
(* can run does so within the millisecond, a sleep lasts exactly what it asks *)
(* for, no frame is lost once B has a socket, and nobody restarts anything.   *)
(* This is the best case: what it costs is what the two programs' own sleeps  *)
(* and polling cost.                                                          *)
EXTENDS Teleprotection

\* 1000/60 ms and 200 ms.
ASSUME WaitsAssumption == CYCLE_MS <= ZONE2_MS

VARIABLE age   \* ms A's trip has been waiting, link up, for B's breaker

timedVars == <<vars, age>>

\* Some thread of a process that was started has a step that no sleep holds
\* back.  When each of the two processes is started is anybody's choice.
Runnable ==
    \/ aPc = "open" \/ (aPc \in {"loop", "zone2"} /\ aSleep = 0)
    \/ gPc \in {"create", "publish"} \/ (gPc = "loop" /\ gSleep = 0)
    \/ (bPc \in {"loop", "zone2"} /\ bSleep = 0)
    \/ rPc = "create" \/ (rPc = "running" /\ net # <<>>)

Waiting == trip = 1 /\ LinkUp /\ tripB = 0

TimedInit == Init /\ age = 0

Prompt ==
    /\ MainA \/ PublisherA \/ ReceiverB \/ ListenB \/ MainB
       \/ Publish_delivered
       \/ ((rPc \notin {"running", "deaf"} \/ Len(net) = NetCap) /\ Publish_lost)
    /\ UNCHANGED age

TimedTick ==
    /\ ~Runnable
    /\ Tick
    /\ age' = IF Waiting THEN age + 1 ELSE age

TimedNext == Prompt \/ TimedTick

TimedSpec == TimedInit /\ [][TimedNext]_timedVars

\* The wait B's relay loop may be in before it looks at tripA.
OwnWait == IF <<"B", 2>> \in verdicts THEN ZONE2_MS ELSE CYCLE_MS

(* B's breaker opens at the latest one retransmission and one of B's sleeps   *)
(* after A's trip: a power cycle, or, when B's own zone 2 put its relay loop  *)
(* to sleep for 200 ms, the whole of that wait - a transferred trip is not    *)
(* looked at before it ends.                                                  *)
TransferBound == age <= PUB_MS + OwnWait

(* The strengthening that makes the bound inductive: how long the trip may    *)
(* have been waiting, by where it is.  B's relay loop is in the wait that its *)
(* verdicts say; B's socket never holds more than the frame that was just     *)
(* sent, so none is lost for want of room; the trip waits in A for the rest   *)
(* of a retransmission period at most, and in B for the rest of OwnWait.      *)
LoopInv ==
    /\ bPc \in {"start", "exit"} => bSleep = 0
    /\ bPc = "loop" => bSleep <= CYCLE_MS
    /\ bPc = "zone2" => bSleep <= ZONE2_MS /\ <<"B", 2>> \in verdicts
    /\ <<"B", 2>> \in verdicts /\ tripB = 0 => bPc = "zone2"
    /\ rPc # "off" => bPc \in {"loop", "zone2"} /\ ptrSet

SocketInv ==
    /\ aPc = "start" => gPc = "off"
    /\ rPc \notin {"running", "deaf"} \/ aPc = "start" \/ gPc = "create" => net = <<>>
    /\ rPc = "running" /\ net # <<>> =>
          Len(net) = 1 /\ (gPc \in {"off", "done"} \/ (gPc = "loop" /\ gSleep > 0))
    /\ tripA = 1 => rPc = "running"

TripInSocket == net # <<>> /\ Head(net)

WaitingInv ==
    /\ age \in Nat
    /\ age > 0 => trip = 1 /\ LinkUp
    /\ LinkUp /\ tripA = 0 =>
          /\ age <= PUB_MS
          /\ gPc = "publish" /\ age > 0 => tripValue
          /\ gPc = "loop" /\ ~TripInSocket => age + gSleep <= PUB_MS
    /\ tripA = 1 /\ tripB = 0 => age + bSleep <= PUB_MS + OwnWait

TimedInv == LoopInv /\ SocketInv /\ WaitingInv /\ TransferBound
=============================================================================
