------------------------ MODULE Teleprotection_proofs ------------------------
(* Proofs about Teleprotection and TeleprotectionTimed, for every length of   *)
(* the waits and of the retransmission period, every capacity of the socket   *)
(* buffer, every number of restarts and every set of windows.                 *)
EXTENDS TeleprotectionTimed, SequenceTheorems, TLAPS

USE DEF vars, gVars, aVars, bVars, wire, history

-----------------------------------------------------------------------------
(* What the operators of the model return.                                    *)

LEMMA PassFacts ==
    ASSUME NEW w \in Windows
    PROVE  /\ PassPc(w) \in {"loop", "zone2"}
           /\ PassSleep(w) \in 0 .. (CYCLE_MS + ZONE2_MS)
           /\ PassPc(w) = "zone2" <=> Operates(w.zone2)
           /\ PassPc(w) = "zone2" => PassSleep(w) = ZONE2_MS
BY RelayAssumption DEF PassPc, PassSleep

LEMMA PickedFacts ==
    ASSUME NEW w \in Windows, NEW r \in Relays
    PROVE  /\ Picked(r, w) \subseteq Relays \X {1, 2}
           /\ <<r, 1>> \in Picked(r, w) <=> Operates(w.zone1)
           /\ <<r, 2>> \in Picked(r, w) <=> Operates(w.zone2)
           /\ \A v \in Picked(r, w) : v[1] = r
BY DEF Picked

LEMMA LessFacts ==
    ASSUME NEW n \in Nat, NEW m \in 0 .. n
    PROVE  Less(m) \in 0 .. n /\ Less(m) + 1 >= m /\ Less(m) <= m
BY DEF Less

LEMMA EmptySocket == <<>> \in Seq(BOOLEAN) /\ Len(<<>>) = 0 /\ DOMAIN <<>> = {}
BY EmptySeq, LenProperties

LEMMA FrameAdded ==
    ASSUME NEW s \in Seq(BOOLEAN), NEW b \in BOOLEAN
    PROVE  /\ Append(s, b) \in Seq(BOOLEAN)
           /\ Len(Append(s, b)) = Len(s) + 1
           /\ Len(s) \in Nat
           /\ DOMAIN s = 1 .. Len(s) /\ DOMAIN Append(s, b) = 1 .. (Len(s) + 1)
           /\ \A i \in 1 .. Len(s) : Append(s, b)[i] = s[i]
           /\ Append(s, b)[Len(s) + 1] = b
<1>1. Len(s) \in Nat
  BY LenProperties
<1> QED BY <1>1, AppendProperties, LenProperties

LEMMA FrameTaken ==
    ASSUME NEW s \in Seq(BOOLEAN), s # <<>>
    PROVE  /\ Tail(s) \in Seq(BOOLEAN)
           /\ Len(s) \in Nat \ {0}
           /\ Len(Tail(s)) = Len(s) - 1
           /\ DOMAIN s = 1 .. Len(s) /\ DOMAIN Tail(s) = 1 .. (Len(s) - 1)
           /\ \A i \in DOMAIN Tail(s) : i + 1 \in DOMAIN s /\ Tail(s)[i] = s[i + 1]
           /\ Head(s) = s[1] /\ 1 \in DOMAIN s
<1>1. Len(s) \in Nat \ {0}
  BY EmptySeq
<1>2. Tail(s) \in Seq(BOOLEAN) /\ Len(Tail(s)) = Len(s) - 1
  BY HeadTailProperties
<1>3. DOMAIN s = 1 .. Len(s) /\ DOMAIN Tail(s) = 1 .. (Len(s) - 1)
  BY <1>2, LenProperties
<1>4. \A i \in DOMAIN Tail(s) : i + 1 \in DOMAIN s /\ Tail(s)[i] = s[i + 1]
  BY <1>1, <1>2, <1>3, HeadTailProperties
<1>5. Head(s) = s[1] /\ 1 \in DOMAIN s
  BY <1>1, <1>3
<1> QED BY <1>1, <1>2, <1>3, <1>4, <1>5

(* Every variable keeps its type: no sleep runs below zero or above the       *)
(* longest wait, and B's socket buffer never holds more than its capacity.    *)
THEOREM TypeCorrect == Spec => []TypeOK
<1> USE DEF TypeOK, GTypeOK, ATypeOK, BTypeOK
<1>1. Init => TypeOK
  <2> SUFFICES ASSUME Init PROVE TypeOK
    OBVIOUS
  <2>1. net \in Seq(BOOLEAN) /\ Len(net) <= NetCap
    BY EmptySocket, NetAssumption DEF Init
  <2>2. tripValue \in BOOLEAN /\ ptrSet \in BOOLEAN /\ announced \in BOOLEAN
    BY Zenon DEF Init, GInit, BInit
  <2>3. GTypeOK
    <3>1. gPc = "off" /\ gSleep = 0
      BY DEF Init, GInit
    <3> QED BY <2>2, <3>1, PubAssumption
  <2>6. ATypeOK
    BY RelayAssumption DEF Init, AInit
  <2>7. BTypeOK
    <3>1. bPc = "start" /\ bSleep = 0 /\ tripB = 0 /\ tripA = 0 /\ rPc = "off"
      BY DEF Init, BInit
    <3> QED BY <2>2, <3>1, RelayAssumption
  <2>4. restarts \in 0 .. MaxRestarts /\ sincePick \in 0 .. ZONE2_MS
    BY NetAssumption, RelayAssumption DEF Init
  <2>5. operatedA \in BOOLEAN /\ verdicts \in SUBSET (Relays \X {1, 2})
    BY DEF Init
  <2> QED BY <2>1, <2>3, <2>4, <2>5, <2>6, <2>7
<1>2. TypeOK /\ [Next]_vars => TypeOK'
  <2> SUFFICES ASSUME TypeOK, [Next]_vars PROVE TypeOK'
    OBVIOUS
  <2>1. CASE MainA
    <3>1. CASE (A_start \/ A_open) /\ UNCHANGED verdicts
      BY <2>1, <3>1 DEF MainA, A_start, A_open
    <3>2. ASSUME NEW w \in Windows, A_cycle(w), verdicts' = verdicts \cup Picked("A", w)
          PROVE  TypeOK'
      BY <2>1, <3>2, PassFacts, PickedFacts DEF MainA, A_cycle, Relays
    <3>3. CASE A_zone2 /\ UNCHANGED verdicts
      BY <2>1, <3>3, RelayAssumption DEF MainA, A_zone2
    <3> QED BY <2>1, <3>1, <3>2, <3>3 DEF MainA
  <2>2. CASE PublisherA
    <3>1. tripValue' \in BOOLEAN
      BY <2>2 DEF PublisherA, goose_create, goose_setBoolean
    <3>2. gPc' \in {"off", "create", "loop", "publish", "done"}
      BY <2>2 DEF PublisherA, goose_create, goose_setBoolean
    <3>3. UNCHANGED <<gSleep, aVars, bVars, wire, history>>
      BY <2>2 DEF PublisherA, goose_create, goose_setBoolean
    <3> QED BY <3>1, <3>2, <3>3
  <2>3. CASE Publish_delivered
    <3>1. net' \in Seq(BOOLEAN) /\ Len(net') <= NetCap
      BY <2>3, NetAssumption, FrameAdded DEF Publish_delivered
    <3> QED BY <2>3, <3>1, PubAssumption DEF Publish_delivered, goose_publish
  <2>4. CASE Publish_lost
    BY <2>4, PubAssumption DEF Publish_lost, goose_publish
  <2>5. CASE ReceiverB
    <3>1. net' \in Seq(BOOLEAN) /\ Len(net') <= NetCap
      BY <2>5, NetAssumption, FrameTaken DEF ReceiverB
    <3>2. tripA' \in {0, 1}
      BY <2>5, Zenon DEF ReceiverB, gooseListener
    <3>3. UNCHANGED <<gVars, aVars, bPc, bSleep, tripB, ptrSet, rPc, announced,
                      restarts, history>>
      BY <2>5, Zenon DEF ReceiverB, gooseListener
    <3> QED BY <3>1, <3>2, <3>3
  <2>6. CASE ListenB
    BY <2>6 DEF ListenB, goose_listen_loop
  <2>7. CASE MainB
    <3>1. CASE B_start /\ UNCHANGED verdicts
      BY <2>7, <3>1 DEF MainB, B_start
    <3>2. ASSUME NEW w \in Windows, B_cycle(w), verdicts' = verdicts \cup Picked("B", w)
          PROVE  TypeOK'
      BY <2>7, <3>2, PassFacts, PickedFacts DEF MainB, B_cycle, Relays
    <3>3. CASE B_zone2 /\ UNCHANGED verdicts
      BY <2>7, <3>3, RelayAssumption DEF MainB, B_zone2
    <3> QED BY <2>7, <3>1, <3>2, <3>3 DEF MainB
  <2>8. CASE Tick
    <3>1. /\ aSleep' \in 0 .. (CYCLE_MS + ZONE2_MS)
          /\ bSleep' \in 0 .. (CYCLE_MS + ZONE2_MS)
          /\ gSleep' \in 0 .. PUB_MS
      BY <2>8, RelayAssumption, PubAssumption DEF Tick, Less
    <3>2. sincePick' \in 0 .. ZONE2_MS
      BY <2>8, RelayAssumption DEF Tick
    <3> QED BY <2>8, <3>1, <3>2 DEF Tick
  <2>9. CASE RestartA
    <3>1. restarts' \in 0 .. MaxRestarts
      BY <2>9, NetAssumption DEF RestartA
    <3>2. GTypeOK'
      <4>1. tripValue' \in BOOLEAN
        BY <2>9, Zenon DEF RestartA, A_restart
      <4>2. gPc' = "off" /\ gSleep' = 0
        BY <2>9 DEF RestartA, A_restart
      <4> QED BY <4>1, <4>2, PubAssumption
    <3>3. ATypeOK'
      BY <2>9, RelayAssumption DEF RestartA, A_restart
    <3>4. UNCHANGED <<bVars, net, history>>
      BY <2>9 DEF RestartA
    <3> QED BY <3>1, <3>2, <3>3, <3>4
  <2>10. CASE RestartB
    <3>1. restarts' \in 0 .. MaxRestarts
      BY <2>10, NetAssumption DEF RestartB
    <3>2. net' \in Seq(BOOLEAN) /\ Len(net') <= NetCap
      BY <2>10, EmptySocket, NetAssumption DEF RestartB
    <3>3. BTypeOK'
      <4>1. ptrSet' \in BOOLEAN /\ announced' \in BOOLEAN
        BY <2>10, Zenon DEF RestartB, B_restart
      <4>2. /\ bPc' = "start" /\ bSleep' = 0 /\ tripB' = 0 /\ tripA' = 0
            /\ rPc' = "off"
        BY <2>10 DEF RestartB, B_restart
      <4> QED BY <4>1, <4>2, RelayAssumption
    <3>4. UNCHANGED <<gVars, aVars, history>>
      BY <2>10 DEF RestartB
    <3> QED BY <3>1, <3>2, <3>3, <3>4
  <2>11. CASE UNCHANGED vars
    BY <2>11
  <2> QED
    BY <2>1, <2>2, <2>3, <2>4, <2>5, <2>6, <2>7, <2>8, <2>9, <2>10, <2>11 DEF Next
<1> QED BY <1>1, <1>2, PTL DEF Spec
-----------------------------------------------------------------------------
(* What is true, everywhere on its way, only after A has operated.            *)

LEMMA FlowStep == TypeOK /\ FlowInv /\ [Next]_vars => FlowInv'
<1> SUFFICES ASSUME TypeOK, FlowInv, [Next]_vars PROVE FlowInv'
  OBVIOUS
<1> USE DEF FlowInv
<1>0. net \in Seq(BOOLEAN) /\ tripValue \in BOOLEAN
  BY DEF TypeOK, GTypeOK
<1>1. CASE MainA
  <2>1. operatedA' = (operatedA \/ trip' = 1) /\ UNCHANGED <<tripA, net>>
    BY <1>1 DEF MainA
  <2>2. UNCHANGED tripValue
    BY <1>1 DEF MainA, A_start, A_open, A_cycle, A_zone2
  <2> QED BY <2>1, <2>2, Zenon
<1>2. CASE PublisherA
  <2>1. tripValue' = (trip = 1)
    BY <1>2, Zenon DEF PublisherA, goose_create, goose_setBoolean
  <2>2. UNCHANGED <<trip, tripA, net, operatedA>>
    BY <1>2 DEF PublisherA
  <2> QED BY <2>1, <2>2, Zenon
<1>3. CASE Publish_delivered
  <2>1. UNCHANGED <<trip, tripA, operatedA, tripValue>> /\ net' = Append(net, tripValue)
    BY <1>3, Zenon DEF Publish_delivered, goose_publish
  <2>2. ASSUME NEW i \in DOMAIN net', net'[i] PROVE operatedA
    <3>1. CASE i \in DOMAIN net
      <4>1. net'[i] = net[i]
        BY <1>0, <2>1, <3>1, FrameAdded
      <4> QED BY <2>2, <3>1, <4>1, Zenon
    <3>2. CASE i \notin DOMAIN net
      <4>1. i = Len(net) + 1
        BY <1>0, <2>1, <2>2, <3>2, FrameAdded
      <4>2. net'[i] = tripValue
        BY <1>0, <2>1, <4>1, FrameAdded
      <4> QED BY <2>2, <4>2, Zenon
    <3> QED BY <3>1, <3>2
  <2> QED BY <2>1, <2>2, Zenon
<1>4. CASE Publish_lost
  <2>1. UNCHANGED <<trip, tripA, operatedA, tripValue, net>>
    BY <1>4, Zenon DEF Publish_lost, goose_publish
  <2> QED BY <2>1, Zenon
<1>5. CASE ReceiverB
  <2>1. net # <<>> /\ net' = Tail(net) /\ UNCHANGED <<trip, operatedA, tripValue>>
    BY <1>5 DEF ReceiverB
  <2>2. tripA' = 1 => operatedA
    <3>1. tripA' = IF Head(net) /\ ptrSet THEN 1 ELSE tripA
      BY <1>5, Zenon DEF ReceiverB, gooseListener
    <3>2. Head(net) = net[1] /\ 1 \in DOMAIN net
      BY <1>0, <2>1, FrameTaken
    <3> QED BY <3>1, <3>2, Zenon
  <2>3. ASSUME NEW i \in DOMAIN net', net'[i] PROVE operatedA
    <3>1. i + 1 \in DOMAIN net /\ net'[i] = net[i + 1]
      BY <1>0, <2>1, FrameTaken
    <3> QED BY <2>3, <3>1, Zenon
  <2> QED BY <2>1, <2>2, <2>3, Zenon
<1>6. CASE ListenB
  <2>1. UNCHANGED <<trip, tripA, operatedA, tripValue, net>>
    BY <1>6 DEF ListenB, goose_listen_loop
  <2> QED BY <2>1, Zenon
<1>7. CASE MainB
  <2>1. UNCHANGED <<trip, tripA, operatedA, tripValue, net>>
    BY <1>7 DEF MainB, B_start, B_cycle, B_zone2
  <2> QED BY <2>1, Zenon
<1>8. CASE Tick
  <2>1. UNCHANGED <<trip, tripA, operatedA, tripValue, net>>
    BY <1>8 DEF Tick
  <2> QED BY <2>1, Zenon
<1>9. CASE RestartA
  <2>1. UNCHANGED <<tripA, operatedA, net>>
    BY <1>9 DEF RestartA
  <2>2. tripValue' = FALSE
    BY <1>9, Zenon DEF RestartA, A_restart
  <2>3. trip' # 1
    BY <1>9 DEF RestartA, A_restart
  <2> QED BY <2>1, <2>2, <2>3, Zenon
<1>10. CASE RestartB
  <2>1. UNCHANGED <<trip, operatedA, tripValue>> /\ DOMAIN net' = {} /\ tripA' # 1
    BY <1>10, EmptySocket DEF RestartB, B_restart
  <2> QED BY <2>1, Zenon
<1>11. CASE UNCHANGED vars
  <2>1. UNCHANGED <<trip, tripA, operatedA, tripValue, net>>
    BY <1>11
  <2> QED BY <2>1, Zenon
<1> QED
  BY <1>1, <1>2, <1>3, <1>4, <1>5, <1>6, <1>7, <1>8, <1>9, <1>10, <1>11 DEF Next
-----------------------------------------------------------------------------
(* What is true of the waits and of the reasons of the trips.  Of a step only *)
(* this matters: verdicts grow, and a relay trips on a verdict or a message.  *)

\* The steps that leave the relays' verdicts, trips and waits alone.
LEMMA QuietStep ==
    ASSUME WaitInv, CauseInv,
           UNCHANGED <<aPc, aSleep, bPc, bSleep, tripB, verdicts, operatedA, sincePick>>
    PROVE  WaitInv' /\ CauseInv'
BY Zenon DEF WaitInv, CauseInv, TripBHasCause, NoZone1

LEMMA WaitStepA ==
    ASSUME TypeOK, FlowInv, WaitInv, CauseInv, MainA
    PROVE  WaitInv' /\ CauseInv'
<1> USE DEF WaitInv, CauseInv, TripBHasCause, NoZone1, Relays
<1>0. /\ UNCHANGED <<bPc, bSleep, tripB, sincePick>>
      /\ sincePick \in Nat
  BY RelayAssumption DEF MainA, TypeOK
<1>1. operatedA' = (operatedA \/ trip' = 1) /\ (trip = 1 => operatedA)
  BY Zenon DEF MainA, FlowInv
<1>2. CASE (A_start \/ A_open) /\ UNCHANGED verdicts
  <2>1. aPc' # "zone2" /\ trip' = trip
    BY <1>2 DEF A_start, A_open
  <2>2. operatedA' = operatedA
    BY <1>1, <2>1, Zenon DEF TypeOK
  <2> QED BY <1>0, <1>2, <2>1, <2>2, Zenon
<1>3. ASSUME NEW w \in Windows, A_cycle(w), verdicts' = verdicts \cup Picked("A", w)
      PROVE  WaitInv' /\ CauseInv'
  <2>1. verdicts \subseteq verdicts'
    BY <1>3
  <2>2. ASSUME aPc' = "zone2"
        PROVE  <<"A", 2>> \in verdicts' /\ sincePick' + aSleep' >= ZONE2_MS
    <3>1. PassPc(w) = "zone2" /\ aSleep' = PassSleep(w)
      BY <1>3, <2>2 DEF A_cycle
    <3>2. Operates(w.zone2) /\ aSleep' = ZONE2_MS
      BY <3>1, PassFacts
    <3>3. <<"A", 2>> \in Picked("A", w)
      BY <3>2, PickedFacts
    <3>4. sincePick' + aSleep' >= ZONE2_MS
      BY <1>0, <3>2, RelayAssumption
    <3> QED BY <1>3, <3>3, <3>4
  <2>3. operatedA' => operatedA \/ <<"A", 1>> \in verdicts'
    <3>1. trip' = trip \/ <<"A", 1>> \in verdicts'
      BY <1>3, PickedFacts DEF A_cycle
    <3> QED BY <1>1, <3>1, Zenon
  <2>4. operatedA => operatedA'
    BY <1>1, Zenon
  <2> QED BY <1>0, <2>1, <2>2, <2>3, <2>4, Zenon
<1>4. CASE A_zone2 /\ UNCHANGED verdicts
  <2>1. aPc' # "zone2" /\ <<"A", 2>> \in verdicts' /\ sincePick' >= ZONE2_MS
    BY <1>0, <1>4, RelayAssumption DEF A_zone2
  <2>2. operatedA'
    BY <1>1, <1>4, Zenon DEF A_zone2
  <2> QED BY <1>0, <1>4, <2>1, <2>2, Zenon
<1> QED BY <1>2, <1>3, <1>4 DEF MainA

LEMMA WaitStepB ==
    ASSUME TypeOK, FlowInv, WaitInv, CauseInv, MainB
    PROVE  WaitInv' /\ CauseInv'
<1> USE DEF WaitInv, CauseInv, TripBHasCause, NoZone1, Relays
<1>0. UNCHANGED <<aPc, aSleep, operatedA, sincePick>> /\ sincePick \in Nat
  BY RelayAssumption DEF MainB, TypeOK
<1>1. tripA = 1 => operatedA
  BY Zenon DEF FlowInv
<1>2. CASE B_start /\ UNCHANGED verdicts
  <2>1. bPc' # "zone2" /\ UNCHANGED <<tripB, verdicts>>
    BY <1>2 DEF B_start
  <2> QED BY <1>0, <2>1, Zenon
<1>3. ASSUME NEW w \in Windows, B_cycle(w), verdicts' = verdicts \cup Picked("B", w)
      PROVE  WaitInv' /\ CauseInv'
  <2>1. verdicts \subseteq verdicts'
    BY <1>3
  <2>2. ASSUME bPc' = "zone2"
        PROVE  <<"B", 2>> \in verdicts' /\ sincePick' + bSleep' >= ZONE2_MS
    <3>1. PassPc(w) = "zone2" /\ bSleep' = PassSleep(w)
      BY <1>3, <2>2 DEF B_cycle
    <3>2. Operates(w.zone2) /\ bSleep' = ZONE2_MS
      BY <3>1, PassFacts
    <3>3. <<"B", 2>> \in Picked("B", w)
      BY <3>2, PickedFacts
    <3>4. sincePick' + bSleep' >= ZONE2_MS
      BY <1>0, <3>2, RelayAssumption
    <3> QED BY <1>3, <3>3, <3>4
  <2>3. tripB' = tripB \/ tripA = 1 \/ <<"B", 1>> \in verdicts'
    BY <1>3, PickedFacts DEF B_cycle
  <2> QED BY <1>0, <1>1, <2>1, <2>2, <2>3, Zenon
<1>4. CASE B_zone2 /\ UNCHANGED verdicts
  <2>1. /\ bPc' # "zone2" /\ <<"B", 2>> \in verdicts' /\ sincePick' >= ZONE2_MS
        /\ UNCHANGED verdicts
    BY <1>0, <1>4, RelayAssumption DEF B_zone2
  <2> QED BY <1>0, <2>1, Zenon
<1> QED BY <1>2, <1>3, <1>4 DEF MainB

LEMMA WaitStepTick ==
    ASSUME TypeOK, WaitInv, CauseInv, Tick
    PROVE  WaitInv' /\ CauseInv'
<1>1. UNCHANGED <<aPc, bPc, tripB, verdicts, operatedA>>
  BY DEF Tick
<1>2. sincePick' >= sincePick /\ sincePick \in Nat /\ sincePick <= ZONE2_MS
  BY RelayAssumption DEF Tick, TypeOK
<1>3. sincePick >= ZONE2_MS => sincePick' >= ZONE2_MS
  BY <1>2, RelayAssumption
<1>4. ASSUME aPc = "zone2"
      PROVE  <<"A", 2>> \in verdicts /\ sincePick' + aSleep' >= ZONE2_MS
  <2>1. <<"A", 2>> \in verdicts /\ sincePick + aSleep >= ZONE2_MS /\ aSleep \in Nat
    BY <1>4, RelayAssumption DEF WaitInv, TypeOK, ATypeOK
  <2> QED BY <1>2, <2>1, RelayAssumption DEF Tick, Less
<1>5. ASSUME bPc = "zone2"
      PROVE  <<"B", 2>> \in verdicts /\ sincePick' + bSleep' >= ZONE2_MS
  <2>1. <<"B", 2>> \in verdicts /\ sincePick + bSleep >= ZONE2_MS /\ bSleep \in Nat
    BY <1>5, RelayAssumption DEF WaitInv, TypeOK, BTypeOK
  <2> QED BY <1>2, <2>1, RelayAssumption DEF Tick, Less
<1> QED
  BY <1>1, <1>3, <1>4, <1>5, Zenon DEF WaitInv, CauseInv, TripBHasCause, NoZone1
LEMMA WaitStep ==
    TypeOK /\ FlowInv /\ WaitInv /\ CauseInv /\ [Next]_vars => WaitInv' /\ CauseInv'
<1> SUFFICES ASSUME TypeOK, FlowInv, WaitInv, CauseInv, [Next]_vars
             PROVE  WaitInv' /\ CauseInv'
  OBVIOUS
<1> DEFINE Quiet ==
      UNCHANGED <<aPc, aSleep, bPc, bSleep, tripB, verdicts, operatedA, sincePick>>
<1>1. CASE Quiet
  BY <1>1, QuietStep
<1>2. CASE PublisherA \/ Publish_delivered \/ Publish_lost \/ UNCHANGED vars
  <2>1. Quiet
    BY <1>2 DEF PublisherA, Publish_delivered, Publish_lost
  <2> QED BY <1>1, <2>1
<1>3. CASE ReceiverB \/ ListenB
  <2>1. Quiet
    <3>1. CASE ReceiverB
      BY <3>1, Zenon DEF ReceiverB, gooseListener
    <3>2. CASE ListenB
      BY <3>2 DEF ListenB, goose_listen_loop
    <3> QED BY <1>3, <3>1, <3>2
  <2> QED BY <1>1, <2>1
<1>4. CASE RestartA
  <2>1. aPc' # "zone2" /\ UNCHANGED <<bPc, bSleep, tripB, verdicts, operatedA, sincePick>>
    BY <1>4 DEF RestartA, A_restart
  <2> QED BY <2>1, Zenon DEF WaitInv, CauseInv, TripBHasCause, NoZone1
<1>5. CASE RestartB
  <2>1. /\ bPc' # "zone2" /\ tripB' # 1
        /\ UNCHANGED <<aPc, aSleep, verdicts, operatedA, sincePick>>
    BY <1>5 DEF RestartB, B_restart
  <2> QED BY <2>1, Zenon DEF WaitInv, CauseInv, TripBHasCause, NoZone1
<1> QED
  BY <1>2, <1>3, <1>4, <1>5, WaitStepA, WaitStepB, WaitStepTick DEF Next

(* The strengthening holds in every reachable state, for all constants: every *)
(* trip, message and frame has its cause, and each zone 2 wait in progress    *)
(* has as much left as the time since the first pickup lacks.                 *)
THEOREM SafetyInvariant == Spec => []SafetyInv
<1>1. Init => SafetyInv
  <2> SUFFICES ASSUME Init PROVE SafetyInv
    OBVIOUS
  <2>1. /\ trip # 1 /\ tripA # 1 /\ tripB # 1 /\ DOMAIN net = {}
        /\ aPc # "zone2" /\ bPc # "zone2"
    BY EmptySocket DEF Init, AInit, BInit
  <2>2. ~tripValue /\ ~operatedA
    BY Zenon DEF Init, GInit
  <2> QED
    BY <2>1, <2>2, Zenon DEF SafetyInv, FlowInv, WaitInv, CauseInv, TripBHasCause
<1>2. TypeOK /\ SafetyInv /\ [Next]_vars => SafetyInv'
  BY FlowStep, WaitStep DEF SafetyInv
<1> QED BY <1>1, <1>2, TypeCorrect, PTL DEF Spec

(* No TRUE on A's way to B - latch, data set, wire - that A did not operate   *)
(* for, whatever is lost and whoever is restarted.                            *)
THEOREM NoInvention == Spec => []NoInventedTransfer
<1>1. SafetyInv => NoInventedTransfer
  BY Zenon DEF SafetyInv, FlowInv, NoInventedTransfer
<1> QED BY <1>1, SafetyInvariant, PTL

(* B's breaker opens only for a fault B measured or a trip of A's.            *)
THEOREM BTripHasCause == Spec => []TripBHasCause
<1>1. SafetyInv => TripBHasCause
  BY DEF SafetyInv, CauseInv
<1> QED BY <1>1, SafetyInvariant, PTL

(* Selectivity: no breaker opens on zone 2 verdicts alone before ZONE2_MS     *)
(* have passed since the first of them, at either end of the line.            *)
THEOREM Selectivity == Spec => []ZoneTwoIsDelayed
<1>1. SafetyInv => ZoneTwoIsDelayed
  BY Zenon DEF SafetyInv, FlowInv, WaitInv, NoZone1, ZoneTwoIsDelayed
<1> QED BY <1>1, SafetyInvariant, PTL
-----------------------------------------------------------------------------
(* A breaker command once given is withdrawn only by a restart of its relay.  *)
THEOREM LatchesHold == Spec => TripsLatch
<1> DEFINE Latched == /\ trip' < trip => RestartA
                      /\ tripB' < tripB \/ tripA' < tripA => RestartB
<1>1. TypeOK /\ [Next]_vars => [Latched]_vars
  <2> SUFFICES ASSUME TypeOK, [Next]_vars PROVE Latched
    OBVIOUS
  <2>1. trip \in {0, 1} /\ tripB \in {0, 1} /\ tripA \in {0, 1}
    BY DEF TypeOK, ATypeOK, BTypeOK
  <2>2. RestartA \/ trip' \in {trip, 1}
    BY DEF Next, MainA, A_start, A_open, A_cycle, A_zone2, PublisherA,
           Publish_delivered, Publish_lost, ReceiverB, ListenB, MainB, Tick, RestartB
  <2>3. RestartB \/ (tripB' \in {tripB, 1} /\ tripA' \in {tripA, 1})
    <3>1. CASE ReceiverB
      BY <3>1, Zenon DEF ReceiverB, gooseListener
    <3>2. CASE MainB
      BY <3>2 DEF MainB, B_start, B_cycle, B_zone2
    <3>3. CASE ListenB
      BY <3>3 DEF ListenB, goose_listen_loop
    <3>4. CASE MainA \/ PublisherA \/ Publish_delivered \/ Publish_lost \/ Tick
                 \/ RestartA \/ UNCHANGED vars
      BY <3>4 DEF MainA, PublisherA, Publish_delivered, Publish_lost, Tick, RestartA
    <3> QED BY <3>1, <3>2, <3>3, <3>4 DEF Next
  <2>4. trip' < trip => RestartA
    BY <2>1, <2>2
  <2>5. tripB' < tripB \/ tripA' < tripA => RestartB
    BY <2>1, <2>3
  <2> QED BY <2>4, <2>5
<1> QED BY <1>1, TypeCorrect, PTL DEF Spec, TripsLatch

(* Until a restart, B's socket holds A's latch in the order A set it: a TRUE  *)
(* is never followed by a FALSE, and no FALSE is published after it.          *)
THEOREM FramesOrdered == Spec => []FramesFollowLatch
<1> USE DEF FramesFollowLatch
<1>1. Init => FramesFollowLatch
  <2> SUFFICES ASSUME Init PROVE FramesFollowLatch
    OBVIOUS
  <2>1. DOMAIN net = {}
    BY EmptySocket DEF Init
  <2>2. ~tripValue
    BY Zenon DEF Init, GInit
  <2> QED BY <2>1, <2>2, Zenon
<1>2. TypeOK /\ FramesFollowLatch /\ [Next]_vars => FramesFollowLatch'
  <2> SUFFICES ASSUME TypeOK, FramesFollowLatch, [Next]_vars, restarts' = 0
               PROVE  /\ \A i, j \in DOMAIN net' : i < j /\ net'[i] => net'[j]
                      /\ (\E i \in DOMAIN net' : net'[i]) => tripValue'
                      /\ tripValue' => trip' = 1
    BY Zenon
  <2>0. /\ net \in Seq(BOOLEAN) /\ tripValue \in BOOLEAN
        /\ restarts \in Nat
    BY NetAssumption DEF TypeOK, GTypeOK
  <2>1. ~RestartA /\ ~RestartB /\ restarts = 0
    <3>1. ~RestartA /\ ~RestartB
      BY <2>0 DEF RestartA, RestartB
    <3>2. UNCHANGED restarts
      BY <3>1 DEF Next, MainA, PublisherA, Publish_delivered, Publish_lost, ReceiverB,
                  ListenB, MainB, Tick
    <3> QED BY <3>1, <3>2
  <2>2. /\ \A i, j \in DOMAIN net : i < j /\ net[i] => net[j]
        /\ (\E i \in DOMAIN net : net[i]) => tripValue
        /\ tripValue => trip = 1
    BY <2>1, Zenon
  <2>3. CASE MainA
    <3>1. UNCHANGED <<net, tripValue>> /\ trip' \in {trip, 1}
      BY <2>3 DEF MainA, A_start, A_open, A_cycle, A_zone2
    <3>2. trip = 1 => trip' = 1
      BY <3>1
    <3> QED BY <2>2, <3>1, <3>2, Zenon
  <2>4. CASE PublisherA
    <3>1. tripValue' = (trip = 1)
      BY <2>4, Zenon DEF PublisherA, goose_create, goose_setBoolean
    <3>2. UNCHANGED <<trip, net>>
      BY <2>4 DEF PublisherA
    <3> QED BY <2>2, <3>1, <3>2, Zenon
  <2>5. CASE Publish_delivered
    <3>1. UNCHANGED <<trip, tripValue>> /\ net' = Append(net, tripValue)
      BY <2>5, Zenon DEF Publish_delivered, goose_publish
    <3>0. /\ DOMAIN net = 1 .. Len(net) /\ DOMAIN net' = 1 .. (Len(net) + 1)
          /\ Len(net) \in Nat
          /\ \A i \in DOMAIN net : net'[i] = net[i]
          /\ net'[Len(net) + 1] = tripValue
      BY <2>0, <3>1, FrameAdded
    <3>2. \A i \in DOMAIN net' : net'[i] => tripValue
      <4> SUFFICES ASSUME NEW i \in DOMAIN net', net'[i] PROVE tripValue
        OBVIOUS
      <4>1. i \in DOMAIN net \/ i = Len(net) + 1
        BY <3>0
      <4> QED BY <2>2, <3>0, <4>1, Zenon
    <3>3. ASSUME NEW i \in DOMAIN net', NEW j \in DOMAIN net', i < j, net'[i]
          PROVE  net'[j]
      <4>1. i \in DOMAIN net /\ (j \in DOMAIN net \/ j = Len(net) + 1)
        BY <3>0, <3>3
      <4> QED BY <2>2, <3>0, <3>2, <3>3, <4>1, Zenon
    <3> QED BY <2>2, <3>1, <3>2, <3>3, Zenon
  <2>6. CASE ReceiverB
    <3>1. UNCHANGED <<trip, tripValue>> /\ net # <<>> /\ net' = Tail(net)
      BY <2>6 DEF ReceiverB
    <3>2. \A i \in DOMAIN net' : i + 1 \in DOMAIN net /\ net'[i] = net[i + 1]
      BY <2>0, <3>1, FrameTaken
    <3>3. ASSUME NEW i \in DOMAIN net', NEW j \in DOMAIN net', i < j, net'[i]
          PROVE  net'[j]
      <4>1. i + 1 < j + 1
        BY <2>0, <3>1, <3>3, FrameTaken
      <4> QED BY <2>2, <3>2, <3>3, <4>1, Zenon
    <3> QED BY <2>2, <3>1, <3>2, <3>3, Zenon
  <2>7. CASE ListenB \/ MainB \/ Tick \/ UNCHANGED vars
    <3>1. UNCHANGED <<trip, tripValue, net>>
      BY <2>7 DEF ListenB, goose_listen_loop, MainB, B_start, B_cycle, B_zone2, Tick
    <3> QED BY <2>2, <3>1, Zenon
  <2>8. CASE Publish_lost
    <3>1. UNCHANGED <<trip, tripValue, net>>
      BY <2>8, Zenon DEF Publish_lost, goose_publish
    <3> QED BY <2>2, <3>1, Zenon
  <2> QED BY <2>1, <2>3, <2>4, <2>5, <2>6, <2>7, <2>8 DEF Next
<1> QED BY <1>1, <1>2, TypeCorrect, PTL DEF Spec
-----------------------------------------------------------------------------
(* Threads, frames, losses and clock together are no more than a transfer     *)
(* trip: A's main loop is MeasureA, a listener call that sets tripA is Tell,  *)
(* B's main loop is MeasureB, and every other step is invisible.              *)
THEOREM TransferTripImplemented == Spec => ImplementsTransfer
<1> USE DEF Relays
<1> DEFINE faultA == \E z \in {1, 2} : <<"A", z>> \in verdicts
           faultB == \E z \in {1, 2} : <<"B", z>> \in verdicts
           Still == UNCHANGED <<verdicts, operatedA, trip, tripA, tripB>>
<1>1. Init => Transfer!Init
  <2> SUFFICES ASSUME Init PROVE Transfer!Init
    OBVIOUS
  <2>1. verdicts = {} /\ operatedA = FALSE /\ trip = 0 /\ tripA = 0 /\ tripB = 0
    BY Zenon DEF Init, AInit, BInit
  <2>2. faultA = FALSE /\ faultB = FALSE
    BY <2>1
  <2> QED BY <2>1, <2>2, Zenon DEF Transfer!Init
<1>2. TypeOK /\ SafetyInv /\ [Next]_vars => [Transfer!Next]_(Transfer!vars)
  <2> SUFFICES ASSUME TypeOK, SafetyInv, [Next]_vars
               PROVE  Transfer!Next \/ UNCHANGED Transfer!vars
    OBVIOUS
  <2>0. faultA \in BOOLEAN /\ faultB \in BOOLEAN
    OBVIOUS
  <2>1. CASE Still
    BY <2>1, Zenon DEF Transfer!vars
  <2>2. CASE MainA
    <3>1. operatedA' = (operatedA \/ trip' = 1) /\ UNCHANGED <<tripA, tripB>>
      BY <2>2 DEF MainA
    <3>2. \A z \in {1, 2} : <<"B", z>> \in verdicts' <=> <<"B", z>> \in verdicts
      BY <2>2, PickedFacts DEF MainA
    <3>3. verdicts \subseteq verdicts'
      BY <2>2 DEF MainA
    <3>4. trip' = trip \/ (trip' = 1 /\ faultA')
      <4>1. CASE A_start \/ A_open
        BY <4>1 DEF A_start, A_open
      <4>2. ASSUME NEW w \in Windows, A_cycle(w), verdicts' = verdicts \cup Picked("A", w)
            PROVE  trip' = trip \/ (trip' = 1 /\ faultA')
        BY <4>2, PickedFacts DEF A_cycle
      <4>3. CASE A_zone2 /\ UNCHANGED verdicts
        BY <4>3 DEF A_zone2, SafetyInv, WaitInv
      <4> QED BY <2>2, <4>1, <4>2, <4>3 DEF MainA
    <3>5. (faultB' <=> faultB) /\ (faultA => faultA')
      BY <3>2, <3>3, Zenon
    <3>6. Transfer!MeasureA
      <4>1. faultA' = faultA \/ faultA' = TRUE
        BY <3>5, Zenon
      <4>2. faultB' = faultB
        BY <3>5, Zenon
      <4>3. trip' \in {trip, 1} /\ (trip' # trip => faultA')
        BY <3>4
      <4> QED BY <3>1, <4>1, <4>2, <4>3, Zenon DEF Transfer!MeasureA
    <3> QED BY <3>6 DEF Transfer!Next
  <2>3. CASE PublisherA \/ Publish_delivered \/ Publish_lost
    <3>1. Still
      BY <2>3 DEF PublisherA, Publish_delivered, Publish_lost
    <3> QED BY <2>1, <3>1
  <2>4. CASE ReceiverB
    <3>1. net \in Seq(BOOLEAN) /\ net # <<>>
      BY <2>4 DEF ReceiverB, TypeOK
    <3>2. Head(net) = net[1] /\ 1 \in DOMAIN net
      BY <3>1, FrameTaken
    <3>3. UNCHANGED <<verdicts, operatedA, trip, tripB>>
      BY <2>4, Zenon DEF ReceiverB, gooseListener
    <3>4. tripA' = tripA \/ (tripA' = 1 /\ Head(net))
      BY <2>4, Zenon DEF ReceiverB, gooseListener
    <3>5. tripA' = tripA \/ (tripA' = 1 /\ operatedA)
      BY <3>2, <3>4, Zenon DEF SafetyInv, FlowInv
    <3>6. CASE tripA' = tripA
      <4>1. Still
        BY <3>3, <3>6
      <4> QED BY <2>1, <4>1
    <3>7. CASE tripA' = 1 /\ operatedA
      <4>1. Transfer!Tell
        BY <3>3, <3>7, Zenon DEF Transfer!Tell
      <4> QED BY <4>1 DEF Transfer!Next
    <3> QED BY <3>5, <3>6, <3>7
  <2>5. CASE ListenB \/ Tick \/ UNCHANGED vars
    <3>1. Still
      BY <2>5 DEF ListenB, goose_listen_loop, Tick
    <3> QED BY <2>1, <3>1
  <2>6. CASE MainB
    <3>1. UNCHANGED <<trip, tripA, operatedA>>
      BY <2>6 DEF MainB, B_start, B_cycle, B_zone2
    <3>2. \A z \in {1, 2} : <<"A", z>> \in verdicts' <=> <<"A", z>> \in verdicts
      BY <2>6, PickedFacts DEF MainB
    <3>3. verdicts \subseteq verdicts'
      BY <2>6 DEF MainB
    <3>4. tripB' = tripB \/ (tripB' = 1 /\ (faultB' \/ tripA = 1))
      <4>1. CASE B_start
        BY <4>1 DEF B_start
      <4>2. ASSUME NEW w \in Windows, B_cycle(w), verdicts' = verdicts \cup Picked("B", w)
            PROVE  tripB' = tripB \/ (tripB' = 1 /\ (faultB' \/ tripA = 1))
        BY <4>2, PickedFacts DEF B_cycle
      <4>3. CASE B_zone2 /\ UNCHANGED verdicts
        BY <4>3 DEF B_zone2, SafetyInv, WaitInv
      <4> QED BY <2>6, <4>1, <4>2, <4>3 DEF MainB
    <3>5. (faultA' <=> faultA) /\ (faultB => faultB')
      BY <3>2, <3>3, Zenon
    <3>6. Transfer!MeasureB
      <4>1. faultB' = faultB \/ faultB' = TRUE
        BY <3>5, Zenon
      <4>2. faultA' = faultA
        BY <3>5, Zenon
      <4>3. tripB' \in {tripB, 1} /\ (tripB' # tripB => faultB' \/ tripA = 1)
        BY <3>4
      <4> QED BY <3>1, <4>1, <4>2, <4>3, Zenon DEF Transfer!MeasureB
    <3> QED BY <3>6 DEF Transfer!Next
  <2>7. CASE RestartA
    <3>1. trip' = 0 /\ UNCHANGED <<verdicts, operatedA, tripA, tripB>>
      BY <2>7 DEF RestartA, A_restart
    <3>2. Transfer!RestartA
      BY <3>1, Zenon DEF Transfer!RestartA
    <3> QED BY <3>2 DEF Transfer!Next
  <2>8. CASE RestartB
    <3>1. tripA' = 0 /\ tripB' = 0 /\ UNCHANGED <<verdicts, operatedA, trip>>
      BY <2>8 DEF RestartB, B_restart
    <3>2. Transfer!RestartB
      BY <3>1, Zenon DEF Transfer!RestartB
    <3> QED BY <3>2 DEF Transfer!Next
  <2> QED BY <2>2, <2>3, <2>4, <2>5, <2>6, <2>7, <2>8 DEF Next
<1> QED
  BY <1>1, <1>2, TypeCorrect, SafetyInvariant, PTL
     DEF Spec, ImplementsTransfer, Transfer!Spec
-----------------------------------------------------------------------------
(* The bound on the transfer of a trip, on prompt machines.                   *)

USE DEF timedVars

\* On prompt machines nothing happens that could not happen on others.
LEMMA TimedStep == [TimedNext]_timedVars => [Next]_vars
BY DEF TimedNext, Prompt, TimedTick, Next, timedVars

LEMMA TimedTypes == TimedSpec => []TypeOK
<1>1. TimedInit => Init
  BY DEF TimedInit
<1> QED BY <1>1, TimedStep, TypeCorrect, PTL DEF TimedSpec, Spec

LEMMA Waits ==
    /\ CYCLE_MS \in Nat \ {0} /\ ZONE2_MS \in Nat \ {0} /\ PUB_MS \in Nat \ {0}
    /\ NetCap \in Nat \ {0} /\ CYCLE_MS <= ZONE2_MS /\ OwnWait \in {CYCLE_MS, ZONE2_MS}
BY RelayAssumption, PubAssumption, NetAssumption, WaitsAssumption DEF OwnWait

LEMMA Less1 == ASSUME NEW m \in Nat PROVE /\ Less(m) \in Nat /\ Less(m) <= m
                                          /\ m > 0 => Less(m) = m - 1
BY DEF Less

\* B's window of a pass says where the pass ends and how long it sleeps.
LEMMA PassWaits ==
    ASSUME NEW w \in Windows
    PROVE  \/ PassPc(w) = "loop" /\ PassSleep(w) = CYCLE_MS /\ <<"B", 2>> \notin Picked("B", w)
           \/ PassPc(w) = "zone2" /\ PassSleep(w) = ZONE2_MS /\ <<"B", 2>> \in Picked("B", w)
BY DEF PassPc, PassSleep, Picked

LEMMA LoopStep == TypeOK /\ LoopInv /\ [TimedNext]_timedVars => LoopInv'
<1> SUFFICES ASSUME TypeOK, LoopInv, [TimedNext]_timedVars PROVE LoopInv'
  OBVIOUS
<1> USE DEF LoopInv
<1>0. bSleep \in Nat /\ tripB \in {0, 1}
  BY RelayAssumption DEF TypeOK, BTypeOK
<1>1. CASE MainA
  <2>1. <<"B", 2>> \in verdicts' <=> <<"B", 2>> \in verdicts
    BY <1>1, PickedFacts DEF MainA, Relays
  <2>2. UNCHANGED <<bPc, bSleep, tripB, ptrSet, rPc>>
    BY <1>1 DEF MainA
  <2> QED BY <2>1, <2>2
<1>2. CASE ReceiverB \/ ListenB
  <2>1. UNCHANGED <<bPc, bSleep, tripB, ptrSet, verdicts>> /\ (rPc' # "off" => rPc # "off")
    BY <1>2 DEF ReceiverB, gooseListener, ListenB, goose_listen_loop
  <2> QED BY <2>1
<1>3. CASE MainB
  <2>1. CASE B_start /\ UNCHANGED verdicts
    BY <1>0, <1>3, <2>1, Waits DEF MainB, B_start
  <2>2. ASSUME NEW w \in Windows, B_cycle(w), verdicts' = verdicts \cup Picked("B", w)
        PROVE  LoopInv'
    <3>1. /\ bPc = "loop" /\ bPc' = PassPc(w) /\ bSleep' = PassSleep(w)
          /\ UNCHANGED <<ptrSet, rPc>> /\ tripB' \in {tripB, 1}
      BY <2>2 DEF B_cycle
    <3> QED BY <1>0, <2>2, <3>1, PassWaits, Waits
  <2>3. CASE B_zone2 /\ UNCHANGED verdicts
    BY <1>0, <2>3, Waits DEF B_zone2
  <2> QED BY <1>3, <2>1, <2>2, <2>3 DEF MainB
<1>4. CASE TimedTick
  <2>1. bSleep' = Less(bSleep) /\ UNCHANGED <<bPc, tripB, ptrSet, rPc, verdicts>>
    BY <1>4 DEF TimedTick, Tick
  <2>2. bSleep' \in Nat /\ bSleep' <= bSleep
    BY <1>0, <2>1, Less1
  <2> QED BY <1>0, <2>1, <2>2, Waits
<1>5. CASE UNCHANGED <<bPc, bSleep, tripB, ptrSet, rPc, verdicts>>
  BY <1>5
<1> QED BY <1>1, <1>2, <1>3, <1>4, <1>5
        DEF TimedNext, Prompt, timedVars, PublisherA, Publish_delivered, Publish_lost

LEMMA SocketStep == TypeOK /\ LoopInv /\ SocketInv /\ [TimedNext]_timedVars => SocketInv'
<1> SUFFICES ASSUME TypeOK, LoopInv, SocketInv, [TimedNext]_timedVars PROVE SocketInv'
  OBVIOUS
<1> USE DEF SocketInv
<1>0. /\ net \in Seq(BOOLEAN) /\ tripValue \in BOOLEAN /\ gSleep \in Nat
      /\ Len(net) \in Nat /\ PUB_MS \in Nat \ {0} /\ NetCap \in Nat \ {0}
  BY PubAssumption, NetAssumption, LenProperties DEF TypeOK, GTypeOK
<1>1. CASE MainA
  <2>1. UNCHANGED <<net, tripA, rPc>>
    BY <1>1 DEF MainA
  <2>2. CASE A_start
    BY <2>1, <2>2 DEF A_start
  <2>3. CASE A_open
    BY <2>1, <2>3 DEF A_open
  <2>4. CASE A_zone2 \/ \E w \in Windows : A_cycle(w)
    <3>1. aPc # "start" /\ aPc' # "start" /\ UNCHANGED <<gPc, gSleep>>
      BY <2>4, PassFacts DEF A_zone2, A_cycle
    <3> QED BY <2>1, <3>1
  <2> QED BY <1>1, <2>2, <2>3, <2>4 DEF MainA
<1>2. CASE PublisherA
  <2>1. UNCHANGED <<net, tripA, rPc, aPc, gSleep>> /\ gPc \in {"create", "loop"}
        /\ gPc' \in {"loop", "done", "publish"} /\ (gPc = "loop" => gSleep = 0)
    BY <1>2 DEF PublisherA, goose_create, goose_setBoolean
  <2> QED BY <2>1
<1>3. CASE Publish_delivered
  <2>1. /\ gPc = "publish" /\ gPc' = "loop" /\ gSleep' = PUB_MS /\ net' = Append(net, tripValue)
        /\ UNCHANGED <<tripA, rPc, aPc>> /\ rPc \in {"running", "deaf"}
    BY <1>3 DEF Publish_delivered, goose_publish
  <2>2. rPc = "running" => net = <<>>
    BY <2>1
  <2>3. Len(net') = Len(net) + 1
    BY <1>0, <2>1, FrameAdded
  <2>4. Len(<<>>) = 0
    OBVIOUS
  <2> QED BY <1>0, <2>1, <2>2, <2>3, <2>4
<1>4. CASE Publish_lost
  <2>1. /\ gPc = "publish" /\ gPc' = "loop" /\ gSleep' = PUB_MS
        /\ UNCHANGED <<net, tripA, rPc, aPc>>
    BY <1>4 DEF Publish_lost, goose_publish
  <2> QED BY <1>0, <2>1
<1>5. CASE ReceiverB
  <2>1. /\ net # <<>> /\ net' = Tail(net) /\ rPc = "running"
        /\ UNCHANGED <<gPc, gSleep, aPc, rPc>>
    BY <1>5 DEF ReceiverB, gooseListener
  <2>2. net' \in Seq(BOOLEAN) /\ Len(net') = 0
    BY <1>0, <2>1, FrameTaken
  <2>3. net' = <<>>
    BY <2>2, EmptySeq
  <2> QED BY <2>1, <2>3
<1>6. CASE ListenB
  <2>1. UNCHANGED <<net, tripA, gPc, gSleep, aPc>> /\ rPc = "create"
    BY <1>6 DEF ListenB, goose_listen_loop
  <2> QED BY <2>1
<1>7. CASE MainB
  <2>1. UNCHANGED <<net, tripA, gPc, gSleep, aPc>>
    BY <1>7 DEF MainB, B_start, B_cycle, B_zone2
  <2>2. CASE B_start
    BY <2>1, <2>2 DEF B_start, LoopInv
  <2>3. CASE rPc' = rPc
    BY <2>1, <2>3
  <2> QED BY <1>7, <2>2, <2>3 DEF MainB, B_cycle, B_zone2
<1>8. CASE TimedTick
  <2>1. UNCHANGED <<net, tripA, rPc, gPc, aPc>>
    BY <1>8 DEF TimedTick, Tick
  <2>2. ~(rPc = "running" /\ net # <<>>)
    BY <1>8 DEF TimedTick, Runnable
  <2> QED BY <2>1, <2>2
<1>9. CASE UNCHANGED timedVars
  BY <1>9 DEF timedVars
<1> QED BY <1>1, <1>2, <1>3, <1>4, <1>5, <1>6, <1>7, <1>8, <1>9 DEF TimedNext, Prompt

\* A pass of B's relay loop that finds tripA set trips, whatever its window.
LEMMA PassTrips ==
    TypeOK /\ MainB => /\ tripB' \in {tripB, 1} /\ UNCHANGED <<tripA, net, gVars, aVars>>
                       /\ bPc # "start" /\ tripA = 1 => tripB' = 1
                       /\ bPc # "start" => bPc' \in {"loop", "zone2"} /\ rPc' = rPc
                                           /\ bPc \in {"loop", "zone2"}
                       /\ bPc = "start" => rPc' # "running" /\ UNCHANGED <<bSleep, tripB>>
<1> SUFFICES ASSUME TypeOK, MainB
             PROVE  /\ tripB' \in {tripB, 1} /\ UNCHANGED <<tripA, net, gVars, aVars>>
                    /\ bPc # "start" /\ tripA = 1 => tripB' = 1
                    /\ bPc # "start" => bPc' \in {"loop", "zone2"} /\ rPc' = rPc
                                        /\ bPc \in {"loop", "zone2"}
                    /\ bPc = "start" => rPc' # "running" /\ UNCHANGED <<bSleep, tripB>>
  OBVIOUS
<1>1. UNCHANGED <<tripA, net, gVars, aVars>>
  BY DEF MainB, B_start, B_cycle, B_zone2
<1>2. CASE B_start
  BY <1>1, <1>2 DEF B_start
<1>3. ASSUME NEW w \in Windows, B_cycle(w)
      PROVE  /\ bPc = "loop" /\ bPc' \in {"loop", "zone2"} /\ rPc' = rPc
             /\ tripB' \in {tripB, 1} /\ (tripA = 1 => tripB' = 1)
  BY <1>3, PassFacts DEF B_cycle
<1>4. CASE B_zone2
  BY <1>1, <1>4 DEF B_zone2
<1> QED BY <1>1, <1>2, <1>3, <1>4 DEF MainB

\* The parts of WaitingInv, the data set's Boolean under a name of its own.
Holds == tripValue

Waits3 ==
    LinkUp /\ tripA = 0 =>
        /\ age <= PUB_MS
        /\ gPc = "publish" /\ age > 0 => Holds
        /\ gPc = "loop" /\ ~TripInSocket => age + gSleep <= PUB_MS

Waits4 == tripA = 1 /\ tripB = 0 => age + bSleep <= PUB_MS + OwnWait

LEMMA WaitingParts ==
    WaitingInv <=> age \in Nat /\ (age > 0 => trip = 1 /\ LinkUp) /\ Waits3 /\ Waits4
BY Zenon DEF WaitingInv, Waits3, Waits4, Holds

\* The sleeps B may be in, and the age of a trip that does not wait.
LEMMA NotWaiting ==
    TypeOK /\ LoopInv /\ WaitingInv =>
        /\ bPc \in {"loop", "zone2"} => bSleep <= OwnWait
        /\ ~LinkUp \/ trip = 0 => age = 0
        /\ age \in Nat /\ gSleep \in Nat /\ bSleep \in Nat /\ gSleep <= PUB_MS
<1> SUFFICES ASSUME TypeOK, LoopInv, WaitingInv
             PROVE  /\ bPc \in {"loop", "zone2"} => bSleep <= OwnWait
                    /\ ~LinkUp \/ trip = 0 => age = 0
                    /\ age \in Nat /\ gSleep \in Nat /\ bSleep \in Nat /\ gSleep <= PUB_MS
  OBVIOUS
<1>1. gSleep \in Nat /\ gSleep <= PUB_MS
  BY Waits DEF TypeOK, GTypeOK
<1>2. bSleep \in Nat
  BY Waits DEF TypeOK, BTypeOK
<1>3. bPc \in {"loop", "zone2"} => bSleep <= OwnWait
  BY <1>2, Waits DEF LoopInv, OwnWait
<1>4. age \in Nat /\ (~LinkUp \/ trip = 0 => age = 0)
  BY WaitingParts
<1> QED BY <1>1, <1>2, <1>3, <1>4

LEMMA WaitingStep ==
    TypeOK /\ LoopInv /\ SocketInv /\ WaitingInv /\ [TimedNext]_timedVars => WaitingInv'
<1> SUFFICES ASSUME TypeOK, LoopInv, SocketInv, WaitingInv, [TimedNext]_timedVars
             PROVE  age' \in Nat /\ (age' > 0 => trip' = 1 /\ LinkUp') /\ Waits3' /\ Waits4'
  BY Zenon DEF WaitingInv, Waits3, Waits4, Holds
<1>a. /\ age \in Nat /\ gSleep \in Nat /\ bSleep \in Nat /\ gSleep <= PUB_MS
      /\ PUB_MS \in Nat /\ OwnWait \in Nat
  BY NotWaiting, Waits
<1>b. trip \in {0, 1} /\ tripA \in {0, 1} /\ tripB \in {0, 1}
  BY DEF TypeOK, ATypeOK, BTypeOK
<1>c. (~LinkUp \/ trip = 0 => age = 0) /\ (bPc \in {"loop", "zone2"} => bSleep <= OwnWait)
  BY NotWaiting
<1>d. Waits3 /\ Waits4
  BY WaitingParts
<1>e. LinkUp <=> /\ aPc \in {"loop", "zone2"} /\ gPc \in {"loop", "publish"}
                 /\ bPc \in {"loop", "zone2"} /\ rPc = "running"
  BY DEF LinkUp
<1>f. LinkUp' <=> /\ aPc' \in {"loop", "zone2"} /\ gPc' \in {"loop", "publish"}
                  /\ bPc' \in {"loop", "zone2"} /\ rPc' = "running"
  BY DEF LinkUp
<1>g. /\ UNCHANGED verdicts => OwnWait' = OwnWait
      /\ UNCHANGED net => (TripInSocket' <=> TripInSocket)
      /\ UNCHANGED tripValue => (Holds' <=> Holds)
  <2>1. UNCHANGED verdicts => OwnWait' = OwnWait
    BY DEF OwnWait
  <2>2. UNCHANGED net => (TripInSocket' <=> TripInSocket)
    BY Zenon DEF TripInSocket
  <2>3. UNCHANGED tripValue => (Holds' <=> Holds)
    BY DEF Holds
  <2> QED BY <2>1, <2>2, <2>3
<1> USE DEF Waits3, Waits4
<1>1. CASE MainA /\ UNCHANGED age
  <2>1. /\ UNCHANGED <<bPc, bSleep, tripB, tripA, rPc, net, gSleep, tripValue>>
        /\ trip' \in {trip, 1}
    BY <1>1 DEF MainA, A_start, A_open, A_cycle, A_zone2
  <2>2. <<"B", 2>> \in verdicts' <=> <<"B", 2>> \in verdicts
    BY <1>1, PickedFacts DEF MainA, Relays
  <2>3. OwnWait' = OwnWait
    BY <2>2 DEF OwnWait
  <2>4. LinkUp => LinkUp' /\ gPc' = gPc
    BY <1>1, <2>1, <1>e, <1>f, PassFacts DEF MainA, A_start, A_open, A_cycle, A_zone2
  <2>5. ~LinkUp => age = 0
    BY <1>c
  <2> QED BY <1>1, <2>1, <2>3, <2>4, <2>5, <1>a, <1>b, <1>c, <1>d, <1>g
<1>2. CASE PublisherA /\ UNCHANGED age
  <2>1. /\ UNCHANGED <<bPc, bSleep, tripB, tripA, rPc, net, gSleep, aPc, trip, verdicts>>
        /\ gPc \in {"create", "loop"}
        /\ (gPc = "loop" => gPc' = "publish") /\ (gPc = "create" => gPc' \in {"loop", "done"})
    BY <1>2 DEF PublisherA, goose_create, goose_setBoolean
  <2>2. Holds' <=> trip = 1
    BY <1>2, Zenon DEF PublisherA, goose_create, goose_setBoolean, Holds
  <2>3. CASE gPc = "loop"
    BY <1>2, <2>1, <2>2, <2>3, <1>a, <1>b, <1>c, <1>d, <1>e, <1>f, <1>g
  <2>4. CASE gPc = "create"
    BY <1>2, <2>1, <2>2, <2>4, <1>a, <1>b, <1>c, <1>d, <1>e, <1>f, <1>g
  <2> QED BY <2>1, <2>3, <2>4
<1>3. CASE Publish_delivered /\ UNCHANGED age
  <2>1. /\ UNCHANGED <<bPc, bSleep, tripB, tripA, rPc, aPc, trip, verdicts, tripValue>>
        /\ gPc = "publish" /\ gPc' = "loop" /\ gSleep' = PUB_MS /\ net' = Append(net, tripValue)
    BY <1>3 DEF Publish_delivered, goose_publish
  <2>2. LinkUp => net = <<>>
    BY <2>1, <1>e DEF SocketInv
  <2>3. LinkUp /\ Holds => TripInSocket'
    <3>1. SUFFICES ASSUME LinkUp, Holds PROVE TripInSocket'
      OBVIOUS
    <3>2. net' = <<tripValue>>
      BY <2>1, <2>2, <3>1
    <3>3. net' # <<>> /\ Head(net') = tripValue
      BY <3>2
    <3> QED BY <3>1, <3>3, Zenon DEF TripInSocket, Holds
  <2>4. LinkUp' <=> LinkUp
    BY <2>1, <1>e, <1>f
  <2> QED BY <1>3, <2>1, <2>3, <2>4, <1>a, <1>b, <1>c, <1>d, <1>g
<1>4. CASE ((rPc \notin {"running", "deaf"} \/ Len(net) = NetCap) /\ Publish_lost)
           /\ UNCHANGED age
  <2>1. /\ UNCHANGED <<bPc, bSleep, tripB, tripA, rPc, aPc, trip, net, verdicts, tripValue>>
        /\ gPc = "publish" /\ gPc' = "loop" /\ gSleep' = PUB_MS
    BY <1>4 DEF Publish_lost, goose_publish
  <2>2. rPc # "running"
    BY <1>4, <2>1, Waits, EmptySocket DEF SocketInv
  <2> QED BY <1>4, <2>1, <2>2, <1>a, <1>b, <1>c, <1>d, <1>e, <1>f, <1>g
<1>5. CASE ReceiverB /\ UNCHANGED age
  <2>1. /\ UNCHANGED <<bPc, bSleep, tripB, rPc, gPc, gSleep, tripValue, aPc, trip, verdicts>>
        /\ net # <<>> /\ net' = Tail(net) /\ rPc = "running"
    BY <1>5 DEF ReceiverB, gooseListener
  <2>2. bPc \in {"loop", "zone2"} /\ ptrSet
    BY <2>1 DEF LoopInv
  <2>3. tripA' = IF TripInSocket THEN 1 ELSE tripA
    BY <1>5, <2>1, <2>2, Zenon DEF ReceiverB, gooseListener, TripInSocket
  <2>4. LinkUp => gPc = "loop"
    BY <2>1, <1>e DEF SocketInv
  <2>5. LinkUp' <=> LinkUp
    BY <2>1, <1>e, <1>f
  <2>6. CASE TripInSocket
    <3>1. tripA' = 1
      BY <2>3, <2>6
    <3>2. tripA = 0 => age <= PUB_MS
      BY <1>a, <1>c, <1>d
    <3> QED BY <1>5, <2>1, <2>2, <2>5, <3>1, <3>2, <1>a, <1>b, <1>c, <1>d, <1>g
  <2>7. CASE ~TripInSocket
    <3>1. tripA' = tripA
      BY <2>3, <2>7
    <3> QED BY <1>5, <2>1, <2>4, <2>5, <2>7, <3>1, <1>a, <1>b, <1>c, <1>d, <1>g
  <2> QED BY <2>6, <2>7
<1>6. CASE ListenB /\ UNCHANGED age
  <2>1. /\ UNCHANGED <<bPc, bSleep, tripB, tripA, gPc, gSleep, tripValue, aPc, trip, net, verdicts>>
        /\ rPc = "create"
    BY <1>6 DEF ListenB, goose_listen_loop
  <2>2. tripA = 0
    BY <1>b, <2>1 DEF SocketInv
  <2> QED BY <1>6, <2>1, <2>2, <1>a, <1>b, <1>c, <1>d, <1>e, <1>f, <1>g
<1>7. CASE MainB /\ UNCHANGED age
  <2>1. /\ tripB' \in {tripB, 1} /\ UNCHANGED <<tripA, net, gVars, aVars>>
        /\ bPc # "start" /\ tripA = 1 => tripB' = 1
        /\ bPc # "start" => bPc' \in {"loop", "zone2"} /\ rPc' = rPc
                            /\ bPc \in {"loop", "zone2"}
        /\ bPc = "start" => rPc' # "running" /\ UNCHANGED <<bSleep, tripB>>
    BY <1>7, PassTrips
  <2>2. CASE bPc = "start"
    <3>1. tripA = 0
      BY <1>b, <2>2 DEF SocketInv, LoopInv
    <3> QED BY <1>7, <2>1, <2>2, <3>1, <1>a, <1>b, <1>c, <1>d, <1>e, <1>f, <1>g
  <2>3. CASE bPc # "start"
    <3>1. LinkUp' <=> LinkUp
      BY <2>1, <2>3, <1>e, <1>f
    <3> QED BY <1>7, <2>1, <2>3, <3>1, <1>a, <1>b, <1>c, <1>d, <1>g
  <2> QED BY <2>2, <2>3
<1>8. CASE TimedTick
  <2>1. /\ UNCHANGED <<bPc, tripB, tripA, rPc, gPc, tripValue, aPc, trip, net, verdicts>>
        /\ gSleep' = Less(gSleep) /\ bSleep' = Less(bSleep)
        /\ age' = IF Waiting THEN age + 1 ELSE age
    BY <1>8 DEF TimedTick, Tick
  <2>2. LinkUp' <=> LinkUp
    BY <2>1, <1>e, <1>f
  <2>3. /\ gSleep' \in Nat /\ gSleep' <= gSleep /\ (gSleep > 0 => gSleep' = gSleep - 1)
        /\ bSleep' \in Nat /\ bSleep' <= bSleep /\ (bSleep > 0 => bSleep' = bSleep - 1)
    BY <1>a, <2>1, Less1
  <2>4. LinkUp => gPc = "loop" /\ gSleep > 0 /\ bSleep > 0 /\ net = <<>>
    BY <1>a, <1>e, <1>8 DEF TimedTick, Runnable
  <2>5. LinkUp => ~TripInSocket
    BY <2>4 DEF TripInSocket
  <2>6. CASE Waiting
    <3>1. age' = age + 1 /\ LinkUp /\ trip = 1 /\ tripB = 0
      BY <2>1, <2>6 DEF Waiting
    <3>2. tripA = 0 => age' + gSleep' <= PUB_MS
      BY <1>a, <1>d, <2>3, <2>4, <2>5, <3>1
    <3>3. tripA = 1 => age' + bSleep' <= PUB_MS + OwnWait
      BY <1>a, <1>d, <2>3, <2>4, <3>1
    <3> QED BY <2>1, <2>2, <2>3, <2>4, <3>1, <3>2, <3>3, <1>a, <1>b, <1>g
  <2>7. CASE ~Waiting
    <3>1. age' = age
      BY <2>1, <2>7
    <3> QED BY <2>1, <2>2, <2>3, <2>4, <2>5, <3>1, <1>a, <1>b, <1>c, <1>d, <1>g
  <2> QED BY <2>6, <2>7
<1>9. CASE UNCHANGED timedVars
  <2>1. /\ UNCHANGED <<age, trip, tripA, tripB, gPc, gSleep, aPc, bPc, rPc, bSleep,
                       verdicts, net, tripValue>>
    BY <1>9
  <2>2. (LinkUp' <=> LinkUp) /\ OwnWait' = OwnWait /\ (TripInSocket' <=> TripInSocket)
        /\ (Holds' <=> Holds)
    BY <2>1, <1>e, <1>f, <1>g
  <2>3. age' \in Nat /\ (age' > 0 => trip' = 1 /\ LinkUp')
    BY <2>1, <2>2, <1>a, <1>c, <1>b
  <2>4. Waits3'
    BY Zenon, <2>1, <2>2, <1>d
  <2>5. Waits4'
    BY Zenon, <2>1, <2>2, <1>d
  <2> QED BY Zenon, <2>3, <2>4, <2>5
<1> QED BY <1>1, <1>2, <1>3, <1>4, <1>5, <1>6, <1>7, <1>8, <1>9 DEF TimedNext, Prompt

LEMMA Later ==
    ASSUME NEW a \in Nat, NEW p \in Nat, NEW m \in Nat, NEW n \in Nat, a <= p + m, m <= n
    PROVE  a <= p + n
OBVIOUS

\* The bound follows from where the trip is; a wait B has begun only grows it.
LEMMA BoundStep ==
    TypeOK /\ LoopInv /\ SocketInv /\ WaitingInv /\ TransferBound /\ [TimedNext]_timedVars
        => TransferBound'
<1> SUFFICES ASSUME TypeOK, LoopInv, SocketInv, WaitingInv, TransferBound,
                    [TimedNext]_timedVars
             PROVE  TransferBound'
  OBVIOUS
<1> USE DEF TransferBound
<1>0. /\ age \in Nat /\ bSleep \in Nat /\ gSleep \in Nat /\ PUB_MS \in Nat /\ OwnWait \in Nat
      /\ tripA \in {0, 1} /\ OwnWait > 0
  BY NotWaiting, Waits DEF TypeOK, BTypeOK
<1>1. CASE TimedTick
  <2>1. OwnWait' = OwnWait /\ age' = IF Waiting THEN age + 1 ELSE age
    BY <1>1 DEF TimedTick, Tick, OwnWait
  <2>2. CASE Waiting
    <3>1. bSleep > 0 /\ gPc = "loop" /\ gSleep > 0 /\ net = <<>>
      BY <1>0, <1>1, <2>2 DEF Waiting, LinkUp, TimedTick, Runnable
    <3>2. tripA = 0 => age + gSleep <= PUB_MS
      BY <2>2, <3>1, WaitingParts DEF Waiting, Waits3, TripInSocket
    <3>3. tripA = 1 => age + bSleep <= PUB_MS + OwnWait
      BY <2>2, WaitingParts DEF Waiting, Waits4
    <3>4. age + 1 <= PUB_MS + OwnWait
      BY <1>0, <3>1, <3>2, <3>3
    <3> QED BY <2>1, <2>2, <3>4
  <2> QED BY <2>1, <2>2
<1>2. CASE Prompt \/ UNCHANGED timedVars
  <2>1. age' = age
    BY <1>2 DEF Prompt
  <2>2. verdicts \subseteq verdicts'
    BY <1>2 DEF Prompt, MainA, PublisherA, ReceiverB, ListenB, MainB,
                Publish_delivered, Publish_lost
  <2>3. OwnWait <= OwnWait' /\ OwnWait' \in Nat
    BY <2>2, Waits DEF OwnWait
  <2> QED BY <1>0, <2>1, <2>3, Zenon, Later
<1> QED BY <1>1, <1>2 DEF TimedNext

-----------------------------------------------------------------------------
(* Where the trip is says how long it can have been waiting: in A for what is *)
(* left of a retransmission period, in the frame that was just sent not at    *)
(* all, in tripA for what is left of the wait B's relay loop is in.           *)
THEOREM TimedInvariant == TimedSpec => [](TypeOK /\ TimedInv)
<1>1. TimedInit => TimedInv
  <2> SUFFICES ASSUME TimedInit PROVE TimedInv
    OBVIOUS
  <2>1. /\ bPc = "start" /\ bSleep = 0 /\ rPc = "off" /\ gPc = "off" /\ aPc = "start"
        /\ tripA = 0 /\ tripB = 0 /\ net = <<>> /\ age = 0 /\ verdicts = {}
    BY DEF TimedInit, Init, AInit, BInit, GInit
  <2> QED BY <2>1, Waits DEF TimedInv, LoopInv, SocketInv, WaitingInv, TransferBound, LinkUp
<1>2. TypeOK /\ TimedInv /\ [TimedNext]_timedVars => TimedInv'
  BY LoopStep, SocketStep, WaitingStep, BoundStep DEF TimedInv
<1> QED BY <1>1, <1>2, TimedTypes, PTL DEF TimedSpec

(* From A's trip to B's own, link up and machines prompt: at most one period  *)
(* of A's publisher and the wait B's relay loop may be in.                    *)
THEOREM TransferBounded == TimedSpec => []TransferBound
<1>1. TimedInv => TransferBound
  BY DEF TimedInv
<1> QED BY <1>1, TimedInvariant, PTL
=============================================================================
