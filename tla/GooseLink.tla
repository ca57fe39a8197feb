------------------------------ MODULE GooseLink ------------------------------
(* One publisher, one subscriber and a network between them that loses and    *)
(* repeats messages and delays them by at most MaxDelay: what the numbering   *)
(* and the time allowed to live tell the subscriber.                          *)
EXTENDS GoosePublisher, GooseSubscriber, Sequences

CONSTANTS
    RaisesStNum,   \* TRUE: the application calls increaseStNum on a change;
                   \* goose_pub.c never does
    MaxDelay,      \* ms a message may spend on the network
    ChanCap,       \* messages on the network at once
    MaxTime,       \* bound on the clock
    MaxFaults      \* bound on repeated messages and publisher restarts

ASSUME LinkAssumption ==
    /\ RaisesStNum \in BOOLEAN
    /\ {MaxDelay, MaxTime, MaxFaults} \subseteq Nat
    /\ ChanCap \in Nat \ {0}

VARIABLES
    value,     \* the data set's Boolean at the publisher
    chan,      \* messages on their way, oldest first
    now,       \* ms
    faults,    \* repeated messages and restarts so far
    \* History, read by the properties only:
    lastSent,   \* when the last message accepted was sent; -1 before the first
    headSeen,   \* the oldest message on its way has been accepted already
    lastSeen,   \* so had the last message accepted: it was a repetition
    follows,    \* the last message accepted is numbered as the one right after
                \* the message accepted before it
    renumbered  \* a counter of the publisher has wrapped or was reset

linkHistory == <<lastSent, headSeen, lastSeen, follows>>
linkVars == <<pubVars, subVars, value, chan, now, faults, linkHistory, renumbered>>

Message ==
    [header : [stNum : 1 .. (UINT32 - 1), sqNum : 0 .. (UINT32 - 1),
               timeAllowedToLive : {TTL}],
     value : BOOLEAN, sentAt : 0 .. MaxTime]

LinkTypeOK ==
    /\ PubTypeOK
    /\ {subStNum, subSqNum} \subseteq 0 .. (UINT32 - 1)
    /\ stateValid \in BOOLEAN /\ invalidityTime \in 0 .. (MaxTime + TTL)
    /\ value \in BOOLEAN
    /\ chan \in Seq(Message) /\ Len(chan) <= ChanCap
    /\ now \in 0 .. MaxTime /\ faults \in 0 .. MaxFaults
    /\ lastSent \in -1 .. MaxTime
    /\ {headSeen, lastSeen, follows, renumbered} \subseteq BOOLEAN

LinkInit ==
    /\ PubInit /\ SubInit
    /\ value = FALSE /\ chan = <<>> /\ now = 0 /\ faults = 0
    /\ lastSent = -1 /\ headSeen = FALSE /\ lastSeen = FALSE
    /\ follows = FALSE /\ renumbered = FALSE

\* The publisher sends; the network takes the message or loses it.
Publish ==
    /\ GoosePublisher_publish
    /\ renumbered' = (renumbered \/ sqNum' < sqNum)
    /\ \/ /\ Len(chan) < ChanCap
          /\ chan' = Append(chan, [header |-> PublishedHeader, value |-> value,
                                   sentAt |-> now])
       \/ UNCHANGED chan
    /\ UNCHANGED <<subVars, value, now, faults, linkHistory>>

\* The application writes another value into the data set.
ChangeValue ==
    /\ value' = ~value
    /\ IF RaisesStNum THEN GoosePublisher_increaseStNum ELSE UNCHANGED pubVars
    /\ renumbered' = (renumbered \/ stNum' < stNum)
    /\ UNCHANGED <<subVars, chan, now, faults, linkHistory>>

\* h is numbered right after g: the next message of the same state, or the
\* first one of the next state.
InSequence(g, h) ==
    \/ h.stNum = g.stNum /\ h.sqNum = Successor(g.sqNum)
    \/ h.stNum = Successor(g.stNum) /\ h.sqNum = 0

LastAccepted == [stNum |-> subStNum, sqNum |-> subSqNum]

\* The subscriber takes the oldest message; the network may repeat it.
Accept(m) ==
    /\ parseGoosePayload(m.header, now)
    /\ lastSent' = m.sentAt /\ lastSeen' = headSeen
    /\ follows' = (lastSent >= 0 /\ InSequence(LastAccepted, m.header))
    /\ UNCHANGED <<pubVars, value, now, renumbered>>

Receive ==
    /\ chan # <<>>
    /\ Accept(Head(chan))
    /\ chan' = Tail(chan) /\ headSeen' = FALSE
    /\ UNCHANGED faults

ReceiveAndRepeat ==
    /\ chan # <<>> /\ faults < MaxFaults
    /\ Accept(Head(chan))
    /\ faults' = faults + 1 /\ headSeen' = TRUE
    /\ UNCHANGED chan

\* IED A is stopped and run again: a new publisher with the same addresses.
RestartPublisher ==
    /\ faults < MaxFaults
    /\ GoosePublisher_reset
    /\ value' = FALSE
    /\ faults' = faults + 1 /\ renumbered' = TRUE
    /\ UNCHANGED <<subVars, chan, now, linkHistory>>

LinkTick ==
    /\ now < MaxTime
    /\ \A i \in DOMAIN chan : now - chan[i].sentAt < MaxDelay
    /\ now' = now + 1
    /\ UNCHANGED <<pubVars, subVars, value, chan, faults, linkHistory,
                   renumbered>>

LinkNext ==
    \/ Publish \/ ChangeValue \/ Receive \/ ReceiveAndRepeat
    \/ RestartPublisher \/ LinkTick

LinkSpec == LinkInit /\ [][LinkNext]_linkVars
-----------------------------------------------------------------------------
(* A subscriber that calls itself valid heard from its publisher lately: the  *)
(* last message it accepted was sent at most TTL plus the network's delay     *)
(* ago.  A cut cable cannot look valid for longer.                            *)
FreshWhenValid ==
    GooseSubscriber_isValid(now) => lastSent >= 0 /\ now - lastSent <= TTL + MaxDelay

(* A message the network delivers twice in a row is told from a new one, at   *)
(* every value of the counters and across restarts of the publisher.          *)
RepetitionFlagged == stateValid => ~lastSeen

(* Loss and delay never make the state invalid: as long as the publisher's    *)
(* counters have neither wrapped nor been reset, a message that was not seen  *)
(* before leaves stateValid true, however many before it were lost.           *)
NewMessageValid == lastSent >= 0 /\ ~renumbered /\ ~lastSeen => stateValid

(* The strengthening that makes the three properties above inductive.  No     *)
(* message on its way is older than the network's delay; a message marked as  *)
(* seen is the last one accepted; and until the publisher renumbers, what was *)
(* accepted, what is on its way and what will be sent are in the order of     *)
(* their numbers.                                                             *)
Earlier(g, h) == g.stNum < h.stNum \/ (g.stNum = h.stNum /\ g.sqNum < h.sqNum)

DelayInv ==
    /\ \A i \in DOMAIN chan : chan[i].sentAt <= now /\ now - chan[i].sentAt <= MaxDelay
    /\ stateValid => lastSent >= 0
    /\ lastSent >= 0 => invalidityTime - lastSent <= TTL + MaxDelay

SeenInv ==
    headSeen => /\ chan # <<>>
                /\ subStNum = Head(chan).header.stNum
                /\ subSqNum = Head(chan).header.sqNum

OrderInv ==
    ~renumbered =>
        /\ Earlier(LastAccepted, PublishedHeader)
        /\ \A i \in DOMAIN chan :
              /\ Earlier(chan[i].header, PublishedHeader)
              /\ (i = 1 /\ headSeen) \/ Earlier(LastAccepted, chan[i].header)
        /\ \A i, j \in DOMAIN chan : i < j => Earlier(chan[i].header, chan[j].header)

LinkInv == DelayInv /\ SeenInv /\ OrderInv /\ RepetitionFlagged /\ NewMessageValid

(* "A GOOSE subscriber is valid if TimeAllowedToLive timeout is not elapsed   *)
(* and GOOSE message were received with correct state and sequence ID": a     *)
(* message numbered as the one right after the last, with no message repeated *)
(* and no publisher restarted, has the correct IDs.                           *)
ValidWhenInSequence ==
    follows /\ faults = 0 /\ now <= invalidityTime => GooseSubscriber_isValid(now)

(* "The state number is increased if any of the values in the GOOSE data set  *)
(* changed": neighbouring messages with different values have different       *)
(* state numbers.                                                             *)
StateNumberTracksValue ==
    \A i \in DOMAIN chan : i + 1 \in DOMAIN chan
        /\ chan[i].value # chan[i + 1].value
        => chan[i].header.stNum # chan[i + 1].header.stNum
=============================================================================
