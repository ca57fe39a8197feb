--------------------------- MODULE GooseLink_proofs ---------------------------
(* Proofs about GooseLink, for counters of every width, every delay and time  *)
(* to live, and any number of repetitions and restarts.                       *)
EXTENDS GooseLink, SequenceTheorems, TLAPS

USE DEF linkVars, linkHistory, pubVars, subVars

-----------------------------------------------------------------------------
(* What the operators of the model return.                                    *)

\* A counter moves on by one, or wraps to 1, which is less than it was.
LEMMA SuccessorFacts ==
    ASSUME NEW x \in 0 .. (UINT32 - 1)
    PROVE  /\ Successor(x) \in 1 .. (UINT32 - 1)
           /\ Successor(x) >= x => Successor(x) = x + 1
<1>1. CASE x + 1 < UINT32
  <2>1. (x + 1) % UINT32 = x + 1
    BY <1>1, PublisherAssumption
  <2> QED BY <1>1, <2>1, PublisherAssumption DEF Successor
<1>2. CASE x + 1 = UINT32
  <2>1. (x + 1) % UINT32 = 0
    BY <1>2, PublisherAssumption
  <2> QED BY <1>2, <2>1, PublisherAssumption DEF Successor
<1> QED BY <1>1, <1>2, PublisherAssumption

LEMMA MessageSent ==
    ASSUME NEW s \in Seq(Message), NEW m \in Message
    PROVE  /\ Append(s, m) \in Seq(Message)
           /\ Len(Append(s, m)) = Len(s) + 1
           /\ Len(s) \in Nat
           /\ DOMAIN s = 1 .. Len(s) /\ DOMAIN Append(s, m) = 1 .. (Len(s) + 1)
           /\ \A i \in 1 .. Len(s) : Append(s, m)[i] = s[i]
           /\ Append(s, m)[Len(s) + 1] = m
           /\ Append(s, m) # <<>>
           /\ s # <<>> => Head(Append(s, m)) = Head(s)
<1>1. Len(s) \in Nat /\ (s # <<>> => Len(s) # 0)
  BY LenProperties, EmptySeq
<1>2. /\ Append(s, m) \in Seq(Message) /\ Len(Append(s, m)) = Len(s) + 1
      /\ \A i \in 1 .. Len(s) : Append(s, m)[i] = s[i]
      /\ Append(s, m)[Len(s) + 1] = m
      /\ Append(s, m) # <<>>
  BY <1>1, AppendProperties
<1>3. DOMAIN s = 1 .. Len(s) /\ DOMAIN Append(s, m) = 1 .. (Len(s) + 1)
  BY <1>2, LenProperties
<1>4. s # <<>> => Head(Append(s, m)) = Head(s)
  BY <1>1, <1>2
<1> QED BY <1>1, <1>2, <1>3, <1>4

LEMMA MessageTaken ==
    ASSUME NEW s \in Seq(Message), s # <<>>
    PROVE  /\ Tail(s) \in Seq(Message)
           /\ Len(s) \in Nat \ {0}
           /\ Len(Tail(s)) = Len(s) - 1
           /\ DOMAIN s = 1 .. Len(s) /\ DOMAIN Tail(s) = 1 .. (Len(s) - 1)
           /\ \A i \in DOMAIN Tail(s) : i + 1 \in DOMAIN s /\ Tail(s)[i] = s[i + 1]
           /\ Head(s) = s[1] /\ 1 \in DOMAIN s /\ Head(s) \in Message
<1>1. Len(s) \in Nat \ {0}
  BY EmptySeq
<1>2. Tail(s) \in Seq(Message) /\ Len(Tail(s)) = Len(s) - 1 /\ Head(s) \in Message
  BY HeadTailProperties
<1>3. DOMAIN s = 1 .. Len(s) /\ DOMAIN Tail(s) = 1 .. (Len(s) - 1)
  BY <1>2, LenProperties
<1>4. \A i \in DOMAIN Tail(s) : i + 1 \in DOMAIN s /\ Tail(s)[i] = s[i + 1]
  BY <1>1, <1>2, <1>3, HeadTailProperties
<1>5. Head(s) = s[1] /\ 1 \in DOMAIN s
  BY <1>1, <1>3
<1> QED BY <1>1, <1>2, <1>3, <1>4, <1>5

LEMMA NothingSent == <<>> \in Seq(Message) /\ Len(<<>>) = 0 /\ DOMAIN <<>> = {}
BY EmptySeq, LenProperties

\* The fields of a message, which is what the later steps use of Message.
LEMMA MessageFields ==
    ASSUME NEW m \in Message
    PROVE  /\ m.header.stNum \in 1 .. (UINT32 - 1)
           /\ m.header.sqNum \in 0 .. (UINT32 - 1)
           /\ m.header.timeAllowedToLive = TTL
           /\ m.sentAt \in 0 .. MaxTime
BY DEF Message

\* A message the publisher sends now.
LEMMA SentNow ==
    ASSUME LinkTypeOK
    PROVE  /\ [header |-> PublishedHeader, value |-> value, sentAt |-> now] \in Message
           /\ PublishedHeader.stNum = stNum /\ PublishedHeader.sqNum = sqNum
BY DEF LinkTypeOK, PubTypeOK, Message, PublishedHeader

\* Who moves what: the subscriber's judgement is made only of a message taken.
LEMMA AcceptFacts ==
    ASSUME LinkTypeOK, chan # <<>>, Accept(Head(chan))
    PROVE  /\ subStNum' = Head(chan).header.stNum
           /\ subSqNum' = Head(chan).header.sqNum
           /\ stateValid' = ~Repeats(subStNum, subSqNum, Head(chan).header)
           /\ invalidityTime' = now + TTL
           /\ lastSent' = Head(chan).sentAt /\ lastSeen' = headSeen
           /\ UNCHANGED <<pubVars, value, now, renumbered>>
           /\ Head(chan) \in Message
<1>1. chan \in Seq(Message)
  BY DEF LinkTypeOK
<1>2. Head(chan) \in Message
  BY <1>1, MessageTaken
<1>3. Head(chan).header.timeAllowedToLive = TTL
  BY <1>2, MessageFields
<1> QED BY <1>2, <1>3, Zenon DEF Accept, parseGoosePayload
-----------------------------------------------------------------------------
(* Counters, times and the channel keep their types whatever wraps, is lost,  *)
(* repeated or restarted.                                                     *)
THEOREM LinkTypeCorrect == LinkSpec => []LinkTypeOK
<1> USE DEF LinkTypeOK, PubTypeOK
<1>1. LinkInit => LinkTypeOK
  <2> SUFFICES ASSUME LinkInit PROVE LinkTypeOK
    OBVIOUS
  <2>1. chan \in Seq(Message) /\ Len(chan) <= ChanCap
    BY NothingSent, LinkAssumption DEF LinkInit
  <2>2. {stateValid, value, headSeen, lastSeen, follows, renumbered} \subseteq BOOLEAN
    BY Zenon DEF LinkInit, SubInit
  <2>3. /\ stNum = 1 /\ sqNum = 0 /\ subStNum = 0 /\ subSqNum = 0
        /\ invalidityTime = 0 /\ now = 0 /\ faults = 0 /\ lastSent = -1
    BY DEF LinkInit, PubInit, SubInit
  <2> QED BY <2>1, <2>2, <2>3, LinkAssumption, PublisherAssumption
<1>2. LinkTypeOK /\ [LinkNext]_linkVars => LinkTypeOK'
  <2> SUFFICES ASSUME LinkTypeOK, [LinkNext]_linkVars PROVE LinkTypeOK'
    OBVIOUS
  <2>0. /\ stNum \in 0 .. (UINT32 - 1) /\ sqNum \in 0 .. (UINT32 - 1)
        /\ 1 \in 1 .. (UINT32 - 1) /\ 0 \in 0 .. (UINT32 - 1)
    BY PublisherAssumption
  <2>1. CASE Publish
    <3>1. chan' \in Seq(Message) /\ Len(chan') <= ChanCap
      <4>1. CASE UNCHANGED chan
        BY <4>1
      <4>2. CASE /\ Len(chan) < ChanCap
                 /\ chan' = Append(chan, [header |-> PublishedHeader, value |-> value,
                                          sentAt |-> now])
        <5>1. [header |-> PublishedHeader, value |-> value, sentAt |-> now] \in Message
          BY SentNow
        <5> QED BY <4>2, <5>1, MessageSent, LinkAssumption
      <4> QED BY <2>1, <4>1, <4>2 DEF Publish
    <3>2. stNum' = stNum /\ sqNum' = Successor(sqNum)
      BY <2>1 DEF Publish, GoosePublisher_publish
    <3>3. PubTypeOK'
      BY <2>0, <3>2, SuccessorFacts
    <3>4. renumbered' \in BOOLEAN /\ UNCHANGED <<subVars, value, now, faults, linkHistory>>
      BY <2>1 DEF Publish
    <3> QED BY <3>1, <3>3, <3>4
  <2>2. CASE ChangeValue
    <3>1. \/ stNum' = Successor(stNum) /\ sqNum' = 0
          \/ UNCHANGED pubVars
      BY <2>2 DEF ChangeValue, GoosePublisher_increaseStNum
    <3>2. PubTypeOK'
      BY <2>0, <3>1, SuccessorFacts
    <3>3. /\ renumbered' \in BOOLEAN /\ value' \in BOOLEAN
          /\ UNCHANGED <<subVars, chan, now, faults, linkHistory>>
      BY <2>2 DEF ChangeValue
    <3> QED BY <3>2, <3>3
  <2>3. ASSUME chan # <<>>, Accept(Head(chan))
        PROVE  /\ UNCHANGED <<pubVars, value, now, renumbered>>
               /\ {subStNum', subSqNum'} \subseteq 0 .. (UINT32 - 1)
               /\ stateValid' \in BOOLEAN /\ invalidityTime' \in 0 .. (MaxTime + TTL)
               /\ lastSent' \in -1 .. MaxTime /\ lastSeen' \in BOOLEAN
               /\ follows' \in BOOLEAN
    <3>1. /\ subStNum' = Head(chan).header.stNum
          /\ subSqNum' = Head(chan).header.sqNum
          /\ invalidityTime' = now + TTL
          /\ lastSent' = Head(chan).sentAt /\ lastSeen' = headSeen
          /\ UNCHANGED <<pubVars, value, now, renumbered>>
          /\ Head(chan) \in Message
      BY <2>3, AcceptFacts
    <3>2. stateValid' \in BOOLEAN
      BY <2>3, AcceptFacts, Zenon
    <3>3. /\ Head(chan).header.stNum \in 1 .. (UINT32 - 1)
          /\ Head(chan).header.sqNum \in 0 .. (UINT32 - 1)
          /\ Head(chan).sentAt \in 0 .. MaxTime
      BY <3>1, MessageFields
    <3>4. {subStNum', subSqNum'} \subseteq 0 .. (UINT32 - 1)
      BY SMTT(60), <3>1, <3>3, PublisherAssumption
    <3>5. invalidityTime' \in 0 .. (MaxTime + TTL)
      <4>1. now \in 0 .. MaxTime /\ MaxTime \in Nat /\ TTL \in Nat
        BY PublisherAssumption, LinkAssumption
      <4> QED BY <3>1, <4>1
    <3>6. lastSent' \in -1 .. MaxTime /\ lastSeen' \in BOOLEAN
      BY SMTT(60), <3>1, <3>3, LinkAssumption
    <3>7. follows' \in BOOLEAN
      BY <2>3, Zenon DEF Accept
    <3> QED BY <3>1, <3>2, <3>4, <3>5, <3>6, <3>7
  <2>4. CASE Receive
    <3>1. chan' \in Seq(Message) /\ Len(chan') <= ChanCap
      BY <2>4, MessageTaken, LinkAssumption DEF Receive
    <3>2. chan # <<>> /\ Accept(Head(chan)) /\ headSeen' = FALSE /\ UNCHANGED faults
      BY <2>4, Zenon DEF Receive
    <3>3. headSeen' \in BOOLEAN
      BY <3>2, Zenon
    <3> QED BY <2>3, <3>1, <3>2, <3>3
  <2>5. CASE ReceiveAndRepeat
    <3>1. chan # <<>> /\ Accept(Head(chan)) /\ headSeen' = TRUE /\ UNCHANGED chan
      BY <2>5, Zenon DEF ReceiveAndRepeat
    <3>2. faults' \in 0 .. MaxFaults
      BY <2>5, LinkAssumption DEF ReceiveAndRepeat
    <3>3. headSeen' \in BOOLEAN
      BY <3>1, Zenon
    <3> QED BY <2>3, <3>1, <3>2, <3>3
  <2>6. CASE RestartPublisher
    <3>1. stNum' = 1 /\ sqNum' = 0 /\ UNCHANGED <<subVars, chan, now, linkHistory>>
      BY <2>6 DEF RestartPublisher, GoosePublisher_reset
    <3>2. value' \in BOOLEAN /\ renumbered' \in BOOLEAN
      BY <2>6, Zenon DEF RestartPublisher
    <3>3. faults' \in 0 .. MaxFaults
      BY <2>6, LinkAssumption DEF RestartPublisher
    <3> QED BY <2>0, <3>1, <3>2, <3>3
  <2>7. CASE LinkTick
    <3>1. now' \in 0 .. MaxTime
      BY <2>7, LinkAssumption DEF LinkTick
    <3>2. UNCHANGED <<pubVars, subVars, value, chan, faults, linkHistory, renumbered>>
      BY <2>7 DEF LinkTick
    <3> QED BY <3>1, <3>2
  <2>8. CASE UNCHANGED linkVars
    BY <2>8
  <2> QED BY <2>1, <2>2, <2>4, <2>5, <2>6, <2>7, <2>8 DEF LinkNext
<1> QED BY <1>1, <1>2, PTL DEF LinkSpec
-----------------------------------------------------------------------------
(* How old the messages on their way are, and what the last one accepted left *)
(* of the time it allowed.                                                    *)

LEMMA DelayStep == LinkTypeOK /\ DelayInv /\ [LinkNext]_linkVars => DelayInv'
<1> SUFFICES ASSUME LinkTypeOK, DelayInv, [LinkNext]_linkVars PROVE DelayInv'
  OBVIOUS
<1> USE DEF DelayInv
<1>0. /\ chan \in Seq(Message) /\ now \in Nat /\ now \in 0 .. MaxTime
      /\ \A i \in DOMAIN chan : chan[i].sentAt \in Nat
      /\ TTL \in Nat /\ MaxDelay \in Nat
  <2>1. chan \in Seq(Message) /\ now \in Nat /\ now \in 0 .. MaxTime
    BY LinkAssumption DEF LinkTypeOK
  <2>2. ASSUME NEW i \in DOMAIN chan PROVE chan[i].sentAt \in Nat
    <3>1. chan[i] \in Message
      BY <2>1, LenProperties, ElementOfSeq
    <3> QED BY <3>1, MessageFields, LinkAssumption
  <2> QED BY <2>1, <2>2, PublisherAssumption, LinkAssumption
\* The subscriber is not involved, nor is the clock.
<1>1. CASE ChangeValue \/ RestartPublisher \/ UNCHANGED linkVars
  <2>1. UNCHANGED <<chan, now, stateValid, lastSent, invalidityTime>>
    BY <1>1 DEF ChangeValue, RestartPublisher
  <2> QED BY <2>1
<1>2. CASE Publish
  <2>1. UNCHANGED <<now, stateValid, lastSent, invalidityTime>>
    BY <1>2 DEF Publish
  <2>2. CASE UNCHANGED chan
    BY <2>1, <2>2
  <2>3. CASE chan' = Append(chan, [header |-> PublishedHeader, value |-> value,
                                   sentAt |-> now])
    <3> DEFINE m == [header |-> PublishedHeader, value |-> value, sentAt |-> now]
    <3>1. m \in Message /\ m.sentAt = now
      BY SentNow
    <3> HIDE DEF m
    <3>2. /\ DOMAIN chan = 1 .. Len(chan) /\ DOMAIN chan' = 1 .. (Len(chan) + 1)
          /\ Len(chan) \in Nat
          /\ \A i \in DOMAIN chan : chan'[i] = chan[i]
          /\ chan'[Len(chan) + 1] = m
      BY <1>0, <2>3, <3>1, MessageSent DEF m
    <3>3. ASSUME NEW i \in DOMAIN chan'
          PROVE  chan'[i].sentAt <= now /\ now - chan'[i].sentAt <= MaxDelay
      <4>1. i \in DOMAIN chan \/ i = Len(chan) + 1
        BY <3>2
      <4> QED BY <1>0, <3>1, <3>2, <4>1
    <3> QED BY <2>1, <3>3
  <2> QED BY <1>2, <2>2, <2>3 DEF Publish
<1>3. ASSUME chan # <<>>, Accept(Head(chan))
      PROVE  /\ stateValid' => lastSent' >= 0
             /\ lastSent' >= 0 => invalidityTime' - lastSent' <= TTL + MaxDelay
             /\ now' = now
  <2>1. /\ invalidityTime' = now + TTL
        /\ lastSent' = Head(chan).sentAt
        /\ now' = now
    BY <1>3, AcceptFacts
  <2>2. Head(chan) = chan[1] /\ 1 \in DOMAIN chan
    BY <1>0, <1>3, MessageTaken
  <2> QED BY <1>0, <2>1, <2>2
<1>4. CASE Receive
  <2>1. chan # <<>> /\ Accept(Head(chan)) /\ chan' = Tail(chan)
    BY <1>4 DEF Receive
  <2>2. \A i \in DOMAIN chan' : i + 1 \in DOMAIN chan /\ chan'[i] = chan[i + 1]
    BY <1>0, <2>1, MessageTaken
  <2> QED BY <1>3, <2>1, <2>2
<1>5. CASE ReceiveAndRepeat
  <2>1. chan # <<>> /\ Accept(Head(chan)) /\ chan' = chan
    BY <1>5 DEF ReceiveAndRepeat
  <2> QED BY <1>3, <2>1
<1>6. CASE LinkTick
  <2>1. /\ now' = now + 1 /\ UNCHANGED <<chan, stateValid, lastSent, invalidityTime>>
        /\ \A i \in DOMAIN chan : now - chan[i].sentAt < MaxDelay
    BY <1>6 DEF LinkTick
  <2> QED BY <1>0, <2>1
<1> QED BY <1>1, <1>2, <1>4, <1>5, <1>6 DEF LinkNext
-----------------------------------------------------------------------------
(* What is known of the message that may come a second time.                  *)

LEMMA SeenStep ==
    LinkTypeOK /\ SeenInv /\ RepetitionFlagged /\ [LinkNext]_linkVars
        => SeenInv' /\ RepetitionFlagged'
<1> SUFFICES ASSUME LinkTypeOK, SeenInv, RepetitionFlagged, [LinkNext]_linkVars
             PROVE  SeenInv' /\ RepetitionFlagged'
  OBVIOUS
<1> USE DEF SeenInv, RepetitionFlagged
<1>0. chan \in Seq(Message) /\ subSqNum \in Nat
  BY PublisherAssumption DEF LinkTypeOK
<1>1. CASE ChangeValue \/ RestartPublisher \/ LinkTick \/ UNCHANGED linkVars
  <2>1. UNCHANGED <<chan, subVars, linkHistory>>
    BY <1>1 DEF ChangeValue, RestartPublisher, LinkTick
  <2> QED BY <2>1, Zenon
<1>2. CASE Publish
  <2>1. UNCHANGED <<subVars, linkHistory>>
    BY <1>2 DEF Publish
  <2>2. chan # <<>> => chan' # <<>> /\ Head(chan') = Head(chan)
    BY <1>0, <1>2, SentNow, MessageSent DEF Publish
  <2> QED BY <2>1, <2>2, Zenon
<1>3. ASSUME chan # <<>>, Accept(Head(chan)) PROVE RepetitionFlagged'
  <2>1. SUFFICES ASSUME headSeen PROVE ~stateValid'
    BY <1>3, AcceptFacts, Zenon
  <2>2. Repeats(subStNum, subSqNum, Head(chan).header)
    BY <1>0, <2>1 DEF Repeats
  <2> QED BY <1>3, <2>2, AcceptFacts, Zenon
<1>4. CASE Receive
  BY <1>3, <1>4, Zenon DEF Receive
<1>5. CASE ReceiveAndRepeat
  <2>1. chan # <<>> /\ Accept(Head(chan)) /\ UNCHANGED chan
    BY <1>5, Zenon DEF ReceiveAndRepeat
  <2>2. subStNum' = Head(chan).header.stNum /\ subSqNum' = Head(chan).header.sqNum
    BY <2>1, AcceptFacts
  <2> QED BY <1>3, <2>1, <2>2, Zenon
<1> QED BY <1>1, <1>2, <1>4, <1>5 DEF LinkNext
-----------------------------------------------------------------------------
(* The order of the numbers, until the publisher starts over.                 *)

LEMMA EarlierTransitive ==
    ASSUME NEW f, NEW g, NEW h,
           {f.stNum, g.stNum, h.stNum, f.sqNum, g.sqNum, h.sqNum} \subseteq Int,
           Earlier(f, g), Earlier(g, h)
    PROVE  Earlier(f, h)
BY DEF Earlier

\* The numbers that OrderInv compares are integers.
LEMMA Numbers ==
    ASSUME LinkTypeOK
    PROVE  /\ PublishedHeader.stNum = stNum /\ PublishedHeader.sqNum = sqNum
           /\ LastAccepted.stNum = subStNum /\ LastAccepted.sqNum = subSqNum
           /\ {stNum, sqNum, subStNum, subSqNum} \subseteq Int
           /\ \A i \in DOMAIN chan : /\ chan[i] \in Message
                                     /\ chan[i].header.stNum \in Int
                                     /\ chan[i].header.sqNum \in Int
<1>1. chan \in Seq(Message)
  BY DEF LinkTypeOK
<1>2. ASSUME NEW i \in DOMAIN chan PROVE chan[i] \in Message
  BY <1>1, LenProperties, ElementOfSeq
<1>3. {stNum, sqNum, subStNum, subSqNum} \subseteq Int
  BY PublisherAssumption DEF LinkTypeOK, PubTypeOK
<1>4. \A i \in DOMAIN chan : chan[i].header.stNum \in Int /\ chan[i].header.sqNum \in Int
  BY <1>2, MessageFields, PublisherAssumption
<1>5. /\ PublishedHeader.stNum = stNum /\ PublishedHeader.sqNum = sqNum
      /\ LastAccepted.stNum = subStNum /\ LastAccepted.sqNum = subSqNum
  BY DEF PublishedHeader, LastAccepted
<1> QED BY <1>2, <1>3, <1>4, <1>5

\* A publisher that does not start over only moves on.
LEMMA PublisherMovesOn ==
    ASSUME LinkTypeOK, Publish \/ ChangeValue, ~renumbered'
    PROVE  /\ ~renumbered
           /\ {stNum', sqNum'} \subseteq Int
           /\ \/ UNCHANGED pubVars /\ ChangeValue
              \/ Earlier(PublishedHeader, PublishedHeader')
<1>1. stNum \in 0 .. (UINT32 - 1) /\ sqNum \in 0 .. (UINT32 - 1) /\ UINT32 \in Nat
  BY PublisherAssumption DEF LinkTypeOK, PubTypeOK
<1>2. CASE Publish
  <2>1. ~renumbered /\ ~(sqNum' < sqNum)
    BY <1>2, Zenon DEF Publish
  <2>2. stNum' = stNum /\ sqNum' = Successor(sqNum)
    BY <1>2 DEF Publish, GoosePublisher_publish
  <2>3. sqNum' = sqNum + 1
    BY <1>1, <2>1, <2>2, SuccessorFacts
  <2> QED BY <1>1, <2>1, <2>2, <2>3 DEF Earlier, PublishedHeader
<1>3. CASE ChangeValue
  <2>1. ~renumbered /\ ~(stNum' < stNum)
    BY <1>3, Zenon DEF ChangeValue
  <2>2. \/ stNum' = Successor(stNum) /\ sqNum' = 0
        \/ UNCHANGED pubVars
    BY <1>3 DEF ChangeValue, GoosePublisher_increaseStNum
  <2>3. \/ stNum' = stNum + 1 /\ sqNum' = 0
        \/ UNCHANGED pubVars
    BY <1>1, <2>1, <2>2, SuccessorFacts
  <2> QED BY <1>1, <1>3, <2>1, <2>3 DEF Earlier, PublishedHeader
<1> QED BY <1>2, <1>3

LEMMA OrderStep == LinkTypeOK /\ OrderInv /\ [LinkNext]_linkVars => OrderInv'
<1> SUFFICES ASSUME LinkTypeOK, OrderInv, [LinkNext]_linkVars, ~renumbered'
             PROVE  /\ Earlier(LastAccepted', PublishedHeader')
                    /\ \A i \in DOMAIN chan' :
                          /\ Earlier(chan'[i].header, PublishedHeader')
                          /\ \/ i = 1 /\ headSeen'
                             \/ Earlier(LastAccepted', chan'[i].header)
                    /\ \A i, j \in DOMAIN chan' :
                          i < j => Earlier(chan'[i].header, chan'[j].header)
  BY DEF OrderInv
<1>0. ~RestartPublisher /\ ~renumbered
  <2>1. ~RestartPublisher
    BY Zenon DEF RestartPublisher
  <2>2. CASE Publish \/ ChangeValue
    BY <2>1, <2>2, PublisherMovesOn
  <2>3. CASE Receive \/ ReceiveAndRepeat \/ LinkTick \/ UNCHANGED linkVars
    <3>1. UNCHANGED renumbered
      BY <2>3 DEF Receive, ReceiveAndRepeat, Accept, LinkTick
    <3> QED BY <2>1, <3>1, Zenon
  <2> QED BY <2>1, <2>2, <2>3 DEF LinkNext
<1>1. /\ Earlier(LastAccepted, PublishedHeader)
      /\ \A i \in DOMAIN chan : Earlier(chan[i].header, PublishedHeader)
      /\ \A i \in DOMAIN chan :
            (i = 1 /\ headSeen) \/ Earlier(LastAccepted, chan[i].header)
      /\ \A i, j \in DOMAIN chan : i < j => Earlier(chan[i].header, chan[j].header)
  BY <1>0, Zenon DEF OrderInv
<1>2. CASE LinkTick \/ UNCHANGED linkVars
  <2>1. UNCHANGED <<pubVars, subVars, chan, headSeen>>
    BY <1>2 DEF LinkTick
  <2> QED BY <1>1, <2>1, Zenon DEF LastAccepted, PublishedHeader
<1>3. CASE Publish \/ ChangeValue
  <2>1. UNCHANGED <<subVars, headSeen>>
    BY <1>3 DEF Publish, ChangeValue
  <2>2. LastAccepted' = LastAccepted
    BY <2>1 DEF LastAccepted
  <2>3. /\ {PublishedHeader'.stNum, PublishedHeader'.sqNum} \subseteq Int
        /\ \/ PublishedHeader' = PublishedHeader
           \/ Earlier(PublishedHeader, PublishedHeader')
    BY <1>3, PublisherMovesOn DEF PublishedHeader
  <2>4. /\ Earlier(LastAccepted, PublishedHeader')
        /\ \A i \in DOMAIN chan : Earlier(chan[i].header, PublishedHeader')
    <3>1. CASE PublishedHeader' = PublishedHeader
      BY <1>1, <3>1, Zenon
    <3>2. CASE Earlier(PublishedHeader, PublishedHeader')
      BY <1>1, <2>3, <3>2, EarlierTransitive, Numbers
    <3> QED BY <2>3, <3>1, <3>2
  <2>5. CASE UNCHANGED chan
    BY <1>1, <2>1, <2>2, <2>4, <2>5, Zenon
  <2>6. CASE /\ Publish
             /\ chan' = Append(chan, [header |-> PublishedHeader, value |-> value,
                                      sentAt |-> now])
    <3> DEFINE m == [header |-> PublishedHeader, value |-> value, sentAt |-> now]
    <3>1. m \in Message /\ m.header = PublishedHeader
      BY SentNow
    <3>2. chan \in Seq(Message)
      BY DEF LinkTypeOK
    <3> HIDE DEF m
    <3>3. /\ DOMAIN chan = 1 .. Len(chan) /\ DOMAIN chan' = 1 .. (Len(chan) + 1)
          /\ Len(chan) \in Nat
          /\ \A i \in DOMAIN chan : chan'[i] = chan[i]
          /\ chan'[Len(chan) + 1] = m
      BY <2>6, <3>1, <3>2, MessageSent DEF m
    <3>4. Earlier(PublishedHeader, PublishedHeader')
      <4>1. {sqNum, sqNum'} \subseteq Int /\ sqNum' # sqNum
        <5>1. sqNum \in 0 .. (UINT32 - 1) /\ sqNum' = Successor(sqNum) /\ ~(sqNum' < sqNum)
          BY <2>6 DEF Publish, GoosePublisher_publish, LinkTypeOK, PubTypeOK
        <5> QED BY <5>1, SuccessorFacts, PublisherAssumption
      <4> QED BY <2>3, <4>1 DEF PublishedHeader
    <3>5. ASSUME NEW i \in DOMAIN chan'
          PROVE  /\ Earlier(chan'[i].header, PublishedHeader')
                 /\ (i = 1 /\ headSeen') \/ Earlier(LastAccepted', chan'[i].header)
      <4>1. CASE i \in DOMAIN chan
        BY <1>1, <2>1, <2>2, <2>4, <3>3, <4>1, Zenon
      <4>2. CASE i = Len(chan) + 1
        BY <1>1, <2>2, <3>1, <3>3, <3>4, <4>2, Zenon
      <4> QED BY <3>3, <4>1, <4>2
    <3>6. ASSUME NEW i \in DOMAIN chan', NEW j \in DOMAIN chan', i < j
          PROVE  Earlier(chan'[i].header, chan'[j].header)
      <4>1. i \in DOMAIN chan /\ (j \in DOMAIN chan \/ j = Len(chan) + 1)
        BY <3>3, <3>6
      <4> QED BY <1>1, <3>1, <3>3, <3>6, <4>1, Zenon
    <3> QED BY <2>2, <2>4, <3>5, <3>6, Zenon
  <2> QED BY <1>3, <2>5, <2>6 DEF Publish, ChangeValue
<1>4. ASSUME chan # <<>>, Accept(Head(chan))
      PROVE  /\ PublishedHeader' = PublishedHeader
             /\ LastAccepted'.stNum = chan[1].header.stNum
             /\ LastAccepted'.sqNum = chan[1].header.sqNum
             /\ 1 \in DOMAIN chan
  <2>1. Head(chan) = chan[1] /\ 1 \in DOMAIN chan
    BY <1>4, MessageTaken DEF LinkTypeOK
  <2> QED BY <1>4, <2>1, AcceptFacts DEF PublishedHeader, LastAccepted
<1>5. ASSUME chan # <<>>, Accept(Head(chan))
      PROVE  /\ Earlier(LastAccepted', PublishedHeader')
             /\ \A i \in DOMAIN chan : 1 < i => Earlier(LastAccepted', chan[i].header)
  <2>1. Earlier(chan[1].header, PublishedHeader)
    BY <1>1, <1>4, <1>5, Zenon
  <2>2. \A i \in DOMAIN chan : 1 < i => Earlier(chan[1].header, chan[i].header)
    BY <1>1, <1>4, <1>5, Zenon
  <2> QED BY <1>4, <1>5, <2>1, <2>2 DEF Earlier
<1>6. CASE Receive
  <2>1. chan # <<>> /\ Accept(Head(chan)) /\ chan' = Tail(chan)
    BY <1>6 DEF Receive
  <2>2. /\ \A i \in DOMAIN chan' : i + 1 \in DOMAIN chan /\ chan'[i] = chan[i + 1]
        /\ DOMAIN chan' \subseteq Nat \ {0}
    BY <2>1, MessageTaken DEF LinkTypeOK
  <2>3. ASSUME NEW i \in DOMAIN chan'
        PROVE  /\ Earlier(chan'[i].header, PublishedHeader')
               /\ Earlier(LastAccepted', chan'[i].header)
    <3>1. i + 1 \in DOMAIN chan /\ 1 < i + 1 /\ chan'[i] = chan[i + 1]
      BY <2>2
    <3> QED BY <1>1, <1>4, <1>5, <2>1, <3>1, Zenon
  <2>4. ASSUME NEW i \in DOMAIN chan', NEW j \in DOMAIN chan', i < j
        PROVE  Earlier(chan'[i].header, chan'[j].header)
    <3>1. i + 1 < j + 1
      BY <2>2, <2>4
    <3> QED BY <1>1, <2>2, <3>1, Zenon
  <2> QED BY <1>5, <2>1, <2>3, <2>4, Zenon
<1>7. CASE ReceiveAndRepeat
  <2>1. chan # <<>> /\ Accept(Head(chan)) /\ chan' = chan
    BY <1>7 DEF ReceiveAndRepeat
  <2>2. headSeen'
    BY <1>7, Zenon DEF ReceiveAndRepeat
  <2>3. ASSUME NEW i \in DOMAIN chan, i # 1 PROVE 1 < i
    BY <2>3, LenProperties DEF LinkTypeOK
  <2> QED BY <1>1, <1>4, <1>5, <2>1, <2>2, <2>3, Zenon
<1> QED BY <1>0, <1>2, <1>3, <1>6, <1>7 DEF LinkNext

\* Of what comes in order, nothing new is taken for a repetition.
LEMMA NewMessageStep ==
    LinkTypeOK /\ OrderInv /\ NewMessageValid /\ [LinkNext]_linkVars => NewMessageValid'
<1> SUFFICES ASSUME LinkTypeOK, OrderInv, NewMessageValid, [LinkNext]_linkVars
             PROVE  NewMessageValid'
  OBVIOUS
<1> USE DEF NewMessageValid
<1>1. ASSUME chan # <<>>, Accept(Head(chan)), ~renumbered', ~lastSeen' PROVE stateValid'
  <2>1. ~renumbered /\ ~headSeen
    <3>1. lastSeen' = headSeen /\ renumbered' = renumbered
      BY <1>1, AcceptFacts
    <3> QED BY <1>1, <3>1, Zenon
  <2>2. Head(chan) = chan[1] /\ 1 \in DOMAIN chan
    BY <1>1, MessageTaken DEF LinkTypeOK
  <2>3. Earlier(LastAccepted, Head(chan).header)
    BY <2>1, <2>2, Zenon DEF OrderInv
  <2>4. ~Repeats(subStNum, subSqNum, Head(chan).header)
    BY <2>2, <2>3, Numbers DEF Earlier, Repeats
  <2> QED BY <1>1, <2>4, AcceptFacts, Zenon
<1>2. CASE Receive
  BY <1>1, <1>2, Zenon DEF Receive
<1>3. CASE ReceiveAndRepeat
  BY <1>1, <1>3, Zenon DEF ReceiveAndRepeat
<1>4. CASE Publish \/ ChangeValue \/ RestartPublisher \/ LinkTick \/ UNCHANGED linkVars
  <2>1. UNCHANGED <<stateValid, lastSent, lastSeen>>
    BY <1>4 DEF Publish, ChangeValue, RestartPublisher, LinkTick
  <2>2. renumbered => renumbered'
    BY <1>4, Zenon DEF Publish, ChangeValue, RestartPublisher, LinkTick
  <2> QED BY <2>1, <2>2, Zenon
<1> QED BY <1>2, <1>3, <1>4 DEF LinkNext
-----------------------------------------------------------------------------
(* The strengthening holds in every reachable state: delays, what was seen,   *)
(* and the order of the numbers, at the publisher, on the wire and at the     *)
(* subscriber.                                                                *)
THEOREM LinkInvariant == LinkSpec => []LinkInv
<1>1. LinkInit => LinkInv
  <2> SUFFICES ASSUME LinkInit PROVE LinkInv
    OBVIOUS
  <2>1. /\ DOMAIN chan = {} /\ lastSent = -1
        /\ stNum = 1 /\ subStNum = 0
    BY NothingSent DEF LinkInit, PubInit, SubInit
  <2>2. ~stateValid /\ ~headSeen /\ ~(lastSent >= 0)
    <3>1. ~(lastSent >= 0)
      BY <2>1
    <3> QED BY <3>1, Zenon DEF LinkInit, SubInit
  <2>3. Earlier(LastAccepted, PublishedHeader)
    BY <2>1 DEF Earlier, LastAccepted, PublishedHeader
  <2> QED
    BY <2>1, <2>2, <2>3, Zenon
       DEF LinkInv, DelayInv, SeenInv, OrderInv, RepetitionFlagged, NewMessageValid
<1>2. LinkTypeOK /\ LinkInv /\ [LinkNext]_linkVars => LinkInv'
  BY DelayStep, SeenStep, OrderStep, NewMessageStep DEF LinkInv
<1> QED BY <1>1, <1>2, LinkTypeCorrect, PTL DEF LinkSpec

(* A subscriber that calls itself valid has heard from its publisher within   *)
(* the time allowed to live and the network's delay.                          *)
THEOREM Freshness == LinkSpec => []FreshWhenValid
<1>1. LinkTypeOK /\ LinkInv => FreshWhenValid
  <2> SUFFICES ASSUME LinkTypeOK, LinkInv, GooseSubscriber_isValid(now)
               PROVE  lastSent >= 0 /\ now - lastSent <= TTL + MaxDelay
    BY DEF FreshWhenValid
  <2>1. stateValid /\ ~(now > invalidityTime)
    BY Zenon DEF GooseSubscriber_isValid
  <2>2. lastSent >= 0 /\ invalidityTime - lastSent <= TTL + MaxDelay
    BY <2>1, Zenon DEF LinkInv, DelayInv
  <2>3. {now, invalidityTime, lastSent, TTL, MaxDelay} \subseteq Int
    BY PublisherAssumption, LinkAssumption DEF LinkTypeOK
  <2> QED BY <2>1, <2>2, <2>3
<1> QED BY <1>1, LinkTypeCorrect, LinkInvariant, PTL

(* The second delivery of a message never leaves the state valid: not at a    *)
(* wrapped counter, not after the publisher has started over.                 *)
THEOREM RepetitionsFlagged == LinkSpec => []RepetitionFlagged
<1>1. LinkInv => RepetitionFlagged
  BY DEF LinkInv
<1> QED BY <1>1, LinkInvariant, PTL

(* Until the publisher's counters start over, a message not seen before is    *)
(* valid, however many before it were lost or late.                           *)
THEOREM NewMessagesValid == LinkSpec => []NewMessageValid
<1>1. LinkInv => NewMessageValid
  BY DEF LinkInv
<1> QED BY <1>1, LinkInvariant, PTL
=============================================================================
