--------------------------- MODULE GooseSubscriber ---------------------------
(* goose_receiver.c's parseGoosePayload and goose_subscriber.c's isValid: how *)
(* a subscriber judges the messages it accepts.  The data set and its parse   *)
(* errors are left out: one publisher with one Boolean always parses.         *)
EXTENDS GooseDispatch

VARIABLES
    subStNum, subSqNum,   \* of the last message accepted; 0 after create
    stateValid,
    invalidityTime        \* ms; when the last message's TTL runs out

subVars == <<subStNum, subSqNum, stateValid, invalidityTime>>

\* GooseSubscriber_create: a zeroed structure.
SubInit ==
    /\ subStNum = 0 /\ subSqNum = 0
    /\ stateValid = FALSE /\ invalidityTime = 0

\* Mutant: the TTL adds up.
parseGoosePayload_adds(m, t) ==
    /\ stateValid' = ~Repeats(subStNum, subSqNum, m)
    /\ subStNum' = m.stNum /\ subSqNum' = m.sqNum
    /\ invalidityTime' = invalidityTime + m.timeAllowedToLive

\* The part of parseGoosePayload after a matching gocbRef, at time t; the
\* listener is called whatever stateValid has become.
parseGoosePayload(m, t) ==
    /\ stateValid' = ~Repeats(subStNum, subSqNum, m)
    /\ subStNum' = m.stNum
    /\ subSqNum' = m.sqNum
    /\ invalidityTime' = t + m.timeAllowedToLive

GooseSubscriber_isValid(t) == stateValid /\ ~(t > invalidityTime)
=============================================================================
