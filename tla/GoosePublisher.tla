--------------------------- MODULE GoosePublisher ---------------------------
(* goose_publisher.c: the numbering of GOOSE messages.  stNum names the state *)
(* of the data set and never is 0; sqNum counts the messages of one state     *)
(* from 0 and, when the unsigned counter wraps, goes on at 1.                 *)
EXTENDS Integers

CONSTANTS UINT32,   \* 2^32: the counters are uint32_t
          TTL       \* GoosePublisher_setTimeAllowedToLive: 20 ms

ASSUME PublisherAssumption == UINT32 \in Nat \ {0, 1, 2} /\ TTL \in Nat \ {0}

VARIABLES stNum, sqNum   \* of the publisher

pubVars == <<stNum, sqNum>>

PubTypeOK == stNum \in 1 .. (UINT32 - 1) /\ sqNum \in 0 .. (UINT32 - 1)

\* Mutant: the counter is not stepped over 0.
Successor_throughZero(x) == (x + 1) % UINT32

\* x++ on a uint32_t, and the code's step over 0.
Successor(x) == IF (x + 1) % UINT32 = 0 THEN 1 ELSE (x + 1) % UINT32

\* GoosePublisher_createEx ends in GoosePublisher_reset.
PubInit == stNum = 1 /\ sqNum = 0

GoosePublisher_reset == stNum' = 1 /\ sqNum' = 0

GoosePublisher_increaseStNum ==
    /\ stNum' = Successor(stNum)
    /\ sqNum' = 0

\* The message carries the number before it is advanced.
GoosePublisher_publish ==
    /\ sqNum' = Successor(sqNum)
    /\ UNCHANGED stNum

PublishedHeader == [stNum |-> stNum, sqNum |-> sqNum, timeAllowedToLive |-> TTL]
=============================================================================
