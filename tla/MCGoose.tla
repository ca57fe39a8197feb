------------------------------ MODULE MCGoose ------------------------------
(* A GOOSE link, and a receiver with its thread and subscribers: they share   *)
(* no state, so one moves while the other rests.                              *)
EXTENDS GooseLink, GooseReceiver

gooseVars == <<linkVars, receiverVars>>

LinkRests == now = 0 /\ chan = <<>> /\ ~value /\ stNum = 1 /\ sqNum = 0
             /\ lastSent = -1 /\ faults = 0
ReceiverRests == subs = <<>> /\ starts = 0 /\ app = "idle"

Init == LinkInit /\ ReceiverInit

Next ==
    \/ ReceiverRests /\ LinkNext /\ UNCHANGED receiverVars
    \/ LinkRests /\ ReceiverNext /\ UNCHANGED linkVars

Spec == Init /\ [][Next]_gooseVars /\ ReceiverFairness
-----------------------------------------------------------------------------
Elem(t, v) == [type |-> t, value |-> v, fits |-> TRUE]
Misfit(t) == [type |-> t, value |-> 0, fits |-> FALSE]

\* IED B's subscriber; one for another APPID with the same reference; one with
\* the application's data set; an observer.
Filtering(id) == [GooseSubscriber_create(1, FALSE, <<>>) EXCEPT !.appId = id, !.dst = 1]

MCSubscribers ==
    {Filtering(1), Filtering(2),
     GooseSubscriber_create(1, TRUE, <<[type |-> "boolean", value |-> 0],
                                       [type |-> "utc", value |-> 0]>>),
     [GooseSubscriber_create(2, FALSE, <<>>) EXCEPT !.observer = TRUE]}

Message1(sq, elems) ==
    [form |-> "whole", appId |-> 1, dst |-> 1, ref |-> 1, confRev |-> 1,
     stNum |-> 1, sqNum |-> sq, elems |-> elems]

TwoElems == <<Elem("boolean", 1), Elem("utc", 1)>>

\* One way to be malformed each.
MCElems ==
    {TwoElems, <<Elem("boolean", 1)>>, TwoElems \o <<Elem("boolean", 1)>>,
     <<Misfit("utc"), Elem("boolean", 1)>>,
     <<Elem("reserved", 0), Elem("utc", 1)>>, <<Elem("boolean", 1), Elem("unknown", 0)>>}

MCFrames ==
    {Message1(1, e) : e \in MCElems} \cup
    {[Message1(2, TwoElems) EXCEPT ![fld[1]] = fld[2]] :
        fld \in {<<"sqNum", 0>>, <<"appId", 2>>, <<"dst", 2>>, <<"ref", 2>>,
                 <<"ref", NoRef>>, <<"confRev", 2>>, <<"form", "short">>, <<"form", "cut">>}}
=============================================================================
