--------------------------- MODULE GooseReceiver ---------------------------
(* goose_receiver.c: a receiver's life - subscribers added, its thread        *)
(* started, stopped, the receiver destroyed - interleaved with the thread     *)
(* that takes frames from the socket.                                         *)
EXTENDS GooseDispatch

CONSTANTS
    Subscribers,   \* what the application may add
    Frames,        \* what may arrive
    MaxUse         \* bound on subscribers and starts together

IsSequence(q) == q \in Seq({q[k] : k \in DOMAIN q})

\* A data set's components have a type and a value, or are holes.
IsSubscriber(s) ==
    /\ DOMAIN s = DOMAIN GooseSubscriber_create(NoRef, FALSE, <<>>)
    /\ IsSequence(s.values)
    /\ \A k \in DOMAIN s.values : DOMAIN s.values[k] = DOMAIN Hole

ASSUME ReceiverAssumption ==
    /\ MaxUse \in Nat
    /\ \A s \in Subscribers : IsSubscriber(s)
    /\ \A f \in Frames : IsSequence(f.elems)

VARIABLES
    subs,      \* subscriberList, in its order
    app,       \* where the application is: "idle", "up", in GooseReceiver_stop
               \* ("stop", "unrun", "join"), or "freed"
    freeing,   \* GooseReceiver_stop was called by GooseReceiver_destroy
    running, stop, hasThread,   \* the receiver's fields
    thr,       \* where gooseReceiverLoop is
    open,      \* sockets not closed, by the number of their start
    starts,
    \* History, read by the properties only:
    called,    \* whose listener the last wait ended in, 0 if nobody's
    frame,     \* the frame it was called for
    entered    \* sockets whose thread found the receiver running

receiverFlags == <<running, stop, hasThread>>
receiverHistory == <<called, frame>>
receiverVars == <<subs, app, freeing, receiverFlags, thr, open, starts,
                  receiverHistory, entered>>

NoFrame == [form |-> "none"]

ReceiverInit ==
    /\ subs = <<>> /\ app = "idle" /\ freeing = FALSE
    /\ running = FALSE /\ stop = FALSE /\ hasThread = FALSE
    /\ thr = "none" /\ open = {} /\ starts = 0
    /\ called = 0 /\ frame = NoFrame /\ entered = {}

\* Only while the receiver is not running, as its documentation asks.
GooseReceiver_addSubscriber ==
    /\ app = "idle" /\ Len(subs) + starts < MaxUse
    /\ \E s \in Subscribers : subs' = Append(subs, s)
    /\ UNCHANGED <<app, freeing, receiverFlags, thr, open, starts, receiverHistory, entered>>

\* Ethernet_createSocket may fail, and then Thread_create.
GooseReceiver_start ==
    /\ app = "idle" /\ Len(subs) + starts < MaxUse
    /\ starts' = starts + 1
    /\ \/ /\ running' = FALSE
          /\ UNCHANGED <<app, hasThread, thr, open>>
       \/ /\ running' = TRUE /\ app' = "up" /\ open' = open \cup {starts'}
          /\ hasThread' \in BOOLEAN
          /\ thr' = IF hasThread' THEN "new" ELSE "none"
    /\ UNCHANGED <<subs, freeing, stop, receiverHistory, entered>>

\* The application stops a receiver that runs, or destroys any; destroying
\* one without a thread stops nothing.
GooseReceiver_stop ==
    /\ app = "up"
    /\ app' = "stop" /\ freeing' \in {FALSE, hasThread}
    /\ UNCHANGED <<subs, receiverFlags, thr, open, starts, receiverHistory, entered>>

GooseReceiver_destroy ==
    /\ app = "idle" \/ (app = "up" /\ ~hasThread)
    /\ app' = "freed"
    /\ UNCHANGED <<subs, freeing, receiverFlags, thr, open, starts, receiverHistory, entered>>

Stop_flag ==
    /\ app = "stop" /\ app' = "unrun"
    /\ stop' = TRUE
    /\ UNCHANGED <<subs, freeing, running, hasThread, thr, open, starts, receiverHistory, entered>>

\* Mutant: the flag is taken back before the thread has seen it, and running
\* is left to the thread.
Stop_running_takenBack ==
    /\ app = "unrun" /\ app' = "join"
    /\ stop' = FALSE
    /\ UNCHANGED <<subs, freeing, running, hasThread, thr, open, starts, receiverHistory, entered>>

Stop_running ==
    /\ app = "unrun" /\ app' = "join"
    /\ running' = FALSE
    /\ UNCHANGED <<subs, freeing, stop, hasThread, thr, open, starts, receiverHistory, entered>>

\* Thread_destroy, which joins; the pointer to the thread stays.
Stop_join ==
    /\ app = "join"
    /\ hasThread => thr = "ended"
    /\ app' = IF freeing THEN "freed" ELSE "idle"
    /\ thr' = "none" /\ stop' = FALSE
    /\ UNCHANGED <<subs, freeing, running, hasThread, open, starts, receiverHistory, entered>>

Application ==
    \/ GooseReceiver_addSubscriber \/ GooseReceiver_start
    \/ GooseReceiver_stop \/ GooseReceiver_destroy

Stopping == Stop_flag \/ Stop_running \/ Stop_join
-----------------------------------------------------------------------------
\* The first look at running: a thread that finds it gone ends at once.
Loop_enter ==
    /\ thr = "new"
    /\ thr' = IF running THEN "loop" ELSE "ended"
    /\ entered' = IF running THEN entered \cup {starts} ELSE entered
    /\ UNCHANGED <<subs, app, freeing, receiverFlags, open, starts, receiverHistory>>

Loop_while ==
    /\ thr = "loop"
    /\ thr' = IF running THEN "wait" ELSE "close"
    /\ UNCHANGED <<subs, app, freeing, receiverFlags, open, starts, receiverHistory, entered>>

\* 100 ms without a frame, or a failed wait.
Loop_timeout ==
    /\ thr = "wait" /\ thr' = "look"
    /\ UNCHANGED <<subs, app, freeing, receiverFlags, open, starts, receiverHistory, entered>>

GooseReceiver_tick ==
    /\ thr = "wait" /\ thr' = "look"
    /\ \E f \in Frames :
        /\ subs' = parseGooseMessage(subs, f)
        /\ called' = Called(subs, f)
        /\ frame' = IF called' = 0 THEN NoFrame ELSE f
    /\ UNCHANGED <<app, freeing, receiverFlags, open, starts, entered>>

\* Mutant: the loop is left without closing.
Loop_look_leaves ==
    /\ thr = "look" /\ thr' = IF stop THEN "ended" ELSE "loop"
    /\ called' = 0 /\ frame' = NoFrame
    /\ UNCHANGED <<subs, app, freeing, receiverFlags, open, starts, entered>>

Loop_look ==
    /\ thr = "look" /\ thr' = IF stop THEN "close" ELSE "loop"
    /\ called' = 0 /\ frame' = NoFrame
    /\ UNCHANGED <<subs, app, freeing, receiverFlags, open, starts, entered>>

\* GooseReceiver_stopThreadless: the socket of the latest start.
Loop_close ==
    /\ thr = "close" /\ thr' = "ended"
    /\ open' = open \ {starts} /\ running' = FALSE
    /\ UNCHANGED <<subs, app, freeing, stop, hasThread, starts, receiverHistory, entered>>

gooseReceiverLoop ==
    \/ Loop_enter \/ Loop_while \/ Loop_timeout \/ GooseReceiver_tick
    \/ Loop_look \/ Loop_close

ReceiverNext == Application \/ Stopping \/ gooseReceiverLoop

ReceiverSpec == ReceiverInit /\ [][ReceiverNext]_receiverVars

\* A thread that can run runs, and GooseReceiver_stop goes on; nobody has to
\* call anything, and no frame has to arrive.
ReceiverFairness == WF_receiverVars(gooseReceiverLoop) /\ WF_receiverVars(Stopping)
-----------------------------------------------------------------------------
(* What the properties below rest on.  There is a thread only between a start *)
(* and the stop that joins it; its listener's last call is forgotten before   *)
(* it waits again; and a socket that was served is still open only while its  *)
(* thread is in the loop.  The list holds subscribers, whatever arrived.      *)
ThreadInv ==
    /\ starts \in Nat /\ open \cup entered \subseteq 1 .. starts
    /\ thr # "none" => hasThread /\ starts > 0 /\ app \in {"up", "stop", "unrun", "join"}
    /\ called # 0 => thr = "look"
    /\ \A n \in open \cap entered :
          n = starts /\ thr \in {"loop", "wait", "look", "close"}

SubscribersInv == IsSequence(subs) /\ \A i \in DOMAIN subs : IsSubscriber(subs[i])

(* Of two messages' data sets a subscriber never holds a mixture and calls it *)
(* valid: a valid message that was parsed into the data set there was has     *)
(* replaced each of its components, in order, save those it steps over by     *)
(* intention.                                                                 *)
ValidIsWhole ==
    [][\A i \in DOMAIN subs :
        /\ called' = i /\ called = 0
        /\ KeepsValues(subs[i], frame') /\ subs'[i].stateValid
        => /\ Len(frame'.elems) = Len(subs[i].values)
           /\ \A k \in DOMAIN subs[i].values :
                Writes(frame'.elems[k]) =>
                    subs'[i].values[k] = [type |-> frame'.elems[k].type,
                                          value |-> frame'.elems[k].value]]_receiverVars

(* The number and the types of a data set's components survive every message, *)
(* however malformed: only a message of another confRev replaces a data set   *)
(* the subscriber made itself.                                                *)
Types(s) == [i \in DOMAIN s.values |-> s.values[i].type]

ShapeKept ==
    [][\A i \in DOMAIN subs :
        /\ subs[i].hasValues /\ ~subs[i].observer
        /\ Types(subs'[i]) # Types(subs[i])
        => subs[i].selfAllocated /\ frame'.confRev # subs[i].confRev]_receiverVars

(* A subscriber that has its receiver to itself, as IED B's has, is called    *)
(* for nothing but messages with its APPID, destination and reference.        *)
AloneFilters ==
    called # 0 /\ Len(subs) = 1 /\ ~subs[called].observer
        => /\ subs[called].appId \in {Any, frame.appId}
           /\ subs[called].dst \in {Any, frame.dst}
           /\ subs[called].ref = frame.ref

(* The thread closes its socket however its life ends, once it has found the  *)
(* receiver running.  One that is stopped before its first look leaves it     *)
(* open, and so does a receiver whose thread could not be created.            *)
EnteredCloses == app \in {"idle", "freed"} => open \cap entered = {}

(* GooseReceiver_stop returns whatever the thread is doing when it is called. *)
StopReturns == app = "stop" ~> app \in {"idle", "freed"}

(* "If APPID is set the subscriber will ignore all messages with other APPID  *)
(* values."                                                                   *)
AppIdFilters ==
    called # 0 /\ ~subs[called].observer
        => subs[called].appId \in {Any, frame.appId}
=============================================================================
