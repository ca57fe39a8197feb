--------------------------- MODULE GooseDispatch ---------------------------
(* goose_receiver.c: which subscriber a frame reaches, and what it makes of   *)
(* the subscriber's data set, numbers and validity.  An element of a message  *)
(* is its type, its value and whether its length fits the type; an integer or *)
(* bit string of another size counts as another type, a float as a time, and  *)
(* the elements inside an array or a structure are left out.                  *)
EXTENDS Integers, Sequences, FiniteSetsExt

Any == -1    \* appId, dst: no filter
NoRef == 0   \* the message has no gocbRef

\* A data set's component that is NULL.
Hole == [type |-> "hole", value |-> 0]

\* GooseSubscriber_create: template is the application's data set, or
\* given is FALSE and the first message makes one.
GooseSubscriber_create(ref, given, template) ==
    [ref |-> ref, appId |-> Any, dst |-> Any, observer |-> FALSE,
     hasValues |-> given, values |-> template, selfAllocated |-> ~given,
     confRev |-> 0, stNum |-> 0, sqNum |-> 0,
     stateValid |-> FALSE, parseError |-> "NO_ERROR"]
-----------------------------------------------------------------------------
\* parseAllData's loop goes no further than element e for component v.
Stops(e, v) ==
    \/ v = Hole
    \/ e.type \in {"unknown", "broken"}
    \/ e.type # "reserved" /\ e.type # v.type
    \/ e.type = "utc" /\ ~e.fits

\* The reserved tag and a binary time of another length are stepped over.
Writes(e) == e.type # "reserved" /\ e.fits

Taken(elems, values) ==
    Max({n \in 0 .. Min({Len(elems), Len(values)}) :
            \A i \in 1 .. n : ~Stops(elems[i], values[i])})

Overwritten(elems, values, n) ==
    [i \in DOMAIN values |->
        IF i <= n /\ Writes(elems[i]) THEN [values[i] EXCEPT !.value = elems[i].value]
        ELSE values[i]]

\* Mutant: a data set that is one element short goes unnoticed.
parseAllData_oneShort(elems, values) ==
    LET n == Taken(elems, values)
    IN [values |-> Overwritten(elems, values, n),
        error |-> IF n + 1 < Len(values) THEN "UNDERFLOW"
                  ELSE IF n < Len(elems) THEN "OVERFLOW" ELSE "NO_ERROR"]

\* Whatever stopped the loop, a component that is left makes it an underflow;
\* only a hole returns at once.
parseAllData(elems, values) ==
    LET n == Taken(elems, values)
        met == n < Len(elems)
        left == n < Len(values)
    IN [values |-> Overwritten(elems, values, n),
        error |-> IF met /\ left /\ values[n + 1] = Hole THEN "TYPE_MISMATCH"
                  ELSE IF left THEN "UNDERFLOW"
                  ELSE IF met THEN "OVERFLOW" ELSE "NO_ERROR"]

\* parseAllDataUnknownValue returns NULL.
Refused(elems) ==
    \E i \in DOMAIN elems : elems[i].type \in {"unknown", "broken", "reserved"}

\* An element without a value leaves its place to the next one.
parseAllDataUnknownValue(elems) ==
    LET Fits(e) == e.fits
        made == SelectSeq(elems, Fits)
    IN [i \in DOMAIN elems |->
            IF i \in DOMAIN made THEN [type |-> made[i].type, value |-> made[i].value]
            ELSE Hole]
-----------------------------------------------------------------------------
\* Mutants: a repetition counts as the next message; only sqNum is looked at.
Repeats_strict(st, sq, m) == st = m.stNum /\ sq > m.sqNum
Repeats_sqOnly(st, sq, m) == sq >= m.sqNum

\* m is not newer than the last message, which had numbers st and sq.
Repeats(st, sq, m) == st = m.stNum /\ sq >= m.sqNum

\* Mutant: the data set is made anew by every message.
KeepsValues_never(s, f) == s.hasValues /\ ~s.selfAllocated /\ ~s.observer

\* The message is parsed into the data set there is.
KeepsValues(s, f) ==
    /\ s.hasValues /\ ~s.observer
    /\ s.selfAllocated => s.confRev = f.confRev

\* parseGoosePayload after its last element; the listener is called next.
Received(s, f) ==
    LET keeps == KeepsValues(s, f)
        parsed == parseAllData(f.elems, s.values)
        makes == ~keeps /\ ~Refused(f.elems)
    IN [s EXCEPT
            !.confRev = f.confRev, !.stNum = f.stNum, !.sqNum = f.sqNum,
            !.hasValues = keeps \/ makes,
            !.values = IF keeps THEN parsed.values
                       ELSE IF makes THEN parseAllDataUnknownValue(f.elems) ELSE <<>>,
            !.selfAllocated = @ \/ makes,
            !.parseError = IF keeps THEN parsed.error ELSE @,
            !.stateValid = /\ keeps => parsed.error = "NO_ERROR"
                           /\ ~Repeats(s.stNum, s.sqNum, f)]
-----------------------------------------------------------------------------
Earliest(S) == IF S = {} THEN 0 ELSE Min(S)

\* Mutant: one of the two filters suffices.
Wants_either(s, f) == s.appId \in {Any, f.appId} \/ s.dst \in {Any, f.dst}

Wants(s, f) == s.appId \in {Any, f.appId} /\ s.dst \in {Any, f.dst}

\* By the frame's header.
Interested(subs, f) == {i \in DOMAIN subs : subs[i].observer \/ Wants(subs[i], f)}

\* By the message's gocbRef.
Matching(subs, f) ==
    {i \in DOMAIN subs : f.ref # NoRef /\ (subs[i].observer \/ subs[i].ref = f.ref)}

\* An observer notes the header, if no subscriber before it wants the frame.
Noted(subs, f) ==
    LET i == Earliest(Interested(subs, f))
    IN IF i # 0 /\ subs[i].observer
       THEN [subs EXCEPT ![i].appId = f.appId, ![i].dst = f.dst] ELSE subs

\* Whose payload it becomes; 0 if nobody's.
Addressee(subs, f) ==
    IF f.form = "short" \/ Interested(subs, f) = {} THEN 0
    ELSE Earliest(Matching(subs, f))

\* The subscribers after frame f.  "short": too short or of another Ethertype;
\* "cut": a length after gocbRef does not decode.
parseGooseMessage(subs, f) ==
    LET i == Addressee(subs, f)
        noted == IF f.form = "short" THEN subs ELSE Noted(subs, f)
        named == IF i # 0 /\ subs[i].observer THEN [noted EXCEPT ![i].ref = f.ref] ELSE noted
    IN IF i # 0 /\ f.form = "whole" THEN [named EXCEPT ![i] = Received(@, f)] ELSE named

\* The subscriber whose listener is called for f; 0 if none.
Called(subs, f) == IF f.form = "whole" THEN Addressee(subs, f) ELSE 0
=============================================================================
