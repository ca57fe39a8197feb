------------------------- MODULE GooseReceiver_proofs -------------------------
(* Proofs about the receiver, for any subscribers and any frames: data sets   *)
(* and messages of every length and type.                                     *)
EXTENDS GooseReceiver, SequenceTheorems, WellFoundedInduction, TLAPS

USE DEF receiverFlags, receiverHistory, receiverVars

-----------------------------------------------------------------------------
(* Least and greatest elements.                                               *)

LEMMA LeastExists ==
    ASSUME NEW T \in SUBSET Nat, T # {}
    PROVE  \E x \in T : \A y \in T : x <= y
<1>1. PICK x \in T : \A y \in T : ~(<<y, x>> \in OpToRel(<, Nat))
  BY WFMin, NatLessThanWellFounded, Zenon
<1>2. \A y \in T : ~(y < x)
  BY <1>1 DEF OpToRel
<1> QED BY <1>2

LEMMA MinFacts ==
    ASSUME NEW T \in SUBSET Nat, T # {}
    PROVE  Min(T) \in T /\ \A y \in T : Min(T) <= y
BY LeastExists DEF Min

LEMMA MaxFacts ==
    ASSUME NEW m \in Nat, NEW T \in SUBSET (0 .. m), T # {}
    PROVE  Max(T) \in T /\ \A y \in T : y <= Max(T)
<1> DEFINE U == {u \in Nat : \E x \in T : u = m - x}
<1>1. U \in SUBSET Nat /\ U # {}
  <2>1. PICK x \in T : TRUE
    OBVIOUS
  <2>2. m - x \in U
    BY <2>1
  <2> QED BY <2>2
<1>2. PICK u \in U : \A y \in U : u <= y
  BY <1>1, LeastExists
<1>3. PICK t \in T : u = m - t
  BY <1>2
<1>4. ASSUME NEW y \in T PROVE t >= y
  <2>1. m - y \in U /\ y \in 0 .. m /\ t \in 0 .. m
    OBVIOUS
  <2>2. u <= m - y
    BY <1>2, <2>1
  <2> QED BY <1>3, <2>1, <2>2
<1>5. Max(T) \in T /\ \A y \in T : Max(T) >= y
  BY <1>4 DEF Max
<1>6. T \subseteq Int
  OBVIOUS
<1> QED BY <1>5, <1>6

LEMMA EarliestFacts ==
    ASSUME NEW T \in SUBSET (Nat \ {0})
    PROVE  /\ Earliest(T) # 0 <=> T # {}
           /\ T # {} => Earliest(T) \in T
BY MinFacts DEF Earliest
-----------------------------------------------------------------------------
(* Sequences, whatever they are of.                                           *)

LEMMA MadeSequence ==
    ASSUME NEW q, NEW n \in Nat, q = [k \in 1 .. n |-> q[k]]
    PROVE  IsSequence(q) /\ DOMAIN q = 1 .. n /\ Len(q) = n
<1>1. DOMAIN q = 1 .. n
  OBVIOUS
<1> DEFINE R == {q[k] : k \in DOMAIN q}
<1>2. q \in [1 .. n -> R]
  BY <1>1
<1>3. q \in Seq(R)
  BY <1>2, SeqDef
<1> QED BY <1>1, <1>3, LenProperties DEF IsSequence

LEMMA SequenceFacts ==
    ASSUME NEW q, IsSequence(q)
    PROVE  Len(q) \in Nat /\ DOMAIN q = 1 .. Len(q)
BY LenProperties DEF IsSequence

LEMMA Appended ==
    ASSUME NEW q, IsSequence(q), NEW e
    PROVE  /\ IsSequence(Append(q, e)) /\ DOMAIN Append(q, e) = 1 .. (Len(q) + 1)
           /\ Append(q, e)[Len(q) + 1] = e
           /\ \A k \in 1 .. Len(q) : Append(q, e)[k] = q[k]
<1> DEFINE R == {q[k] : k \in DOMAIN q} \cup {e}
           p == Append(q, e)
<1>1. q \in Seq(R) /\ e \in R
  BY SeqMonotonic DEF IsSequence
<1>2. /\ p \in Seq(R) /\ Len(p) = Len(q) + 1
      /\ p[Len(q) + 1] = e /\ \A k \in 1 .. Len(q) : p[k] = q[k]
  BY <1>1, AppendProperties
<1>3. Len(p) \in Nat /\ p \in [1 .. Len(p) -> R]
  BY <1>2, LenProperties
<1>4. p = [k \in 1 .. Len(p) |-> p[k]]
  BY <1>3
<1>5. IsSequence(p) /\ DOMAIN p = 1 .. Len(p)
  BY <1>3, <1>4, MadeSequence
<1> QED BY <1>2, <1>5
-----------------------------------------------------------------------------
(* parseAllData.                                                              *)

LEMMA TakenFacts ==
    ASSUME NEW elems, NEW values, IsSequence(elems), IsSequence(values)
    PROVE  /\ Taken(elems, values) \in 0 .. Len(elems)
           /\ Taken(elems, values) <= Len(values)
           /\ \A i \in 1 .. Taken(elems, values) : ~Stops(elems[i], values[i])
<1> DEFINE m == Min({Len(elems), Len(values)})
           T == {n \in 0 .. m : \A i \in 1 .. n : ~Stops(elems[i], values[i])}
<1>1. Len(elems) \in Nat /\ Len(values) \in Nat
  BY SequenceFacts
<1>2. m \in Nat /\ m <= Len(elems) /\ m <= Len(values)
  <2>1. {Len(elems), Len(values)} \in SUBSET Nat /\ {Len(elems), Len(values)} # {}
    BY <1>1
  <2> QED BY <1>1, <2>1, MinFacts
<1> HIDE DEF m
<1>3. T \in SUBSET (0 .. m) /\ 0 \in T
  BY <1>2
<1>4. Max(T) \in T
  BY <1>2, <1>3, MaxFacts
<1>5. Taken(elems, values) = Max(T)
  BY DEF Taken, m
<1> QED BY <1>1, <1>2, <1>4, <1>5

\* A message without a parse error has an element for each component.
LEMMA ParsedWhole ==
    ASSUME NEW elems, NEW values, IsSequence(elems), IsSequence(values),
           parseAllData(elems, values).error = "NO_ERROR"
    PROVE  /\ Taken(elems, values) = Len(values) /\ Len(elems) = Len(values)
           /\ Len(values) \in Nat /\ DOMAIN values = 1 .. Len(values)
           /\ \A i \in 1 .. Len(values) : ~Stops(elems[i], values[i])
<1> DEFINE n == Taken(elems, values)
<1>1. Len(elems) \in Nat /\ Len(values) \in Nat /\ DOMAIN values = 1 .. Len(values)
  BY SequenceFacts
<1>2. /\ n \in 0 .. Len(elems) /\ n <= Len(values)
      /\ \A i \in 1 .. n : ~Stops(elems[i], values[i])
  BY TakenFacts
<1>3. ~(n < Len(values)) /\ ~(n < Len(elems))
  BY DEF parseAllData
<1> QED BY <1>1, <1>2, <1>3

LEMMA HoleFields == DOMAIN Hole = {"type", "value"}
BY DEF Hole

\* Data set p has the components of v, of the same types.
SameShape(p, v) ==
    /\ IsSequence(p) /\ DOMAIN p = DOMAIN v
    /\ \A k \in DOMAIN v : DOMAIN p[k] = DOMAIN Hole /\ p[k].type = v[k].type

\* Its component k is that of message m.
IsFrom(p, v, m, k) ==
    Writes(m[k]) => p[k] = [type |-> v[k].type, value |-> m[k].value]

\* The data set that was there keeps its components and their types; each is
\* the message's or what it was.
LEMMA ParsedShape ==
    ASSUME NEW elems, NEW values, IsSequence(values),
           \A k \in DOMAIN values : DOMAIN values[k] = DOMAIN Hole,
           NEW parsed, parsed = parseAllData(elems, values).values
    PROVE  /\ SameShape(parsed, values)
           /\ \A k \in DOMAIN values :
                 k <= Taken(elems, values) => IsFrom(parsed, values, elems, k)
<1> DEFINE n == Taken(elems, values)
<1>1. parsed = [k \in DOMAIN values |->
                  IF k <= n /\ Writes(elems[k])
                  THEN [values[k] EXCEPT !.value = elems[k].value] ELSE values[k]]
  BY DEF parseAllData, Overwritten
<1>2. Len(values) \in Nat /\ DOMAIN values = 1 .. Len(values)
  BY SequenceFacts
<1> HIDE DEF n
<1>3. IsSequence(parsed) /\ DOMAIN parsed = DOMAIN values
  <2>1. DOMAIN parsed = 1 .. Len(values) /\ parsed = [k \in 1 .. Len(values) |-> parsed[k]]
    BY <1>1, <1>2
  <2> QED BY <1>2, <2>1, MadeSequence
<1>4. ASSUME NEW k \in DOMAIN values
      PROVE  /\ DOMAIN parsed[k] = DOMAIN Hole
             /\ parsed[k].type = values[k].type
             /\ k <= n => IsFrom(parsed, values, elems, k)
  <2>1. DOMAIN values[k] = {"type", "value"}
    BY HoleFields
  <2>2. CASE k <= n /\ Writes(elems[k])
    <3>1. parsed[k] = [values[k] EXCEPT !.value = elems[k].value]
      BY <1>1, <2>2
    <3> QED BY <2>1, <3>1, HoleFields DEF IsFrom
  <2>3. CASE ~(k <= n /\ Writes(elems[k]))
    <3>1. parsed[k] = values[k]
      BY <1>1, <2>3
    <3> QED BY <2>3, <3>1 DEF IsFrom
  <2> QED BY <2>2, <2>3
<1> QED BY <1>3, <1>4 DEF n, SameShape

LEMMA SubscriberFields ==
    DOMAIN GooseSubscriber_create(NoRef, FALSE, <<>>) =
        {"ref", "appId", "dst", "observer", "hasValues", "values", "selfAllocated",
         "confRev", "stNum", "sqNum", "stateValid", "parseError"}
BY DEF GooseSubscriber_create

LEMMA EmptyDataSet == IsSequence(<<>>) /\ DOMAIN <<>> = {}
BY EmptySeq, LenProperties DEF IsSequence

\* The data set a message makes has a component, or a hole, for each element.
LEMMA MadeDataSet ==
    ASSUME NEW elems, IsSequence(elems), NEW made, made = parseAllDataUnknownValue(elems)
    PROVE  /\ IsSequence(made)
           /\ \A k \in DOMAIN made : DOMAIN made[k] = DOMAIN Hole
<1>1. Len(elems) \in Nat /\ DOMAIN elems = 1 .. Len(elems)
  BY SequenceFacts
<1>2. PICK ms : made = [i \in 1 .. Len(elems) |->
                          IF i \in DOMAIN ms THEN [type |-> ms[i].type, value |-> ms[i].value]
                          ELSE Hole]
  BY <1>1 DEF parseAllDataUnknownValue
<1>3. DOMAIN made = 1 .. Len(elems) /\ made = [k \in 1 .. Len(elems) |-> made[k]]
  BY <1>2
<1>4. IsSequence(made)
  BY <1>1, <1>3, MadeSequence
<1>5. ASSUME NEW k \in DOMAIN made PROVE DOMAIN made[k] = DOMAIN Hole
  BY <1>2, <1>3, HoleFields
<1> QED BY <1>4, <1>5

\* What a subscriber is after its message.
LEMMA ReceivedFacts ==
    ASSUME NEW s, IsSubscriber(s), NEW f, IsSequence(f.elems),
           NEW r, r = Received(s, f)
    PROVE  /\ IsSubscriber(r)
           /\ r.appId = s.appId /\ r.dst = s.dst /\ r.ref = s.ref
           /\ r.observer = s.observer
           /\ KeepsValues(s, f) =>
                 /\ r.values = parseAllData(f.elems, s.values).values
                 /\ r.stateValid => parseAllData(f.elems, s.values).error = "NO_ERROR"
<1> DEFINE keeps == KeepsValues(s, f)
           parsed == parseAllData(f.elems, s.values)
           makes == ~keeps /\ ~Refused(f.elems)
           made == parseAllDataUnknownValue(f.elems)
<1>0. DOMAIN s = {"ref", "appId", "dst", "observer", "hasValues", "values",
                  "selfAllocated", "confRev", "stNum", "sqNum", "stateValid", "parseError"}
  BY SubscriberFields DEF IsSubscriber
<1>1. r = [s EXCEPT
            !.confRev = f.confRev, !.stNum = f.stNum, !.sqNum = f.sqNum,
            !.hasValues = keeps \/ makes,
            !.values = IF keeps THEN parsed.values ELSE IF makes THEN made ELSE <<>>,
            !.selfAllocated = @ \/ makes,
            !.parseError = IF keeps THEN parsed.error ELSE @,
            !.stateValid = /\ keeps => parsed.error = "NO_ERROR"
                           /\ ~Repeats(s.stNum, s.sqNum, f)]
  BY DEF Received
<1>2. /\ DOMAIN r = DOMAIN s
      /\ r.appId = s.appId /\ r.dst = s.dst /\ r.ref = s.ref
      /\ r.observer = s.observer
      /\ r.values = IF keeps THEN parsed.values ELSE IF makes THEN made ELSE <<>>
  BY <1>0, <1>1
<1>3. keeps /\ r.stateValid => parsed.error = "NO_ERROR"
  BY <1>0, <1>1
<1>4. IsSequence(r.values) /\ \A k \in DOMAIN r.values : DOMAIN r.values[k] = DOMAIN Hole
  <2>1. CASE keeps
    <3> DEFINE es == f.elems
               vs == s.values
               pv == r.values
    <3>1. pv = parseAllData(es, vs).values
      BY <1>2, <2>1
    <3>2. IsSequence(vs) /\ \A k \in DOMAIN vs : DOMAIN vs[k] = DOMAIN Hole
      BY DEF IsSubscriber
    <3> HIDE DEF es, vs, pv
    <3>3. SameShape(pv, vs)
      BY <3>1, <3>2, ParsedShape
    <3> QED BY <3>3 DEF pv, SameShape
  <2>2. CASE makes
    BY <1>2, <2>2, MadeDataSet
  <2>3. CASE ~keeps /\ ~makes
    BY <1>2, <2>3, EmptyDataSet
  <2> QED BY <2>1, <2>2, <2>3
<1>5. IsSubscriber(r)
  BY <1>2, <1>4 DEF IsSubscriber
<1>6. ASSUME keeps
      PROVE  /\ r.values = parsed.values
             /\ r.stateValid => parsed.error = "NO_ERROR"
  BY <1>2, <1>3, <1>6
<1> QED BY <1>2, <1>5, <1>6, Zenon
-----------------------------------------------------------------------------
(* parseGooseMessage.                                                         *)

\* The addressee has matched the message's reference, and its frame wanted by
\* somebody.
LEMMA CalledFacts ==
    ASSUME SubscribersInv, NEW f, Called(subs, f) # 0
    PROVE  /\ f.form = "whole" /\ Called(subs, f) = Addressee(subs, f)
           /\ Called(subs, f) \in Matching(subs, f) /\ Called(subs, f) \in DOMAIN subs
           /\ Interested(subs, f) # {}
<1>1. f.form = "whole" /\ Called(subs, f) = Addressee(subs, f)
  BY DEF Called
<1>2. Interested(subs, f) # {} /\ Addressee(subs, f) = Earliest(Matching(subs, f))
  BY <1>1 DEF Addressee
<1>3. Matching(subs, f) \in SUBSET (Nat \ {0}) /\ Matching(subs, f) \subseteq DOMAIN subs
  BY SequenceFacts DEF SubscribersInv, Matching
<1> QED BY <1>1, <1>2, <1>3, EarliestFacts

\* Who is not an observer is left as it is by every frame that is not for it.
LEMMA DispatchFacts ==
    ASSUME SubscribersInv, NEW f, IsSequence(f.elems),
           NEW p, p = parseGooseMessage(subs, f)
    PROVE  /\ IsSequence(p) /\ DOMAIN p = DOMAIN subs
           /\ \A i \in DOMAIN subs :
                 /\ IsSubscriber(p[i])
                 /\ p[i].observer = subs[i].observer
                 /\ ~subs[i].observer =>
                       p[i] = IF i = Called(subs, f) THEN Received(subs[i], f) ELSE subs[i]
<1> DEFINE a == Addressee(subs, f)
           j == Earliest(Interested(subs, f))
           noted == IF f.form = "short" THEN subs ELSE Noted(subs, f)
           named == IF a # 0 /\ subs[a].observer THEN [noted EXCEPT ![a].ref = f.ref] ELSE noted
<1>0. Len(subs) \in Nat /\ DOMAIN subs = 1 .. Len(subs)
  BY SequenceFacts DEF SubscribersInv
<1>1. p = IF a # 0 /\ f.form = "whole" THEN [named EXCEPT ![a] = Received(@, f)] ELSE named
  BY DEF parseGooseMessage
<1>2. subs = [i \in 1 .. Len(subs) |-> subs[i]]
  <2>1. subs \in [1 .. Len(subs) -> {subs[k] : k \in DOMAIN subs}]
    BY LenProperties DEF SubscribersInv, IsSequence
  <2> QED BY <2>1
<1>3. \A i \in DOMAIN subs :
         DOMAIN subs[i] = {"ref", "appId", "dst", "observer", "hasValues", "values",
                           "selfAllocated", "confRev", "stNum", "sqNum", "stateValid",
                           "parseError"}
  BY SubscriberFields DEF SubscribersInv, IsSubscriber
<1>4. ASSUME NEW s, NEW t, IsSubscriber(s), DOMAIN t = DOMAIN s, t.values = s.values
      PROVE  IsSubscriber(t)
  BY <1>4 DEF IsSubscriber
<1>5. noted = subs \/ (j \in DOMAIN subs /\ subs[j].observer
                       /\ noted = [subs EXCEPT ![j].appId = f.appId, ![j].dst = f.dst])
  <2>1. Interested(subs, f) \in SUBSET (Nat \ {0}) /\ Interested(subs, f) \subseteq DOMAIN subs
    BY <1>0 DEF Interested
  <2>2. j # 0 => j \in DOMAIN subs
    BY <2>1, EarliestFacts
  <2> HIDE DEF j
  <2>3. Noted(subs, f) = IF j # 0 /\ subs[j].observer
                         THEN [subs EXCEPT ![j].appId = f.appId, ![j].dst = f.dst] ELSE subs
    BY DEF Noted, j
  <2> QED BY <2>2, <2>3
<1> HIDE DEF j, noted, a
<1>6. /\ DOMAIN noted = DOMAIN subs /\ noted = [i \in 1 .. Len(subs) |-> noted[i]]
      /\ \A i \in DOMAIN subs :
            /\ IsSubscriber(noted[i])
            /\ noted[i].observer = subs[i].observer
            /\ ~subs[i].observer => noted[i] = subs[i]
  <2>1. CASE noted = subs
    BY <1>0, <1>2, <2>1 DEF SubscribersInv
  <2>2. CASE /\ j \in DOMAIN subs /\ subs[j].observer
             /\ noted = [subs EXCEPT ![j].appId = f.appId, ![j].dst = f.dst]
    <3>1. DOMAIN noted = DOMAIN subs /\ \A i \in DOMAIN subs : i # j => noted[i] = subs[i]
      BY <2>2
    <3>2. noted[j] = [subs[j] EXCEPT !.appId = f.appId, !.dst = f.dst]
      BY <1>3, <2>2
    <3>3. /\ DOMAIN noted[j] = DOMAIN subs[j] /\ noted[j].values = subs[j].values
          /\ noted[j].observer = subs[j].observer
      BY <1>3, <2>2, <3>2
    <3>4. IsSubscriber(noted[j])
      BY <1>4, <2>2, <3>3 DEF SubscribersInv
    <3>5. noted = [i \in 1 .. Len(subs) |-> noted[i]]
      BY <1>0, <2>2
    <3> QED BY <2>2, <3>1, <3>3, <3>4, <3>5 DEF SubscribersInv
  <2> QED BY <1>5, <2>1, <2>2
<1>7. a # 0 => a \in DOMAIN subs
  <2>1. Matching(subs, f) \in SUBSET (Nat \ {0}) /\ Matching(subs, f) \subseteq DOMAIN subs
    BY <1>0 DEF Matching
  <2> QED BY <2>1, EarliestFacts DEF a, Addressee
<1>8. /\ DOMAIN named = DOMAIN subs /\ named = [i \in 1 .. Len(subs) |-> named[i]]
      /\ \A i \in DOMAIN subs :
            /\ IsSubscriber(named[i])
            /\ named[i].observer = subs[i].observer
            /\ ~subs[i].observer => named[i] = subs[i]
  <2>1. CASE ~(a # 0 /\ subs[a].observer)
    BY <1>6, <2>1
  <2>2. CASE a # 0 /\ subs[a].observer
    <3>1. a \in DOMAIN subs /\ named = [noted EXCEPT ![a].ref = f.ref]
      BY <1>7, <2>2
    <3>2. /\ DOMAIN named = DOMAIN subs
          /\ \A i \in DOMAIN subs : i # a => named[i] = noted[i]
          /\ named[a] = [noted[a] EXCEPT !.ref = f.ref]
      BY <1>6, <3>1
    <3>3. DOMAIN noted[a] = {"ref", "appId", "dst", "observer", "hasValues", "values",
                             "selfAllocated", "confRev", "stNum", "sqNum", "stateValid",
                             "parseError"}
      BY <1>6, <3>1, SubscriberFields DEF IsSubscriber
    <3>4. /\ DOMAIN named[a] = DOMAIN noted[a] /\ named[a].values = noted[a].values
          /\ named[a].observer = noted[a].observer
      BY <3>2, <3>3
    <3>5. IsSubscriber(named[a])
      BY <1>4, <1>6, <3>1, <3>4
    <3>6. named = [i \in 1 .. Len(subs) |-> named[i]]
      BY <1>0, <1>6, <3>1
    <3> HIDE DEF named
    <3> QED BY <1>6, <2>2, <3>1, <3>2, <3>4, <3>5, <3>6
  <2> QED BY <2>1, <2>2
<1> HIDE DEF named
<1>9. Called(subs, f) = IF f.form = "whole" THEN a ELSE 0
  BY DEF Called, a
<1>10. CASE ~(a # 0 /\ f.form = "whole")
  <2>1. p = named /\ \A i \in DOMAIN subs : i # Called(subs, f)
    BY <1>0, <1>1, <1>9, <1>10
  <2>2. IsSequence(p)
    BY <1>0, <1>8, <2>1, MadeSequence
  <2> QED BY <1>8, <2>1, <2>2
<1>11. CASE a # 0 /\ f.form = "whole"
  <2>1. a \in DOMAIN subs /\ Called(subs, f) = a /\ p = [named EXCEPT ![a] = Received(named[a], f)]
    BY <1>1, <1>7, <1>9, <1>11
  <2>2. /\ DOMAIN p = DOMAIN subs /\ p[a] = Received(named[a], f)
        /\ \A i \in DOMAIN subs : i # a => p[i] = named[i]
        /\ p = [i \in 1 .. Len(subs) |-> p[i]]
    BY <1>0, <1>8, <2>1
  <2>3. IsSequence(p)
    BY <1>0, <2>2, MadeSequence
  <2>4. IsSubscriber(p[a]) /\ p[a].observer = named[a].observer
    <3> DEFINE s == named[a]
               r == p[a]
    <3>1. IsSubscriber(s) /\ r = Received(s, f)
      BY <1>8, <2>1, <2>2
    <3> HIDE DEF s, r
    <3>2. IsSubscriber(r) /\ r.observer = s.observer
      BY <3>1, ReceivedFacts
    <3> QED BY <3>2 DEF s, r
  <2> QED BY <1>8, <2>1, <2>2, <2>3, <2>4
<1> QED BY <1>10, <1>11
-----------------------------------------------------------------------------
(* The invariant.                                                             *)

LEMMA InitialReceiver == ReceiverInit => ThreadInv /\ SubscribersInv /\ AloneFilters
<1> SUFFICES ASSUME ReceiverInit PROVE ThreadInv /\ SubscribersInv /\ AloneFilters
  OBVIOUS
<1> USE DEF ReceiverInit
<1>1. SubscribersInv
  BY EmptyDataSet DEF SubscribersInv
<1> QED BY <1>1 DEF ThreadInv, AloneFilters

LEMMA ThreadStep == ThreadInv /\ [ReceiverNext]_receiverVars => ThreadInv'
<1> SUFFICES ASSUME ThreadInv, [ReceiverNext]_receiverVars PROVE ThreadInv'
  OBVIOUS
<1> USE DEF ThreadInv
<1>1. CASE GooseReceiver_addSubscriber
  BY <1>1 DEF GooseReceiver_addSubscriber
<1>2. CASE GooseReceiver_start
  <2>1. /\ thr = "none" /\ open \cap entered = {} /\ called = 0
        /\ starts' = starts + 1 /\ entered' = entered /\ called' = called
    BY <1>2 DEF GooseReceiver_start
  <2>2. starts' \in Nat /\ 1 .. starts \subseteq 1 .. starts' /\ starts' \notin 1 .. starts
        /\ starts' \in 1 .. starts'
    BY <2>1
  <2>3. CASE UNCHANGED <<app, hasThread, thr, open>>
    BY <2>1, <2>2, <2>3
  <2>4. CASE /\ app' = "up" /\ open' = open \cup {starts'}
             /\ thr' = IF hasThread' THEN "new" ELSE "none"
    BY <2>1, <2>2, <2>4
  <2> QED BY <1>2, <2>3, <2>4 DEF GooseReceiver_start
<1>3. CASE GooseReceiver_stop
  BY <1>3 DEF GooseReceiver_stop
<1>4. CASE GooseReceiver_destroy
  BY <1>4 DEF GooseReceiver_destroy
<1>5. CASE Stop_flag
  BY <1>5 DEF Stop_flag
<1>6. CASE Stop_running
  BY <1>6 DEF Stop_running
<1>7. CASE Stop_join
  BY <1>7 DEF Stop_join
<1>8. CASE Loop_enter
  <2>1. open \cap entered = {} /\ starts' = starts /\ open' = open /\ starts \in 1 .. starts
    BY <1>8 DEF Loop_enter
  <2> QED BY <1>8, <2>1 DEF Loop_enter
<1>9. CASE Loop_while
  BY <1>9 DEF Loop_while
<1>10. CASE Loop_timeout
  BY <1>10 DEF Loop_timeout
<1>11. CASE GooseReceiver_tick
  BY <1>11 DEF GooseReceiver_tick
<1>12. CASE Loop_look
  BY <1>12 DEF Loop_look
<1>13. CASE Loop_close
  BY <1>13 DEF Loop_close
<1>14. CASE UNCHANGED receiverVars
  BY <1>14
<1> QED BY <1>1, <1>2, <1>3, <1>4, <1>5, <1>6, <1>7, <1>8, <1>9, <1>10, <1>11, <1>12,
           <1>13, <1>14 DEF ReceiverNext, Application, Stopping, gooseReceiverLoop

LEMMA SubscribersStep ==
    SubscribersInv /\ [ReceiverNext]_receiverVars => SubscribersInv'
<1> SUFFICES ASSUME SubscribersInv, [ReceiverNext]_receiverVars PROVE SubscribersInv'
  OBVIOUS
<1>1. CASE GooseReceiver_addSubscriber
  <2>1. PICK s \in Subscribers : subs' = Append(subs, s)
    BY <1>1 DEF GooseReceiver_addSubscriber
  <2>2. Len(subs) \in Nat /\ DOMAIN subs = 1 .. Len(subs) /\ IsSequence(subs)
    BY SequenceFacts DEF SubscribersInv
  <2>3. /\ IsSequence(subs') /\ DOMAIN subs' = 1 .. (Len(subs) + 1)
        /\ subs'[Len(subs) + 1] = s /\ \A k \in 1 .. Len(subs) : subs'[k] = subs[k]
    <3> DEFINE p == Append(subs, s)
    <3>1. /\ IsSequence(p) /\ DOMAIN p = 1 .. (Len(subs) + 1)
          /\ p[Len(subs) + 1] = s /\ \A k \in 1 .. Len(subs) : p[k] = subs[k]
      BY Zenon, <2>2, Appended
    <3> HIDE DEF p
    <3>2. subs' = p
      BY <2>1 DEF p
    <3> QED BY Zenon, <3>1, <3>2
  <2>4. IsSubscriber(s)
    BY ReceiverAssumption
  <2>5. ASSUME NEW k \in DOMAIN subs' PROVE IsSubscriber(subs'[k])
    BY <2>2, <2>3, <2>4 DEF SubscribersInv
  <2> QED BY <2>3, <2>5 DEF SubscribersInv
<1>2. CASE GooseReceiver_tick
  <2>1. PICK f \in Frames : subs' = parseGooseMessage(subs, f)
    BY <1>2 DEF GooseReceiver_tick
  <2>2. IsSequence(f.elems)
    BY ReceiverAssumption
  <2>3. /\ IsSequence(subs') /\ DOMAIN subs' = DOMAIN subs
        /\ \A i \in DOMAIN subs : IsSubscriber(subs'[i])
    BY <2>1, <2>2, DispatchFacts
  <2> QED BY <2>3 DEF SubscribersInv
<1>3. CASE subs' = subs
  BY <1>3 DEF SubscribersInv
<1> QED BY <1>1, <1>2, <1>3
        DEF ReceiverNext, Application, Stopping, gooseReceiverLoop, GooseReceiver_start,
            GooseReceiver_stop, GooseReceiver_destroy, Stop_flag, Stop_running, Stop_join,
            Loop_enter, Loop_while, Loop_timeout, Loop_look, Loop_close

\* A listener is called from one step of the thread only.
LEMMA CalledByTick ==
    ASSUME [ReceiverNext]_receiverVars, called' # called, called' # 0
    PROVE  \E f \in Frames : /\ subs' = parseGooseMessage(subs, f)
                             /\ called' = Called(subs, f) /\ frame' = f
BY DEF ReceiverNext, Application, Stopping, gooseReceiverLoop, GooseReceiver_addSubscriber,
       GooseReceiver_start, GooseReceiver_stop, GooseReceiver_destroy, Stop_flag,
       Stop_running, Stop_join, Loop_enter, Loop_while, Loop_timeout, Loop_look,
       Loop_close, GooseReceiver_tick

\* Meanwhile the subscribers stay as they were called.
LEMMA KeptWhileCalled ==
    ASSUME ThreadInv, [ReceiverNext]_receiverVars, called # 0, called' = called
    PROVE  subs' = subs /\ frame' = frame
BY DEF ThreadInv, ReceiverNext, Application, Stopping, gooseReceiverLoop,
       GooseReceiver_addSubscriber, GooseReceiver_start, GooseReceiver_stop,
       GooseReceiver_destroy, Stop_flag, Stop_running, Stop_join, Loop_enter, Loop_while,
       Loop_timeout, Loop_look, Loop_close, GooseReceiver_tick

LEMMA AloneStep ==
    ThreadInv /\ SubscribersInv /\ AloneFilters /\ [ReceiverNext]_receiverVars => AloneFilters'
<1> SUFFICES ASSUME ThreadInv, SubscribersInv, AloneFilters, [ReceiverNext]_receiverVars,
                    called' # 0, Len(subs') = 1, ~subs'[called'].observer
             PROVE  /\ subs'[called'].appId \in {Any, frame'.appId}
                    /\ subs'[called'].dst \in {Any, frame'.dst}
                    /\ subs'[called'].ref = frame'.ref
  BY DEF AloneFilters
<1>1. CASE called' = called
  BY <1>1, KeptWhileCalled DEF AloneFilters
<1>2. CASE called' # called
  <2>1. PICK f \in Frames : /\ subs' = parseGooseMessage(subs, f)
                            /\ called' = Called(subs, f) /\ frame' = f
    BY <1>2, CalledByTick
  <2> DEFINE i == Called(subs, f)
  <2>2. /\ i \in Matching(subs, f) /\ i \in DOMAIN subs /\ Interested(subs, f) # {}
    BY <2>1, CalledFacts
  <2>3. IsSequence(f.elems)
    BY ReceiverAssumption
  <2>4. /\ DOMAIN subs' = DOMAIN subs /\ IsSequence(subs')
        /\ \A k \in DOMAIN subs :
              /\ subs'[k].observer = subs[k].observer
              /\ ~subs[k].observer =>
                    subs'[k] = IF k = i THEN Received(subs[k], f) ELSE subs[k]
    BY <2>1, <2>3, DispatchFacts
  <2>5. DOMAIN subs = {1} /\ i = 1
    BY <2>2, <2>4, SequenceFacts
  <2>6. ~subs[i].observer /\ subs'[i] = Received(subs[i], f)
    BY <2>1, <2>2, <2>4
  <2>7. IsSubscriber(subs[i])
    BY <2>2 DEF SubscribersInv
  <2>8. subs'[i].appId = subs[i].appId /\ subs'[i].dst = subs[i].dst /\ subs'[i].ref = subs[i].ref
    <3> DEFINE s == subs[i]
               r == subs'[i]
    <3>1. IsSubscriber(s) /\ r = Received(s, f)
      BY <2>6, <2>7
    <3> HIDE DEF s, r
    <3>2. r.appId = s.appId /\ r.dst = s.dst /\ r.ref = s.ref
      BY <2>3, <3>1, ReceivedFacts
    <3> QED BY <3>2 DEF s, r
  <2>9. Wants(subs[i], f) /\ subs[i].ref = f.ref
    BY <2>2, <2>5, <2>6 DEF Interested, Matching
  <2> QED BY <2>1, <2>8, <2>9 DEF Wants
<1> QED BY <1>1, <1>2

(* What is known of the receiver in every state of its life.                  *)
THEOREM ReceiverInvariant == ReceiverSpec => [](ThreadInv /\ SubscribersInv /\ AloneFilters)
<1>1. /\ ThreadInv /\ SubscribersInv /\ AloneFilters /\ [ReceiverNext]_receiverVars
      => (ThreadInv /\ SubscribersInv /\ AloneFilters)'
  BY ThreadStep, SubscribersStep, AloneStep
<1> QED BY <1>1, InitialReceiver, PTL DEF ReceiverSpec

(* The only subscriber of a receiver is called for nothing but messages with  *)
(* its APPID, destination and control block reference, whatever arrives.      *)
THEOREM SubscriberAloneFilters == ReceiverSpec => []AloneFilters
BY ReceiverInvariant, PTL

(* A socket whose thread has entered its loop is closed before the receiver   *)
(* can be started again or is freed.                                          *)
THEOREM ServedSocketsClosed == ReceiverSpec => []EnteredCloses
<1>1. ThreadInv => EnteredCloses
  BY DEF ThreadInv, EnteredCloses
<1> QED BY <1>1, ReceiverInvariant, PTL

(* A valid message that was parsed into the data set there was has an element *)
(* for each component, and replaced each but those stepped over by intention. *)
THEOREM ValidMessagesWhole == ReceiverSpec => ValidIsWhole
<1> DEFINE P == \A i \in DOMAIN subs :
        /\ called' = i /\ called = 0
        /\ KeepsValues(subs[i], frame') /\ subs'[i].stateValid
        => /\ Len(frame'.elems) = Len(subs[i].values)
           /\ \A k \in DOMAIN subs[i].values :
                Writes(frame'.elems[k]) =>
                    subs'[i].values[k] = [type |-> frame'.elems[k].type,
                                          value |-> frame'.elems[k].value]
<1>1. SubscribersInv /\ [ReceiverNext]_receiverVars => P
  <2>1. SUFFICES ASSUME SubscribersInv, [ReceiverNext]_receiverVars, NEW i \in DOMAIN subs,
                        called' = i, called = 0,
                        KeepsValues(subs[i], frame'), subs'[i].stateValid
                 PROVE  /\ Len(frame'.elems) = Len(subs[i].values)
                        /\ \A k \in DOMAIN subs[i].values :
                             Writes(frame'.elems[k]) =>
                                 subs'[i].values[k] = [type |-> frame'.elems[k].type,
                                                       value |-> frame'.elems[k].value]
    OBVIOUS
  <2>2. called' # called /\ called' # 0
    BY <2>1, SequenceFacts DEF SubscribersInv
  <2>3. PICK f \in Frames : /\ subs' = parseGooseMessage(subs, f)
                            /\ called' = Called(subs, f) /\ frame' = f
    BY <2>1, <2>2, CalledByTick
  <2>4. IsSequence(f.elems)
    BY ReceiverAssumption
  <2>5. ~subs[i].observer /\ IsSubscriber(subs[i])
    BY <2>1, <2>3 DEF KeepsValues, SubscribersInv
  <2>6. subs'[i] = Received(subs[i], f)
    BY <2>1, <2>3, <2>4, <2>5, DispatchFacts
  <2> DEFINE s == subs[i]
             r == subs'[i]
             es == f.elems
             vs == s.values
             pv == r.values
  <2>7. IsSubscriber(s) /\ r = Received(s, f) /\ KeepsValues(s, f) /\ r.stateValid
    BY <2>1, <2>3, <2>5, <2>6
  <2>8. IsSequence(vs) /\ \A k \in DOMAIN vs : DOMAIN vs[k] = DOMAIN Hole
    BY <2>5 DEF IsSubscriber
  <2>9. IsSequence(es)
    BY <2>4
  <2> HIDE DEF s, r
  <2>10. pv = parseAllData(es, vs).values /\ parseAllData(es, vs).error = "NO_ERROR"
    BY <2>4, <2>7, ReceivedFacts
  <2> HIDE DEF es, vs, pv
  <2>11. /\ Taken(es, vs) = Len(vs) /\ Len(es) = Len(vs)
         /\ Len(vs) \in Nat /\ DOMAIN vs = 1 .. Len(vs)
         /\ \A k \in 1 .. Len(vs) : ~Stops(es[k], vs[k])
    BY <2>8, <2>9, <2>10, ParsedWhole
  <2>12. \A k \in DOMAIN vs : k <= Taken(es, vs) => IsFrom(pv, vs, es, k)
    BY <2>8, <2>10, ParsedShape
  <2>13. ASSUME NEW k \in DOMAIN vs, Writes(es[k])
         PROVE  pv[k] = [type |-> es[k].type, value |-> es[k].value]
    <3>1. pv[k] = [type |-> vs[k].type, value |-> es[k].value]
      BY <2>11, <2>12, <2>13 DEF IsFrom
    <3>2. es[k].type = vs[k].type
      BY <2>11, <2>13 DEF Stops, Writes
    <3> QED BY <3>1, <3>2
  <2> QED BY <2>3, <2>11, <2>13 DEF s, r, es, vs, pv
<1>2. ReceiverSpec => [][P]_receiverVars
  BY <1>1, ReceiverInvariant, PTL DEF ReceiverSpec
<1> QED BY <1>2 DEF ValidIsWhole

\* A data set that is parsed into keeps its components' types.
LEMMA TypesKept ==
    ASSUME NEW s, IsSubscriber(s), NEW f, IsSequence(f.elems), KeepsValues(s, f),
           NEW r, r = Received(s, f)
    PROVE  Types(r) = Types(s)
<1> DEFINE es == f.elems
           vs == s.values
           pv == r.values
<1>1. IsSequence(vs) /\ \A k \in DOMAIN vs : DOMAIN vs[k] = DOMAIN Hole
  BY DEF IsSubscriber
<1>2. pv = parseAllData(es, vs).values
  BY ReceivedFacts
<1> HIDE DEF es, vs, pv
<1>3. SameShape(pv, vs)
  BY <1>1, <1>2, ParsedShape
<1>4. Types(r) = [k \in DOMAIN pv |-> pv[k].type] /\ Types(s) = [k \in DOMAIN vs |-> vs[k].type]
  BY DEF Types, pv, vs
<1> QED BY <1>3, <1>4 DEF SameShape

(* No message changes the number of a data set's components or their types    *)
(* but one of another confRev, and only of a data set a message made.         *)
THEOREM DataSetsKeepShape == ReceiverSpec => ShapeKept
<1> DEFINE P == \A i \in DOMAIN subs :
        /\ subs[i].hasValues /\ ~subs[i].observer
        /\ Types(subs'[i]) # Types(subs[i])
        => subs[i].selfAllocated /\ frame'.confRev # subs[i].confRev
<1>1. SubscribersInv /\ [ReceiverNext]_receiverVars => P
  <2>1. SUFFICES ASSUME SubscribersInv, [ReceiverNext]_receiverVars, NEW i \in DOMAIN subs,
                        subs[i].hasValues, ~subs[i].observer,
                        Types(subs'[i]) # Types(subs[i])
                 PROVE  subs[i].selfAllocated /\ frame'.confRev # subs[i].confRev
    OBVIOUS
  <2>2. subs'[i] # subs[i]
    BY <2>1
  <2>3. CASE GooseReceiver_addSubscriber
    <3>1. PICK s \in Subscribers : subs' = Append(subs, s)
      BY <2>3 DEF GooseReceiver_addSubscriber
    <3>2. DOMAIN subs = 1 .. Len(subs) /\ IsSequence(subs)
      BY <2>1, SequenceFacts DEF SubscribersInv
    <3> QED BY <2>2, <3>1, <3>2, Appended
  <2>4. CASE GooseReceiver_tick
    <3>1. PICK f \in Frames : /\ subs' = parseGooseMessage(subs, f)
                              /\ called' = Called(subs, f)
                              /\ frame' = IF called' = 0 THEN NoFrame ELSE f
      BY <2>4 DEF GooseReceiver_tick
    <3>2. IsSequence(f.elems)
      BY ReceiverAssumption
    <3>3. subs'[i] = IF i = Called(subs, f) THEN Received(subs[i], f) ELSE subs[i]
      BY <2>1, <3>1, <3>2, DispatchFacts
    <3>4. i = Called(subs, f) /\ subs'[i] = Received(subs[i], f) /\ i # 0
      BY <2>1, <2>2, <3>3, SequenceFacts DEF SubscribersInv
    <3>5. frame' = f
      BY <3>1, <3>4
    <3>6. ~KeepsValues(subs[i], f)
      <4> DEFINE s == subs[i]
                 r == subs'[i]
      <4>1. IsSubscriber(s) /\ r = Received(s, f) /\ Types(r) # Types(s)
        BY <2>1, <3>4 DEF SubscribersInv
      <4> HIDE DEF s, r
      <4>2. ~KeepsValues(s, f)
        BY <3>2, <4>1, TypesKept
      <4> QED BY <4>2 DEF s
    <3> QED BY <2>1, <3>5, <3>6 DEF KeepsValues
  <2>5. CASE subs' = subs
    BY <2>2, <2>5
  <2> QED BY <2>1, <2>3, <2>4, <2>5
          DEF ReceiverNext, Application, Stopping, gooseReceiverLoop, GooseReceiver_start,
              GooseReceiver_stop, GooseReceiver_destroy, Stop_flag, Stop_running, Stop_join,
              Loop_enter, Loop_while, Loop_timeout, Loop_look, Loop_close
<1>2. ReceiverSpec => [][P]_receiverVars
  BY <1>1, ReceiverInvariant, PTL DEF ReceiverSpec
<1> QED BY <1>2 DEF ShapeKept
=============================================================================
