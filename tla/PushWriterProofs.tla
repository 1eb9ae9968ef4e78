--------------------------- MODULE PushWriterProofs ---------------------------
(***************************************************************************)
(* Proofs about PushWriter, for any number of requests, idents, backends   *)
(* and queues: the type invariant, the bound of a queue that overruns, and *)
(* that no consumer is left behind when the samples of an ident come one   *)
(* request at a time.                                                      *)
(***************************************************************************)
EXTENDS PushWriter, FiniteSetTheorems, TLAPS

USE DEF Made, NoQueue, QueueIds

\* The requests that found room in queue q and have not yet taken the lock.
Entering(q) == { p \in Pushers : pusher[p].step = "push" /\ pusher[p].queue = q }

\* The inductive invariant of the bound: the samples in the list and those about
\* to enter it are together no more than the bound.
Overrun ==
  \A q \in Made :
    Len(list[q]) + Cardinality(Entering(q)) <= QueueMaxSize + Cardinality(Pushers) - 1

LEMMA InitTypeOK == Init => TypeOK /\ IsFiniteSet(writing)
<1> SUFFICES ASSUME Init PROVE TypeOK /\ IsFiniteSet(writing)
  OBVIOUS
<1>1. IsFiniteSet(writing) /\ Cardinality(writing) = 0
  BY FS_EmptySet DEF Init
<1> QED
  BY <1>1, SizesAssumption, BoundsAssumption DEF Init, TypeOK, Idle

\* A step of a request keeps the types.
LEMMA PusherTypeOK ==
  ASSUME TypeOK, IsFiniteSet(writing), NEW p \in Pushers,
         (\E i \in SendsFor[p] : Lookup(p, i)) \/ PusherStep(p)
  PROVE  TypeOK' /\ IsFiniteSet(writing)'
<1> USE DEF TypeOK
<1>1. CASE \E i \in SendsFor[p] : Lookup(p, i)
  <2> PICK i \in SendsFor[p] : Lookup(p, i)
    BY <1>1
  <2>1. i \in Idents
    BY PushersAssumption
  <2>2. [ident |-> i, number |-> samples + 1] \in Sample
    BY <2>1, BoundsAssumption DEF Lookup, Sample
  <2>3. pusher' \in [Pushers -> {Idle} \cup Pushing]
    BY <2>1, <2>2 DEF Lookup, Pushing
  <2>4. pusher'[p].step = "stamp" => pusher'[p].queue \in Made
    BY <2>1 DEF Lookup
  <2>5. \A r \in Pushers : pusher'[r].step \in {"stamp", "room", "push"} => pusher'[r].queue \in Made
    BY <2>1, <2>4 DEF Lookup
  <2> QED
    BY <2>3, <2>5, BoundsAssumption DEF Lookup, queueVars, backendVars
<1>2. CASE Create(p)
  <2> DEFINE q == Len(list) + 1
  <2>1. list' \in Seq(Seq(Sample)) /\ Len(list') = q
    BY <1>2 DEF Create
  <2>2. ts' \in Seq(Nat) /\ Len(ts') = q
    BY <1>2 DEF Create
  <2>3. consumer' \in Seq(Consumer) /\ Len(consumer') = q
    BY <1>2 DEF Create, Consumer, Looping
  <2>4. q \in Nat /\ Made' = 1..q /\ Made \subseteq Made' /\ q \in Made' /\ q <= MaxQueues
    BY <1>2, <2>1 DEF Create
  <2>6. pusher[p] \in Pushing /\ pusher[p] # Idle /\ pusher[p].sample.ident \in Idents
    BY <1>2 DEF Create, Idle, Pushing, Sample
  <2>5. registered' \in [Idents -> Made' \cup {NoQueue}]
    <3>1. registered' = [registered EXCEPT ![pusher[p].sample.ident] = q]
      BY <1>2 DEF Create
    <3> HIDE DEF q
    <3> QED
      BY <2>4, <2>6, <3>1
  <2>7. pusher' \in [Pushers -> {Idle} \cup Pushing]
    <3>1. pusher' = [pusher EXCEPT ![p] = [pusher[p] EXCEPT !.step = "stamp", !.queue = q]]
      BY <1>2 DEF Create
    <3>2. [pusher[p] EXCEPT !.step = "stamp", !.queue = q] \in Pushing
      BY <2>4, <2>6 DEF Pushing
    <3> HIDE DEF q
    <3> QED
      BY <3>1, <3>2
  <2>8. \A r \in Pushers : pusher'[r].step \in {"stamp", "room", "push"} => pusher'[r].queue \in Made'
    BY <1>2, <2>4, <2>6 DEF Create, Pushing
  <2>9. now' = now /\ closed' \subseteq Made' /\ samples' = samples
        /\ UNCHANGED <<writing, posted, dropped>>
    BY <1>2, <2>4 DEF Create, backendVars
  <2> HIDE DEF q
  <2> QED
    BY <1>2, <2>9, <2>1, <2>2, <2>3, <2>4, <2>5, <2>7, <2>8
<1>3. CASE SetTs(p)
  <2>1. pusher[p] \in Pushing
    BY <1>3 DEF SetTs, Idle
  <2>2. pusher' \in [Pushers -> {Idle} \cup Pushing]
    BY <1>3, <2>1 DEF SetTs, Pushing
  <2>3. \A r \in Pushers : pusher'[r].step \in {"stamp", "room", "push"} => pusher'[r].queue \in Made
    BY <1>3, <2>1 DEF SetTs, Pushing
  <2>4. ts' \in Seq(Nat) /\ Len(ts') = Len(ts)
    BY <1>3 DEF SetTs
  <2> QED
    BY <1>3, <2>2, <2>3, <2>4 DEF SetTs, backendVars
<1>4. CASE CheckRoom(p)
  <2>1. pusher[p] \in Pushing
    BY <1>4 DEF CheckRoom, Idle
  <2>2. pusher' \in [Pushers -> {Idle} \cup Pushing]
    BY <1>4, <2>1 DEF CheckRoom, Pushing
  <2>3. \A r \in Pushers : pusher'[r].step \in {"stamp", "room", "push"} => pusher'[r].queue \in Made
    BY <1>4, <2>1 DEF CheckRoom, Pushing, Idle
  <2> QED
    BY <1>4, <2>2, <2>3 DEF CheckRoom, queueVars, backendVars
<1>5. CASE PushFront(p)
  <2>1. pusher[p] \in Pushing /\ pusher[p].queue \in Made
    BY <1>5 DEF PushFront, Idle
  <2>2. list' \in Seq(Seq(Sample)) /\ Len(list') = Len(list)
    BY <1>5, <2>1 DEF PushFront, Pushing
  <2>3. pusher' \in [Pushers -> {Idle} \cup Pushing]
    BY <1>5 DEF PushFront
  <2>4. \A r \in Pushers : pusher'[r].step \in {"stamp", "room", "push"} => pusher'[r].queue \in Made
    BY <1>5 DEF PushFront, Idle
  <2>5. Made' = Made
    BY <2>2
  <2> QED
    BY <1>5, <2>2, <2>3, <2>4, <2>5 DEF PushFront, backendVars
<1> QED
  BY <1>1, <1>2, <1>3, <1>4, <1>5 DEF PusherStep

\* A step of a consumer keeps the types.
LEMMA ConsumerTypeOK ==
  ASSUME TypeOK, IsFiniteSet(writing), NEW q \in QueueIds, ConsumerStep(q)
  PROVE  TypeOK' /\ IsFiniteSet(writing)'
<1> USE DEF TypeOK
<1>0. q \in DOMAIN consumer /\ q \in DOMAIN list /\ consumer[q] \in Consumer /\ list[q] \in Seq(Sample)
  BY DEF ConsumerStep
<1>1. CASE CheckClosed(q)
  <2>1. [consumer[q] EXCEPT !.step = IF q \in closed THEN "stopped" ELSE "pop"] \in Consumer
    BY <1>0 DEF Consumer
  <2>2. consumer' \in Seq(Consumer) /\ Len(consumer') = Len(consumer)
    BY <1>0, <1>1, <2>1 DEF CheckClosed
  <2> QED
    BY <1>1, <2>2 DEF CheckClosed, queueVars, backendVars
<1>2. CASE PopBack(q)
  <2> DEFINE n == IF Len(list[q]) < QueuePopSize THEN Len(list[q]) ELSE QueuePopSize
  <2>1. n \in Nat /\ n <= Len(list[q])
    BY <1>0, SizesAssumption
  <2>2. SubSeq(list[q], n + 1, Len(list[q])) \in Seq(Sample) /\ SubSeq(list[q], 1, n) \in Seq(Sample)
    <3> HIDE DEF n
    <3> QED
      BY <1>0, <2>1
  <2>3. list' = [list EXCEPT ![q] = SubSeq(list[q], n + 1, Len(list[q]))]
    BY <1>2, <1>0 DEF PopBack
  <2>4. consumer' = [consumer EXCEPT ![q] =
           IF n = 0 \/ Backends = {} THEN Looping("check")
           ELSE [step |-> "dispatch", batch |-> SubSeq(list[q], 1, n), todo |-> Backends]]
    BY <1>2, <1>0 DEF PopBack
  <2> HIDE DEF n
  <2>5. list' \in Seq(Seq(Sample)) /\ Len(list') = Len(list)
    BY <1>0, <2>2, <2>3
  <2>6. consumer' \in Seq(Consumer) /\ Len(consumer') = Len(consumer)
    <3>1. Looping("check") \in Consumer
      BY DEF Looping, Consumer
    <3>2. [step |-> "dispatch", batch |-> SubSeq(list[q], 1, n), todo |-> Backends] \in Consumer
      BY <2>2 DEF Consumer
    <3> QED
      BY <1>0, <2>4, <3>1, <3>2
  <2>7. Made' = Made
    BY <2>5
  <2> QED
    BY <1>2, <2>5, <2>6, <2>7 DEF PopBack, backendVars
<1>3. CASE \E b \in Backends : Dispatch(q, b)
  <2> PICK b \in Backends : Dispatch(q, b)
    BY <1>3
  <2> DEFINE w == [backend |-> b, batch |-> consumer[q].batch]
  <2>1. w \in Write
    BY <1>0 DEF Write, Consumer
  <2>2. IsFiniteSet(writing') /\ Cardinality(writing') <= WriteConcurrency
    <3>1. writing' = writing \cup {w} /\ Cardinality(writing) < WriteConcurrency
      BY DEF Dispatch, MayAcquire
    <3>2. Cardinality(writing) \in Nat
      BY FS_CardinalityType
    <3> HIDE DEF w
    <3>3. IsFiniteSet(writing \cup {w})
          /\ Cardinality(writing \cup {w}) \in {Cardinality(writing), Cardinality(writing) + 1}
      BY FS_AddElement
    <3> QED
      BY <3>1, <3>2, <3>3, SizesAssumption
  <2>3. consumer' \in Seq(Consumer) /\ Len(consumer') = Len(consumer)
    <3>1. Looping("check") \in Consumer
      BY DEF Looping, Consumer
    <3>2. [step |-> "dispatch", batch |-> consumer[q].batch, todo |-> consumer[q].todo \ {b}]
            \in Consumer
      BY <1>0 DEF Consumer
    <3>3. consumer' = [consumer EXCEPT ![q] =
             IF consumer[q].todo = {b} THEN Looping("check")
             ELSE [step |-> "dispatch", batch |-> consumer[q].batch,
                   todo |-> consumer[q].todo \ {b}]]
      BY DEF Dispatch
    <3> QED
      BY <1>0, <3>1, <3>2, <3>3
  <2>4. writing' \subseteq Write
    BY <2>1 DEF Dispatch
  <2> QED
    BY <2>2, <2>3, <2>4 DEF Dispatch, queueVars
<1> QED
  BY <1>1, <1>2, <1>3 DEF ConsumerStep

LEMMA TypeOKStep == TypeOK /\ IsFiniteSet(writing) /\ [Next]_vars => TypeOK' /\ IsFiniteSet(writing)'
<1> SUFFICES ASSUME TypeOK, IsFiniteSet(writing), [Next]_vars
             PROVE  TypeOK' /\ IsFiniteSet(writing)'
  OBVIOUS
<1>1. ASSUME NEW p \in Pushers, (\E i \in SendsFor[p] : Lookup(p, i)) \/ PusherStep(p)
      PROVE  TypeOK' /\ IsFiniteSet(writing)'
  BY <1>1, PusherTypeOK
<1>2. CASE CleanExpQueue
  <2>1. closed' \subseteq Made
    BY <1>2 DEF CleanExpQueue, Expired, TypeOK
  <2>2. registered' \in [Idents -> Made \cup {NoQueue}]
    BY <1>2 DEF CleanExpQueue, TypeOK
  <2> QED
    BY <1>2, <2>1, <2>2 DEF CleanExpQueue, TypeOK, backendVars
<1>3. ASSUME NEW q \in QueueIds, ConsumerStep(q)
      PROVE  TypeOK' /\ IsFiniteSet(writing)'
  BY <1>3, ConsumerTypeOK
<1>4. ASSUME NEW w \in writing, Post(w) \/ GiveUp(w)
      PROVE  TypeOK' /\ IsFiniteSet(writing)'
  <2>1. w.backend \in Backends /\ w.batch \in Seq(Sample)
    BY DEF TypeOK, Write
  <2>2. writing' = writing \ {w}
    BY <1>4 DEF Post, GiveUp, Release
  <2>3. IsFiniteSet(writing') /\ Cardinality(writing') <= WriteConcurrency
    <3>1. Cardinality(writing) \in Nat
      BY FS_CardinalityType
    <3>2. IsFiniteSet(writing \ {w}) /\ Cardinality(writing \ {w}) = Cardinality(writing) - 1
      BY FS_RemoveElement
    <3> QED
      BY <2>2, <3>1, <3>2, SizesAssumption DEF TypeOK
  <2>4. posted' \in [Backends -> Seq(Sample)]
    <3>1. posted[w.backend] \o w.batch \in Seq(Sample)
      <4>1. posted[w.backend] \in Seq(Sample)
        BY <2>1 DEF TypeOK
      <4> QED
        BY <2>1, <4>1
    <3>2. posted' = posted \/ posted' = [posted EXCEPT ![w.backend] = posted[w.backend] \o w.batch]
      BY <1>4 DEF Post, GiveUp
    <3> QED
      BY <2>1, <3>1, <3>2 DEF TypeOK
  <2>5. dropped' \in [Backends -> SUBSET Sample]
    <3>1. ToSet(w.batch) \subseteq Sample
      BY <2>1 DEF ToSet
    <3> QED
      BY <1>4, <2>1, <3>1 DEF Post, GiveUp, TypeOK
  <2>6. UNCHANGED <<now, queueVars, consumer, pusher, samples>>
    BY <1>4 DEF Post, GiveUp
  <2> QED
    BY <2>2, <2>3, <2>4, <2>5, <2>6 DEF TypeOK, queueVars
<1>5. CASE Tick
  BY <1>5 DEF Tick, TypeOK, queueVars, backendVars
<1>6. CASE UNCHANGED vars
  BY <1>6 DEF vars, TypeOK, queueVars, backendVars
<1> QED
  BY <1>1, <1>2, <1>3, <1>4, <1>5, <1>6 DEF Next, WriteStep

\* Every variable keeps its type, and no more than WriteConcurrency goroutines
\* write at a time, whatever the sizes.
THEOREM TypeCorrect == Spec => [](TypeOK /\ IsFiniteSet(writing))
<1> QED
  BY InitTypeOK, TypeOKStep, PTL DEF Spec

-------------------------------------------------------------------------------
(***************************************************************************)
(* The bound of a queue.                                                   *)
(***************************************************************************)

LEMMA EnteringFinite ==
  \A q : /\ Entering(q) \subseteq Pushers /\ IsFiniteSet(Entering(q))
         /\ Cardinality(Entering(q)) \in 0..Cardinality(Pushers)
         /\ Cardinality(Pushers) \in Nat
<1> TAKE q
<1>1. Entering(q) \subseteq Pushers
  BY DEF Entering
<1>2. IsFiniteSet(Entering(q)) /\ Cardinality(Entering(q)) <= Cardinality(Pushers)
  BY <1>1, FS_Subset, PushersAssumption
<1>3. Cardinality(Entering(q)) \in Nat /\ Cardinality(Pushers) \in Nat
  BY <1>2, FS_CardinalityType, PushersAssumption
<1> QED
  BY <1>1, <1>2, <1>3

LEMMA EnteringFiniteAfter ==
  \A q : Cardinality(Entering(q)') \in 0..Cardinality(Pushers)
<1> TAKE q
<1>1. Entering(q)' \subseteq Pushers
  BY DEF Entering
<1>2. IsFiniteSet(Entering(q)') /\ Cardinality(Entering(q)') <= Cardinality(Pushers)
  BY <1>1, FS_Subset, PushersAssumption
<1>3. Cardinality(Entering(q)') \in Nat
  BY <1>2, FS_CardinalityType
<1> QED
  BY <1>2, <1>3, EnteringFinite

LEMMA InitOverrun == Init => Overrun
BY DEF Init, Overrun

\* A step that adds no sample to a list and lets no request enter keeps the bound.
LEMMA OverrunQuiet ==
  ASSUME TypeOK, TypeOK', Overrun, Made' = Made,
         \A q \in Made : Len(list'[q]) <= Len(list[q]),
         \A q \in Made : Entering(q)' = Entering(q)
  PROVE  Overrun'
<1> SUFFICES ASSUME NEW q \in Made
             PROVE  Len(list'[q]) + Cardinality(Entering(q)')
                      <= QueueMaxSize + Cardinality(Pushers) - 1
  BY DEF Overrun
<1>1. Len(list[q]) + Cardinality(Entering(q)) <= QueueMaxSize + Cardinality(Pushers) - 1
  BY DEF Overrun
<1>2. Len(list[q]) \in Nat /\ Len(list'[q]) \in Nat
  BY DEF TypeOK
<1> QED
  BY <1>1, <1>2, EnteringFinite, SizesAssumption

LEMMA OverrunPusher ==
  ASSUME TypeOK, TypeOK', Overrun, NEW p \in Pushers,
         (\E i \in SendsFor[p] : Lookup(p, i)) \/ PusherStep(p)
  PROVE  Overrun'
<1>1. CASE \E i \in SendsFor[p] : Lookup(p, i)
  <2>1. list' = list
    BY <1>1 DEF Lookup, queueVars
  <2>2. \A q \in Made : Entering(q)' = Entering(q)
    <3> PICK i \in SendsFor[p] : Lookup(p, i)
      BY <1>1
    <3>1. pusher[p].step # "push" /\ pusher'[p].step # "push"
      BY DEF Lookup, Idle, TypeOK
    <3>2. \A r \in Pushers \ {p} : pusher'[r] = pusher[r]
      BY DEF Lookup, TypeOK
    <3> QED
      BY <3>1, <3>2 DEF Entering
  <2> QED
    BY <2>1, <2>2, OverrunQuiet DEF TypeOK
<1>2. CASE Create(p)
  <2>1. pusher[p].step # "push" /\ pusher'[p].step # "push"
    BY <1>2 DEF Create, Idle, TypeOK
  <2>2. \A r \in Pushers \ {p} : pusher'[r] = pusher[r]
    BY <1>2 DEF Create, TypeOK
  <2>3. \A q : Entering(q)' = Entering(q)
    BY <2>1, <2>2 DEF Entering
  <2>4. list' = Append(list, <<>>) /\ list \in Seq(Seq(Sample))
    BY <1>2 DEF Create, TypeOK
  <2>5. ASSUME NEW q \in Made'
        PROVE  Len(list'[q]) + Cardinality(Entering(q)')
                 <= QueueMaxSize + Cardinality(Pushers) - 1
    <3>1. CASE q \in Made
      <4>1. list'[q] = list[q] /\ Len(list[q]) \in Nat
        BY <2>4, <3>1
      <4> QED
        BY <2>3, <3>1, <4>1, EnteringFinite DEF Overrun
    <3>2. CASE q \notin Made
      <4>1. Len(list'[q]) = 0
        BY <2>4, <2>5, <3>2
      <4> QED
        BY <2>3, <4>1, EnteringFinite, SizesAssumption
    <3> QED
      BY <3>1, <3>2
  <2> QED
    BY <2>5 DEF Overrun
<1>3. CASE SetTs(p)
  <2>1. list' = list
    BY <1>3 DEF SetTs
  <2>2. pusher[p].step # "push" /\ pusher'[p].step # "push"
    BY <1>3 DEF SetTs, Idle, TypeOK
  <2>3. \A r \in Pushers \ {p} : pusher'[r] = pusher[r]
    BY <1>3 DEF SetTs, TypeOK
  <2>4. \A q \in Made : Entering(q)' = Entering(q)
    BY <2>2, <2>3 DEF Entering
  <2> QED
    BY <2>1, <2>4, OverrunQuiet DEF TypeOK
<1>4. CASE CheckRoom(p)
  <2>1. list' = list
    BY <1>4 DEF CheckRoom, queueVars
  <2>2. \A r \in Pushers \ {p} : pusher'[r] = pusher[r]
    BY <1>4 DEF CheckRoom, TypeOK
  <2>3. pusher[p].step = "room" /\ pusher[p] \in Pushing /\ pusher[p].queue \in Made
    BY <1>4 DEF CheckRoom, TypeOK, Idle
  <2>4. ASSUME NEW q \in Made
        PROVE  Len(list'[q]) + Cardinality(Entering(q)')
                 <= QueueMaxSize + Cardinality(Pushers) - 1
    <3>1. Len(list[q]) \in Nat
      BY DEF TypeOK
    <3>2. CASE pusher[p].queue = q /\ HasRoom(q)
      <4>1. Len(list'[q]) < QueueMaxSize
        BY <2>1, <3>2 DEF HasRoom
      <4>2. Cardinality(Entering(q)') \in 0..Cardinality(Pushers)
        BY EnteringFiniteAfter
      <4>3. Cardinality(Pushers) \in Nat
        BY EnteringFinite
      <4> QED
        BY <2>1, <3>1, <4>1, <4>2, <4>3, SizesAssumption
    <3>3. CASE pusher[p].queue # q \/ ~HasRoom(q)
      <4>1. ~(pusher'[p].step = "push" /\ pusher'[p].queue = q)
        BY <1>4, <2>3, <3>3 DEF CheckRoom, Idle, TypeOK, Pushing
      <4>2. Entering(q)' = Entering(q)
        BY <2>2, <2>3, <4>1 DEF Entering
      <4>3. Len(list[q]) + Cardinality(Entering(q)) <= QueueMaxSize + Cardinality(Pushers) - 1
        BY DEF Overrun
      <4>4. Cardinality(Entering(q)') = Cardinality(Entering(q))
        BY <4>2
      <4> QED
        BY <2>1, <4>3, <4>4
    <3> QED
      BY <3>2, <3>3
  <2> QED
    BY <2>1, <2>4 DEF Overrun
<1>5. CASE PushFront(p)
  <2>1. \A r \in Pushers \ {p} : pusher'[r] = pusher[r]
    BY <1>5 DEF PushFront, TypeOK
  <2>2. pusher[p].step = "push" /\ pusher[p].queue \in Made /\ pusher'[p].step # "push"
    BY <1>5 DEF PushFront, TypeOK, Idle
  <2>3. pusher[p].sample \in Sample
    BY <2>2 DEF TypeOK, Pushing, Idle
  <2>4. list' = [list EXCEPT ![pusher[p].queue] = Append(list[pusher[p].queue], pusher[p].sample)]
    BY <1>5 DEF PushFront
  <2>5. Made' = Made
    BY <2>4 DEF TypeOK
  <2>6. ASSUME NEW q \in Made
        PROVE  Len(list'[q]) + Cardinality(Entering(q)')
                 <= QueueMaxSize + Cardinality(Pushers) - 1
    <3>1. list[q] \in Seq(Sample) /\ Len(list[q]) \in Nat
      BY DEF TypeOK
    <3>2. CASE pusher[p].queue = q
      <4>1. Len(list'[q]) = Len(list[q]) + 1
        <5>1. list'[q] = Append(list[q], pusher[p].sample)
          BY <2>4, <3>2
        <5> QED
          BY <2>3, <3>1, <5>1
      <4>2. Entering(q)' = Entering(q) \ {p} /\ p \in Entering(q)
        BY <2>1, <2>2, <3>2 DEF Entering
      <4>3. Cardinality(Entering(q)') = Cardinality(Entering(q)) - 1
        BY <4>2, EnteringFinite, FS_RemoveElement
      <4> QED
        BY <3>1, <4>1, <4>3, EnteringFinite, SizesAssumption DEF Overrun
    <3>3. CASE pusher[p].queue # q
      <4>1. Entering(q)' = Entering(q)
        BY <2>1, <2>2, <3>3 DEF Entering
      <4>2. list'[q] = list[q]
        BY <2>4, <3>3
      <4> QED
        BY <4>1, <4>2 DEF Overrun
    <3> QED
      BY <3>2, <3>3
  <2> QED
    BY <2>5, <2>6 DEF Overrun
<1> QED
  BY <1>1, <1>2, <1>3, <1>4, <1>5 DEF PusherStep

LEMMA OverrunStep == TypeOK /\ TypeOK' /\ Overrun /\ [Next]_vars => Overrun'
<1> SUFFICES ASSUME TypeOK, TypeOK', Overrun, [Next]_vars PROVE Overrun'
  OBVIOUS
<1>0. ASSUME pusher' = pusher
      PROVE  \A q \in Made : Entering(q)' = Entering(q)
  BY <1>0 DEF Entering
<1>1. ASSUME NEW p \in Pushers, (\E i \in SendsFor[p] : Lookup(p, i)) \/ PusherStep(p)
      PROVE  Overrun'
  BY <1>1, OverrunPusher
<1>2. ASSUME NEW q \in QueueIds, ConsumerStep(q), PopBack(q)
      PROVE  Overrun'
  <2> DEFINE n == IF Len(list[q]) < QueuePopSize THEN Len(list[q]) ELSE QueuePopSize
  <2>0. q \in Made /\ list[q] \in Seq(Sample) /\ n \in 0..Len(list[q])
    BY <1>2, SizesAssumption DEF ConsumerStep, TypeOK
  <2>1. list' = [list EXCEPT ![q] = SubSeq(list[q], n + 1, Len(list[q]))] /\ pusher' = pusher
    BY <1>2 DEF PopBack
  <2> HIDE DEF n
  <2>2. Len(SubSeq(list[q], n + 1, Len(list[q]))) <= Len(list[q])
    BY <2>0
  <2>3. Made' = Made
    BY <2>1 DEF TypeOK
  <2>4. \A r \in Made : Len(list'[r]) <= Len(list[r])
    <3> TAKE r \in Made
    <3>1. CASE r = q
      BY <2>0, <2>1, <2>2, <3>1
    <3>2. CASE r # q
      <4>1. list'[r] = list[r] /\ Len(list[r]) \in Nat
        BY <2>1, <3>2 DEF TypeOK
      <4> QED
        BY <4>1
    <3> QED
      BY <3>1, <3>2
  <2> QED
    BY <1>0, <2>1, <2>3, <2>4, OverrunQuiet
<1>3. CASE UNCHANGED <<list, pusher>>
  <2>1. \A r \in Made : Len(list'[r]) <= Len(list[r])
    <3> TAKE r \in Made
    <3>1. Len(list[r]) \in Nat
      BY DEF TypeOK
    <3> QED
      BY <1>3, <3>1
  <2> QED
    BY <1>0, <1>3, <2>1, OverrunQuiet
<1>4. CASE CleanExpQueue
  BY <1>3, <1>4 DEF CleanExpQueue
<1>5. ASSUME NEW q \in QueueIds, ConsumerStep(q), ~PopBack(q)
      PROVE  Overrun'
  BY <1>3, <1>5 DEF ConsumerStep, CheckClosed, Dispatch, queueVars
<1>6. CASE WriteStep
  BY <1>3, <1>6 DEF WriteStep, Post, GiveUp, queueVars
<1>7. CASE Tick \/ UNCHANGED vars
  BY <1>3, <1>7 DEF Tick, vars, queueVars
<1> QED
  BY <1>1, <1>2, <1>4, <1>5, <1>6, <1>7 DEF Next

\* A queue never holds more than QueueMaxSize samples and one more for every other
\* request, although the room is checked before the lock is taken.
THEOREM OverrunIsBounded == Spec => []OverrunBounded
<1>1. TypeOK /\ Overrun => OverrunBounded
  <2> SUFFICES ASSUME TypeOK, Overrun, NEW q \in Made
               PROVE  Len(list[q]) <= QueueMaxSize + Cardinality(Pushers) - 1
    BY DEF OverrunBounded
  <2>1. Len(list[q]) \in Nat
    BY DEF TypeOK
  <2> QED
    BY <2>1, EnteringFinite, SizesAssumption DEF Overrun
<1> QED
  BY <1>1, TypeCorrect, InitOverrun, OverrunStep, PTL DEF Spec

-------------------------------------------------------------------------------
(***************************************************************************)
(* No consumer is left behind.  The strengthening: a request about to make *)
(* a queue is the only one that may, so that its ident has none.           *)
(***************************************************************************)

Closable ==
  /\ OpenQueuesRegistered
  /\ \A p \in Pushers : pusher[p].step = "create" =>
       /\ pusher[p].sample.ident \in SendsFor[p]
       /\ registered[pusher[p].sample.ident] = NoQueue

LEMMA InitClosable == Init => Closable
BY DEF Init, Closable, OpenQueuesRegistered, Idle

LEMMA ClosableStep ==
  ASSUME OneRequestPerIdent
  PROVE  TypeOK /\ Closable /\ [Next]_vars => Closable'
<1> SUFFICES ASSUME TypeOK, Closable, [Next]_vars PROVE Closable'
  OBVIOUS
<1>1. ASSUME NEW p \in Pushers, NEW i \in SendsFor[p], Lookup(p, i)
      PROVE  Closable'
  <2>1. UNCHANGED <<registered, list, closed>>
    BY <1>1 DEF Lookup, queueVars
  <2>2. pusher' = [pusher EXCEPT ![p] =
          [step |-> IF registered[i] = NoQueue THEN "create" ELSE "stamp",
           queue |-> registered[i], sample |-> [ident |-> i, number |-> samples + 1]]]
    BY <1>1 DEF Lookup
  <2>3. \A r \in Pushers : pusher'[r].step = "create" =>
          /\ pusher'[r].sample.ident \in SendsFor[r]
          /\ registered[pusher'[r].sample.ident] = NoQueue
    BY <2>2 DEF Closable, TypeOK
  <2> QED
    BY <2>1, <2>3 DEF Closable, OpenQueuesRegistered
<1>2. ASSUME NEW p \in Pushers, Create(p)
      PROVE  Closable'
  <2> DEFINE q == Len(list) + 1
             i == pusher[p].sample.ident
  <2>1. i \in SendsFor[p] /\ i \in Idents /\ registered[i] = NoQueue
    BY <1>2, PushersAssumption DEF Create, Closable
  <2>2. registered' = [registered EXCEPT ![i] = q] /\ closed' = closed
    BY <1>2 DEF Create
  <2>3. q \in Nat \ {0} /\ Made' = Made \cup {q}
    BY <1>2 DEF Create, TypeOK
  <2>4. \A r \in Pushers \ {p} : pusher'[r] = pusher[r]
    BY <1>2 DEF Create, TypeOK
  <2>5. pusher'[p].step # "create"
    BY <1>2 DEF Create, TypeOK, Idle, Pushing
  <2> HIDE DEF q, i
  <2>6. OpenQueuesRegistered'
    <3> SUFFICES ASSUME NEW c \in Made' \ closed'
                 PROVE  \E k \in Idents : registered'[k] = c
      BY DEF OpenQueuesRegistered
    <3>1. CASE c = q
      BY <2>1, <2>2, <3>1 DEF TypeOK
    <3>2. CASE c # q
      <4>1. c \in Made \ closed /\ c # NoQueue
        BY <2>2, <2>3, <3>2 DEF TypeOK
      <4>2. PICK k \in Idents : registered[k] = c
        BY <4>1 DEF Closable, OpenQueuesRegistered
      <4>3. k # i
        BY <2>1, <4>1, <4>2
      <4> QED
        BY <2>2, <4>2, <4>3 DEF TypeOK
    <3> QED
      BY <3>1, <3>2
  <2>7. ASSUME NEW r \in Pushers, pusher'[r].step = "create"
        PROVE  /\ pusher'[r].sample.ident \in SendsFor[r]
               /\ registered'[pusher'[r].sample.ident] = NoQueue
    <3>1. r # p /\ pusher'[r] = pusher[r]
      BY <2>4, <2>5, <2>7
    <3>2. pusher[r].sample.ident \in SendsFor[r] /\ registered[pusher[r].sample.ident] = NoQueue
      BY <2>7, <3>1 DEF Closable
    <3>3. pusher[r].sample.ident # i
      BY <2>1, <3>1, <3>2 DEF OneRequestPerIdent
    <3>4. pusher[r].sample.ident \in Idents
      BY <3>2, PushersAssumption
    <3> QED
      BY <2>2, <3>1, <3>2, <3>3, <3>4 DEF TypeOK
  <2> QED
    BY <2>6, <2>7 DEF Closable
<1>3. ASSUME NEW p \in Pushers, SetTs(p) \/ CheckRoom(p) \/ PushFront(p)
      PROVE  Closable'
  <2>1. registered' = registered /\ closed' = closed /\ Made' = Made
    BY <1>3 DEF SetTs, CheckRoom, PushFront, queueVars, TypeOK
  <2>2. \A r \in Pushers \ {p} : pusher'[r] = pusher[r]
    BY <1>3 DEF SetTs, CheckRoom, PushFront, TypeOK
  <2>3. pusher'[p].step # "create"
    BY <1>3 DEF SetTs, CheckRoom, PushFront, TypeOK, Idle, Pushing
  <2> QED
    BY <2>1, <2>2, <2>3 DEF Closable, OpenQueuesRegistered
<1>4. CASE CleanExpQueue
  <2>1. closed' = closed \cup { registered[i] : i \in Expired }
        /\ registered' = [i \in Idents |-> IF i \in Expired THEN NoQueue ELSE registered[i]]
        /\ Made' = Made /\ pusher' = pusher
    BY <1>4 DEF CleanExpQueue
  <2>2. OpenQueuesRegistered'
    <3> SUFFICES ASSUME NEW c \in Made \ closed'
                 PROVE  \E k \in Idents : registered'[k] = c
      BY <2>1 DEF OpenQueuesRegistered
    <3>1. PICK k \in Idents : registered[k] = c
      BY <2>1 DEF Closable, OpenQueuesRegistered
    <3>2. k \notin Expired
      BY <2>1, <3>1
    <3> QED
      BY <2>1, <3>1, <3>2
  <2>3. \A r \in Pushers : pusher'[r].step = "create" =>
          /\ pusher'[r].sample.ident \in SendsFor[r]
          /\ registered'[pusher'[r].sample.ident] = NoQueue
    BY <2>1, PushersAssumption DEF Closable
  <2> QED
    BY <2>2, <2>3 DEF Closable
<1>5. CASE UNCHANGED <<registered, closed, pusher>> /\ Made' = Made
  BY <1>5 DEF Closable, OpenQueuesRegistered
<1>6. ASSUME NEW q \in QueueIds, ConsumerStep(q)
      PROVE  Closable'
  BY <1>5, <1>6 DEF ConsumerStep, CheckClosed, PopBack, Dispatch, queueVars, TypeOK
<1>7. CASE WriteStep
  BY <1>5, <1>7 DEF WriteStep, Post, GiveUp, queueVars
<1>8. CASE Tick \/ UNCHANGED vars
  BY <1>5, <1>8 DEF Tick, vars, queueVars
<1> QED
  BY <1>1, <1>2, <1>3, <1>4, <1>6, <1>7, <1>8 DEF Next, PusherStep

\* When the samples of an ident come one request at a time, CleanExpQueue can stop
\* the consumer of every queue.
THEOREM QueuesStayRegistered ==
  ASSUME OneRequestPerIdent
  PROVE  Spec => []OpenQueuesRegistered
<1>1. Closable => OpenQueuesRegistered
  BY DEF Closable
<1>2. TypeOK /\ Closable /\ [Next]_vars => Closable'
  BY ClosableStep
<1> QED
  BY <1>1, <1>2, TypeCorrect, InitClosable, PTL DEF Spec
===============================================================================
