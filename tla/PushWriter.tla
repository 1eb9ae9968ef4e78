------------------------------ MODULE PushWriter ------------------------------
(***************************************************************************)
(* The write side of the push gateway (pushgw/writer): every ident has a   *)
(* queue of its own, made by the first sample that finds none and closed   *)
(* by CleanExpQueue once no sample came for an hour.  A consumer goroutine *)
(* per queue pops batches and starts one goroutine per backend and batch;  *)
(* all consumers share one semaphore of WriteConcurrency places.           *)
(*                                                                         *)
(* A pusher is a request being handled.  PushSample takes the lock of      *)
(* WritersType for its lookup and again for its registration, and none     *)
(* while it stamps and fills the queue, so it is a sequence of steps.      *)
(***************************************************************************)
EXTENDS Integers, Sequences, SequencesExt, FiniteSets

CONSTANTS
  Pushers,           \* requests handled at a time
  Idents,            \* keys of ws.queues: idents, or prefixes of metric names
  SendsFor,          \* [Pushers -> SUBSET Idents]: whose samples a pusher sends
  Backends,          \* ws.backends
  QueueMaxSize, QueuePopSize, WriteConcurrency,
  Expiry,            \* the 3600 seconds, scaled down
  MaxTime,           \* bound: the clock stops here
  MaxSamples,        \* bound: samples pushed
  MaxQueues          \* bound: queues made

ASSUME SizesAssumption == QueueMaxSize \in Nat \ {0} /\ QueuePopSize \in Nat \ {0}
                           /\ WriteConcurrency \in Nat \ {0}
ASSUME PushersAssumption == IsFiniteSet(Pushers) /\ SendsFor \in [Pushers -> SUBSET Idents]
ASSUME TimeAssumption == Expiry \in Nat /\ MaxTime \in Nat
ASSUME BoundsAssumption == MaxSamples \in Nat /\ MaxQueues \in Nat

VARIABLES
  now,           \* time.Now().Unix()
  registered,    \* ws.queues: ident -> queue
  list,          \* IdentQueue.list, oldest sample first
  ts,            \* IdentQueue.ts
  closed,        \* the queues whose closeCh is closed
  consumer,      \* the goroutine StartConsumer of each queue
  pusher,        \* where each pusher is in PushSample
  writing,       \* the goroutines Write, each with its place in the semaphore
  posted,        \* backend -> samples it received, in the order they arrived
  dropped,       \* backend -> samples whose Write gave up
  samples        \* samples pushed so far; they are numbered from 1

queueVars == <<registered, list, ts, closed>>
backendVars == <<writing, posted, dropped>>
vars == <<now, queueVars, consumer, pusher, backendVars, samples>>

QueueIds == 1..MaxQueues
NoQueue == 0
Sample == [ident : Idents, number : 1..MaxSamples]
NoSample == [ident |-> "none", number |-> 0]

Made == DOMAIN list
Idle == [step |-> "idle", queue |-> NoQueue, sample |-> NoSample]
Looping(step) == [step |-> step, batch |-> <<>>, todo |-> {}]

\* A request in PushSample, a goroutine StartConsumer, a goroutine Write.
Pushing == [step : {"create", "stamp", "room", "push"}, queue : Nat, sample : Sample]
Consumer == [step : {"check", "pop", "dispatch", "stopped"}, batch : Seq(Sample),
             todo : SUBSET Backends]
Write == [backend : Backends, batch : Seq(Sample)]

TypeOK ==
  /\ now \in Nat
  /\ list \in Seq(Seq(Sample)) /\ Len(list) <= MaxQueues
  /\ registered \in [Idents -> Made \cup {NoQueue}]
  /\ ts \in Seq(Nat) /\ Len(ts) = Len(list)
  /\ closed \subseteq Made
  /\ consumer \in Seq(Consumer) /\ Len(consumer) = Len(list)
  /\ pusher \in [Pushers -> {Idle} \cup Pushing]
  /\ \A p \in Pushers : pusher[p].step \in {"stamp", "room", "push"} => pusher[p].queue \in Made
  /\ writing \subseteq Write /\ Cardinality(writing) <= WriteConcurrency
  /\ posted \in [Backends -> Seq(Sample)]
  /\ dropped \in [Backends -> SUBSET Sample]
  /\ samples \in 0..MaxSamples

Init ==
  /\ now = 0
  /\ registered = [i \in Idents |-> NoQueue]
  /\ list = <<>> /\ ts = <<>> /\ closed = {} /\ consumer = <<>>
  /\ pusher = [p \in Pushers |-> Idle]
  /\ writing = {}
  /\ posted = [b \in Backends |-> <<>>]
  /\ dropped = [b \in Backends |-> {}]
  /\ samples = 0

-------------------------------------------------------------------------------
\* PushSample, step by step.

\* RLock; the queue of the ident; RUnlock
Lookup(p, i) ==
  /\ pusher[p] = Idle
  /\ samples < MaxSamples
  /\ samples' = samples + 1
  /\ pusher' = [pusher EXCEPT ![p] =
       [step   |-> IF registered[i] = NoQueue THEN "create" ELSE "stamp",
        queue  |-> registered[i],
        sample |-> [ident |-> i, number |-> samples + 1]]]
  /\ UNCHANGED <<now, queueVars, consumer, backendVars>>

\* A new queue replaces whatever ws.queues holds by now; go StartConsumer
Create(p) ==
  LET q == Len(list) + 1
  IN  /\ pusher[p].step = "create"
      /\ q <= MaxQueues
      /\ registered' = [registered EXCEPT ![pusher[p].sample.ident] = q]
      /\ list' = Append(list, <<>>)
      /\ ts' = Append(ts, now)
      /\ consumer' = Append(consumer, Looping("check"))
      /\ pusher' = [pusher EXCEPT ![p].step = "stamp", ![p].queue = q]
      /\ UNCHANGED <<now, closed, backendVars, samples>>

\* identQueue.ts = time.Now().Unix()
SetTs(p) ==
  /\ pusher[p].step = "stamp"
  /\ ts' = [ts EXCEPT ![pusher[p].queue] = now]
  /\ pusher' = [pusher EXCEPT ![p].step = "room"]
  /\ UNCHANGED <<now, registered, list, closed, consumer, backendVars, samples>>

\* Mutant of HasRoom: one sample too many.
HasRoomForOneMore(q) == Len(list[q]) <= QueueMaxSize

\* SafeListLimited.PushFront: a full queue refuses the sample
HasRoom(q) == Len(list[q]) < QueueMaxSize

CheckRoom(p) ==
  /\ pusher[p].step = "room"
  /\ pusher' = [pusher EXCEPT ![p] =
       IF HasRoom(@.queue) THEN [@ EXCEPT !.step = "push"] ELSE Idle]
  /\ UNCHANGED <<now, queueVars, consumer, backendVars, samples>>

\* SafeList.PushFront
PushFront(p) ==
  /\ pusher[p].step = "push"
  /\ list' = [list EXCEPT ![pusher[p].queue] = Append(@, pusher[p].sample)]
  /\ pusher' = [pusher EXCEPT ![p] = Idle]
  /\ UNCHANGED <<now, registered, ts, closed, consumer, backendVars, samples>>

-------------------------------------------------------------------------------
\* CleanExpQueue, under the lock
Expired == { i \in Idents : registered[i] # NoQueue /\ now - ts[registered[i]] > Expiry }

\* Mutant of CleanExpQueue: closeCh is not closed.
CleanWithoutClose ==
  /\ Expired # {}
  /\ registered' = [i \in Idents |-> IF i \in Expired THEN NoQueue ELSE registered[i]]
  /\ UNCHANGED <<now, list, ts, closed, consumer, pusher, backendVars, samples>>

CleanExpQueue ==
  /\ Expired # {}
  /\ closed' = closed \cup { registered[i] : i \in Expired }
  /\ registered' = [i \in Idents |-> IF i \in Expired THEN NoQueue ELSE registered[i]]
  /\ UNCHANGED <<now, list, ts, consumer, pusher, backendVars, samples>>

-------------------------------------------------------------------------------
\* StartConsumer

\* select: the channel is closed, or not yet
CheckClosed(q) ==
  /\ consumer[q].step = "check"
  /\ consumer' = [consumer EXCEPT ![q].step = IF q \in closed THEN "stopped" ELSE "pop"]
  /\ UNCHANGED <<now, queueVars, pusher, backendVars, samples>>

\* Mutants of PopBack: the samples stay in the list; the consumer of an empty queue
\* returns instead of waiting.
PeekBack(q) ==
  LET n == IF Len(list[q]) < QueuePopSize THEN Len(list[q]) ELSE QueuePopSize
  IN  /\ consumer[q].step = "pop"
      /\ consumer' = [consumer EXCEPT ![q] =
           IF n = 0 THEN Looping("check")
           ELSE [step |-> "dispatch", batch |-> SubSeq(list[q], 1, n), todo |-> Backends]]
      /\ UNCHANGED <<now, queueVars, pusher, backendVars, samples>>
PopBackOrReturn(q) ==
  LET n == IF Len(list[q]) < QueuePopSize THEN Len(list[q]) ELSE QueuePopSize
  IN  /\ consumer[q].step = "pop"
      /\ list' = [list EXCEPT ![q] = SubSeq(@, n + 1, Len(@))]
      /\ consumer' = [consumer EXCEPT ![q] =
           IF n = 0 THEN Looping("stopped")
           ELSE [step |-> "dispatch", batch |-> SubSeq(list[q], 1, n), todo |-> Backends]]
      /\ UNCHANGED <<now, registered, ts, closed, pusher, backendVars, samples>>

\* PopBack, the oldest samples first; nothing to do without any or without backend
PopBack(q) ==
  LET n == IF Len(list[q]) < QueuePopSize THEN Len(list[q]) ELSE QueuePopSize
  IN  /\ consumer[q].step = "pop"
      /\ list' = [list EXCEPT ![q] = SubSeq(@, n + 1, Len(@))]
      /\ consumer' = [consumer EXCEPT ![q] =
           IF n = 0 \/ Backends = {} THEN Looping("check")
           ELSE [step |-> "dispatch", batch |-> SubSeq(list[q], 1, n), todo |-> Backends]]
      /\ UNCHANGED <<now, registered, ts, closed, pusher, backendVars, samples>>

\* Mutant of MayAcquire: one place too many.
MayAcquireOneMore == Cardinality(writing) <= WriteConcurrency

\* ws.sema.Acquire(); go Write
MayAcquire == Cardinality(writing) < WriteConcurrency

\* Mutant of Dispatch: the loop over the backends ends after the first.
DispatchFirst(q, b) ==
  /\ consumer[q].step = "dispatch" /\ b \in consumer[q].todo
  /\ MayAcquire
  /\ writing' = writing \cup {[backend |-> b, batch |-> consumer[q].batch]}
  /\ consumer' = [consumer EXCEPT ![q] = Looping("check")]
  /\ UNCHANGED <<now, queueVars, pusher, posted, dropped, samples>>

Dispatch(q, b) ==
  /\ consumer[q].step = "dispatch" /\ b \in consumer[q].todo
  /\ MayAcquire
  /\ writing' = writing \cup {[backend |-> b, batch |-> consumer[q].batch]}
  /\ consumer' = [consumer EXCEPT ![q] =
       IF @.todo = {b} THEN Looping("check")
       ELSE [step |-> "dispatch", batch |-> @.batch, todo |-> @.todo \ {b}]]
  /\ UNCHANGED <<now, queueVars, pusher, posted, dropped, samples>>

\* Write posts the batch, or gives it up: every error path ends in a warning.
\* The semaphore is released either way.
Release(w) == writing' = writing \ {w}

Post(w) ==
  /\ posted' = [posted EXCEPT ![w.backend] = @ \o w.batch]
  /\ Release(w)
  /\ UNCHANGED <<now, queueVars, consumer, pusher, dropped, samples>>

GiveUp(w) ==
  /\ dropped' = [dropped EXCEPT ![w.backend] = @ \cup ToSet(w.batch)]
  /\ Release(w)
  /\ UNCHANGED <<now, queueVars, consumer, pusher, posted, samples>>

Tick ==
  /\ now < MaxTime
  /\ now' = now + 1
  /\ UNCHANGED <<queueVars, consumer, pusher, backendVars, samples>>

-------------------------------------------------------------------------------
PusherStep(p) == Create(p) \/ SetTs(p) \/ CheckRoom(p) \/ PushFront(p)
ConsumerStep(q) ==
  q \in Made /\ (CheckClosed(q) \/ PopBack(q) \/ \E b \in Backends : Dispatch(q, b))
WriteStep == \E w \in writing : Post(w) \/ GiveUp(w)

Next ==
  \/ \E p \in Pushers : (\E i \in SendsFor[p] : Lookup(p, i)) \/ PusherStep(p)
  \/ CleanExpQueue
  \/ \E q \in QueueIds : ConsumerStep(q)
  \/ WriteStep
  \/ Tick

Spec == Init /\ [][Next]_vars

Acquire(q) == q \in Made /\ \E b \in Backends : Dispatch(q, b)

\* The Go scheduler runs every goroutine; the semaphore is a channel, which serves
\* the waiting consumers in turn, so that a place that is free again and again goes
\* to each of them; the timeouts of the HTTP client end every Write.
Fairness ==
  /\ \A q \in QueueIds : WF_vars(ConsumerStep(q)) /\ SF_vars(Acquire(q))
  /\ WF_vars(WriteStep)

FairSpec == Spec /\ Fairness

-------------------------------------------------------------------------------
\* Properties

\* QueueMaxSize is checked before the lock of the list is taken: requests in
\* between exceed it, but never by more than one sample each.
OverrunBounded ==
  \A q \in Made : Len(list[q]) <= QueueMaxSize + Cardinality(Pushers) - 1

\* A sample on its way to backend b, or arrived.
Waiting(s) == \E q \in Made : s \in ToSet(list[q])
Taken(s, b) == \E q \in Made : b \in consumer[q].todo /\ s \in ToSet(consumer[q].batch)
Writing(s, b) == \E w \in writing : w.backend = b /\ s \in ToSet(w.batch)
Posted(s, b) == s \in ToSet(posted[b])

\* A sample is at one place at a time on its way to each backend, and reaches a
\* backend once: however consumers, writers and the cleaner interleave, no batch
\* is sent again and no sample is in two queues.
NeverTwice ==
  \A b \in Backends :
    /\ IsInjective(posted[b])
    /\ \A s \in Sample :
         Cardinality({ place \in 1..5 :
             \/ place = 1 /\ Waiting(s)
             \/ place = 2 /\ Taken(s, b)
             \/ place = 3 /\ Writing(s, b)
             \/ place = 4 /\ Posted(s, b)
             \/ place = 5 /\ s \in dropped[b] }) <= 1

\* Every backend gets its share of every batch: what one backend got, or lost,
\* is at the same time waiting for, being written to, or at every other backend.
AllBackendsServed ==
  \A b, c \in Backends : \A s \in Sample :
    Posted(s, b) \/ s \in dropped[b] =>
      Taken(s, c) \/ Writing(s, c) \/ Posted(s, c) \/ s \in dropped[c]

\* The samples of an ident come in one request at a time.
OneRequestPerIdent ==
  \A p, r \in Pushers : p # r => SendsFor[p] \cap SendsFor[r] = {}

\* A queue that is not closed is the one ws.queues has for its ident, so that
\* CleanExpQueue can stop its consumer: no goroutine is left behind.  This needs
\* the samples of an ident to come one at a time.
OpenQueuesRegistered ==
  \A q \in Made \ closed : \E i \in Idents : registered[i] = q

\* A backend gets the samples of an ident in the order they were pushed.  This
\* needs a single place in the semaphore, one request at a time per ident, and
\* that no queue was closed: the consumer of a closed queue may pop once more
\* while a new queue of the same ident is already being emptied.
PostedInOrder ==
  closed = {} =>
    \A b \in Backends : \A m, n \in DOMAIN posted[b] :
      m < n /\ posted[b][m].ident = posted[b][n].ident
        => posted[b][m].number < posted[b][n].number

\* Every sample leaves its queue, unless the cleaner closes the queue first: the
\* shared semaphore does not starve a consumer, and no error path of Write keeps
\* its place in it.
HasSamples(q) == q \in Made /\ list[q] # <<>>
QueuesDrain == \A q \in QueueIds : HasSamples(q) ~> (~HasSamples(q) \/ q \in closed)
===============================================================================
