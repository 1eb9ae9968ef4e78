----------------------------- MODULE AlertPipeline -----------------------------
(***************************************************************************)
(* The way of an alert event from a processor to the tables: the processor *)
(* pushes it to EventQueue, LoopConsume pops batches and starts a goroutine*)
(* per event (at most NotifyConcurrency at a time), and each goroutine     *)
(* runs EventPersist, a sequence of separate statements.                   *)
(*                                                                         *)
(* The queue holds pointers: an event the processor recovers is the object *)
(* it pushed when the event fired, which may still be on its way.  An      *)
(* event is named by its hash and the number of the push that created it;  *)
(* `recovered` holds the events whose IsRecovered the processor has set.   *)
(*                                                                         *)
(* AlertProcessor says when an event fires, repeats or recovers; here any  *)
(* order of these that it allows may happen.                               *)
(***************************************************************************)
EXTENDS Naturals, Sequences, SequencesExt, FiniteSets

CONSTANTS
  Hashes,        \* the alerts
  Goroutines,    \* NotifyConcurrency goroutine slots of the semaphore
  QueueSize,     \* maxSize of EventQueue
  BatchSize,     \* PopBackBy(100)
  MaxPushes,     \* bound: events pushed
  MaxReloads,    \* bound: workers replaced by the scheduler
  MaxCrashes,    \* bound: restarts of the engine
  MaxDeletes,    \* bound: rows deleted by users
  MaxFailures    \* bound: statements that fail

ASSUME GoroutinesAssumption == IsFiniteSet(Goroutines) /\ Goroutines # {}
ASSUME QueueAssumption == QueueSize \in Nat \ {0} /\ BatchSize \in Nat \ {0}
ASSUME BoundsAssumption == {MaxPushes, MaxReloads, MaxCrashes, MaxDeletes, MaxFailures} \subseteq Nat

VARIABLES
  fires,         \* p.fires: hash -> event
  recovered,     \* the events with IsRecovered
  queue,         \* EventQueue, oldest event first
  batch,         \* events LoopConsume has popped and not yet started
  running,       \* what each goroutine does
  cur,           \* hash -> number of its rows in alert_cur_event
  his,           \* hash -> its rows in alert_his_event, by is_recovered
  pushed,        \* history: hash -> fire events pushed and accepted
  raced,         \* history: alerts that had two events on their way at once
  harmed,        \* history: alerts a fault, a user or a replaced worker got at
  pushes, reloads, crashes, deletes, failures   \* counters of the bounded steps

processorVars == <<fires, recovered, queue, pushed, pushes>>
consumerVars == <<batch, running>>
tableVars == <<cur, his>>
historyVars == <<raced, harmed>>
boundVars == <<reloads, crashes, deletes, failures>>
vars == <<processorVars, consumerVars, tableVars, historyVars, boundVars>>

Event == [hash : Hashes, id : 0..MaxPushes]
NoEvent == [hash |-> "none", id |-> 0]

\* The next statement of a goroutine.
Steps == {"exists", "addHis", "delete", "decide", "addCur", "notify"}
Idle == [step |-> "idle", event |-> NoEvent, has |-> FALSE]

TypeOK ==
  /\ DOMAIN fires \subseteq Hashes
  /\ \A h \in DOMAIN fires : fires[h] \in Event /\ fires[h].hash = h
  /\ recovered \subseteq Event
  /\ queue \in Seq(Event) /\ Len(queue) <= QueueSize
  /\ batch \in Seq(Event) /\ Len(batch) <= BatchSize
  /\ running \in [Goroutines -> {Idle} \cup [step : Steps, event : Event, has : BOOLEAN]]
  /\ cur \in [Hashes -> Nat]
  /\ his \in [Hashes -> [fired : Nat, recovered : Nat]]
  /\ pushed \in [Hashes -> Nat]
  /\ raced \subseteq Hashes /\ harmed \subseteq Hashes
  /\ pushes \in 0..MaxPushes
  /\ reloads \in 0..MaxReloads /\ crashes \in 0..MaxCrashes
  /\ deletes \in 0..MaxDeletes /\ failures \in 0..MaxFailures

Init ==
  /\ fires = [h \in {} |-> NoEvent]
  /\ recovered = {}
  /\ queue = <<>> /\ batch = <<>>
  /\ running = [g \in Goroutines |-> Idle]
  /\ cur = [h \in Hashes |-> 0]
  /\ his = [h \in Hashes |-> [fired |-> 0, recovered |-> 0]]
  /\ pushed = [h \in Hashes |-> 0]
  /\ raced = {} /\ harmed = {}
  /\ pushes = 0 /\ reloads = 0 /\ crashes = 0 /\ deletes = 0 /\ failures = 0

Busy == { g \in Goroutines : running[g] # Idle }
InFlight == ToSet(queue) \cup ToSet(batch) \cup { running[g].event : g \in Busy }
Drained == InFlight = {}
OnTheirWay == { e.hash : e \in InFlight }

-------------------------------------------------------------------------------
\* The processor.

MayPush == pushes < MaxPushes

\* Mutant of Enqueue: the limit of the queue is not checked.
EnqueueAlways(e) == queue' = Append(queue, e)

\* pushEventToQueue: a full queue loses the event, with a warning in the log
Enqueue(e) == queue' = IF Len(queue) >= QueueSize THEN queue ELSE Append(queue, e)
Accepted == Len(queue) < QueueSize

Record(h) ==
  /\ raced' = raced \cup ({h} \cap OnTheirWay)
  /\ harmed' = IF Accepted THEN harmed ELSE harmed \cup {h}

\* fireEvent: a new event, or the repetition of one that has fired
Fire(h) ==
  LET e == [hash |-> h, id |-> pushes + 1]
  IN  /\ MayPush
      /\ fires' = [g \in DOMAIN fires \cup {h} |-> IF g = h THEN e ELSE fires[g]]
      /\ Enqueue(e)
      /\ pushed' = [pushed EXCEPT ![h] = IF Accepted THEN @ + 1 ELSE @]
      /\ pushes' = pushes + 1
      /\ Record(h)
      /\ UNCHANGED <<recovered, consumerVars, tableVars, boundVars>>

\* Mutant of Recover: the event stays in p.fires.
RecoverKeepsFired(h) ==
  /\ MayPush
  /\ h \in DOMAIN fires
  /\ recovered' = recovered \cup {fires[h]}
  /\ Enqueue(fires[h])
  /\ pushes' = pushes + 1
  /\ Record(h)
  /\ UNCHANGED <<fires, pushed, consumerVars, tableVars, boundVars>>

\* RecoverSingle: the fired event itself is marked and pushed again
Recover(h) ==
  /\ MayPush
  /\ h \in DOMAIN fires
  /\ fires' = [g \in DOMAIN fires \ {h} |-> fires[g]]
  /\ recovered' = recovered \cup {fires[h]}
  /\ Enqueue(fires[h])
  /\ pushes' = pushes + 1
  /\ Record(h)
  /\ UNCHANGED <<pushed, consumerVars, tableVars, boundVars>>

-------------------------------------------------------------------------------
\* The consumer.

\* LoopConsume
Pop ==
  LET n == IF Len(queue) < BatchSize THEN Len(queue) ELSE BatchSize
  IN  /\ batch = <<>> /\ queue # <<>>
      /\ batch' = SubSeq(queue, 1, n)
      /\ queue' = SubSeq(queue, n + 1, Len(queue))
      /\ UNCHANGED <<fires, recovered, pushed, pushes, running, tableVars, historyVars, boundVars>>

\* consume: sema.Acquire, then a goroutine for the event
Start(g) ==
  /\ batch # <<>> /\ running[g] = Idle
  /\ running' = [running EXCEPT ![g] = [step |-> "exists", event |-> Head(batch), has |-> FALSE]]
  /\ batch' = Tail(batch)
  /\ UNCHANGED <<processorVars, tableVars, historyVars, boundVars>>

At(g, step) == running[g].step = step
HashOf(g) == running[g].event.hash
IsRecovered(g) == running[g].event \in recovered
Goto(g, step) == running' = [running EXCEPT ![g].step = step]

\* EventPersist: AlertCurEventExists
CheckExists(g) ==
  /\ At(g, "exists")
  /\ running' = [running EXCEPT ![g].step = "addHis", ![g].has = cur[HashOf(g)] > 0]
  /\ UNCHANGED <<batch, processorVars, tableVars, historyVars, boundVars>>

\* Mutant of AddHis: only the first event of an episode is recorded.
AddHisOnce(g) ==
  /\ At(g, "addHis")
  /\ his' = IF IsRecovered(g) THEN [his EXCEPT ![HashOf(g)].recovered = @ + 1]
            ELSE IF running[g].has THEN his
            ELSE [his EXCEPT ![HashOf(g)].fired = @ + 1]
  /\ Goto(g, IF running[g].has THEN "delete" ELSE "decide")
  /\ UNCHANGED <<batch, cur, processorVars, historyVars, boundVars>>

\* EventPersist: his.Add
AddHis(g) ==
  /\ At(g, "addHis")
  /\ his' = IF IsRecovered(g) THEN [his EXCEPT ![HashOf(g)].recovered = @ + 1]
            ELSE [his EXCEPT ![HashOf(g)].fired = @ + 1]
  /\ Goto(g, IF running[g].has THEN "delete" ELSE "decide")
  /\ UNCHANGED <<batch, cur, processorVars, historyVars, boundVars>>

\* Mutant of DeleteCur: only a recovery deletes the row.
DeleteCurOfRecovery(g) ==
  /\ At(g, "delete")
  /\ cur' = IF IsRecovered(g) THEN [cur EXCEPT ![HashOf(g)] = 0] ELSE cur
  /\ Goto(g, "decide")
  /\ UNCHANGED <<batch, his, processorVars, historyVars, boundVars>>

\* EventPersist: AlertCurEventDelByHash
DeleteCur(g) ==
  /\ At(g, "delete")
  /\ cur' = [cur EXCEPT ![HashOf(g)] = 0]
  /\ Goto(g, "decide")
  /\ UNCHANGED <<batch, his, processorVars, historyVars, boundVars>>

\* Mutants of Decide: a recovery is stored like a fire event; a repeated event is
\* not stored again.
DecideAlways(g) ==
  /\ At(g, "decide")
  /\ Goto(g, "addCur")
  /\ UNCHANGED <<batch, processorVars, tableVars, historyVars, boundVars>>
DecideFirst(g) ==
  /\ At(g, "decide")
  /\ Goto(g, IF IsRecovered(g) \/ running[g].has THEN "notify" ELSE "addCur")
  /\ UNCHANGED <<batch, processorVars, tableVars, historyVars, boundVars>>

\* EventPersist: a recovered event gets no row
Decide(g) ==
  /\ At(g, "decide")
  /\ Goto(g, IF IsRecovered(g) THEN "notify" ELSE "addCur")
  /\ UNCHANGED <<batch, processorVars, tableVars, historyVars, boundVars>>

\* EventPersist: event.Add
AddCur(g) ==
  /\ At(g, "addCur")
  /\ cur' = [cur EXCEPT ![HashOf(g)] = @ + 1]
  /\ Goto(g, "notify")
  /\ UNCHANGED <<batch, his, processorVars, historyVars, boundVars>>

\* Mutant of StatementFails: the error path does not release the semaphore.
StatementLeaks(g) ==
  /\ failures < MaxFailures
  /\ running[g].step \in {"exists", "addHis", "delete", "addCur"}
  /\ failures' = failures + 1
  /\ Goto(g, "leaked")
  /\ harmed' = harmed \cup {HashOf(g)}
  /\ UNCHANGED <<batch, processorVars, tableVars, raced, reloads, crashes, deletes>>

\* A statement fails: EventPersist returns the error, which consumeOne logs.
StatementFails(g) ==
  /\ failures < MaxFailures
  /\ running[g].step \in {"exists", "addHis", "delete", "addCur"}
  /\ failures' = failures + 1
  /\ Goto(g, "notify")
  /\ harmed' = harmed \cup {HashOf(g)}
  /\ UNCHANGED <<batch, processorVars, tableVars, raced, reloads, crashes, deletes>>

\* HandleEventNotify starts the sending; sema.Release
Notify(g) ==
  /\ At(g, "notify")
  /\ running' = [running EXCEPT ![g] = Idle]
  /\ UNCHANGED <<batch, processorVars, tableVars, historyVars, boundVars>>

-------------------------------------------------------------------------------
\* The engine stops and starts again: RecoverAlertCurEventFromDb
Crash ==
  /\ crashes < MaxCrashes
  /\ crashes' = crashes + 1
  /\ queue' = <<>> /\ batch' = <<>>
  /\ running' = [g \in Goroutines |-> Idle]
  /\ recovered' = {}
  /\ fires' = [h \in { x \in Hashes : cur[x] > 0 } |-> [hash |-> h, id |-> 0]]
  /\ pushed' = [h \in Hashes |-> his[h].fired]
  /\ UNCHANGED <<pushes, tableVars, historyVars, reloads, deletes, failures>>

\* The scheduler replaces the worker, whose hash has changed: the new processor
\* reads the rows there are, and what is on its way stays on its way.
Reload ==
  /\ reloads < MaxReloads /\ pushes < MaxPushes
  /\ reloads' = reloads + 1
  /\ pushes' = pushes + 1
  /\ fires' = [h \in { x \in Hashes : cur[x] > 0 } |-> [hash |-> h, id |-> pushes + 1]]
  /\ harmed' = harmed \cup OnTheirWay
  /\ UNCHANGED <<recovered, queue, pushed, consumerVars, tableVars, raced, crashes, deletes,
                 failures>>

\* A user deletes the rows of an alert in the web interface: AlertCurEventDel
UserDelete(h) ==
  /\ deletes < MaxDeletes
  /\ cur[h] > 0
  /\ deletes' = deletes + 1
  /\ cur' = [cur EXCEPT ![h] = 0]
  /\ harmed' = harmed \cup {h}
  /\ UNCHANGED <<his, processorVars, consumerVars, raced, reloads, crashes, failures>>

ConsumerStep(g) ==
  \/ Start(g)
  \/ CheckExists(g) \/ AddHis(g) \/ DeleteCur(g) \/ Decide(g) \/ AddCur(g)
  \/ StatementFails(g)
  \/ Notify(g)

Next ==
  \/ \E h \in Hashes : Fire(h) \/ Recover(h) \/ UserDelete(h)
  \/ Pop
  \/ \E g \in Goroutines : ConsumerStep(g)
  \/ Reload
  \/ Crash

Spec == Init /\ [][Next]_vars

\* LoopConsume never stops, and the Go scheduler runs every goroutine.
Fairness == WF_vars(Pop) /\ \A g \in Goroutines : WF_vars(ConsumerStep(g))

FairSpec == Spec /\ Fairness

-------------------------------------------------------------------------------
\* Properties

\* What EventPersist, with no transaction and no unique key on hash, keeps in
\* order: every alert with one goroutine, and with more of them the alerts that
\* never had two events on their way at once.
Serial == Cardinality(Goroutines) = 1
Calm == Hashes \ (harmed \cup raced)
Orderly == IF Serial THEN Hashes \ harmed ELSE Calm

\* No alert has two rows of alert_cur_event.
OneRowPerHash == \A h \in Orderly : cur[h] <= 1

\* With nothing on its way, the table holds no alert that the processor has
\* recovered: an alert does not stay active for ever.
NoStaleRow == Drained => \A h \in Orderly : cur[h] > 0 => h \in DOMAIN fires

\* With nothing on its way, every fired event of the processor has its row, so
\* that a restart finds it.
NoMissingRow == Drained => \A h \in Orderly \cap DOMAIN fires : cur[h] > 0

\* With nothing on its way, alert_his_event holds every fire event the queue
\* accepted, and the recovery of a calm alert finds the row it closes.
Recorded(h) == his[h].fired = pushed[h]
FindsRow(g) == At(g, "decide") /\ IsRecovered(g) => running[g].has
CalmHistory ==
  /\ Drained => \A h \in Calm : Recorded(h)
  /\ \A g \in Busy : HashOf(g) \in Calm => FindsRow(g)

\* The same of all alerts no fault has hit ("every alert and recovery is recorded
\* in the full history", models/alert_his_event.go:273).  It fails: an event is
\* marked recovered while it is still in the queue as a fire event.
HistoryComplete == Drained => \A h \in Hashes \ harmed : Recorded(h)

\* The same of all alerts no fault has hit ("in theory this should not happen",
\* models/alert_his_event.go:300, of a recovery without a row).  It fails with two
\* goroutines: the recovery overtakes the fire event.
RecoveryFindsRow == \A g \in Busy : HashOf(g) \notin harmed => FindsRow(g)

\* The consumer stores or gives up every event it pops, whatever fails: no
\* goroutine keeps its place in the semaphore.
EventuallyDrained == <>[]Drained
===============================================================================
