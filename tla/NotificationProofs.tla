--------------------------- MODULE NotificationProofs ---------------------------
(***************************************************************************)
(* The routing leaves the way to the tables as AlertPipeline has it        *)
(* (Notification), for any rules, subscriptions, channels and bounds; what *)
(* AlertPipelineProofs proves of the tables holds with the routing, too.   *)
(***************************************************************************)
EXTENDS Notification, TLAPS

\* The same pipeline with what is proved of it.
Tables == INSTANCE AlertPipelineProofs

\* What the tables see of a step: one of AlertPipeline, or nothing.
LEMMA StepSimulation == [Next]_vars => [Pipeline!Next]_(Pipeline!vars)
<1> SUFFICES ASSUME [Next]_vars PROVE Pipeline!Next \/ UNCHANGED Pipeline!vars  OBVIOUS
<1>1. UNCHANGED pipelineVars => UNCHANGED Pipeline!vars
  BY DEF pipelineVars, Pipeline!vars, Pipeline!processorVars, Pipeline!consumerVars, Pipeline!tableVars,
         Pipeline!historyVars, Pipeline!boundVars
<1>2. ASSUME NEW h \in Hashes, Fire(h) \/ Recover(h) \/ UserDelete(h) PROVE Pipeline!Next
  BY <1>2 DEF Fire, Recover, UserDelete, Pipeline!Next
<1>3. CASE Consume
  BY <1>3 DEF Consume, Pipeline!Next, Pipeline!ConsumerStep
<1>4. ASSUME NEW g \in Goroutines, AddCur(g) \/ StatementFails(g) \/ Unnoticed(g) \/ Release(g)
      PROVE  Pipeline!Next
  BY <1>4 DEF AddCur, StatementFails, Unnoticed, Release, Pipeline!Next, Pipeline!ConsumerStep
<1>5. ASSUME NEW g \in Goroutines, HandleEventNotify(g) \/ HandleSub(g) PROVE UNCHANGED pipelineVars
  BY <1>5 DEF HandleEventNotify, HandleSub
<1>6. SendStep => UNCHANGED pipelineVars  BY DEF SendStep, Send
<1>7. ReloadTpls => UNCHANGED pipelineVars  BY DEF ReloadTpls
<1>8. ASSUME NEW r \in Rules \cup {None}, EditRule(r) PROVE UNCHANGED pipelineVars
  BY <1>8 DEF EditRule
<1>9. ASSUME NEW s \in Subs, NEW v \in SubVersions, EditSub(s, v) PROVE UNCHANGED pipelineVars
  BY <1>9 DEF EditSub
<1>10. CASE Crash \/ Reload  BY <1>10 DEF Crash, Reload, Pipeline!Next
<1>11. UNCHANGED vars => UNCHANGED pipelineVars  BY DEF vars
<1> QED
  BY <1>1, <1>2, <1>3, <1>4, <1>5, <1>6, <1>7, <1>8, <1>9, <1>10, <1>11 DEF Next, NotifyStep

\* The detailed consumer implements that of AlertPipeline.
THEOREM Refinement == Spec => ImplementsPipeline
<1>1. Init => Pipeline!Init  BY DEF Init
<1> QED  BY <1>1, StepSimulation, PTL DEF Spec, ImplementsPipeline, Pipeline!Spec

-------------------------------------------------------------------------------
\* Once relaodTpls has succeeded the senders are all there.
LoadedInv == (loaded => senders = BuiltIn) /\ NothingMissed

\* No step takes a sender away.
LEMMA LoadedStep == LoadedInv /\ [Next]_vars => LoadedInv'
<1> SUFFICES ASSUME LoadedInv, [Next]_vars PROVE LoadedInv'  OBVIOUS
<1> USE DEF LoadedInv, NothingMissed, sentVars, historyVars, notifyVars
<1>1. ASSUME NEW h \in Hashes, Fire(h) \/ Recover(h) \/ UserDelete(h) PROVE LoadedInv'
  BY <1>1 DEF Fire, Recover, UserDelete
<1>2. CASE Consume  BY <1>2 DEF Consume
<1>3. ASSUME NEW g \in Goroutines, AddCur(g) \/ StatementFails(g) \/ NotifyStep(g) PROVE LoadedInv'
  <2>1. UNCHANGED <<loaded, senders, missed>>
    <3>1. CASE AddCur(g)  BY <3>1 DEF AddCur
    <3>2. CASE StatementFails(g)  BY <3>2 DEF StatementFails
    <3>3. CASE Unnoticed(g)  BY <3>3 DEF Unnoticed
    <3>4. CASE HandleEventNotify(g)  BY <3>4 DEF HandleEventNotify
    <3>5. CASE HandleSub(g)  BY <3>5 DEF HandleSub
    <3>6. CASE Release(g)  BY <3>6 DEF Release
    <3> QED  BY <1>3, <3>1, <3>2, <3>3, <3>4, <3>5, <3>6 DEF NotifyStep
  <2> QED  BY <2>1
<1>4. CASE SendStep
  <2>1. PICK m \in BagToSet(sends), c \in Channels : Send(m, c)  BY <1>4 DEF SendStep
  <2>2. UNCHANGED <<loaded, senders>>  BY <2>1 DEF Send
  <2>3. missed' = IF loaded /\ c \in BuiltIn \ senders THEN missed \cup {m.event.hash} ELSE missed
    BY <2>1 DEF Send
  <2> QED  BY <2>2, <2>3
<1>5. CASE ReloadTpls  BY <1>5 DEF ReloadTpls
<1>6. ASSUME NEW r \in Rules \cup {None}, EditRule(r) PROVE LoadedInv'  BY <1>6 DEF EditRule
<1>7. ASSUME NEW s \in Subs, NEW v \in SubVersions, EditSub(s, v) PROVE LoadedInv'  BY <1>7 DEF EditSub
<1>8. CASE Crash \/ Reload  BY <1>8 DEF Crash, Reload
<1>9. CASE UNCHANGED vars  BY <1>9 DEF vars
<1> QED  BY <1>1, <1>2, <1>3, <1>4, <1>5, <1>6, <1>7, <1>8, <1>9 DEF Next

\* No message is skipped for want of a sender once the templates have been read.
THEOREM NoMessageMissed == Spec => []NothingMissed
<1>1. Init => LoadedInv  BY DEF Init, LoadedInv, NothingMissed
<1>2. LoadedInv => NothingMissed  BY DEF LoadedInv
<1> QED  BY <1>1, <1>2, LoadedStep, PTL DEF Spec

-------------------------------------------------------------------------------
(***************************************************************************)
(* The pipeline of Notification is that of the proofs.                     *)
(***************************************************************************)

\* The assumptions are those of the tables.
LEMMA TablesAssumed == Tables!GoroutinesAssumption /\ Tables!QueueAssumption /\ Tables!BoundsAssumption
<1>1. Tables!IsFiniteSet(Goroutines)  BY PipelineAssumption DEF Tables!IsFiniteSet, IsFiniteSet
<1> QED
  BY <1>1, PipelineAssumption
  DEF Tables!GoroutinesAssumption, Tables!QueueAssumption, Tables!BoundsAssumption

\* The two copies name the same events, ...
LEMMA SameFlight ==
  /\ Pipeline!InFlight = Tables!InFlight /\ Pipeline!InFlight' = Tables!InFlight'
  /\ Pipeline!OnTheirWay = Tables!OnTheirWay /\ Pipeline!OnTheirWay' = Tables!OnTheirWay'
  /\ Pipeline!Calm = Tables!Calm /\ Pipeline!Calm' = Tables!Calm'
  /\ Pipeline!Event = Tables!Event
BY DEF Pipeline!InFlight, Tables!InFlight, Pipeline!Busy, Tables!Busy, Pipeline!Idle, Tables!Idle,
       Pipeline!NoEvent, Tables!NoEvent, Pipeline!ToSet, Tables!ToSet, Pipeline!OnTheirWay,
       Tables!OnTheirWay, Pipeline!Calm, Tables!Calm, Pipeline!Event, Tables!Event

\* ... the same steps of the processor, ...
LEMMA SameProcessor ==
  ASSUME NEW h
  PROVE  /\ Pipeline!Fire(h) <=> Tables!Fire(h)
         /\ Pipeline!Recover(h) <=> Tables!Recover(h)
         /\ Pipeline!UserDelete(h) <=> Tables!UserDelete(h)
<1> USE SameFlight DEF Pipeline!tableVars, Tables!tableVars, Pipeline!consumerVars, Tables!consumerVars,
      Pipeline!boundVars, Tables!boundVars, Pipeline!processorVars, Tables!processorVars,
      Pipeline!MayPush, Tables!MayPush, Pipeline!Enqueue, Tables!Enqueue, Pipeline!Record, Tables!Record,
      Pipeline!Accepted, Tables!Accepted
<1>1. Pipeline!Fire(h) <=> Tables!Fire(h)  BY DEF Pipeline!Fire, Tables!Fire
<1>2. Pipeline!Recover(h) <=> Tables!Recover(h)  BY DEF Pipeline!Recover, Tables!Recover
<1>3. Pipeline!UserDelete(h) <=> Tables!UserDelete(h)  BY DEF Pipeline!UserDelete, Tables!UserDelete
<1> QED  BY <1>1, <1>2, <1>3

\* ... of a goroutine, ...
LEMMA SameConsumer ==
  ASSUME NEW g
  PROVE  /\ Pipeline!Start(g) <=> Tables!Start(g)
         /\ Pipeline!CheckExists(g) <=> Tables!CheckExists(g)
         /\ Pipeline!AddHis(g) <=> Tables!AddHis(g)
         /\ Pipeline!DeleteCur(g) <=> Tables!DeleteCur(g)
         /\ Pipeline!Decide(g) <=> Tables!Decide(g)
         /\ Pipeline!AddCur(g) <=> Tables!AddCur(g)
         /\ Pipeline!StatementFails(g) <=> Tables!StatementFails(g)
         /\ Pipeline!Notify(g) <=> Tables!Notify(g)
         /\ \A step : Pipeline!At(g, step) <=> Tables!At(g, step)
<1> USE DEF Pipeline!tableVars, Tables!tableVars, Pipeline!historyVars, Tables!historyVars,
      Pipeline!boundVars, Tables!boundVars, Pipeline!processorVars, Tables!processorVars,
      Pipeline!At, Tables!At, Pipeline!HashOf, Tables!HashOf, Pipeline!IsRecovered, Tables!IsRecovered,
      Pipeline!Goto, Tables!Goto, Pipeline!Idle, Tables!Idle, Pipeline!NoEvent, Tables!NoEvent
<1>1. Pipeline!Start(g) <=> Tables!Start(g)  BY DEF Pipeline!Start, Tables!Start
<1>2. Pipeline!CheckExists(g) <=> Tables!CheckExists(g)  BY DEF Pipeline!CheckExists, Tables!CheckExists
<1>3. Pipeline!AddHis(g) <=> Tables!AddHis(g)  BY DEF Pipeline!AddHis, Tables!AddHis
<1>4. Pipeline!DeleteCur(g) <=> Tables!DeleteCur(g)  BY DEF Pipeline!DeleteCur, Tables!DeleteCur
<1>5. Pipeline!Decide(g) <=> Tables!Decide(g)  BY DEF Pipeline!Decide, Tables!Decide
<1>6. Pipeline!AddCur(g) <=> Tables!AddCur(g)  BY DEF Pipeline!AddCur, Tables!AddCur
<1>7. Pipeline!StatementFails(g) <=> Tables!StatementFails(g)
  BY DEF Pipeline!StatementFails, Tables!StatementFails
<1>8. Pipeline!Notify(g) <=> Tables!Notify(g)  BY DEF Pipeline!Notify, Tables!Notify
<1>9. \A step : Pipeline!At(g, step) <=> Tables!At(g, step)  OBVIOUS
<1> QED  BY <1>1, <1>2, <1>3, <1>4, <1>5, <1>6, <1>7, <1>8, <1>9

\* ... and of the whole engine.
LEMMA SameRest ==
  /\ Pipeline!Pop <=> Tables!Pop
  /\ Pipeline!Crash <=> Tables!Crash
  /\ Pipeline!Reload <=> Tables!Reload
  /\ Pipeline!Init <=> Tables!Init
  /\ Pipeline!TypeOK <=> Tables!TypeOK
<1> USE SameFlight DEF Pipeline!tableVars, Tables!tableVars, Pipeline!historyVars, Tables!historyVars,
      Pipeline!consumerVars, Tables!consumerVars, Pipeline!boundVars, Tables!boundVars,
      Pipeline!Idle, Tables!Idle, Pipeline!NoEvent, Tables!NoEvent
<1>1. Pipeline!Pop <=> Tables!Pop  BY DEF Pipeline!Pop, Tables!Pop
<1>2. Pipeline!Crash <=> Tables!Crash  BY DEF Pipeline!Crash, Tables!Crash
<1>3. Pipeline!Reload <=> Tables!Reload  BY DEF Pipeline!Reload, Tables!Reload
<1>4. Pipeline!Init <=> Tables!Init  BY DEF Pipeline!Init, Tables!Init
<1>5. Pipeline!TypeOK <=> Tables!TypeOK
  BY DEF Pipeline!TypeOK, Tables!TypeOK, Pipeline!Steps, Tables!Steps
<1> QED  BY <1>1, <1>2, <1>3, <1>4, <1>5

\* What the proofs know of the tables holds with the routing.
LEMMA TablesStep == Tables!IInv /\ [Next]_vars => Tables!IInv'
<1> SUFFICES ASSUME Tables!IInv, [Next]_vars PROVE Tables!IInv'  OBVIOUS
<1>1. [Pipeline!Next]_(Pipeline!vars)  BY StepSimulation
<1>2. Pipeline!vars = Tables!vars /\ Pipeline!vars' = Tables!vars'
  BY DEF Pipeline!vars, Tables!vars, Pipeline!processorVars, Tables!processorVars, Pipeline!consumerVars,
         Tables!consumerVars, Pipeline!tableVars, Tables!tableVars, Pipeline!historyVars,
         Tables!historyVars, Pipeline!boundVars, Tables!boundVars
<1>3. Pipeline!Next => Tables!Next
  <2> SUFFICES ASSUME Pipeline!Next PROVE Tables!Next  OBVIOUS
  <2>1. ASSUME NEW h \in Hashes, Pipeline!Fire(h) \/ Pipeline!Recover(h) \/ Pipeline!UserDelete(h)
        PROVE  Tables!Next
    BY <2>1, SameProcessor DEF Tables!Next
  <2>2. ASSUME NEW g \in Goroutines, Pipeline!ConsumerStep(g)
        PROVE  Tables!Next
    <3>1. Tables!ConsumerStep(g)
      BY <2>2, SameConsumer DEF Pipeline!ConsumerStep, Tables!ConsumerStep
    <3> QED  BY <3>1 DEF Tables!Next
  <2>3. CASE Pipeline!Pop \/ Pipeline!Crash \/ Pipeline!Reload
    BY <2>3, SameRest DEF Tables!Next
  <2> QED  BY <2>1, <2>2, <2>3 DEF Pipeline!Next
<1>4. [Tables!Next]_(Tables!vars)  BY <1>1, <1>2, <1>3
<1> QED  BY <1>4, TablesAssumed, Tables!InvStep

\* The tables begin as their proofs have it.
LEMMA TablesInit == Init => Tables!IInv
BY SameRest, TablesAssumed, Tables!InvInit DEF Init

-------------------------------------------------------------------------------
(***************************************************************************)
(* What the routing sees of a step of the pipeline.                        *)
(***************************************************************************)

\* The event that fires.
New(h) == [hash |-> h, id |-> pushes + 1]

\* A push of e: it gets on its way alone, or its alert is not calm any more.
Pushed(e) ==
  /\ pushes' = pushes + 1 /\ UNCHANGED <<batch, running, cur>>
  /\ Tables!InFlight \subseteq Tables!InFlight' /\ Tables!InFlight' \subseteq Tables!InFlight \cup {e}
  /\ Tables!Calm' \subseteq Tables!Calm
  /\ e.hash \in Tables!Calm' => e.hash \notin Tables!OnTheirWay /\ e \in Tables!InFlight'

\* A push to the queue is one for the routing.
LEMMA PushEffect ==
  ASSUME Tables!IInv, NEW e \in Tables!Event, Tables!Enqueue(e), Tables!Record(e.hash),
         UNCHANGED <<batch, running, cur>>, pushes' = pushes + 1
  PROVE  Pushed(e)
<1>1. Tables!InFlight' = IF Tables!Accepted THEN Tables!InFlight \cup {e} ELSE Tables!InFlight
  BY TablesAssumed, Tables!PushFlight DEF Tables!IInv
<1>2. Tables!Calm' \subseteq Tables!Calm
  BY DEF Tables!Record, Tables!Calm
<1>3. e.hash \in Tables!Calm' => e.hash \notin Tables!OnTheirWay /\ Tables!Accepted
  BY DEF Tables!Record, Tables!Calm
<1> QED  BY <1>1, <1>2, <1>3 DEF Pushed

\* The new event of a fire is the one the processor holds.
LEMMA FireEffect ==
  ASSUME Tables!IInv, NEW h \in Hashes, Tables!Fire(h)
  PROVE  /\ New(h) \in Tables!Event /\ Pushed(New(h)) /\ UNCHANGED recovered
         /\ DOMAIN fires' = DOMAIN fires \cup {h} /\ fires'[h] = New(h)
         /\ \A k \in DOMAIN fires \ {h} : fires'[k] = fires[k]
<1>1. pushes \in Nat /\ pushes + 1 \in 0..MaxPushes
  <2>1. pushes \in 0..MaxPushes /\ MaxPushes \in Nat /\ pushes < MaxPushes
    BY PipelineAssumption DEF Tables!IInv, Tables!TypeOK, Tables!Fire, Tables!MayPush
  <2> QED  BY <2>1
<1>2. New(h) \in Tables!Event /\ New(h).hash = h  BY <1>1 DEF New, Tables!Event
<1>3. /\ Tables!Enqueue(New(h)) /\ Tables!Record(h) /\ pushes' = pushes + 1
      /\ UNCHANGED <<batch, running, cur, recovered>>
      /\ fires' = [g \in DOMAIN fires \cup {h} |-> IF g = h THEN New(h) ELSE fires[g]]
  BY DEF Tables!Fire, New, Tables!consumerVars, Tables!tableVars
<1>4. Pushed(New(h))  BY <1>2, <1>3, PushEffect
<1> QED  BY <1>2, <1>3, <1>4

\* A recovery pushes the event that fired, now marked.
LEMMA RecoverEffect ==
  ASSUME Tables!IInv, NEW h \in Hashes, Tables!Recover(h)
  PROVE  /\ h \in DOMAIN fires /\ fires[h] \in Tables!Event /\ fires[h].hash = h
         /\ Pushed(fires[h]) /\ recovered' = recovered \cup {fires[h]}
         /\ DOMAIN fires' = DOMAIN fires \ {h}
         /\ \A k \in DOMAIN fires \ {h} : fires'[k] = fires[k]
<1>1. h \in DOMAIN fires /\ fires[h] \in Tables!Event /\ fires[h].hash = h
  BY DEF Tables!IInv, Tables!TypeOK, Tables!Recover
<1>2. /\ Tables!Enqueue(fires[h]) /\ Tables!Record(h) /\ pushes' = pushes + 1
      /\ UNCHANGED <<batch, running, cur>> /\ recovered' = recovered \cup {fires[h]}
      /\ fires' = [g \in DOMAIN fires \ {h} |-> fires[g]]
  BY DEF Tables!Recover, Tables!consumerVars, Tables!tableVars
<1>3. Pushed(fires[h])  BY <1>1, <1>2, PushEffect
<1> QED  BY <1>1, <1>2, <1>3

\* What happens between the queue and the notification: no event comes or goes, and
\* a goroutine that notifies is left alone.
Moved ==
  /\ UNCHANGED <<fires, recovered, pushes>>
  /\ Tables!InFlight' = Tables!InFlight /\ Tables!Calm' \subseteq Tables!Calm
  /\ \A g \in Goroutines :
       /\ running[g] # Tables!Idle =>
            running'[g] # Tables!Idle /\ running'[g].event = running[g].event
       /\ Tables!At(g, "notify") => running'[g] = running[g]
       /\ running[g] = Tables!Idle => ~Tables!At(g, "notify")'

Statement(g) ==
  \/ Tables!CheckExists(g) \/ Tables!AddHis(g) \/ Tables!DeleteCur(g) \/ Tables!Decide(g)
  \/ Tables!AddCur(g) \/ Tables!StatementFails(g)

\* A statement moves one goroutine.
LEMMA StatementMoves ==
  ASSUME Tables!IInv, NEW g \in Goroutines, Statement(g)
  PROVE  Moved /\ \A f \in Goroutines \ {g} : running'[f] = running[f]
<1>1. /\ UNCHANGED <<fires, recovered, pushes, raced>> /\ harmed \subseteq harmed'
  BY DEF Statement, Tables!CheckExists, Tables!AddHis, Tables!DeleteCur, Tables!Decide, Tables!AddCur,
         Tables!StatementFails, Tables!processorVars, Tables!historyVars
<1>2. Tables!Calm' \subseteq Tables!Calm  BY <1>1 DEF Tables!Calm
<1>3. /\ Tables!InFlight' = Tables!InFlight
      /\ running[g] # Tables!Idle /\ running'[g] # Tables!Idle /\ running[g].step # "notify"
      /\ running'[g].event = running[g].event
      /\ \A f \in Goroutines \ {g} : running'[f] = running[f]
  BY TablesAssumed, Tables!StatementFlight DEF Tables!IInv, Statement
<1> QED  BY <1>1, <1>2, <1>3 DEF Moved, Tables!At, Tables!Idle

\* LoopConsume and the other statements.
LEMMA ConsumeMoves ==
  ASSUME Tables!IInv, Consume
  PROVE  Moved
<1>1. CASE Pipeline!Pop
  <2>1. Tables!Pop  BY <1>1, SameRest
  <2>2. UNCHANGED <<fires, recovered, pushes, running, harmed, raced>>
    BY <2>1 DEF Tables!Pop, Tables!historyVars
  <2>3. Tables!InFlight' = Tables!InFlight
    BY <2>1, TablesAssumed, Tables!PopFlight DEF Tables!IInv
  <2> QED  BY <2>2, <2>3 DEF Moved, Tables!Calm, Tables!At, Tables!Idle
<1>2. ASSUME NEW g \in Goroutines, Pipeline!Start(g) PROVE Moved
  <2>1. Tables!Start(g)  BY <1>2, SameConsumer
  <2>2. UNCHANGED <<fires, recovered, pushes, harmed, raced>>
    BY <2>1 DEF Tables!Start, Tables!processorVars, Tables!historyVars
  <2>3. /\ Tables!InFlight' = Tables!InFlight
        /\ running[g] = Tables!Idle /\ running'[g].step = "exists"
        /\ \A f \in Goroutines \ {g} : running'[f] = running[f]
    BY <2>1, TablesAssumed, Tables!StartFlight DEF Tables!IInv
  <2> QED  BY <2>2, <2>3 DEF Moved, Tables!Calm, Tables!At, Tables!Idle
<1>3. ASSUME NEW g \in Goroutines,
             Pipeline!CheckExists(g) \/ Pipeline!AddHis(g) \/ Pipeline!DeleteCur(g) \/ Pipeline!Decide(g)
      PROVE  Moved
  <2>1. Statement(g)  BY <1>3, SameConsumer DEF Statement
  <2> QED  BY <2>1, StatementMoves
<1> QED  BY <1>1, <1>2, <1>3 DEF Consume

\* The end of a goroutine.
Ended(g) ==
  /\ UNCHANGED <<fires, recovered, pushes, harmed, raced>>
  /\ Tables!InFlight' \subseteq Tables!InFlight
  /\ \A e \in Tables!InFlight : e # running[g].event => e \in Tables!InFlight'
  /\ Tables!At(g, "notify") /\ running[g] # Tables!Idle /\ running'[g] = Tables!Idle
  /\ \A f \in Goroutines \ {g} : running'[f] = running[f]
  /\ running[g].event.hash \in Tables!Calm => running[g].event.hash \notin Tables!OnTheirWay'

\* The last step of a goroutine frees it.
LEMMA NotifyEnds ==
  ASSUME Tables!IInv, NEW g \in Goroutines, Pipeline!Notify(g)
  PROVE  Ended(g)
<1>1. Tables!Notify(g)  BY SameConsumer
<1>2. Tables!At(g, "notify") /\ UNCHANGED <<fires, recovered, pushes, harmed, raced>>
  BY <1>1 DEF Tables!Notify, Tables!processorVars, Tables!historyVars
<1> QED  BY <1>1, <1>2, TablesAssumed, Tables!NotifyFlight DEF Ended

\* The steps of the routing and of users.
Routed == UNCHANGED <<fires, recovered, queue, batch, running, cur, pushes, harmed, raced>>

\* The routing leaves what is on its way.
LEMMA RoutedKeeps ==
  ASSUME Routed
  PROVE  /\ Tables!InFlight' = Tables!InFlight /\ Tables!Calm' = Tables!Calm
         /\ Tables!OnTheirWay' = Tables!OnTheirWay
BY DEF Routed, Tables!InFlight, Tables!Busy, Tables!ToSet, Tables!Calm, Tables!OnTheirWay, Tables!Idle,
       Tables!NoEvent

\* The processor reads the rows; a crash stops everything, a reload harms what is on
\* its way.
LEMMA RereadEffect ==
  ASSUME Tables!IInv, Tables!IInv', Tables!Crash \/ Tables!Reload
  PROVE  /\ DOMAIN fires' \subseteq Hashes
         /\ \A h \in DOMAIN fires' : fires'[h] \in Tables!Event /\ fires'[h].hash = h
         /\ Tables!Calm' \subseteq Tables!Calm /\ pushes <= pushes' /\ pushes' \in Nat
         /\ \A h \in Tables!Calm' : h \notin Tables!OnTheirWay =>
              (h \in DOMAIN fires' <=> h \in DOMAIN fires)
         /\ Tables!Crash => /\ Tables!InFlight' = {} /\ recovered' = {}
                            /\ \A g \in Goroutines : running'[g] = Tables!Idle
         /\ Tables!Reload => /\ UNCHANGED <<recovered, running>> /\ Tables!InFlight' = Tables!InFlight
                             /\ Tables!Calm' \cap Tables!OnTheirWay = {}
                             /\ pushes' = pushes + 1
                             /\ \A h \in DOMAIN fires' : fires'[h].id = pushes + 1
<1>1. /\ DOMAIN fires' \subseteq Hashes
      /\ \A h \in DOMAIN fires' : fires'[h] \in Tables!Event /\ fires'[h].hash = h
  BY DEF Tables!IInv, Tables!TypeOK
<1>2. Tables!Calm' \subseteq Tables!Calm
  BY DEF Tables!Crash, Tables!Reload, Tables!Calm, Tables!historyVars
<1>3. pushes <= pushes' /\ pushes' \in Nat
  BY DEF Tables!Crash, Tables!Reload, Tables!IInv, Tables!TypeOK
<1>4. \A h \in Hashes : h \in DOMAIN fires' <=> cur[h] > 0
  BY DEF Tables!Crash, Tables!Reload
<1>5. ASSUME NEW h \in Tables!Calm', h \notin Tables!OnTheirWay
      PROVE  h \in DOMAIN fires' <=> h \in DOMAIN fires
  <2>1. h \in Tables!Calm /\ h \in Hashes /\ h \in Tables!Orderly
    BY <1>2 DEF Tables!Calm, Tables!Orderly
  <2>2. ~Tables!InQueue(h) /\ ~Tables!InBatch(h) /\ \A g \in Goroutines : ~Tables!Runs(g, h)
    BY <1>5, TablesAssumed, Tables!OnTheirWayIs
  <2> QED  BY <1>4, <2>1, <2>2 DEF Tables!IInv, Tables!RestAgrees
<1>6. ASSUME Tables!Crash
      PROVE  /\ Tables!InFlight' = {} /\ recovered' = {}
             /\ \A g \in Goroutines : running'[g] = Tables!Idle
  <2>1. /\ queue' = <<>> /\ batch' = <<>> /\ recovered' = {}
        /\ running' = [g \in Goroutines |-> Tables!Idle]
    BY <1>6 DEF Tables!Crash
  <2>2. \A g \in Goroutines : running'[g] = Tables!Idle  BY <2>1
  <2>3. Tables!Busy' = {}  BY <2>2 DEF Tables!Busy, Tables!Idle, Tables!NoEvent
  <2>4. Tables!ToSet(queue') = {} /\ Tables!ToSet(batch') = {}  BY <2>1 DEF Tables!ToSet
  <2> QED  BY <2>1, <2>2, <2>3, <2>4 DEF Tables!InFlight
<1>7. ASSUME Tables!Reload
      PROVE  /\ UNCHANGED <<recovered, running>> /\ Tables!InFlight' = Tables!InFlight
             /\ Tables!Calm' \cap Tables!OnTheirWay = {}
             /\ pushes' = pushes + 1
             /\ \A h \in DOMAIN fires' : fires'[h].id = pushes + 1
  <2>1. /\ UNCHANGED <<recovered, running, queue, batch>> /\ pushes' = pushes + 1
        /\ harmed' = harmed \cup Tables!OnTheirWay
        /\ fires' = [h \in { x \in Hashes : cur[x] > 0 } |-> [hash |-> h, id |-> pushes + 1]]
    BY <1>7 DEF Tables!Reload, Tables!consumerVars
  <2>2. Tables!InFlight' = Tables!InFlight
    BY <2>1 DEF Tables!InFlight, Tables!Busy, Tables!ToSet, Tables!Idle, Tables!NoEvent
  <2>3. Tables!Calm' \cap Tables!OnTheirWay = {}  BY <2>1 DEF Tables!Calm
  <2> QED  BY <2>1, <2>2, <2>3
<1> QED  BY <1>1, <1>2, <1>3, <1>5, <1>6, <1>7

-------------------------------------------------------------------------------
(***************************************************************************)
(* Types.                                                                  *)
(***************************************************************************)

\* A goroutine of Send is added, unless nobody is to be told.
LEMMA SpawnAdds ==
  ASSUME NEW e, NEW s, NEW to, NEW r, Spawn(e, s, to, r), NEW m \in BagToSet(sends')
  PROVE  \/ m \in BagToSet(sends)
         \/ to # {} /\ m = [event |-> e, sub |-> s, to |-> to, recovered |-> r]
BY DEF Spawn, BagToSet, (+), SetToBag

\* Send works on a message until nobody is left.
LEMMA SendLeaves ==
  ASSUME NEW m \in BagToSet(sends), NEW c, Send(m, c), NEW n \in BagToSet(sends')
  PROVE  \/ n \in BagToSet(sends)
         \/ m.to \ {a \in m.to : a.channel = c} # {}
            /\ n = [m EXCEPT !.to = m.to \ {a \in m.to : a.channel = c}]
BY DEF Send, BagToSet, (+), (-), SetToBag

\* The steps that leave the pipeline alone.
LEMMA RoutedSteps ==
  /\ \A g \in Goroutines : HandleEventNotify(g) \/ HandleSub(g) => Routed
  /\ SendStep \/ ReloadTpls \/ UNCHANGED vars => Routed
  /\ \A r : EditRule(r) => Routed
  /\ \A s, v : EditSub(s, v) => Routed
<1> USE DEF Routed, pipelineVars
<1>1. \A g \in Goroutines : HandleEventNotify(g) => Routed  BY DEF HandleEventNotify
<1>2. \A g \in Goroutines : HandleSub(g) => Routed  BY DEF HandleSub
<1>3. SendStep => Routed  BY DEF SendStep, Send
<1>4. ReloadTpls \/ UNCHANGED vars => Routed  BY DEF ReloadTpls, vars
<1>5. \A r : EditRule(r) => Routed  BY DEF EditRule
<1>6. \A s, v : EditSub(s, v) => Routed  BY DEF EditSub
<1> QED  BY <1>1, <1>2, <1>3, <1>4, <1>5, <1>6

\* Only pushes and restarts bring events, and give them fields.
LEMMA OtherSteps ==
  ASSUME Tables!IInv, [Next]_vars
  PROVE  \/ \E h \in Hashes : Fire(h) \/ Recover(h)
         \/ Crash \/ Reload
         \/ UNCHANGED <<fires, recovered, detail, pushes>> /\ Tables!InFlight' \subseteq Tables!InFlight
<1> DEFINE Other == UNCHANGED <<fires, recovered, detail, pushes>> /\ Tables!InFlight' \subseteq Tables!InFlight
<1>1. ASSUME NEW h \in Hashes, UserDelete(h) PROVE Other
  <2>1. Pipeline!UserDelete(h) /\ UNCHANGED detail  BY <1>1 DEF UserDelete
  <2>2. UNCHANGED <<fires, recovered, queue, batch, running, pushes>>
    BY <2>1 DEF Pipeline!UserDelete, Pipeline!processorVars, Pipeline!consumerVars
  <2> QED  BY <2>1, <2>2 DEF Tables!InFlight, Tables!Busy, Tables!ToSet, Tables!Idle, Tables!NoEvent
<1>2. ASSUME Consume PROVE Other
  BY <1>2, ConsumeMoves DEF Moved, Consume
<1>3. ASSUME NEW g \in Goroutines, AddCur(g) \/ StatementFails(g) PROVE Other
  <2>1. Statement(g) /\ UNCHANGED detail
    BY <1>3, SameConsumer DEF Statement, AddCur, StatementFails
  <2> QED  BY <2>1, StatementMoves DEF Moved
<1>4. ASSUME NEW g \in Goroutines, Unnoticed(g) \/ Release(g) PROVE Other
  <2>1. Pipeline!Notify(g) /\ UNCHANGED detail  BY <1>4 DEF Unnoticed, Release
  <2> QED  BY <2>1, NotifyEnds DEF Ended
<1>5. ASSUME NEW g \in Goroutines, HandleEventNotify(g) \/ HandleSub(g) PROVE Other
  <2>1. UNCHANGED detail  BY <1>5 DEF HandleEventNotify, HandleSub
  <2>2. Routed  BY <1>5, RoutedSteps
  <2> QED  BY <2>1, <2>2, RoutedKeeps DEF Routed
<1>6. ASSUME SendStep \/ ReloadTpls \/ UNCHANGED vars PROVE Other
  <2>1. UNCHANGED detail  BY <1>6 DEF SendStep, Send, ReloadTpls, vars
  <2>2. Routed  BY <1>6, RoutedSteps
  <2> QED  BY <2>1, <2>2, RoutedKeeps DEF Routed
<1>7. ASSUME NEW r, EditRule(r) PROVE Other
  BY <1>7, RoutedSteps, RoutedKeeps DEF Routed, EditRule
<1>8. ASSUME NEW s, NEW v, EditSub(s, v) PROVE Other
  BY <1>8, RoutedSteps, RoutedKeeps DEF Routed, EditSub
<1> HIDE DEF Other
<1>9. ASSUME NEW g \in Goroutines, AddCur(g) \/ StatementFails(g) \/ NotifyStep(g) PROVE Other
  BY <1>3, <1>4, <1>5, <1>9 DEF NotifyStep
<1>10. (\E h \in Hashes : Fire(h) \/ Recover(h)) \/ Crash \/ Reload \/ Other
  BY <1>1, <1>2, <1>6, <1>7, <1>8, <1>9 DEF Next
<1> QED  BY <1>10 DEF Other

-------------------------------------------------------------------------------
(***************************************************************************)
(* Types, variable by variable.                                            *)
(***************************************************************************)

ConfigTypes ==
  /\ rule \in {None} \cup Rules /\ subs \in [Subs -> SubVersions]
  /\ senders \subseteq BuiltIn /\ loaded \in BOOLEAN /\ troubles \in 0..MaxTroubles

\* What the routing reads from the caches.
LEMMA ConfigStep == ConfigTypes /\ [Next]_vars => ConfigTypes'
<1> SUFFICES ASSUME ConfigTypes, [Next]_vars PROVE ConfigTypes'  OBVIOUS
<1> DEFINE Same == UNCHANGED <<rule, subs, senders, loaded>>
<1> USE DEF configVars, notifyVars, historyVars
<1>1. troubles' \in 0..MaxTroubles
  <2>1. ASSUME Trouble PROVE troubles' \in 0..MaxTroubles
    BY <2>1, NotificationBounds DEF Trouble, ConfigTypes
  <2>2. UNCHANGED troubles \/ Trouble
    <3>1. ASSUME NEW g \in Goroutines, NotifyStep(g) PROVE UNCHANGED troubles
      BY <3>1 DEF NotifyStep, Unnoticed, HandleEventNotify, HandleSub, Release
    <3>2. ASSUME NEW g \in Goroutines, AddCur(g) \/ StatementFails(g) PROVE UNCHANGED troubles \/ Trouble
      BY <3>2 DEF AddCur, StatementFails
    <3>3. ASSUME NEW h \in Hashes, Fire(h) \/ Recover(h) \/ UserDelete(h) PROVE UNCHANGED troubles \/ Trouble
      BY <3>3 DEF Fire, Recover, UserDelete
    <3>4. Consume \/ SendStep \/ ReloadTpls \/ UNCHANGED vars => UNCHANGED troubles
      BY DEF Consume, SendStep, Send, ReloadTpls, vars
    <3>5. Crash \/ Reload => Trouble  BY DEF Crash, Reload
    <3>6. (\E r \in Rules \cup {None} : EditRule(r)) \/ (\E s \in Subs, v \in SubVersions : EditSub(s, v))
            => Trouble
      BY DEF EditRule, EditSub
    <3> QED  BY <3>1, <3>2, <3>3, <3>4, <3>5, <3>6 DEF Next
  <2> QED  BY <2>1, <2>2 DEF ConfigTypes
<1>2. ASSUME Same PROVE ConfigTypes'  BY <1>1, <1>2 DEF ConfigTypes
<1>3. ASSUME NEW h \in Hashes, Fire(h) \/ Recover(h) \/ UserDelete(h) PROVE Same
  BY <1>3 DEF Fire, Recover, UserDelete
<1>4. ASSUME NEW g \in Goroutines, AddCur(g) \/ StatementFails(g) PROVE Same
  BY <1>4 DEF AddCur, StatementFails
<1>5. ASSUME NEW g \in Goroutines, NotifyStep(g) PROVE Same
  <2>1. CASE Unnoticed(g) \/ HandleEventNotify(g)  BY <2>1 DEF Unnoticed, HandleEventNotify
  <2>2. CASE HandleSub(g) \/ Release(g)  BY <2>2 DEF HandleSub, Release
  <2> QED  BY <1>5, <2>1, <2>2 DEF NotifyStep
<1>6. Consume \/ Reload \/ UNCHANGED vars => Same
  BY DEF Consume, Reload, vars
<1>7. SendStep => Same  BY DEF SendStep, Send
<1>8. CASE ReloadTpls  BY <1>1, <1>8 DEF ReloadTpls, ConfigTypes
<1>9. CASE Crash  BY <1>1, <1>9 DEF Crash, ConfigTypes
<1>10. ASSUME NEW r \in Rules \cup {None}, EditRule(r) PROVE ConfigTypes'
  BY <1>1, <1>10 DEF EditRule, ConfigTypes
<1>11. ASSUME NEW s \in Subs, NEW v \in SubVersions, EditSub(s, v) PROVE ConfigTypes'
  BY <1>1, <1>11 DEF EditSub, ConfigTypes
<1> HIDE DEF Same
<1> QED  BY <1>2, <1>3, <1>4, <1>5, <1>6, <1>7, <1>8, <1>9, <1>10, <1>11 DEF Next

\* The events that are on their way or fire have fields.
DetailTypes ==
  /\ \A e \in DOMAIN detail : e \in Tables!Event /\ detail[e] \in Detail
  /\ \A h \in DOMAIN fires : fires[h] \in DOMAIN detail
  /\ Tables!InFlight \subseteq DOMAIN detail
  /\ rowAge \in [Hashes -> 0..MaxAge]

\* The fields BuildEvent and UpdateEvent give an event.
LEMMA DetailOfTyped ==
  ASSUME NEW r, NEW age \in 0..MaxAge,
         r \in Rules \/ r = [groups |-> {}, channels |-> {}, notifyRecovered |-> FALSE]
  PROVE  DetailOf(r, age) \in Detail /\ DetailOf(r, age).age = age
         /\ DetailOf(r, age).notifyRecovered = r.notifyRecovered
<1>1. r.groups \in SUBSET Groups /\ r.channels \in SUBSET Channels /\ r.notifyRecovered \in BOOLEAN
  <2>1. CASE r \in Rules
    <3>1. r \in [groups : SUBSET Groups, channels : SUBSET Channels, notifyRecovered : BOOLEAN]
      BY <2>1, RulesAssumption
    <3> QED  BY <3>1
  <2>2. CASE r = [groups |-> {}, channels |-> {}, notifyRecovered |-> FALSE]
    BY <2>2
  <2> QED  BY <2>1, <2>2
<1> QED  BY <1>1 DEF DetailOf, Detail

\* A goroutine runs an event that has fields.
LEMMA RunningTyped ==
  ASSUME Tables!IInv, DetailTypes, NEW g \in Goroutines, running[g] # Tables!Idle
  PROVE  /\ Event(g) \in Tables!InFlight /\ Event(g) \in Tables!Event /\ Event(g).hash \in Hashes
         /\ Event(g) \in DOMAIN detail /\ detail[Event(g)] \in Detail
<1>1. Event(g) \in Tables!InFlight  BY DEF Event, Tables!InFlight, Tables!Busy
<1> QED  BY <1>1 DEF DetailTypes, Tables!Event

\* What Fire does to the fields.
LEMMA FireDetail ==
  ASSUME Tables!IInv, DetailTypes, ConfigTypes, NEW h \in Hashes, Fire(h)
  PROVE  /\ Tables!Fire(h) /\ fires'[h] = New(h) /\ DOMAIN detail' = DOMAIN detail \cup {New(h)}
         /\ detail'[New(h)] \in Detail
         /\ h \in DOMAIN fires => detail'[New(h)].age >= detail[fires[h]].age
         /\ \A e \in DOMAIN detail \ {New(h)} : detail'[e] = detail[e]
<1>1. Tables!Fire(h)  BY SameProcessor DEF Fire
<1>2. fires'[h] = New(h)  BY <1>1, FireEffect
<1>3. rule \in Rules  BY DEF Fire, ConfigTypes
<1>4. PICK age \in 0..MaxAge :
        /\ IF h \in DOMAIN fires THEN age >= detail[fires[h]].age ELSE age = 0
        /\ detail' = [e \in DOMAIN detail \cup {fires'[h]} |->
                       IF e = fires'[h] THEN DetailOf(rule, age) ELSE detail[e]]
  BY DEF Fire
<1>5. detail'[New(h)] = DetailOf(rule, age)  BY <1>2, <1>4
<1>6. DetailOf(rule, age) \in Detail /\ DetailOf(rule, age).age = age  BY <1>3, DetailOfTyped
<1> QED  BY <1>1, <1>2, <1>4, <1>5, <1>6

\* What Recover does to the fields.
LEMMA RecoverDetail ==
  ASSUME Tables!IInv, DetailTypes, ConfigTypes, NEW h \in Hashes, Recover(h)
  PROVE  /\ Tables!Recover(h) /\ DOMAIN detail' = DOMAIN detail /\ fires[h] \in DOMAIN detail
         /\ rule \in Rules
         /\ detail'[fires[h]] \in Detail /\ detail'[fires[h]].age = detail[fires[h]].age
         /\ \A e \in DOMAIN detail \ {fires[h]} : detail'[e] = detail[e]
<1>1. Tables!Recover(h)  BY SameProcessor DEF Recover
<1>2. fires[h] \in DOMAIN detail  BY <1>1, RecoverEffect DEF DetailTypes
<1>3. rule \in Rules  BY DEF Recover, ConfigTypes
<1>4. detail[fires[h]].age \in 0..MaxAge  BY <1>2 DEF DetailTypes, Detail
<1>5. detail' = [detail EXCEPT ![fires[h]] = DetailOf(rule, detail[fires[h]].age)]  BY DEF Recover
<1>6. /\ DetailOf(rule, detail[fires[h]].age) \in Detail
      /\ DetailOf(rule, detail[fires[h]].age).age = detail[fires[h]].age
  BY <1>3, <1>4, DetailOfTyped
<1> QED  BY <1>1, <1>2, <1>3, <1>5, <1>6

\* What the processor reads from a row has the age the row says.
LEMMA RereadDetail ==
  ASSUME DetailTypes, Reread, \A h \in DOMAIN fires' : fires'[h] \in Tables!Event /\ fires'[h].hash = h,
         DOMAIN fires' \subseteq Hashes
  PROVE  /\ DOMAIN detail' = DOMAIN detail \cup { fires'[h] : h \in DOMAIN fires' }
         /\ \A e \in DOMAIN detail' : detail'[e] \in Detail
         /\ \A h \in DOMAIN fires' : fires'[h] \in DOMAIN detail' /\ detail'[fires'[h]].age = rowAge[h]
         /\ \A e \in DOMAIN detail : (\A h \in DOMAIN fires' : fires'[h] # e) => detail'[e] = detail[e]
<1> DEFINE Bare == [groups |-> {}, channels |-> {}, notifyRecovered |-> FALSE]
           Read(e) == \E h \in DOMAIN fires' : fires'[h] = e
           Rows == { fires'[h] : h \in DOMAIN fires' }
<1>1. detail' = [e \in DOMAIN detail \cup Rows |->
                  IF Read(e) THEN DetailOf(Bare, rowAge[e.hash]) ELSE detail[e]]
  BY DEF Reread
<1>2. \A h \in DOMAIN fires' : rowAge[h] \in 0..MaxAge /\ fires'[h].hash = h  BY DEF DetailTypes
<1>3. \A age \in 0..MaxAge : DetailOf(Bare, age) \in Detail /\ DetailOf(Bare, age).age = age
  BY DetailOfTyped
<1> HIDE DEF Bare
<1>4. \A h \in DOMAIN fires' : /\ fires'[h] \in DOMAIN detail'
                               /\ detail'[fires'[h]] = DetailOf(Bare, rowAge[h])
  BY <1>1, <1>2
<1>5. \A e \in DOMAIN detail : ~Read(e) => detail'[e] = detail[e]  BY <1>1
<1>6. ASSUME NEW e \in DOMAIN detail' PROVE detail'[e] \in Detail
  <2>1. CASE Read(e)  BY <1>2, <1>3, <1>4, <2>1
  <2>2. CASE ~Read(e)
    <3>1. e \in DOMAIN detail  BY <1>1, <2>2
    <3> QED  BY <1>5, <2>2, <3>1 DEF DetailTypes
  <2> QED  BY <2>1, <2>2
<1> QED  BY <1>1, <1>2, <1>3, <1>4, <1>5, <1>6

\* No step takes the fields of an event away.
LEMMA DetailStep ==
  ASSUME Tables!IInv, Tables!IInv', ConfigTypes, DetailTypes, [Next]_vars
  PROVE  DetailTypes' /\ DOMAIN detail \subseteq DOMAIN detail'
<1>1. ASSUME NEW h \in Hashes, Fire(h) PROVE DetailTypes' /\ DOMAIN detail \subseteq DOMAIN detail'
  <2>1. /\ Tables!Fire(h) /\ fires'[h] = New(h) /\ DOMAIN detail' = DOMAIN detail \cup {New(h)}
        /\ detail'[New(h)] \in Detail
        /\ \A e \in DOMAIN detail \ {New(h)} : detail'[e] = detail[e]
    BY <1>1, FireDetail
  <2>2. /\ New(h) \in Tables!Event /\ Tables!InFlight' \subseteq Tables!InFlight \cup {New(h)}
        /\ DOMAIN fires' = DOMAIN fires \cup {h}
        /\ \A k \in DOMAIN fires \ {h} : fires'[k] = fires[k]
    BY <2>1, FireEffect DEF Pushed
  <2>3. UNCHANGED rowAge  BY <1>1 DEF Fire
  <2>4. \A e \in DOMAIN detail' : e \in Tables!Event' /\ detail'[e] \in Detail
    BY <2>1, <2>2 DEF DetailTypes, Tables!Event
  <2> QED  BY <2>1, <2>2, <2>3, <2>4 DEF DetailTypes
<1>2. ASSUME NEW h \in Hashes, Recover(h) PROVE DetailTypes' /\ DOMAIN detail \subseteq DOMAIN detail'
  <2>1. /\ Tables!Recover(h) /\ DOMAIN detail' = DOMAIN detail /\ fires[h] \in DOMAIN detail
        /\ detail'[fires[h]] \in Detail
        /\ \A e \in DOMAIN detail \ {fires[h]} : detail'[e] = detail[e]
    BY <1>2, RecoverDetail
  <2>2. /\ Tables!InFlight' \subseteq Tables!InFlight \cup {fires[h]}
        /\ DOMAIN fires' = DOMAIN fires \ {h}
        /\ \A k \in DOMAIN fires \ {h} : fires'[k] = fires[k]
    BY <2>1, RecoverEffect DEF Pushed
  <2>3. UNCHANGED rowAge  BY <1>2 DEF Recover
  <2>4. \A e \in DOMAIN detail' : e \in Tables!Event' /\ detail'[e] \in Detail
    BY <2>1, <2>2 DEF DetailTypes, Tables!Event
  <2> QED  BY <2>1, <2>2, <2>3, <2>4 DEF DetailTypes
<1>3. ASSUME Crash \/ Reload PROVE DetailTypes' /\ DOMAIN detail \subseteq DOMAIN detail'
  <2>1. Tables!Crash \/ Tables!Reload  BY <1>3, SameRest DEF Crash, Reload
  <2>2. Reread /\ UNCHANGED rowAge  BY <1>3 DEF Crash, Reload
  <2>3. /\ DOMAIN fires' \subseteq Hashes
        /\ \A h \in DOMAIN fires' : fires'[h] \in Tables!Event /\ fires'[h].hash = h
        /\ Tables!InFlight' \subseteq Tables!InFlight
    BY <2>1, RereadEffect
  <2>4. /\ DOMAIN detail' = DOMAIN detail \cup { fires'[h] : h \in DOMAIN fires' }
        /\ \A e \in DOMAIN detail' : detail'[e] \in Detail
    BY <2>2, <2>3, RereadDetail
  <2>5. \A e \in DOMAIN detail' : e \in Tables!Event' /\ detail'[e] \in Detail
    BY <2>3, <2>4 DEF DetailTypes, Tables!Event
  <2> QED  BY <2>2, <2>3, <2>4, <2>5 DEF DetailTypes
<1>4. ASSUME UNCHANGED <<fires, recovered, detail, pushes>>, Tables!InFlight' \subseteq Tables!InFlight
      PROVE  DetailTypes' /\ DOMAIN detail \subseteq DOMAIN detail'
  <2>1. rowAge' \in [Hashes -> 0..MaxAge]
    <3>1. ASSUME NEW g \in Goroutines, AddCur(g) PROVE rowAge' \in [Hashes -> 0..MaxAge]
      <4>1. Tables!AddCur(g)  BY <3>1, SameConsumer DEF AddCur
      <4>2. running[g] # Tables!Idle  BY <4>1 DEF Tables!AddCur, Tables!At, Tables!Idle
      <4>3. detail[Event(g)].age \in 0..MaxAge  BY <4>2, RunningTyped DEF Detail
      <4> QED  BY <3>1, <4>3 DEF AddCur, DetailTypes
    <3>2. ASSUME NEW g \in Goroutines, StatementFails(g) \/ NotifyStep(g) PROVE UNCHANGED rowAge
      BY <3>2 DEF StatementFails, NotifyStep, Unnoticed, HandleEventNotify, HandleSub, Release
    <3>3. ASSUME NEW h \in Hashes, Fire(h) \/ Recover(h) \/ UserDelete(h) PROVE UNCHANGED rowAge
      BY <3>3 DEF Fire, Recover, UserDelete
    <3>4. Consume \/ SendStep \/ ReloadTpls \/ UNCHANGED vars => UNCHANGED rowAge
      BY DEF Consume, SendStep, Send, ReloadTpls, vars
    <3>5. Crash \/ Reload => UNCHANGED rowAge  BY DEF Crash, Reload
    <3>6. (\E r \in Rules \cup {None} : EditRule(r)) \/ (\E s \in Subs, v \in SubVersions : EditSub(s, v))
            => UNCHANGED rowAge
      BY DEF EditRule, EditSub
    <3>7. UNCHANGED rowAge => rowAge' \in [Hashes -> 0..MaxAge]  BY DEF DetailTypes
    <3> QED  BY <3>1, <3>2, <3>3, <3>4, <3>5, <3>6, <3>7 DEF Next
  <2> QED  BY <1>4, <2>1 DEF DetailTypes, Tables!Event
<1> QED  BY <1>1, <1>2, <1>3, <1>4, OtherSteps

\* A goroutine that has told the receivers of the rule is at its notification.
Placed ==
  /\ DOMAIN todo = Goroutines
  /\ \A g \in Goroutines : todo[g] # None => Tables!At(g, "notify")

\* A goroutine that notifies is not idle.
LEMMA NotifyRuns ==
  ASSUME NEW g, Tables!At(g, "notify")
  PROVE  running[g] # Tables!Idle
BY DEF Tables!At, Tables!Idle

\* Only the goroutine itself moves its list, and only its end moves the goroutine.
LEMMA PlacedStep == Tables!IInv /\ Placed /\ [Next]_vars => Placed'
<1> SUFFICES ASSUME Tables!IInv, Placed, [Next]_vars PROVE Placed'  OBVIOUS
<1> USE DEF notifyVars
<1>1. ASSUME UNCHANGED todo, \A g \in Goroutines : Tables!At(g, "notify") => running'[g] = running[g]
      PROVE  Placed'
  BY <1>1 DEF Placed, Tables!At
<1>2. ASSUME NEW h \in Hashes, Fire(h) \/ Recover(h) \/ UserDelete(h) PROVE Placed'
  <2>1. Pipeline!Fire(h) \/ Pipeline!Recover(h) \/ Pipeline!UserDelete(h)
    BY <1>2 DEF Fire, Recover, UserDelete
  <2>2. UNCHANGED <<running, todo>>
    <3>1. UNCHANGED todo  BY <1>2 DEF Fire, Recover, UserDelete
    <3>2. UNCHANGED running
      BY <2>1 DEF Pipeline!Fire, Pipeline!Recover, Pipeline!UserDelete, Pipeline!consumerVars
    <3> QED  BY <3>1, <3>2
  <2> QED  BY <1>1, <2>2
<1>3. CASE Consume  BY <1>1, <1>3, ConsumeMoves DEF Moved, Consume
<1>4. ASSUME NEW g \in Goroutines, AddCur(g) \/ StatementFails(g) PROVE Placed'
  <2>1. Statement(g) /\ UNCHANGED todo
    BY <1>4, SameConsumer DEF Statement, AddCur, StatementFails
  <2> QED  BY <1>1, <2>1, StatementMoves DEF Moved
<1>5. ASSUME NEW g \in Goroutines, Unnoticed(g) PROVE Placed'
  <2>1. Ended(g) /\ todo[g] = None /\ UNCHANGED todo  BY <1>5, NotifyEnds DEF Unnoticed
  <2> QED  BY <2>1 DEF Placed, Ended, Tables!At
<1>6. ASSUME NEW g \in Goroutines, Release(g) PROVE Placed'
  <2>1. Ended(g) /\ todo' = [todo EXCEPT ![g] = None]  BY <1>6, NotifyEnds DEF Release
  <2> QED  BY <2>1 DEF Placed, Ended, Tables!At
<1>7. ASSUME NEW g \in Goroutines, HandleEventNotify(g) PROVE Placed'
  <2>1. /\ todo' = [todo EXCEPT ![g] = {[sub |-> s, version |-> subs[s]] : s \in Subs}]
        /\ Tables!At(g, "notify") /\ UNCHANGED running
    BY <1>7, SameConsumer DEF HandleEventNotify, pipelineVars
  <2> QED  BY <2>1 DEF Placed, Tables!At
<1>8. ASSUME NEW g \in Goroutines, HandleSub(g) PROVE Placed'
  <2>1. todo[g] # None /\ UNCHANGED running  BY <1>8 DEF HandleSub, pipelineVars
  <2>2. PICK t \in todo[g] : todo' = [todo EXCEPT ![g] = @ \ {t}]  BY <1>8 DEF HandleSub
  <2> QED  BY <2>1, <2>2 DEF Placed, Tables!At
<1>9. CASE SendStep \/ ReloadTpls \/ UNCHANGED vars
  BY <1>1, <1>9, RoutedSteps DEF SendStep, Send, ReloadTpls, vars, Routed
<1>10. ASSUME NEW r, EditRule(r) PROVE Placed'
  BY <1>1, <1>10, RoutedSteps DEF EditRule, Routed
<1>11. ASSUME NEW s, NEW v, EditSub(s, v) PROVE Placed'
  BY <1>1, <1>11, RoutedSteps DEF EditSub, Routed
<1>12. CASE Crash  BY <1>12 DEF Crash, Placed
<1>13. CASE Reload
  BY <1>1, <1>13 DEF Reload, Pipeline!Reload, Pipeline!consumerVars
<1> QED
  BY <1>2, <1>3, <1>4, <1>5, <1>6, <1>7, <1>8, <1>9, <1>10, <1>11, <1>12, <1>13 DEF Next, NotifyStep

\* The subscriptions a goroutine has still to come to, and what is being sent.
SendTypes ==
  /\ \A g \in Goroutines : todo[g] = None \/ todo[g] \subseteq [sub : Subs, version : SubVersions]
  /\ \A m \in BagToSet(sends) :
       /\ m.event \in DOMAIN detail /\ m.sub \in Subs \cup {Main}
       /\ m.to # {} /\ m.to \subseteq Address /\ m.recovered \in BOOLEAN

\* The users of groups on channels are receivers.
LEMMA TargetsTyped ==
  ASSUME NEW gs \in SUBSET Groups, NEW cs \in SUBSET Channels
  PROVE  Targets(gs, cs) \subseteq Address
BY DEF Targets, Address, Users

\* The receivers of a subscription the event matches.
LEMMA SubTargetsTyped ==
  ASSUME NEW e \in DOMAIN detail, detail[e] \in Detail, NEW v \in SubVersions
  PROVE  SubTargets(e, v) \subseteq Address
<1>1. v.groups \in SUBSET Groups /\ v.channels \in {None} \cup SUBSET Channels  BY SubVersionsAssumption
<1>2. detail[e].channels \in SUBSET Channels  BY DEF Detail
<1> QED  BY <1>1, <1>2, TargetsTyped DEF SubTargets

\* Messages are made with receivers and leave when they have none.
LEMMA SendTypesStep ==
  ASSUME Tables!IInv, ConfigTypes, DetailTypes, Placed, SendTypes, DOMAIN detail \subseteq DOMAIN detail',
         [Next]_vars
  PROVE  SendTypes'
<1> DEFINE Message(m) == /\ m.event \in DOMAIN detail /\ m.sub \in Subs \cup {Main}
                         /\ m.to # {} /\ m.to \subseteq Address /\ m.recovered \in BOOLEAN
           Todo(T) == T = None \/ T \subseteq [sub : Subs, version : SubVersions]
<1> USE DEF notifyVars
<1>1. ASSUME \A g \in Goroutines : Todo(todo'[g]), \A m \in BagToSet(sends') : Message(m)
      PROVE  SendTypes'
  BY <1>1 DEF SendTypes
<1>2. (\A g \in Goroutines : Todo(todo[g])) /\ \A m \in BagToSet(sends) : Message(m)
  BY DEF SendTypes
<1>3. UNCHANGED <<todo, sends>> => SendTypes'  BY <1>1, <1>2
<1>4. ASSUME NEW h \in Hashes, Fire(h) \/ Recover(h) \/ UserDelete(h) PROVE UNCHANGED <<todo, sends>>
  BY <1>4 DEF Fire, Recover, UserDelete
<1>5. ASSUME NEW g \in Goroutines, AddCur(g) \/ StatementFails(g) \/ Unnoticed(g)
      PROVE  UNCHANGED <<todo, sends>>
  BY <1>5 DEF AddCur, StatementFails, Unnoticed
<1>6. Consume \/ ReloadTpls \/ Reload \/ UNCHANGED vars => UNCHANGED <<todo, sends>>
  BY DEF Consume, ReloadTpls, Reload, vars
<1>7. ASSUME NEW r, EditRule(r) PROVE UNCHANGED <<todo, sends>>  BY <1>7 DEF EditRule
<1>8. ASSUME NEW s, NEW v, EditSub(s, v) PROVE UNCHANGED <<todo, sends>>  BY <1>8 DEF EditSub
<1>9. ASSUME NEW g \in Goroutines, HandleEventNotify(g) PROVE SendTypes'
  <2>1. Tables!At(g, "notify")  BY <1>9, SameConsumer DEF HandleEventNotify
  <2>2. Event(g) \in DOMAIN detail /\ detail[Event(g)] \in Detail  BY <2>1, NotifyRuns, RunningTyped
  <2> DEFINE to == Targets(detail[Event(g)].groups, detail[Event(g)].channels)
  <2>3. to \subseteq Address  BY <2>2, TargetsTyped DEF Detail
  <2>4. Spawn(Event(g), Main, to, FALSE)  BY <1>9 DEF HandleEventNotify
  <2> HIDE DEF to
  <2>5. ASSUME NEW m \in BagToSet(sends') PROVE Message(m)
    <3>1. \/ m \in BagToSet(sends)
          \/ to # {} /\ m = [event |-> Event(g), sub |-> Main, to |-> to, recovered |-> FALSE]
      BY <2>4, SpawnAdds
    <3>2. ASSUME m = [event |-> Event(g), sub |-> Main, to |-> to, recovered |-> FALSE]
          PROVE  m.event = Event(g) /\ m.sub = Main /\ m.to = to /\ m.recovered = FALSE
      BY <3>2
    <3> QED  BY <1>2, <2>2, <2>3, <3>1, <3>2
  <2>6. todo' = [todo EXCEPT ![g] = {[sub |-> s, version |-> subs[s]] : s \in Subs}]
    BY <1>9 DEF HandleEventNotify
  <2>7. \A f \in Goroutines : Todo(todo'[f])  BY <1>2, <2>6 DEF Placed, ConfigTypes
  <2> QED  BY <1>1, <2>5, <2>7
<1>10. ASSUME NEW g \in Goroutines, HandleSub(g) PROVE SendTypes'
  <2>1. todo[g] # None /\ Tables!At(g, "notify")  BY <1>10 DEF HandleSub, Placed
  <2>2. Event(g) \in DOMAIN detail /\ detail[Event(g)] \in Detail  BY <2>1, NotifyRuns, RunningTyped
  <2>3. PICK t \in todo[g] :
          /\ todo' = [todo EXCEPT ![g] = @ \ {t}]
          /\ \/ Spawn(Event(g), t.sub, SubTargets(Event(g), t.version), IsRecovered(g))
             \/ UNCHANGED sends
    BY <1>10 DEF HandleSub
  <2>4. t.sub \in Subs /\ t.version \in SubVersions  BY <2>1 DEF SendTypes
  <2> DEFINE to == SubTargets(Event(g), t.version)
  <2>5. to \subseteq Address /\ IsRecovered(g) \in BOOLEAN
    BY <2>2, <2>4, SubTargetsTyped DEF IsRecovered
  <2> HIDE DEF to
  <2>6. ASSUME NEW m \in BagToSet(sends') PROVE Message(m)
    <3>1. \/ m \in BagToSet(sends)
          \/ to # {} /\ m = [event |-> Event(g), sub |-> t.sub, to |-> to, recovered |-> IsRecovered(g)]
      BY <2>3, SpawnAdds DEF to
    <3> QED  BY <1>2, <2>2, <2>4, <2>5, <3>1
  <2>7. ASSUME NEW f \in Goroutines PROVE Todo(todo'[f])
    <3>1. CASE f = g
      <4>1. todo'[f] = todo[g] \ {t}  BY <2>3, <3>1 DEF Placed
      <4> QED  BY <2>1, <4>1 DEF SendTypes
    <3>2. CASE f # g  BY <1>2, <2>3, <3>2 DEF Placed
    <3> QED  BY <3>1, <3>2
  <2> QED  BY <1>1, <2>6, <2>7
<1>11. ASSUME NEW g \in Goroutines, Release(g) PROVE SendTypes'
  <2>1. todo' = [todo EXCEPT ![g] = None] /\ UNCHANGED sends  BY <1>11 DEF Release
  <2>2. \A f \in Goroutines : Todo(todo'[f])  BY <1>2, <2>1 DEF Placed
  <2> QED  BY <1>1, <1>2, <2>1, <2>2
<1>12. CASE SendStep
  <2>1. PICK m \in BagToSet(sends), c \in Channels : Send(m, c)  BY <1>12 DEF SendStep
  <2>2. UNCHANGED todo  BY <2>1 DEF Send
  <2>3. ASSUME NEW n \in BagToSet(sends') PROVE Message(n)
    <3> DEFINE left == m.to \ {a \in m.to : a.channel = c}
    <3>1. n \in BagToSet(sends) \/ (left # {} /\ n = [m EXCEPT !.to = left])  BY <2>1, SendLeaves
    <3>2. left \subseteq m.to  OBVIOUS
    <3>3. Message(m)  BY <1>2
    <3> HIDE DEF left
    <3>4. ASSUME n = [m EXCEPT !.to = left], left # {} PROVE Message(n)
      <4>1. n.event = m.event /\ n.sub = m.sub /\ n.recovered = m.recovered  BY <3>4
      <4>2. n.to = left  BY <3>4
      <4> QED  BY <3>2, <3>3, <3>4, <4>1, <4>2
    <3> QED  BY <1>2, <3>1, <3>4
  <2> QED  BY <1>1, <1>2, <2>2, <2>3
<1>13. CASE Crash
  <2>1. sends' = EmptyBag /\ todo' = [g \in Goroutines |-> None]  BY <1>13 DEF Crash
  <2>2. BagToSet(sends') = {}  BY <2>1 DEF EmptyBag, BagToSet, SetToBag
  <2> QED  BY <1>1, <2>1, <2>2
<1> QED
  BY <1>3, <1>4, <1>5, <1>6, <1>7, <1>8, <1>9, <1>10, <1>11, <1>12, <1>13 DEF Next, NotifyStep

\* The histories.
HistoryTypes ==
  /\ alerted \in [Subs -> SUBSET Hashes]
  /\ unheard \subseteq [sub : Subs, hash : Hashes] /\ disturbed \subseteq [sub : Subs, hash : Hashes]
  /\ unasked \subseteq [sub : Subs \cup {Main}, hash : Hashes]
  /\ missed \subseteq Hashes

\* The alerts that are open are alerts.
LEMMA OpenTyped ==
  ASSUME Tables!IInv
  PROVE  Open \subseteq Hashes /\ Tables!OnTheirWay \subseteq Hashes /\ Tables!InFlight \subseteq Tables!Event
<1>1. DOMAIN fires \subseteq Hashes  BY DEF Tables!IInv, Tables!TypeOK
<1>2. Tables!InFlight \subseteq Tables!Event
  BY TablesAssumed, Tables!EventsTyped
  DEF Tables!IInv, Tables!InFlight, Tables!Busy, Tables!ToSet
<1> QED  BY <1>1, <1>2, SameFlight DEF Open, Tables!OnTheirWay, Tables!Event

\* The histories name alerts and subscriptions.
LEMMA HistoryStep ==
  ASSUME Tables!IInv, ConfigTypes, DetailTypes, Placed, SendTypes, HistoryTypes, [Next]_vars
  PROVE  HistoryTypes'
<1> USE DEF historyVars, sentVars
<1>1. ASSUME UNCHANGED <<alerted, unheard, disturbed, unasked, missed>> PROVE HistoryTypes'
  BY <1>1 DEF HistoryTypes
<1>2. ASSUME NEW h \in Hashes, Fire(h) \/ Recover(h) \/ UserDelete(h)
      PROVE UNCHANGED <<alerted, unheard, disturbed, unasked, missed>>
  BY <1>2 DEF Fire, Recover, UserDelete
<1>3. ASSUME NEW g \in Goroutines, AddCur(g) \/ StatementFails(g) \/ HandleEventNotify(g) \/ Release(g)
      PROVE UNCHANGED <<alerted, unheard, disturbed, unasked, missed>>
  <2>1. AddCur(g) \/ StatementFails(g) => UNCHANGED <<alerted, unheard, disturbed, unasked, missed>>
    BY DEF AddCur, StatementFails
  <2>2. HandleEventNotify(g) \/ Release(g) => UNCHANGED <<alerted, unheard, disturbed, unasked, missed>>
    BY DEF HandleEventNotify, Release
  <2> QED  BY <1>3, <2>1, <2>2
<1>4. Consume \/ ReloadTpls \/ Reload \/ UNCHANGED vars
        => UNCHANGED <<alerted, unheard, disturbed, unasked, missed>>
  BY DEF Consume, ReloadTpls, Reload, vars
<1>5. ASSUME NEW ss \in SUBSET Subs, NEW hs \in SUBSET Hashes, Disturb(ss, hs),
             UNCHANGED <<alerted, unheard, unasked, missed>>
      PROVE  HistoryTypes'
  BY <1>5 DEF HistoryTypes, Disturb
<1>6. ASSUME NEW r, EditRule(r) PROVE HistoryTypes'
  <2>1. (IF r = None THEN Open ELSE {}) \in SUBSET Hashes  BY OpenTyped
  <2> QED  BY <1>5, <1>6, <2>1 DEF EditRule
<1>7. ASSUME NEW s \in Subs, NEW v, EditSub(s, v) PROVE HistoryTypes'
  BY <1>5, <1>7, OpenTyped DEF EditSub
<1>8. CASE Crash
  BY <1>5, <1>8, OpenTyped, SameFlight DEF Crash
<1>9. ASSUME NEW g \in Goroutines, Unnoticed(g) PROVE HistoryTypes'
  BY <1>9 DEF Unnoticed, HistoryTypes
<1>10. ASSUME NEW g \in Goroutines, HandleSub(g) PROVE HistoryTypes'
  <2>1. todo[g] # None /\ Tables!At(g, "notify")  BY <1>10 DEF HandleSub, Placed
  <2>2. Event(g).hash \in Hashes  BY <2>1, NotifyRuns, RunningTyped
  <2>3. PICK t \in todo[g] :
          /\ Told(t.sub, Event(g).hash, IsRecovered(g)) \/ UNCHANGED <<alerted, unheard>>
          /\ UNCHANGED <<disturbed, unasked, missed>>
    BY <1>10 DEF HandleSub
  <2>4. t.sub \in Subs  BY <2>1 DEF SendTypes
  <2>5. ASSUME Told(t.sub, Event(g).hash, IsRecovered(g))
        PROVE  /\ alerted' \in [Subs -> SUBSET Hashes]
               /\ unheard' \subseteq [sub : Subs, hash : Hashes]
    <3>1. alerted' \in [Subs -> SUBSET Hashes]
      BY <2>2, <2>4, <2>5 DEF Told, HistoryTypes
    <3>2. unheard' \subseteq unheard \cup {[sub |-> t.sub, hash |-> Event(g).hash]}  BY <2>5 DEF Told
    <3>3. [sub |-> t.sub, hash |-> Event(g).hash] \in [sub : Subs, hash : Hashes]  BY <2>2, <2>4
    <3> QED  BY <3>1, <3>2, <3>3 DEF HistoryTypes
  <2> QED  BY <2>3, <2>5 DEF HistoryTypes
<1>11. CASE SendStep
  <2>1. PICK m \in BagToSet(sends), c \in Channels : Send(m, c)  BY <1>11 DEF SendStep
  <2>2. m.sub \in Subs \cup {Main} /\ m.event.hash \in Hashes
    BY DEF SendTypes, DetailTypes, Tables!Event
  <2>3. /\ unasked' \subseteq unasked \cup {[sub |-> m.sub, hash |-> m.event.hash]}
        /\ missed' \subseteq missed \cup {m.event.hash}
        /\ UNCHANGED <<alerted, unheard, disturbed>>
    BY <2>1 DEF Send
  <2>4. [sub |-> m.sub, hash |-> m.event.hash] \in [sub : Subs \cup {Main}, hash : Hashes]  BY <2>2
  <2> QED  BY <2>2, <2>3, <2>4 DEF HistoryTypes
<1> QED
  BY <1>1, <1>2, <1>3, <1>4, <1>6, <1>7, <1>8, <1>9, <1>10, <1>11 DEF Next, NotifyStep

\* What is known of the routing, with what is known of the tables.
Typed == Tables!IInv /\ ConfigTypes /\ DetailTypes /\ Placed /\ SendTypes /\ HistoryTypes

\* The state has its type at the start.
LEMMA TypedInit == Init => Typed
<1> SUFFICES ASSUME Init PROVE Typed  OBVIOUS
<1>1. Tables!IInv  BY TablesInit
<1>2. ConfigTypes
  <2>1. troubles \in 0..MaxTroubles  BY NotificationBounds DEF Init
  <2> QED  BY <2>1 DEF Init, ConfigTypes
<1>3. DetailTypes
  <2>1. Tables!Init  BY SameRest DEF Init
  <2>2. DOMAIN fires = {} /\ queue = <<>> /\ batch = <<>> /\ \A g \in Goroutines : running[g] = Tables!Idle
    BY <2>1 DEF Tables!Init
  <2>3. Tables!InFlight = {}  BY <2>2 DEF Tables!InFlight, Tables!Busy, Tables!ToSet
  <2>4. DOMAIN detail = {} /\ rowAge \in [Hashes -> 0..MaxAge]  BY NotificationBounds DEF Init
  <2> QED  BY <2>2, <2>3, <2>4 DEF DetailTypes
<1>4. Placed  BY DEF Init, Placed
<1>5. SendTypes
  <2>1. BagToSet(sends) = {}  BY DEF Init, EmptyBag, BagToSet, SetToBag
  <2> QED  BY <2>1 DEF Init, SendTypes
<1>6. HistoryTypes  BY DEF Init, HistoryTypes
<1> QED  BY <1>1, <1>2, <1>3, <1>4, <1>5, <1>6 DEF Typed

\* Every step keeps the types, which rest on each other.
LEMMA TypedStep == Typed /\ [Next]_vars => Typed' /\ DOMAIN detail \subseteq DOMAIN detail'
<1> SUFFICES ASSUME Typed, [Next]_vars PROVE Typed' /\ DOMAIN detail \subseteq DOMAIN detail'  OBVIOUS
<1>1. Tables!IInv'  BY TablesStep DEF Typed
<1>2. ConfigTypes'  BY ConfigStep DEF Typed
<1>3. DetailTypes' /\ DOMAIN detail \subseteq DOMAIN detail'  BY <1>1, DetailStep DEF Typed
<1>4. Placed'  BY PlacedStep DEF Typed
<1>5. SendTypes'  BY <1>3, SendTypesStep DEF Typed
<1>6. HistoryTypes'  BY HistoryStep DEF Typed
<1> QED  BY <1>1, <1>2, <1>3, <1>4, <1>5, <1>6 DEF Typed

\* The state of the routing keeps its type: a message in particular always has
\* somebody left to tell, and its event has the fields Send reads.
THEOREM TypeCorrect == Spec => []TypeOK
<1>1. Typed => TypeOK
  <2> SUFFICES ASSUME Typed PROVE TypeOK  OBVIOUS
  <2> QED
    BY SameFlight DEF Typed, ConfigTypes, DetailTypes, SendTypes, HistoryTypes, TypeOK
<1> QED  BY <1>1, TypedInit, TypedStep, PTL DEF Spec

-------------------------------------------------------------------------------
(***************************************************************************)
(* Recoveries that nobody asked for.                                       *)
(***************************************************************************)

\* Once an alert is not calm it stays so, and the pushes are counted.
LEMMA Grows ==
  ASSUME Typed, [Next]_vars
  PROVE  Tables!Calm' \subseteq Tables!Calm /\ pushes <= pushes' /\ pushes \in Nat /\ pushes' \in Nat
<1>1. pushes \in Nat  BY DEF Typed, Tables!IInv, Tables!TypeOK
<1>2. pushes' = pushes \/ pushes' = pushes + 1
  <2> USE DEF Pipeline!processorVars, Pipeline!boundVars
  <2>1. ASSUME NEW h, Pipeline!Fire(h) \/ Pipeline!Recover(h) \/ Pipeline!UserDelete(h)
        PROVE  pushes' = pushes \/ pushes' = pushes + 1
    BY <2>1 DEF Pipeline!Fire, Pipeline!Recover, Pipeline!UserDelete
  <2>2. ASSUME NEW g, Pipeline!ConsumerStep(g) PROVE pushes' = pushes
    BY <2>2 DEF Pipeline!ConsumerStep, Pipeline!Start, Pipeline!CheckExists, Pipeline!AddHis,
       Pipeline!DeleteCur, Pipeline!Decide, Pipeline!AddCur, Pipeline!StatementFails, Pipeline!Notify
  <2>3. ASSUME Pipeline!Pop \/ Pipeline!Crash \/ Pipeline!Reload
        PROVE  pushes' = pushes \/ pushes' = pushes + 1
    BY <2>3 DEF Pipeline!Pop, Pipeline!Crash, Pipeline!Reload
  <2> QED  BY <2>1, <2>2, <2>3, StepSimulation DEF Pipeline!Next, Pipeline!vars
<1>3. harmed \subseteq harmed' /\ raced \subseteq raced'
  <2> USE DEF Pipeline!historyVars, Pipeline!Record
  <2>1. ASSUME NEW h, Pipeline!Fire(h) \/ Pipeline!Recover(h) \/ Pipeline!UserDelete(h)
        PROVE  harmed \subseteq harmed' /\ raced \subseteq raced'
    BY <2>1 DEF Pipeline!Fire, Pipeline!Recover, Pipeline!UserDelete
  <2>2. ASSUME NEW g, Pipeline!ConsumerStep(g) PROVE harmed \subseteq harmed' /\ raced \subseteq raced'
    BY <2>2 DEF Pipeline!ConsumerStep, Pipeline!Start, Pipeline!CheckExists, Pipeline!AddHis,
       Pipeline!DeleteCur, Pipeline!Decide, Pipeline!AddCur, Pipeline!StatementFails, Pipeline!Notify
  <2>3. ASSUME Pipeline!Pop \/ Pipeline!Crash \/ Pipeline!Reload
        PROVE  harmed \subseteq harmed' /\ raced \subseteq raced'
    BY <2>3 DEF Pipeline!Pop, Pipeline!Crash, Pipeline!Reload
  <2> QED  BY <2>1, <2>2, <2>3, StepSimulation DEF Pipeline!Next, Pipeline!vars
<1>4. Tables!Calm' \subseteq Tables!Calm  BY <1>3 DEF Tables!Calm
<1> QED  BY <1>1, <1>2, <1>4

\* A goroutine with subscriptions left runs the event it ran before.
LEMMA TodoFrom ==
  ASSUME Typed, [Next]_vars, NEW g \in Goroutines, todo'[g] # None
  PROVE  /\ running'[g] = running[g] /\ ~Crash /\ Tables!At(g, "notify")
         /\ HandleEventNotify(g) \/ (todo[g] # None /\ todo'[g] \subseteq todo[g])
<1> USE DEF notifyVars
<1>1. CASE todo'[g] = todo[g]
  <2>1. Tables!At(g, "notify") /\ todo[g] # None  BY <1>1 DEF Typed, Placed
  <2>2. ~Crash  BY DEF Crash
  <2>3. ASSUME NEW h \in Hashes, Fire(h) \/ Recover(h) \/ UserDelete(h) PROVE UNCHANGED running
    <3>1. Pipeline!Fire(h) \/ Pipeline!Recover(h) \/ Pipeline!UserDelete(h)
      BY <2>3 DEF Fire, Recover, UserDelete
    <3> QED  BY <3>1 DEF Pipeline!Fire, Pipeline!Recover, Pipeline!UserDelete, Pipeline!consumerVars
  <2>4. Consume => running'[g] = running[g]  BY <2>1, ConsumeMoves DEF Typed, Moved
  <2>5. ASSUME NEW f \in Goroutines, AddCur(f) \/ StatementFails(f) PROVE running'[g] = running[g]
    <3>1. Statement(f)  BY <2>5, SameConsumer DEF Statement, AddCur, StatementFails
    <3> QED  BY <2>1, <3>1, StatementMoves DEF Typed, Moved
  <2>6. ASSUME NEW f \in Goroutines, Unnoticed(f) \/ Release(f) PROVE running'[g] = running[g]
    <3>1. f # g
      BY <1>1, <2>1, <2>6 DEF Unnoticed, Release, Typed, Placed
    <3>2. Ended(f)  BY <2>6, NotifyEnds DEF Unnoticed, Release, Typed
    <3> QED  BY <3>1, <3>2 DEF Ended
  <2>7. ASSUME NEW f \in Goroutines, HandleEventNotify(f) \/ HandleSub(f) PROVE UNCHANGED running
    BY <2>7, RoutedSteps DEF Routed
  <2>8. SendStep \/ ReloadTpls \/ UNCHANGED vars => UNCHANGED running
    BY RoutedSteps DEF Routed
  <2>9. (\E r : EditRule(r)) \/ (\E s, v : EditSub(s, v)) => UNCHANGED running
    BY RoutedSteps DEF Routed
  <2>10. Reload => UNCHANGED running  BY DEF Reload, Pipeline!Reload, Pipeline!consumerVars
  <2>11. running'[g] = running[g]
    BY <2>2, <2>3, <2>4, <2>5, <2>6, <2>7, <2>8, <2>9, <2>10 DEF Next, NotifyStep
  <2> QED  BY <1>1, <2>1, <2>2, <2>11
<1>2. CASE todo'[g] # todo[g]
  <2>1. ASSUME NEW h \in Hashes, Fire(h) \/ Recover(h) \/ UserDelete(h) PROVE UNCHANGED todo
    BY <2>1 DEF Fire, Recover, UserDelete
  <2>2. ASSUME NEW f \in Goroutines, AddCur(f) \/ StatementFails(f) \/ Unnoticed(f) PROVE UNCHANGED todo
    BY <2>2 DEF AddCur, StatementFails, Unnoticed
  <2>3. Consume \/ ReloadTpls \/ Reload \/ UNCHANGED vars => UNCHANGED todo
    BY DEF Consume, ReloadTpls, Reload, vars
  <2>4. SendStep => UNCHANGED todo  BY DEF SendStep, Send
  <2>5. (\E r : EditRule(r)) \/ (\E s, v : EditSub(s, v)) => UNCHANGED todo  BY DEF EditRule, EditSub
  <2>6. ~Crash  BY DEF Crash
  <2>7. ASSUME NEW f \in Goroutines, Release(f) PROVE todo'[g] = None \/ todo'[g] = todo[g]
    BY <2>7 DEF Release, Typed, Placed
  <2>8. PICK f \in Goroutines : HandleEventNotify(f) \/ HandleSub(f)
    BY <1>2, <2>1, <2>2, <2>3, <2>4, <2>5, <2>6, <2>7 DEF Next, NotifyStep
  <2>9. UNCHANGED running  BY <2>8, RoutedSteps DEF Routed
  <2>10. f = g  BY <1>2, <2>8 DEF HandleEventNotify, HandleSub, Typed, Placed
  <2>11. CASE HandleEventNotify(g)
    BY <2>6, <2>9, <2>11, SameConsumer DEF HandleEventNotify
  <2>12. CASE HandleSub(g)
    <3>1. todo[g] # None /\ todo'[g] \subseteq todo[g]  BY <2>12 DEF HandleSub, Typed, Placed
    <3> QED  BY <2>6, <2>9, <3>1 DEF Typed, Placed
  <2> QED  BY <2>8, <2>10, <2>11, <2>12
<1> QED  BY <1>1, <1>2

\* A message is on its way already, for the receivers of the rule, or the copy a
\* subscription gets now.
LEMMA SendsFrom ==
  ASSUME Typed, [Next]_vars, NEW m \in BagToSet(sends')
  PROVE  /\ ~Crash
         /\ \/ \E n \in BagToSet(sends) : n.event = m.event /\ n.sub = m.sub /\ n.recovered = m.recovered
            \/ m.sub = Main
            \/ \E g \in Goroutines : HandleSub(g) /\ m.event = Event(g) /\ m.recovered = IsRecovered(g)
<1> USE DEF notifyVars
<1>1. ~Crash  BY DEF Crash, EmptyBag, BagToSet, SetToBag
<1>2. CASE m \in BagToSet(sends)  BY <1>1, <1>2
<1>3. CASE m \notin BagToSet(sends)
  <2>1. sends' # sends  BY <1>3
  <2>2. ASSUME NEW h \in Hashes, Fire(h) \/ Recover(h) \/ UserDelete(h) PROVE UNCHANGED sends
    BY <2>2 DEF Fire, Recover, UserDelete
  <2>3. ASSUME NEW g \in Goroutines, AddCur(g) \/ StatementFails(g) \/ Unnoticed(g) \/ Release(g)
        PROVE  UNCHANGED sends
    BY <2>3 DEF AddCur, StatementFails, Unnoticed, Release
  <2>4. Consume \/ ReloadTpls \/ Reload \/ UNCHANGED vars => UNCHANGED sends
    BY DEF Consume, ReloadTpls, Reload, vars
  <2>5. (\E r : EditRule(r)) \/ (\E s, v : EditSub(s, v)) => UNCHANGED sends  BY DEF EditRule, EditSub
  <2>6. ASSUME NEW g \in Goroutines, HandleEventNotify(g) PROVE m.sub = Main
    <3> DEFINE to == Targets(detail[Event(g)].groups, detail[Event(g)].channels)
    <3>1. Spawn(Event(g), Main, to, FALSE)  BY <2>6 DEF HandleEventNotify
    <3> HIDE DEF to
    <3>2. m = [event |-> Event(g), sub |-> Main, to |-> to, recovered |-> FALSE]
      BY <1>3, <3>1, SpawnAdds
    <3> QED  BY <3>2
  <2>7. ASSUME NEW g \in Goroutines, HandleSub(g) PROVE m.event = Event(g) /\ m.recovered = IsRecovered(g)
    <3>1. PICK t \in todo[g] : \/ Spawn(Event(g), t.sub, SubTargets(Event(g), t.version), IsRecovered(g))
                               \/ UNCHANGED sends
      BY <2>7 DEF HandleSub
    <3> DEFINE to == SubTargets(Event(g), t.version)
               copy == IsRecovered(g)
    <3>2. Spawn(Event(g), t.sub, to, copy)  BY <2>1, <3>1
    <3> HIDE DEF to, copy
    <3>3. m = [event |-> Event(g), sub |-> t.sub, to |-> to, recovered |-> copy]
      BY <1>3, <3>2, SpawnAdds
    <3>4. m.event = Event(g) /\ m.recovered = copy  BY <3>3
    <3> QED  BY <3>4 DEF copy
  <2>8. ASSUME SendStep
        PROVE  \E n \in BagToSet(sends) : n.event = m.event /\ n.sub = m.sub /\ n.recovered = m.recovered
    <3>1. PICK n \in BagToSet(sends), c \in Channels : Send(n, c)  BY <2>8 DEF SendStep
    <3> DEFINE left == n.to \ {a \in n.to : a.channel = c}
    <3>2. m = [n EXCEPT !.to = left]  BY <1>3, <3>1, SendLeaves
    <3> HIDE DEF left
    <3>3. m.event = n.event /\ m.sub = n.sub /\ m.recovered = n.recovered  BY <3>2
    <3> QED  BY <3>3
  <2> QED  BY <1>1, <2>1, <2>2, <2>3, <2>4, <2>5, <2>6, <2>7, <2>8 DEF Next, NotifyStep
<1> QED  BY <1>2, <1>3

\* The fields of an event stay its own, and a fired event is not marked.
NamesKept ==
  /\ \A e \in DOMAIN detail : e.id <= pushes
  /\ \A h \in DOMAIN fires : fires[h] \notin recovered

\* A new event gets a new name; a recovery leaves p.fires.
LEMMA NamesStep ==
  ASSUME Typed, Typed', NamesKept, [Next]_vars
  PROVE  NamesKept'
<1>1. pushes <= pushes' /\ pushes \in Nat /\ pushes' \in Nat  BY Grows
<1>2. \A e \in Tables!Event : e.id \in Nat  BY DEF Tables!Event
<1>3. \A e \in DOMAIN detail : e.id <= pushes'
  BY <1>1, <1>2 DEF Typed, DetailTypes, NamesKept
<1>4. \A e \in recovered : e.id <= pushes  BY DEF Typed, Tables!IInv, Tables!Numbered
<1>5. ASSUME NEW h \in Hashes, Fire(h) PROVE NamesKept'
  <2>1. Tables!Fire(h) /\ DOMAIN detail' = DOMAIN detail \cup {New(h)}
    BY <1>5, FireDetail DEF Typed
  <2>2. /\ UNCHANGED recovered /\ pushes' = pushes + 1
        /\ DOMAIN fires' = DOMAIN fires \cup {h} /\ fires'[h] = New(h)
        /\ \A k \in DOMAIN fires \ {h} : fires'[k] = fires[k]
    BY <2>1, FireEffect DEF Typed, Pushed
  <2>3. New(h).id = pushes' /\ New(h) \notin recovered  BY <1>1, <1>4, <2>2 DEF New
  <2> QED  BY <1>1, <1>3, <2>1, <2>2, <2>3 DEF NamesKept
<1>6. ASSUME NEW h \in Hashes, Recover(h) PROVE NamesKept'
  <2>1. Tables!Recover(h) /\ DOMAIN detail' = DOMAIN detail  BY <1>6, RecoverDetail DEF Typed
  <2>2. /\ fires[h].hash = h /\ recovered' = recovered \cup {fires[h]}
        /\ DOMAIN fires' = DOMAIN fires \ {h}
        /\ \A k \in DOMAIN fires \ {h} : fires'[k] = fires[k]
    BY <2>1, RecoverEffect DEF Typed
  <2>3. \A k \in DOMAIN fires : fires[k].hash = k  BY DEF Typed, Tables!IInv, Tables!TypeOK
  <2> QED  BY <1>3, <2>1, <2>2, <2>3 DEF NamesKept
<1>7. ASSUME Crash \/ Reload PROVE NamesKept'
  <2>1. Tables!Crash \/ Tables!Reload  BY <1>7, SameRest DEF Crash, Reload
  <2>2. /\ DOMAIN fires' \subseteq Hashes
        /\ \A h \in DOMAIN fires' : fires'[h] \in Tables!Event /\ fires'[h].hash = h
    BY <2>1, RereadEffect DEF Typed
  <2>3. DOMAIN detail' = DOMAIN detail \cup { fires'[h] : h \in DOMAIN fires' }
    BY <1>7, <2>2, RereadDetail DEF Crash, Reload, Typed
  <2>4. \A h \in DOMAIN fires' : fires'[h].id <= pushes'  BY DEF Typed, Tables!IInv, Tables!Numbered
  <2>5. \A h \in DOMAIN fires' : fires'[h] \notin recovered'
    <3>1. CASE Tables!Crash  BY <3>1, RereadEffect DEF Typed
    <3>2. CASE Tables!Reload
      <4>1. UNCHANGED recovered /\ \A h \in DOMAIN fires' : fires'[h].id = pushes + 1
        BY <3>2, RereadEffect DEF Typed
      <4> QED  BY <1>1, <1>4, <4>1
    <3> QED  BY <2>1, <3>1, <3>2
  <2> QED  BY <1>3, <2>3, <2>4, <2>5 DEF NamesKept
<1>8. UNCHANGED <<fires, recovered, detail, pushes>> => NamesKept'  BY DEF NamesKept
<1> QED  BY <1>5, <1>6, <1>7, <1>8, OtherSteps DEF Typed

\* Nothing changes the fields of an event that is marked, until the engine stops.
LEMMA MarkedKeeps ==
  ASSUME Typed, NamesKept, [Next]_vars, ~Crash, NEW e \in DOMAIN detail, e \in recovered
  PROVE  e \in recovered' /\ detail'[e] = detail[e]
<1>1. e.id <= pushes /\ pushes \in Nat /\ e.id \in Nat
  BY Grows DEF NamesKept, Typed, DetailTypes, Tables!Event
<1>2. ASSUME NEW h \in Hashes, Fire(h) PROVE e \in recovered' /\ detail'[e] = detail[e]
  <2>1. Tables!Fire(h) /\ \A d \in DOMAIN detail \ {New(h)} : detail'[d] = detail[d]
    BY <1>2, FireDetail DEF Typed
  <2>2. UNCHANGED recovered  BY <2>1, FireEffect DEF Typed
  <2>3. e # New(h)  BY <1>1 DEF New
  <2> QED  BY <2>1, <2>2, <2>3
<1>3. ASSUME NEW h \in Hashes, Recover(h) PROVE e \in recovered' /\ detail'[e] = detail[e]
  <2>1. Tables!Recover(h) /\ \A d \in DOMAIN detail \ {fires[h]} : detail'[d] = detail[d]
    BY <1>3, RecoverDetail DEF Typed
  <2>2. h \in DOMAIN fires /\ recovered' = recovered \cup {fires[h]}
    BY <2>1, RecoverEffect DEF Typed
  <2> QED  BY <2>1, <2>2 DEF NamesKept
<1>4. ASSUME Reload PROVE e \in recovered' /\ detail'[e] = detail[e]
  <2>1. Tables!Reload /\ Reread  BY <1>4, SameRest DEF Reload
  <2>2. Tables!IInv'  BY TablesStep DEF Typed
  <2>3. /\ DOMAIN fires' \subseteq Hashes /\ UNCHANGED recovered
        /\ \A h \in DOMAIN fires' : fires'[h] \in Tables!Event /\ fires'[h].hash = h
        /\ \A h \in DOMAIN fires' : fires'[h].id = pushes + 1
    BY <2>1, <2>2, RereadEffect DEF Typed
  <2>4. \A h \in DOMAIN fires' : fires'[h] # e  BY <1>1, <2>3
  <2> QED  BY <2>1, <2>3, <2>4, RereadDetail DEF Typed
<1> QED  BY <1>2, <1>3, <1>4, OtherSteps DEF Typed

\* An event that is on its way is not marked while its alert is calm.
LEMMA MarkedLate ==
  ASSUME Typed, [Next]_vars, NEW e \in Tables!InFlight, e.hash \in Tables!Calm'
  PROVE  e \in recovered' => e \in recovered
<1>1. ASSUME NEW h \in Hashes, Fire(h) PROVE UNCHANGED recovered
  BY <1>1, FireDetail, FireEffect DEF Typed
<1>2. ASSUME NEW h \in Hashes, Recover(h) PROVE e \in recovered' => e \in recovered
  <2>1. Tables!Recover(h)  BY <1>2, RecoverDetail DEF Typed
  <2>2. recovered' = recovered \cup {fires[h]} /\ Pushed(fires[h])  BY <2>1, RecoverEffect DEF Typed
  <2>3. e # fires[h]  BY <2>2 DEF Pushed, Tables!OnTheirWay
  <2> QED  BY <2>2, <2>3
<1>3. ASSUME Crash \/ Reload PROVE recovered' \subseteq recovered
  <2>1. Tables!Crash \/ Tables!Reload  BY <1>3, SameRest DEF Crash, Reload
  <2> QED  BY <2>1 DEF Tables!Crash, Tables!Reload
<1> QED  BY <1>1, <1>2, <1>3, OtherSteps DEF Typed

\* A subscription is sent the recoveries that are to be notified.
RecoveriesAsked ==
  /\ \A m \in BagToSet(sends) :
       m.sub \in Subs /\ m.recovered /\ m.event.hash \in Tables!Calm =>
         m.event \in recovered /\ detail[m.event].notifyRecovered
  /\ \A g \in Goroutines :
       todo[g] # None /\ IsRecovered(g) /\ Event(g).hash \in Tables!Calm => detail[Event(g)].notifyRecovered

\* A copy takes its word when it is made, and the word stays good.
LEMMA RecoveriesStep ==
  ASSUME Typed, Typed', NamesKept, RecoveriesAsked, [Next]_vars
  PROVE  RecoveriesAsked'
<1>1. Tables!Calm' \subseteq Tables!Calm  BY Grows
<1>2. ASSUME NEW g \in Goroutines, todo[g] # None
      PROVE  Event(g) \in Tables!InFlight /\ Event(g) \in DOMAIN detail
  BY <1>2, NotifyRuns, RunningTyped DEF Typed, Placed
<1>3. ASSUME NEW m \in BagToSet(sends'), m.sub \in Subs, m.recovered, m.event.hash \in Tables!Calm'
      PROVE  m.event \in recovered' /\ detail'[m.event].notifyRecovered
  <2>1. ~Crash  BY SendsFrom
  <2>2. ASSUME NEW n \in BagToSet(sends), n.event = m.event, n.sub = m.sub, n.recovered = m.recovered
        PROVE  m.event \in DOMAIN detail /\ m.event \in recovered /\ detail[m.event].notifyRecovered
    BY <1>1, <1>3, <2>2 DEF RecoveriesAsked, Typed, SendTypes
  <2>3. ASSUME NEW g \in Goroutines, HandleSub(g), m.event = Event(g), m.recovered = IsRecovered(g)
        PROVE  m.event \in DOMAIN detail /\ m.event \in recovered /\ detail[m.event].notifyRecovered
    <3>1. todo[g] # None  BY <2>3 DEF HandleSub
    <3> QED  BY <1>1, <1>2, <1>3, <2>3, <3>1 DEF RecoveriesAsked, IsRecovered
  <2>4. m.sub # Main  BY <1>3, NotificationBounds
  <2>5. m.event \in DOMAIN detail /\ m.event \in recovered /\ detail[m.event].notifyRecovered
    BY <2>2, <2>3, <2>4, SendsFrom
  <2> QED  BY <2>1, <2>5, MarkedKeeps
<1>4. ASSUME NEW g \in Goroutines, todo'[g] # None, Event(g)' \in recovered', Event(g)'.hash \in Tables!Calm'
      PROVE  detail'[Event(g)'].notifyRecovered
  <2>1. /\ running'[g] = running[g] /\ ~Crash /\ Tables!At(g, "notify")
        /\ HandleEventNotify(g) \/ todo[g] # None
    BY <1>4, TodoFrom
  <2>2. Event(g)' = Event(g)  BY <2>1 DEF Event
  <2>3. Event(g) \in Tables!InFlight /\ Event(g) \in DOMAIN detail
    BY <2>1, NotifyRuns, RunningTyped DEF Typed
  <2>4. Event(g) \in recovered  BY <1>4, <2>2, <2>3, MarkedLate
  <2>5. detail[Event(g)].notifyRecovered
    <3>1. CASE HandleEventNotify(g)  BY <2>4, <3>1 DEF HandleEventNotify, IsRecovered
    <3>2. CASE todo[g] # None  BY <1>1, <1>4, <2>2, <2>4, <3>2 DEF RecoveriesAsked, IsRecovered
    <3> QED  BY <2>1, <3>1, <3>2
  <2> QED  BY <2>1, <2>2, <2>3, <2>4, <2>5, MarkedKeeps
<1> QED  BY <1>3, <1>4 DEF RecoveriesAsked, IsRecovered

AskedInv == Typed /\ NamesKept /\ RecoveriesAsked /\ SubscribersAsked

\* The invariant of the recoveries is inductive.
LEMMA AskedStep == AskedInv /\ [Next]_vars => AskedInv'
<1> SUFFICES ASSUME AskedInv, [Next]_vars PROVE AskedInv'  OBVIOUS
<1> USE DEF AskedInv
<1>1. Typed'  BY TypedStep
<1>2. NamesKept' /\ RecoveriesAsked'  BY <1>1, NamesStep, RecoveriesStep
<1>3. SubscribersAsked'
  <2>1. Tables!Calm' \subseteq Tables!Calm  BY Grows
  <2>2. UNCHANGED unasked => SubscribersAsked'  BY <2>1, SameFlight DEF SubscribersAsked
  <2>3. CASE SendStep
    <3>1. PICK m \in BagToSet(sends), c \in Channels : Send(m, c)  BY <2>3 DEF SendStep
    <3>2. CASE UNCHANGED unasked  BY <2>2, <3>2
    <3>3. CASE ~UNCHANGED unasked
      <4>1. /\ SaysRecovered(m) /\ ~detail[m.event].notifyRecovered
            /\ unasked' = unasked \cup {[sub |-> m.sub, hash |-> m.event.hash]}
        BY <3>1, <3>3 DEF Send
      <4>2. m.sub \in Subs => m.event.hash \notin Tables!Calm
        BY <4>1, NotificationBounds DEF SaysRecovered, RecoveriesAsked
      <4>3. ASSUME NEW s \in Subs, NEW h \in Tables!Calm', [sub |-> s, hash |-> h] \in unasked'
            PROVE  FALSE
        <5>1. [sub |-> s, hash |-> h] \notin unasked  BY <2>1, SameFlight DEF SubscribersAsked
        <5>2. [sub |-> s, hash |-> h] = [sub |-> m.sub, hash |-> m.event.hash]  BY <4>1, <4>3, <5>1
        <5>3. s = m.sub /\ h = m.event.hash  BY <5>2
        <5> QED  BY <2>1, <4>2, <5>3
      <4> QED  BY <4>3, SameFlight DEF SubscribersAsked
    <3> QED  BY <3>2, <3>3
  <2>4. ~SendStep => UNCHANGED unasked
    <3> USE DEF historyVars, sentVars
    <3>1. ASSUME NEW h \in Hashes, Fire(h) \/ Recover(h) \/ UserDelete(h) PROVE UNCHANGED unasked
      BY <3>1 DEF Fire, Recover, UserDelete
    <3>2. ASSUME NEW g \in Goroutines, AddCur(g) \/ StatementFails(g) PROVE UNCHANGED unasked
      BY <3>2 DEF AddCur, StatementFails
    <3>3. ASSUME NEW g \in Goroutines, NotifyStep(g) PROVE UNCHANGED unasked
      <4>1. Unnoticed(g) \/ HandleEventNotify(g) => UNCHANGED unasked
        BY DEF Unnoticed, HandleEventNotify
      <4>2. HandleSub(g) \/ Release(g) => UNCHANGED unasked  BY DEF HandleSub, Release
      <4> QED  BY <3>3, <4>1, <4>2 DEF NotifyStep
    <3>4. Consume \/ ReloadTpls \/ Reload \/ Crash \/ UNCHANGED vars => UNCHANGED unasked
      BY DEF Consume, ReloadTpls, Reload, Crash, vars
    <3>5. (\E r : EditRule(r)) \/ (\E s, v : EditSub(s, v)) => UNCHANGED unasked  BY DEF EditRule, EditSub
    <3> QED  BY <3>1, <3>2, <3>3, <3>4, <3>5 DEF Next
  <2> QED  BY <2>2, <2>3, <2>4
<1> QED  BY <1>1, <1>2, <1>3

\* Nothing has been sent at the start.
LEMMA AskedInit == Init => AskedInv
<1> SUFFICES ASSUME Init PROVE AskedInv  OBVIOUS
<1>1. Typed  BY TypedInit
<1>2. Tables!Init  BY SameRest DEF Init
<1>3. DOMAIN fires = {}  BY <1>2 DEF Tables!Init
<1>4. DOMAIN detail = {} /\ BagToSet(sends) = {} /\ unasked = {} /\ \A g \in Goroutines : todo[g] = None
  BY DEF Init, EmptyBag, BagToSet, SetToBag
<1> QED  BY <1>1, <1>3, <1>4 DEF AskedInv, NamesKept, RecoveriesAsked, SubscribersAsked

\* The copies for subscriptions say of a calm alert what the rule asked for: none is
\* sent a recovery when NotifyRecovered is 0.
THEOREM SubscribersAreAsked == Spec => []SubscribersAsked
<1>1. AskedInv => SubscribersAsked  BY DEF AskedInv
<1> QED  BY <1>1, AskedInit, AskedStep, PTL DEF Spec

-------------------------------------------------------------------------------
(***************************************************************************)
(* What subscriptions are told.                                            *)
(***************************************************************************)

\* The processor holds the event of a calm alert that is on its way, unless it is
\* the recovery.
FiresAre ==
  \A e \in Tables!InFlight :
    e.hash \in Tables!Calm =>
      IF e \in recovered THEN e.hash \notin DOMAIN fires
      ELSE e.hash \in DOMAIN fires /\ fires[e.hash] = e

\* A push for an alert that has an event on its way makes it not calm.
LEMMA FiresAreStep ==
  ASSUME Typed, NamesKept, FiresAre, [Next]_vars
  PROVE  FiresAre'
<1>1. Tables!Calm' \subseteq Tables!Calm  BY Grows
<1>2. Tables!IInv'  BY TablesStep DEF Typed
<1>3. ASSUME NEW h \in Hashes, Fire(h) PROVE FiresAre'
  <2>1. Tables!Fire(h)  BY <1>3, FireDetail DEF Typed
  <2>2. /\ Pushed(New(h)) /\ UNCHANGED recovered
        /\ DOMAIN fires' = DOMAIN fires \cup {h} /\ fires'[h] = New(h)
        /\ \A k \in DOMAIN fires \ {h} : fires'[k] = fires[k]
    BY <2>1, FireEffect DEF Typed
  <2>3. New(h).hash = h  BY DEF New
  <2>4. New(h) \notin recovered
    <3>1. \A e \in recovered : e.id <= pushes  BY DEF Typed, Tables!IInv, Tables!Numbered
    <3>2. pushes \in Nat  BY Grows
    <3> QED  BY <3>1, <3>2 DEF New
  <2>5. ASSUME NEW e \in Tables!InFlight', e.hash \in Tables!Calm'
        PROVE  IF e \in recovered' THEN e.hash \notin DOMAIN fires'
               ELSE e.hash \in DOMAIN fires' /\ fires'[e.hash] = e
    <3>1. CASE e = New(h)  BY <2>2, <2>3, <2>4, <3>1
    <3>2. CASE e # New(h)
      <4>1. e \in Tables!InFlight /\ e.hash # h
        BY <2>2, <2>3, <2>5, <3>2 DEF Pushed, Tables!OnTheirWay
      <4> QED  BY <1>1, <2>2, <2>5, <4>1 DEF FiresAre
    <3> QED  BY <3>1, <3>2
  <2> QED  BY <2>5 DEF FiresAre
<1>4. ASSUME NEW h \in Hashes, Recover(h) PROVE FiresAre'
  <2>1. Tables!Recover(h)  BY <1>4, RecoverDetail DEF Typed
  <2>2. /\ fires[h].hash = h /\ Pushed(fires[h]) /\ recovered' = recovered \cup {fires[h]}
        /\ DOMAIN fires' = DOMAIN fires \ {h}
        /\ \A k \in DOMAIN fires \ {h} : fires'[k] = fires[k]
    BY <2>1, RecoverEffect DEF Typed
  <2>3. ASSUME NEW e \in Tables!InFlight', e.hash \in Tables!Calm'
        PROVE  IF e \in recovered' THEN e.hash \notin DOMAIN fires'
               ELSE e.hash \in DOMAIN fires' /\ fires'[e.hash] = e
    <3>1. CASE e = fires[h]  BY <2>2, <3>1
    <3>2. CASE e # fires[h]
      <4>1. e \in Tables!InFlight /\ e.hash # h
        BY <2>2, <2>3, <3>2 DEF Pushed, Tables!OnTheirWay
      <4> QED  BY <1>1, <2>2, <2>3, <3>2, <4>1 DEF FiresAre
    <3> QED  BY <3>1, <3>2
  <2> QED  BY <2>3 DEF FiresAre
<1>5. ASSUME Crash \/ Reload PROVE FiresAre'
  <2>1. Tables!Crash \/ Tables!Reload  BY <1>5, SameRest DEF Crash, Reload
  <2>2. \A e \in Tables!InFlight' : e.hash \notin Tables!Calm'
    BY <1>2, <2>1, RereadEffect DEF Typed, Tables!OnTheirWay
  <2> QED  BY <2>2 DEF FiresAre
<1>6. UNCHANGED <<fires, recovered, detail, pushes>> /\ Tables!InFlight' \subseteq Tables!InFlight
        => FiresAre'
  BY <1>1 DEF FiresAre
<1> QED  BY <1>3, <1>4, <1>5, <1>6, OtherSteps DEF Typed

\* The row of a calm alert has the age of the event that is stored.
RowAges ==
  /\ \A h \in Tables!Calm \ Tables!OnTheirWay :
       h \in DOMAIN fires => rowAge[h] = detail[fires[h]].age
  /\ \A g \in Goroutines :
       Tables!At(g, "notify") /\ Event(g).hash \in Tables!Calm /\ ~IsRecovered(g) =>
         rowAge[Event(g).hash] = detail[Event(g)].age

\* The fields of events that are not the new one.
LEMMA OldNames ==
  ASSUME Typed, NamesKept, NEW h, NEW e \in DOMAIN detail
  PROVE  e # New(h)
<1>1. pushes \in Nat /\ e.id \in Nat /\ e.id <= pushes
  BY DEF Typed, Tables!IInv, Tables!TypeOK, DetailTypes, Tables!Event, NamesKept
<1> QED  BY <1>1 DEF New

\* LoopConsume and the statements bring only recoveries past event.Add.
LEMMA ConsumeNotifies ==
  ASSUME Tables!IInv, Consume, NEW g \in Goroutines, Tables!At(g, "notify")'
  PROVE  (Tables!At(g, "notify") /\ Event(g)' = Event(g)) \/ Event(g)' \in recovered
<1> DEFINE Goal == (Tables!At(g, "notify") /\ Event(g)' = Event(g)) \/ Event(g)' \in recovered
<1>1. running'[g] = running[g] => Goal  BY DEF Tables!At, Event
<1>2. ASSUME Pipeline!Pop PROVE Goal  BY <1>1, <1>2 DEF Pipeline!Pop
<1>3. ASSUME NEW f \in Goroutines, Pipeline!Start(f) PROVE Goal
  <2>1. Tables!Start(f)  BY <1>3, SameConsumer
  <2>2. running'[f].step = "exists" /\ \A k \in Goroutines \ {f} : running'[k] = running[k]
    BY <2>1, TablesAssumed, Tables!StartFlight DEF Tables!IInv
  <2> QED  BY <1>1, <2>2 DEF Tables!At
<1>4. ASSUME NEW f \in Goroutines, NEW t, t \in {"addHis", "delete", "decide", "notify"},
             t = "notify" => running[f].event \in recovered,
             running'[f].step = t, running'[f].event = running[f].event,
             \A k \in Goroutines \ {f} : running'[k] = running[k]
      PROVE  Goal
  BY <1>1, <1>4 DEF Tables!At, Event
<1> HIDE DEF Goal
<1>5. ASSUME NEW f \in Goroutines, Pipeline!CheckExists(f) PROVE Goal
  <2>1. Tables!CheckExists(f)  BY <1>5, SameConsumer
  <2>2. /\ running'[f].step = "addHis" /\ running'[f].event = running[f].event
        /\ \A k \in Goroutines \ {f} : running'[k] = running[k]
    BY <2>1, TablesAssumed, Tables!CheckExistsType DEF Tables!IInv
  <2> QED  BY <1>4, <2>2
<1>6. ASSUME NEW f \in Goroutines, NEW t, t \in {"addHis", "delete", "decide", "notify"},
             t = "notify" => running[f].event \in recovered,
             running[f].step \in {"addHis", "delete", "decide"}, Tables!Goto(f, t)
      PROVE  Goal
  <2>1. running[f].step \in Tables!Steps /\ t \in Tables!Steps  BY <1>6 DEF Tables!Steps
  <2>2. /\ running'[f].step = t /\ running'[f].event = running[f].event
        /\ \A k \in Goroutines \ {f} : running'[k] = running[k]
    BY <1>6, <2>1, TablesAssumed, Tables!GotoType DEF Tables!IInv
  <2> QED  BY <1>4, <1>6, <2>2
<1>7. ASSUME NEW f \in Goroutines, Pipeline!AddHis(f) PROVE Goal
  <2>1. Tables!AddHis(f)  BY <1>7, SameConsumer
  <2> QED  BY <1>6, <2>1 DEF Tables!AddHis, Tables!At
<1>8. ASSUME NEW f \in Goroutines, Pipeline!DeleteCur(f) PROVE Goal
  <2>1. Tables!DeleteCur(f)  BY <1>8, SameConsumer
  <2> QED  BY <1>6, <2>1 DEF Tables!DeleteCur, Tables!At
<1>9. ASSUME NEW f \in Goroutines, Pipeline!Decide(f) PROVE Goal
  <2>1. Tables!Decide(f)  BY <1>9, SameConsumer
  <2>2. /\ running[f].step = "decide"
        /\ Tables!Goto(f, IF running[f].event \in recovered THEN "notify" ELSE "addCur")
    BY <2>1 DEF Tables!Decide, Tables!At, Tables!IsRecovered
  <2>3. CASE running[f].event \in recovered  BY <1>6, <2>2, <2>3
  <2>4. CASE running[f].event \notin recovered
    <3>1. Tables!Goto(f, "addCur")  BY <2>2, <2>4
    <3>2. running[f].step \in Tables!Steps /\ "addCur" \in Tables!Steps  BY <2>2 DEF Tables!Steps
    <3>3. running'[f].step = "addCur" /\ \A k \in Goroutines \ {f} : running'[k] = running[k]
      BY <3>1, <3>2, TablesAssumed, Tables!GotoType DEF Tables!IInv
    <3> QED  BY <1>1, <3>3 DEF Tables!At
  <2> QED  BY <2>3, <2>4
<1>10. Goal  BY <1>2, <1>3, <1>5, <1>7, <1>8, <1>9 DEF Consume
<1> QED  BY <1>10 DEF Goal

\* event.Add writes the age; what leaves the way leaves it as written.
LEMMA RowAgesStep ==
  ASSUME Typed, NamesKept, FiresAre, RowAges, [Next]_vars
  PROVE  RowAges'
<1> DEFINE Stored == \A h \in Tables!Calm \ Tables!OnTheirWay :
                       h \in DOMAIN fires => rowAge[h] = detail[fires[h]].age
           StoredBy(g) == Tables!At(g, "notify") /\ Event(g).hash \in Tables!Calm /\ ~IsRecovered(g) =>
                            rowAge[Event(g).hash] = detail[Event(g)].age
<1>0. Stored /\ \A g \in Goroutines : StoredBy(g)  BY DEF RowAges
<1>1. Tables!Calm' \subseteq Tables!Calm  BY Grows
<1>2. Tables!IInv'  BY TablesStep DEF Typed
<1>3. \A h \in DOMAIN fires : fires[h] \in DOMAIN detail /\ fires[h].hash = h
  BY DEF Typed, DetailTypes, Tables!IInv, Tables!TypeOK
<1>4. ASSUME NEW g \in Goroutines, Tables!At(g, "notify")
      PROVE  Event(g) \in Tables!InFlight /\ Event(g) \in DOMAIN detail
  BY <1>4, NotifyRuns, RunningTyped DEF Typed
<1>5. ASSUME UNCHANGED running, UNCHANGED rowAge,
             \A g \in Goroutines :
               Tables!At(g, "notify") /\ Event(g).hash \in Tables!Calm' /\ Event(g) \notin recovered' =>
                 Event(g) \notin recovered /\ detail'[Event(g)].age = detail[Event(g)].age
      PROVE  \A g \in Goroutines : StoredBy(g)'
  BY <1>0, <1>1, <1>5 DEF Tables!At, Event, IsRecovered
<1>6. ASSUME NEW h \in Hashes, Fire(h) PROVE RowAges'
  <2>1. /\ Tables!Fire(h) /\ UNCHANGED rowAge
        /\ \A e \in DOMAIN detail \ {New(h)} : detail'[e] = detail[e]
    BY <1>6, FireDetail DEF Fire, Typed
  <2>2. /\ Pushed(New(h)) /\ UNCHANGED recovered
        /\ DOMAIN fires' = DOMAIN fires \cup {h}
        /\ \A k \in DOMAIN fires \ {h} : fires'[k] = fires[k]
    BY <2>1, FireEffect DEF Typed
  <2>3. \A e \in DOMAIN detail : detail'[e] = detail[e]  BY <2>1, OldNames
  <2>4. UNCHANGED running  BY <2>2 DEF Pushed
  <2>5. ASSUME NEW k \in Tables!Calm' \ Tables!OnTheirWay', k \in DOMAIN fires'
        PROVE  rowAge'[k] = detail'[fires'[k]].age
    <3>1. k # h /\ k \notin Tables!OnTheirWay
      BY <2>2, <2>5 DEF Pushed, Tables!OnTheirWay, New
    <3>2. k \in DOMAIN fires /\ fires'[k] = fires[k]  BY <2>2, <2>5, <3>1
    <3>3. rowAge[k] = detail[fires[k]].age  BY <1>0, <1>1, <2>5, <3>1, <3>2
    <3> QED  BY <1>3, <2>1, <2>3, <3>2, <3>3
  <2>6. \A g \in Goroutines : StoredBy(g)'  BY <1>4, <1>5, <2>1, <2>2, <2>3, <2>4
  <2> QED  BY <2>5, <2>6 DEF RowAges
<1>7. ASSUME NEW h \in Hashes, Recover(h) PROVE RowAges'
  <2>1. /\ Tables!Recover(h) /\ UNCHANGED rowAge
        /\ \A e \in DOMAIN detail \ {fires[h]} : detail'[e] = detail[e]
    BY <1>7, RecoverDetail DEF Recover, Typed
  <2>2. /\ fires[h].hash = h /\ Pushed(fires[h]) /\ recovered' = recovered \cup {fires[h]}
        /\ DOMAIN fires' = DOMAIN fires \ {h}
        /\ \A k \in DOMAIN fires \ {h} : fires'[k] = fires[k]
    BY <2>1, RecoverEffect DEF Typed
  <2>3. UNCHANGED running  BY <2>2 DEF Pushed
  <2>4. ASSUME NEW k \in Tables!Calm' \ Tables!OnTheirWay', k \in DOMAIN fires'
        PROVE  rowAge'[k] = detail'[fires'[k]].age
    <3>1. k # h /\ k \notin Tables!OnTheirWay
      BY <2>2, <2>4 DEF Pushed, Tables!OnTheirWay
    <3>2. k \in DOMAIN fires /\ fires'[k] = fires[k]  BY <2>2, <2>4, <3>1
    <3>3. rowAge[k] = detail[fires[k]].age  BY <1>0, <1>1, <2>4, <3>1, <3>2
    <3>4. fires[k] # fires[h]  BY <1>3, <2>2, <3>1, <3>2
    <3> QED  BY <1>3, <2>1, <3>2, <3>3, <3>4
  <2>5. \A g \in Goroutines : StoredBy(g)'  BY <1>4, <1>5, <2>1, <2>2, <2>3
  <2> QED  BY <2>4, <2>5 DEF RowAges
<1>8. ASSUME Crash \/ Reload PROVE RowAges'
  <2>1. Tables!Crash \/ Tables!Reload  BY <1>8, SameRest DEF Crash, Reload
  <2>2. Reread /\ UNCHANGED rowAge  BY <1>8 DEF Crash, Reload
  <2>3. /\ DOMAIN fires' \subseteq Hashes
        /\ \A h \in DOMAIN fires' : fires'[h] \in Tables!Event /\ fires'[h].hash = h
    BY <1>2, <2>1, RereadEffect DEF Typed
  <2>4. \A h \in DOMAIN fires' : detail'[fires'[h]].age = rowAge[h]
    BY <2>2, <2>3, RereadDetail DEF Typed
  <2>5. ASSUME NEW g \in Goroutines PROVE StoredBy(g)'
    <3>1. CASE Tables!Crash
      <4>1. running'[g] = Tables!Idle  BY <1>2, <3>1, RereadEffect DEF Typed
      <4> QED  BY <4>1 DEF Tables!At, Tables!Idle
    <3>2. CASE Tables!Reload
      <4>1. UNCHANGED running /\ Tables!Calm' \cap Tables!OnTheirWay = {}
        BY <1>2, <3>2, RereadEffect DEF Typed
      <4>2. Tables!At(g, "notify") => Event(g).hash \in Tables!OnTheirWay
        BY <1>4 DEF Tables!OnTheirWay
      <4> QED  BY <4>1, <4>2 DEF Tables!At, Event
    <3> QED  BY <2>1, <3>1, <3>2
  <2> QED  BY <2>2, <2>4, <2>5 DEF RowAges
<1> DEFINE Quiet == UNCHANGED <<fires, recovered, detail>>
<1>9. ASSUME Quiet, UNCHANGED rowAge, Tables!OnTheirWay' = Tables!OnTheirWay,
             \A g \in Goroutines : Tables!At(g, "notify")' /\ Event(g)'.hash \in Tables!Calm'
               => (Tables!At(g, "notify") /\ Event(g)' = Event(g)) \/ Event(g)' \in recovered
      PROVE  RowAges'
  <2>1. Stored'  BY <1>0, <1>1, <1>9
  <2>2. \A g \in Goroutines : StoredBy(g)'  BY <1>0, <1>1, <1>9 DEF IsRecovered
  <2> QED  BY <2>1, <2>2 DEF RowAges
<1>10. ASSUME Routed, Quiet, UNCHANGED rowAge PROVE RowAges'
  BY <1>9, <1>10, RoutedKeeps DEF Routed, Tables!At, Event
<1>11. ASSUME NEW h \in Hashes, UserDelete(h) PROVE RowAges'
  <2>1. Quiet /\ UNCHANGED <<rowAge, running, queue, batch>>
    BY <1>11 DEF UserDelete, Pipeline!UserDelete, Pipeline!processorVars, Pipeline!consumerVars
  <2>2. Tables!OnTheirWay' = Tables!OnTheirWay
    BY <2>1 DEF Tables!OnTheirWay, Tables!InFlight, Tables!Busy, Tables!ToSet, Tables!Idle, Tables!NoEvent
  <2> QED  BY <1>9, <2>1, <2>2 DEF Tables!At, Event
<1>12. CASE Consume
  <2>1. Quiet /\ UNCHANGED rowAge /\ Tables!OnTheirWay' = Tables!OnTheirWay
    BY <1>12, ConsumeMoves DEF Consume, Moved, Tables!OnTheirWay, Typed
  <2> QED  BY <1>9, <1>12, <2>1, ConsumeNotifies DEF Typed
<1>13. ASSUME NEW g \in Goroutines, StatementFails(g) PROVE RowAges'
  <2>1. Tables!StatementFails(g) /\ Quiet /\ UNCHANGED rowAge
    BY <1>13, SameConsumer DEF StatementFails, Tables!StatementFails, Tables!processorVars
  <2>2. /\ Tables!OnTheirWay' = Tables!OnTheirWay /\ Event(g)' = Event(g)
        /\ \A f \in Goroutines \ {g} : running'[f] = running[f]
    BY <2>1, TablesAssumed, Tables!StatementFlight DEF Typed, Tables!IInv, Tables!OnTheirWay, Event
  <2>3. Event(g)'.hash \notin Tables!Calm'
    BY <2>1, <2>2 DEF Tables!StatementFails, Tables!Calm, Tables!HashOf, Event
  <2> QED  BY <1>9, <2>1, <2>2, <2>3 DEF Tables!At, Event
<1>14. ASSUME NEW g \in Goroutines, AddCur(g) PROVE RowAges'
  <2>1. /\ Tables!AddCur(g) /\ Quiet
        /\ rowAge' = [rowAge EXCEPT ![Event(g).hash] = detail[Event(g)].age]
    BY <1>14, SameConsumer DEF AddCur, Tables!AddCur, Tables!processorVars
  <2>2. /\ Tables!OnTheirWay' = Tables!OnTheirWay /\ Event(g)' = Event(g)
        /\ running[g] # Tables!Idle
        /\ \A f \in Goroutines \ {g} : running'[f] = running[f]
    BY <2>1, TablesAssumed, Tables!StatementFlight DEF Typed, Tables!IInv, Tables!OnTheirWay, Event
  <2>3. Event(g) \in Tables!InFlight /\ Event(g).hash \in Hashes  BY <2>2, RunningTyped DEF Typed
  <2>4. /\ rowAge'[Event(g).hash] = detail[Event(g)].age
        /\ \A k : k # Event(g).hash => rowAge'[k] = rowAge[k]
    BY <2>1, <2>3 DEF Typed, DetailTypes
  <2>5. Stored'
    <3>1. Event(g).hash \in Tables!OnTheirWay  BY <2>3 DEF Tables!OnTheirWay
    <3> QED  BY <1>0, <1>1, <2>1, <2>2, <2>4, <3>1
  <2>6. ASSUME NEW f \in Goroutines PROVE StoredBy(f)'
    <3>1. CASE f = g  BY <2>1, <2>2, <2>4, <3>1
    <3>2. CASE f # g
      <4>1. running'[f] = running[f]  BY <2>2, <3>2
      <4>2. CASE Event(f).hash # Event(g).hash
        BY <1>0, <1>1, <2>1, <2>4, <4>1, <4>2 DEF Tables!At, Event, IsRecovered
      <4>3. CASE Event(f).hash = Event(g).hash
        <5>1. Tables!At(f, "notify") /\ Event(f).hash \in Tables!Calm => Event(f) = Event(g)
          BY <1>4, <2>3, <4>3, TablesAssumed, Tables!OneOnItsWay DEF Typed
        <5> QED  BY <1>1, <2>1, <2>4, <4>1, <4>3, <5>1 DEF Tables!At, Event
      <4> QED  BY <4>2, <4>3
    <3> QED  BY <3>1, <3>2
  <2> QED  BY <2>5, <2>6 DEF RowAges
<1>15. ASSUME NEW g \in Goroutines, Unnoticed(g) \/ Release(g) PROVE RowAges'
  <2>1. Ended(g) /\ UNCHANGED <<detail, rowAge>>  BY <1>15, NotifyEnds DEF Unnoticed, Release, Typed
  <2>2. Quiet  BY <2>1 DEF Ended
  <2>3. ASSUME NEW k \in Tables!Calm \ Tables!OnTheirWay', k \in DOMAIN fires
        PROVE  rowAge[k] = detail[fires[k]].age
    <3>1. CASE k \notin Tables!OnTheirWay  BY <1>0, <2>3, <3>1
    <3>2. CASE k \in Tables!OnTheirWay
      <4>1. PICK e \in Tables!InFlight : e.hash = k  BY <3>2 DEF Tables!OnTheirWay
      <4>2. e = Event(g)  BY <2>1, <2>3, <4>1 DEF Ended, Tables!OnTheirWay, Event
      <4>3. e \notin recovered /\ fires[k] = e  BY <2>3, <4>1 DEF FiresAre
      <4>4. Tables!At(g, "notify")  BY <2>1 DEF Ended
      <4> QED  BY <1>0, <2>3, <4>1, <4>2, <4>3, <4>4 DEF IsRecovered
    <3> QED  BY <3>1, <3>2
  <2>4. Stored'  BY <1>1, <2>1, <2>2, <2>3
  <2>5. ASSUME NEW f \in Goroutines PROVE StoredBy(f)'
    <3>1. CASE f = g
      <4>1. ~Tables!At(f, "notify")'  BY <2>1, <3>1 DEF Ended, Tables!At, Tables!Idle
      <4> QED  BY <4>1
    <3>2. CASE f # g
      <4>1. running'[f] = running[f]  BY <2>1, <3>2 DEF Ended
      <4> QED  BY <1>0, <1>1, <2>1, <2>2, <4>1 DEF Tables!At, Event, IsRecovered
    <3> QED  BY <3>1, <3>2
  <2> QED  BY <2>4, <2>5 DEF RowAges
<1>16. ASSUME NEW g \in Goroutines, HandleEventNotify(g) \/ HandleSub(g) PROVE RowAges'
  <2>1. Routed  BY <1>16, RoutedSteps
  <2>2. UNCHANGED <<detail, rowAge>>  BY <1>16 DEF HandleEventNotify, HandleSub
  <2> QED  BY <1>10, <2>1, <2>2 DEF Routed
<1>17. CASE SendStep \/ ReloadTpls \/ UNCHANGED vars
  <2>1. Routed  BY <1>17, RoutedSteps
  <2>2. UNCHANGED <<detail, rowAge>>  BY <1>17 DEF SendStep, Send, ReloadTpls, vars
  <2> QED  BY <1>10, <2>1, <2>2 DEF Routed
<1>18. ASSUME NEW r, EditRule(r) PROVE RowAges'
  BY <1>10, <1>18, RoutedSteps DEF Routed, EditRule
<1>19. ASSUME NEW s, NEW v, EditSub(s, v) PROVE RowAges'
  BY <1>10, <1>19, RoutedSteps DEF Routed, EditSub
<1> QED
  BY <1>6, <1>7, <1>8, <1>11, <1>12, <1>13, <1>14, <1>15, <1>16, <1>17, <1>18, <1>19 DEF Next, NotifyStep

\* What got between a subscription and an alert once is not forgotten.
LEMMA UndisturbedShrinks ==
  ASSUME Typed, [Next]_vars
  PROVE  /\ disturbed \subseteq disturbed'
         /\ \A s : Undisturbed(s)' \subseteq Undisturbed(s) /\ Undisturbed(s) \subseteq Tables!Calm
<1> USE DEF historyVars, Disturb
<1>1. ASSUME NEW h \in Hashes, Fire(h) \/ Recover(h) \/ UserDelete(h) PROVE disturbed \subseteq disturbed'
  BY <1>1 DEF Fire, Recover, UserDelete
<1>2. ASSUME NEW g \in Goroutines, AddCur(g) \/ StatementFails(g) \/ Unnoticed(g)
      PROVE  disturbed \subseteq disturbed'
  BY <1>2 DEF AddCur, StatementFails, Unnoticed
<1>3. ASSUME NEW g \in Goroutines, HandleEventNotify(g) \/ HandleSub(g) \/ Release(g)
      PROVE disturbed \subseteq disturbed'
  BY <1>3 DEF HandleEventNotify, HandleSub, Release
<1>4. Consume \/ SendStep \/ ReloadTpls \/ Reload \/ Crash \/ UNCHANGED vars => disturbed \subseteq disturbed'
  BY DEF Consume, SendStep, Send, ReloadTpls, Reload, Crash, vars
<1>5. (\E r : EditRule(r)) \/ (\E s, v : EditSub(s, v)) => disturbed \subseteq disturbed'
  BY DEF EditRule, EditSub
<1>6. disturbed \subseteq disturbed'
  BY <1>1, <1>2, <1>3, <1>4, <1>5 DEF Next, NotifyStep
<1>7. Tables!Calm' \subseteq Tables!Calm  BY Grows
<1> QED  BY <1>6, <1>7, SameFlight DEF Undisturbed

\* Subscriptions change by edits only.
LEMMA SubsFrom ==
  ASSUME [Next]_vars
  PROVE  UNCHANGED subs \/ \E s \in Subs, v \in SubVersions : EditSub(s, v)
<1> USE DEF configVars
<1>1. ASSUME NEW h \in Hashes, Fire(h) \/ Recover(h) \/ UserDelete(h) PROVE UNCHANGED subs
  BY <1>1 DEF Fire, Recover, UserDelete
<1>2. ASSUME NEW g \in Goroutines, AddCur(g) \/ StatementFails(g) \/ Unnoticed(g) PROVE UNCHANGED subs
  BY <1>2 DEF AddCur, StatementFails, Unnoticed
<1>3. ASSUME NEW g \in Goroutines, HandleEventNotify(g) \/ HandleSub(g) \/ Release(g) PROVE UNCHANGED subs
  BY <1>3 DEF HandleEventNotify, HandleSub, Release
<1>4. Consume \/ SendStep \/ ReloadTpls \/ Reload \/ Crash \/ UNCHANGED vars => UNCHANGED subs
  BY DEF Consume, SendStep, Send, ReloadTpls, Reload, Crash, vars
<1>5. (\E r : EditRule(r)) => UNCHANGED subs  BY DEF EditRule
<1> QED  BY <1>1, <1>2, <1>3, <1>4, <1>5 DEF Next, NotifyStep

\* The goroutine of a calm alert has read the subscriptions as they are.
Versions ==
  \A g \in Goroutines :
    todo[g] # None =>
      \A t \in todo[g] : Event(g).hash \in Undisturbed(t.sub) => t.version = subs[t.sub]

\* An edit of a subscription disturbs the alerts that are open.
LEMMA VersionsStep ==
  ASSUME Typed, Typed', Versions, [Next]_vars
  PROVE  Versions'
<1>1. \A s : Undisturbed(s)' \subseteq Undisturbed(s)  BY UndisturbedShrinks
<1>2. ASSUME NEW g \in Goroutines, todo'[g] # None, NEW t \in todo'[g], Event(g)'.hash \in Undisturbed(t.sub)'
      PROVE  t.version = subs'[t.sub]
  <2>1. /\ running'[g] = running[g] /\ Tables!At(g, "notify")
        /\ HandleEventNotify(g) \/ (todo[g] # None /\ todo'[g] \subseteq todo[g])
    BY <1>2, TodoFrom
  <2>2. Event(g)' = Event(g)  BY <2>1 DEF Event
  <2>3. CASE HandleEventNotify(g)
    <3>1. /\ todo'[g] = {[sub |-> s, version |-> subs[s]] : s \in Subs} /\ UNCHANGED subs
      BY <2>3 DEF HandleEventNotify, configVars, Typed, Placed
    <3> QED  BY <1>2, <3>1
  <2>4. CASE todo[g] # None /\ todo'[g] \subseteq todo[g]
    <3>1. t.version = subs[t.sub]  BY <1>1, <1>2, <2>2, <2>4 DEF Versions
    <3>2. CASE UNCHANGED subs  BY <3>1, <3>2
    <3>3. ASSUME NEW s \in Subs, NEW v \in SubVersions, EditSub(s, v)
          PROVE  t.version = subs'[t.sub]
      <4>1. t.sub # s
        <5>1. Event(g).hash \in Open
          BY <2>1, NotifyRuns, RunningTyped, SameFlight DEF Typed, Open, Tables!OnTheirWay
        <5>2. t.sub = s => [sub |-> t.sub, hash |-> Event(g).hash] \in disturbed'
          BY <3>3, <5>1 DEF EditSub, Disturb
        <5>3. [sub |-> t.sub, hash |-> Event(g).hash] \notin disturbed'  BY <1>2, <2>2 DEF Undisturbed
        <5> QED  BY <5>2, <5>3
      <4> QED  BY <3>1, <3>3, <4>1 DEF EditSub, Typed, ConfigTypes
    <3> QED  BY <3>2, <3>3, SubsFrom
  <2> QED  BY <2>1, <2>3, <2>4
<1> QED  BY <1>2 DEF Versions

\* When its rule is deleted nothing is left of a calm alert.
Gone == rule = None => \A s \in Subs : \A h \in Undisturbed(s) : h \notin Open

\* A crash or a new processor leaves an undisturbed alert where it was.
LEMMA RestartEffect ==
  ASSUME Typed, Typed', Crash \/ Reload, NEW s \in Subs, NEW h \in Undisturbed(s)'
  PROVE  /\ h \notin Tables!OnTheirWay /\ h \notin Tables!OnTheirWay'
         /\ h \in DOMAIN fires' <=> h \in DOMAIN fires
         /\ h \in DOMAIN fires => detail'[fires'[h]].age = rowAge[h]
         /\ \A k \in DOMAIN fires' : fires'[k].hash = k
<1>1. Tables!Crash \/ Tables!Reload  BY SameRest DEF Crash, Reload
<1>2. h \in Tables!Calm'  BY SameFlight DEF Undisturbed
<1>3. h \notin Tables!OnTheirWay /\ h \notin Tables!OnTheirWay'
  <2>1. CASE Crash
    <3>1. [sub |-> s, hash |-> h] \notin disturbed'  BY DEF Undisturbed
    <3>2. h \notin Tables!OnTheirWay  BY <2>1, <3>1, SameFlight DEF Crash, Disturb
    <3>3. Tables!Crash  BY <2>1, SameRest DEF Crash
    <3>4. Tables!InFlight' = {}  BY <3>3, RereadEffect DEF Typed
    <3> QED  BY <3>2, <3>4 DEF Tables!OnTheirWay
  <2>2. CASE Reload
    <3>1. Tables!Reload  BY <2>2, SameRest DEF Reload
    <3>2. Tables!InFlight' = Tables!InFlight /\ Tables!Calm' \cap Tables!OnTheirWay = {}
      BY <3>1, RereadEffect DEF Typed
    <3> QED  BY <1>2, <3>2 DEF Tables!OnTheirWay
  <2> QED  BY <2>1, <2>2
<1>4. /\ DOMAIN fires' \subseteq Hashes
      /\ \A k \in DOMAIN fires' : fires'[k] \in Tables!Event /\ fires'[k].hash = k
      /\ h \in DOMAIN fires' <=> h \in DOMAIN fires
  BY <1>1, <1>2, <1>3, RereadEffect DEF Typed
<1>5. Reread  BY DEF Crash, Reload
<1>6. \A k \in DOMAIN fires' : detail'[fires'[k]].age = rowAge[k]
  BY <1>4, <1>5, RereadDetail DEF Typed
<1> QED  BY <1>3, <1>4, <1>6

\* Without a rule nothing fires, and what was open when it went is disturbed.
LEMMA GoneStep ==
  ASSUME Typed, Typed', Gone, [Next]_vars
  PROVE  Gone'
<1> SUFFICES ASSUME rule' = None, NEW s \in Subs, NEW h \in Undisturbed(s)'
             PROVE  h \notin DOMAIN fires' /\ h \notin Tables!OnTheirWay'
  BY SameFlight DEF Gone, Open
<1>1. h \in Undisturbed(s)  BY UndisturbedShrinks
<1>2. CASE rule = None
  <2>1. h \notin DOMAIN fires /\ h \notin Tables!OnTheirWay  BY <1>1, <1>2, SameFlight DEF Gone, Open
  <2>2. \A k \in Hashes : ~Fire(k) /\ ~Recover(k)  BY <1>2 DEF Fire, Recover
  <2>3. CASE Crash \/ Reload  BY <2>1, <2>3, RestartEffect
  <2>4. CASE UNCHANGED <<fires, recovered, detail, pushes>> /\ Tables!InFlight' \subseteq Tables!InFlight
    BY <2>1, <2>4 DEF Tables!OnTheirWay
  <2> QED  BY <2>2, <2>3, <2>4, OtherSteps DEF Typed
<1>3. CASE rule # None
  <2> USE DEF configVars
  <2>1. ASSUME NEW k \in Hashes, Fire(k) \/ Recover(k) \/ UserDelete(k) PROVE UNCHANGED rule
    BY <2>1 DEF Fire, Recover, UserDelete
  <2>2. ASSUME NEW g \in Goroutines, AddCur(g) \/ StatementFails(g) \/ Unnoticed(g) PROVE UNCHANGED rule
    BY <2>2 DEF AddCur, StatementFails, Unnoticed
  <2>3. ASSUME NEW g \in Goroutines, HandleEventNotify(g) \/ HandleSub(g) \/ Release(g) PROVE UNCHANGED rule
    BY <2>3 DEF HandleEventNotify, HandleSub, Release
  <2>4. Consume \/ SendStep \/ ReloadTpls \/ Reload \/ Crash \/ UNCHANGED vars => UNCHANGED rule
    BY DEF Consume, SendStep, Send, ReloadTpls, Reload, Crash, vars
  <2>5. (\E x, v : EditSub(x, v)) => UNCHANGED rule  BY DEF EditSub
  <2>6. PICK r \in Rules \cup {None} : EditRule(r)
    BY <1>3, <2>1, <2>2, <2>3, <2>4, <2>5 DEF Next, NotifyStep
  <2>7. disturbed' = disturbed \cup [sub : Subs, hash : Open]  BY <2>6 DEF EditRule, Disturb
  <2>8. [sub |-> s, hash |-> h] \notin disturbed'  BY DEF Undisturbed
  <2>9. h \notin Open  BY <2>7, <2>8
  <2>10. Routed  BY <2>6, RoutedSteps
  <2> QED  BY <2>9, <2>10, RoutedKeeps, SameFlight DEF Open, Routed
<1> QED  BY <1>2, <1>3

\* The goroutine of h is done with subscription s.
Handled(s, h) ==
  \E g \in Goroutines : Tables!Runs(g, h) /\ todo[g] # None /\ \A t \in todo[g] : t.sub # s

\* The receivers of s believe what the processor does of an alert that is not on its
\* way or that its goroutine has told them of.  Before, a recovery finds those that
\* its event matches told, and only those; a fire event, those that the shorter
\* event before it matched.
InformedOf(s, h) ==
  /\ h \notin Tables!OnTheirWay \/ Handled(s, h) =>
       (h \in alerted[s] <=> h \in DOMAIN fires /\ Match(fires[h], subs[s]))
  /\ \A e \in Tables!InFlight :
       e.hash = h /\ ~Handled(s, h) =>
         IF e \in recovered THEN h \in alerted[s] <=> Match(e, subs[s])
         ELSE h \in alerted[s] => Match(e, subs[s])

Informed == \A s \in Subs : \A h \in Undisturbed(s) : InformedOf(s, h)

\* A calm alert has one goroutine.
LEMMA HandledBy ==
  ASSUME Typed, NEW s, NEW h \in Tables!Calm, NEW g \in Goroutines, Tables!Runs(g, h)
  PROVE  Handled(s, h) <=> todo[g] # None /\ \A t \in todo[g] : t.sub # s
<1>1. h \in Tables!Orderly  BY DEF Tables!Calm, Tables!Orderly
<1>2. \A f \in Goroutines : Tables!Runs(f, h) => f = g
  BY <1>1 DEF Typed, Tables!IInv, Tables!Exclusive
<1> QED  BY <1>2 DEF Handled

\* An alert that runs is on its way.
LEMMA HandledOnItsWay ==
  ASSUME NEW s, NEW h, Handled(s, h)
  PROVE  h \in Tables!OnTheirWay
BY DEF Handled, Tables!Runs, Tables!OnTheirWay, Tables!InFlight, Tables!Busy

\* What h and s are to each other rests on a few variables only.
LEMMA InformedKept ==
  ASSUME NEW s, NEW h, InformedOf(s, h),
         h \in alerted'[s] <=> h \in alerted[s], subs'[s] = subs[s],
         h \in Tables!OnTheirWay' <=> h \in Tables!OnTheirWay, Handled(s, h)' <=> Handled(s, h),
         h \in DOMAIN fires' <=> h \in DOMAIN fires,
         h \in DOMAIN fires => fires'[h] = fires[h] /\ detail'[fires[h]].age = detail[fires[h]].age,
         \A e \in Tables!InFlight' :
           e.hash = h => e \in Tables!InFlight /\ (e \in recovered' <=> e \in recovered)
                         /\ detail'[e].age = detail[e].age
  PROVE  InformedOf(s, h)'
BY DEF InformedOf, Match

\* Nothing of what h and s are to each other changes while the goroutines of h keep
\* what is left to them.
LEMMA InformedQuiet ==
  ASSUME Typed, Informed, [Next]_vars, NEW s \in Subs, NEW h \in Undisturbed(s)',
         h \in alerted'[s] <=> h \in alerted[s], subs'[s] = subs[s],
         UNCHANGED <<fires, recovered, detail, todo>>,
         Tables!InFlight' = Tables!InFlight
  PROVE  InformedOf(s, h)'
<1>1. InformedOf(s, h)  BY UndisturbedShrinks DEF Informed
<1>2. \A g \in Goroutines : todo[g] # None => running'[g] = running[g]  BY TodoFrom
<1>3. Handled(s, h)' <=> Handled(s, h)  BY <1>2 DEF Handled, Tables!Runs, Tables!Idle, Tables!NoEvent
<1> QED  BY <1>1, <1>3, InformedKept DEF Tables!OnTheirWay

\* A repetition is no younger than the event it repeats.
LEMMA InformedFire ==
  ASSUME Typed, NamesKept, Informed, [Next]_vars, NEW k \in Hashes, Fire(k),
         NEW s \in Subs, NEW h \in Undisturbed(s)'
  PROVE  InformedOf(s, h)'
<1>1. InformedOf(s, h)  BY UndisturbedShrinks DEF Informed
<1>2. /\ Tables!Fire(k) /\ detail'[New(k)] \in Detail
      /\ k \in DOMAIN fires => detail'[New(k)].age >= detail[fires[k]].age
      /\ \A e \in DOMAIN detail \ {New(k)} : detail'[e] = detail[e]
  BY FireDetail DEF Typed
<1>3. /\ Pushed(New(k)) /\ UNCHANGED recovered
      /\ DOMAIN fires' = DOMAIN fires \cup {k} /\ fires'[k] = New(k)
      /\ \A x \in DOMAIN fires \ {k} : fires'[x] = fires[x]
  BY <1>2, FireEffect DEF Typed
<1>4. UNCHANGED <<alerted, subs, todo, running>>
  BY <1>3 DEF Fire, configVars, notifyVars, historyVars, Pushed
<1>5. \A e \in DOMAIN detail : detail'[e] = detail[e]  BY <1>2, OldNames
<1>6. Tables!InFlight \subseteq DOMAIN detail /\ \A x \in DOMAIN fires : fires[x] \in DOMAIN detail
  BY DEF Typed, DetailTypes
<1>7. Handled(s, h)' <=> Handled(s, h)  BY <1>4 DEF Handled, Tables!Runs, Tables!Idle, Tables!NoEvent
<1>8. New(k).hash = k  BY DEF New
<1>9. CASE h # k
  <2>1. \A e \in Tables!InFlight' : e.hash = h => e \in Tables!InFlight
    BY <1>3, <1>8, <1>9 DEF Pushed
  <2>2. h \in Tables!OnTheirWay' <=> h \in Tables!OnTheirWay
    BY <1>3, <2>1 DEF Pushed, Tables!OnTheirWay
  <2>3. h \in DOMAIN fires => fires'[h] = fires[h] /\ detail'[fires[h]].age = detail[fires[h]].age
    BY <1>3, <1>5, <1>6, <1>9
  <2>4. \A e \in Tables!InFlight' :
          e.hash = h => e \in Tables!InFlight /\ (e \in recovered' <=> e \in recovered)
                        /\ detail'[e].age = detail[e].age
    BY <1>3, <1>5, <1>6, <2>1
  <2>5. h \in DOMAIN fires' <=> h \in DOMAIN fires  BY <1>3, <1>9
  <2> QED  BY <1>1, <1>4, <1>7, <2>2, <2>3, <2>4, <2>5, InformedKept
<1>10. CASE h = k
  <2>1. h \in Tables!Calm'  BY SameFlight DEF Undisturbed
  <2>2. h \notin Tables!OnTheirWay /\ New(k) \in Tables!InFlight'
    BY <1>3, <1>8, <1>10, <2>1 DEF Pushed
  <2>3. h \in Tables!OnTheirWay'  BY <1>8, <1>10, <2>2 DEF Tables!OnTheirWay
  <2>4. ~Handled(s, h)'  BY <1>7, <2>2, HandledOnItsWay
  <2>5. \A e \in Tables!InFlight' : e.hash = h => e = New(k)
    BY <1>3, <2>2 DEF Pushed, Tables!OnTheirWay
  <2>6. New(k) \notin recovered'
    <3>1. \A e \in recovered : e.id <= pushes  BY DEF Typed, Tables!IInv, Tables!Numbered
    <3>2. pushes \in Nat  BY Grows
    <3> QED  BY <1>3, <3>1, <3>2 DEF New
  <2>7. ASSUME h \in alerted'[s] PROVE h \in subs'[s].alerts /\ subs'[s].forDuration <= detail'[New(k)].age
    <3>1. h \in DOMAIN fires /\ Match(fires[h], subs[s])
      BY <1>1, <1>4, <2>2, <2>7 DEF InformedOf
    <3>2. fires[h].hash = h  BY <3>1 DEF Typed, Tables!IInv, Tables!TypeOK
    <3>3. h \in subs[s].alerts /\ subs[s].forDuration <= detail[fires[h]].age
      BY <3>1, <3>2 DEF Match
    <3>4. /\ subs[s].forDuration \in Nat /\ detail[fires[h]].age \in Nat /\ detail'[New(k)].age \in Nat
      <4>1. subs[s] \in SubVersions  BY DEF Typed, ConfigTypes
      <4>2. subs[s].forDuration \in 0..MaxAge  BY <4>1, SubVersionsAssumption
      <4>3. detail[fires[h]] \in Detail  BY <3>1, <1>6 DEF Typed, DetailTypes
      <4> QED  BY <1>2, <4>2, <4>3 DEF Detail
    <3>5. subs[s].forDuration <= detail'[New(k)].age  BY <1>2, <1>10, <3>1, <3>3, <3>4
    <3> QED  BY <1>4, <3>3, <3>5
  <2>8. ASSUME NEW e \in Tables!InFlight', e.hash = h, h \in alerted'[s]
        PROVE  e.hash \in subs'[s].alerts /\ subs'[s].forDuration <= detail'[e].age
    BY <2>5, <2>7, <2>8
  <2>9. \A e \in Tables!InFlight' : e.hash = h => e \notin recovered'  BY <2>5, <2>6
  <2> QED  BY <2>3, <2>4, <2>8, <2>9 DEF InformedOf, Match
<1> QED  BY <1>9, <1>10

\* A recovery has the age of the event that fired.
LEMMA InformedRecover ==
  ASSUME Typed, NamesKept, Informed, [Next]_vars, NEW k \in Hashes, Recover(k),
         NEW s \in Subs, NEW h \in Undisturbed(s)'
  PROVE  InformedOf(s, h)'
<1>1. InformedOf(s, h)  BY UndisturbedShrinks DEF Informed
<1>2. /\ Tables!Recover(k) /\ fires[k] \in DOMAIN detail
      /\ detail'[fires[k]].age = detail[fires[k]].age
      /\ \A e \in DOMAIN detail \ {fires[k]} : detail'[e] = detail[e]
  BY RecoverDetail DEF Typed
<1>3. /\ k \in DOMAIN fires /\ fires[k].hash = k /\ Pushed(fires[k])
      /\ recovered' = recovered \cup {fires[k]}
      /\ DOMAIN fires' = DOMAIN fires \ {k}
      /\ \A x \in DOMAIN fires \ {k} : fires'[x] = fires[x]
  BY <1>2, RecoverEffect DEF Typed
<1>4. UNCHANGED <<alerted, subs, todo, running>>
  BY <1>3 DEF Recover, configVars, notifyVars, historyVars, Pushed
<1>5. \A e \in DOMAIN detail : detail'[e].age = detail[e].age  BY <1>2
<1>6. Tables!InFlight \subseteq DOMAIN detail /\ \A x \in DOMAIN fires : fires[x] \in DOMAIN detail
  BY DEF Typed, DetailTypes
<1>7. Handled(s, h)' <=> Handled(s, h)  BY <1>4 DEF Handled, Tables!Runs, Tables!Idle, Tables!NoEvent
<1>8. CASE h # k
  <2>1. \A e \in Tables!InFlight' : e.hash = h => e \in Tables!InFlight /\ e # fires[k]
    BY <1>3, <1>8 DEF Pushed
  <2>2. h \in Tables!OnTheirWay' <=> h \in Tables!OnTheirWay
    BY <1>3, <2>1 DEF Pushed, Tables!OnTheirWay
  <2>3. h \in DOMAIN fires => fires'[h] = fires[h] /\ detail'[fires[h]].age = detail[fires[h]].age
    BY <1>3, <1>5, <1>6, <1>8
  <2>4. \A e \in Tables!InFlight' :
          e.hash = h => e \in Tables!InFlight /\ (e \in recovered' <=> e \in recovered)
                        /\ detail'[e].age = detail[e].age
    BY <1>3, <1>5, <1>6, <2>1
  <2>5. h \in DOMAIN fires' <=> h \in DOMAIN fires  BY <1>3, <1>8
  <2> QED  BY <1>1, <1>4, <1>7, <2>2, <2>3, <2>4, <2>5, InformedKept
<1>9. CASE h = k
  <2>1. h \in Tables!Calm'  BY SameFlight DEF Undisturbed
  <2>2. h \notin Tables!OnTheirWay /\ fires[k] \in Tables!InFlight'
    BY <1>3, <1>9, <2>1 DEF Pushed
  <2>3. h \in Tables!OnTheirWay'  BY <1>3, <1>9, <2>2 DEF Tables!OnTheirWay
  <2>4. ~Handled(s, h)'  BY <1>7, <2>2, HandledOnItsWay
  <2>5. \A e \in Tables!InFlight' : e.hash = h => e = fires[k]
    BY <1>3, <2>2 DEF Pushed, Tables!OnTheirWay
  <2>6. h \in alerted[s] <=> Match(fires[k], subs[s])  BY <1>1, <1>3, <1>9, <2>2 DEF InformedOf
  <2>7. ASSUME NEW e \in Tables!InFlight', e.hash = h
        PROVE  /\ e \in recovered'
               /\ h \in alerted'[s] <=>
                    e.hash \in subs'[s].alerts /\ subs'[s].forDuration <= detail'[e].age
    BY <1>2, <1>3, <1>4, <2>5, <2>6, <2>7 DEF Match
  <2> QED  BY <2>3, <2>4, <2>7 DEF InformedOf, Match
<1> QED  BY <1>8, <1>9

\* The processor reads the age of the event whose receivers were told.
LEMMA InformedRestart ==
  ASSUME Typed, Typed', RowAges, Informed, [Next]_vars, Crash \/ Reload,
         NEW s \in Subs, NEW h \in Undisturbed(s)'
  PROVE  InformedOf(s, h)'
<1>1. InformedOf(s, h) /\ h \in Tables!Calm  BY UndisturbedShrinks DEF Informed
<1>2. /\ h \notin Tables!OnTheirWay /\ h \notin Tables!OnTheirWay'
      /\ h \in DOMAIN fires' <=> h \in DOMAIN fires
      /\ h \in DOMAIN fires => detail'[fires'[h]].age = rowAge[h]
      /\ \A k \in DOMAIN fires' : fires'[k].hash = k
  BY RestartEffect
<1>3. UNCHANGED <<alerted, subs>>  BY DEF Crash, Reload, configVars, historyVars
<1>4. h \in DOMAIN fires => rowAge[h] = detail[fires[h]].age /\ fires[h].hash = h
  BY <1>1, <1>2 DEF RowAges, Typed, Tables!IInv, Tables!TypeOK
<1>5. h \in DOMAIN fires =>
        (Match(fires[h], subs[s]) <=>
           fires'[h].hash \in subs'[s].alerts /\ subs'[s].forDuration <= detail'[fires'[h]].age)
  BY <1>2, <1>3, <1>4 DEF Match
<1>6. h \in alerted[s] <=> h \in DOMAIN fires /\ Match(fires[h], subs[s])  BY <1>1, <1>2 DEF InformedOf
<1>7. \A e \in Tables!InFlight' : e.hash # h  BY <1>2 DEF Tables!OnTheirWay
<1> QED  BY <1>2, <1>3, <1>5, <1>6, <1>7 DEF InformedOf, Match

\* What is known of an alert when its goroutine notifies.
LEMMA AtNotify ==
  ASSUME Typed, FiresAre, Informed, Gone, NEW g \in Goroutines, Tables!At(g, "notify"),
         NEW s \in Subs, Event(g).hash \in Undisturbed(s)
  PROVE  /\ Tables!Runs(g, Event(g).hash) /\ Event(g).hash \in Tables!Calm
         /\ Event(g) \in Tables!InFlight /\ Event(g).hash \in Tables!OnTheirWay
         /\ rule # None
         /\ IsRecovered(g) => Event(g).hash \notin DOMAIN fires
         /\ ~IsRecovered(g) => Event(g).hash \in DOMAIN fires /\ fires[Event(g).hash] = Event(g)
         /\ ~Handled(s, Event(g).hash) =>
              IF IsRecovered(g) THEN Event(g).hash \in alerted[s] <=> Match(Event(g), subs[s])
              ELSE Event(g).hash \in alerted[s] => Match(Event(g), subs[s])
<1>1. Event(g) \in Tables!InFlight /\ running[g] # Tables!Idle  BY NotifyRuns, RunningTyped DEF Typed
<1>2. Event(g).hash \in Tables!OnTheirWay  BY <1>1 DEF Tables!OnTheirWay
<1>3. Event(g).hash \in Tables!Calm  BY SameFlight DEF Undisturbed
<1>4. rule # None  BY <1>2, SameFlight DEF Gone, Open
<1>5. Tables!Runs(g, Event(g).hash)  BY <1>1 DEF Tables!Runs, Event
<1>6. InformedOf(s, Event(g).hash)  BY DEF Informed
<1> QED  BY <1>1, <1>2, <1>3, <1>4, <1>5, <1>6 DEF FiresAre, IsRecovered, InformedOf

\* The subscriptions are read: no goroutine is done with any.
LEMMA InformedReads ==
  ASSUME Typed, Informed, [Next]_vars, NEW g \in Goroutines, HandleEventNotify(g),
         NEW s \in Subs, NEW h \in Undisturbed(s)'
  PROVE  InformedOf(s, h)'
<1>1. InformedOf(s, h)  BY UndisturbedShrinks DEF Informed
<1>2. /\ todo[g] = None /\ todo' = [todo EXCEPT ![g] = {[sub |-> x, version |-> subs[x]] : x \in Subs}]
      /\ UNCHANGED <<alerted, subs, detail>>
  BY DEF HandleEventNotify, configVars, historyVars
<1>3. Routed  BY RoutedSteps
<1>4. [sub |-> s, version |-> subs[s]] \in todo'[g]  BY <1>2 DEF Typed, Placed
<1>5. Handled(s, h)' <=> Handled(s, h)
  <2>1. \A f \in Goroutines \ {g} : todo'[f] = todo[f]  BY <1>2 DEF Typed, Placed
  <2>2. \E t \in todo'[g] : t.sub = s  BY <1>4
  <2>3. UNCHANGED running  BY <1>3 DEF Routed
  <2> QED  BY <1>2, <2>1, <2>2, <2>3 DEF Handled, Tables!Runs, Tables!Idle, Tables!NoEvent
<1> QED  BY <1>1, <1>2, <1>3, <1>5, RoutedKeeps, InformedKept DEF Routed

\* handleSub of one subscription: those who are told of an end were told of the start.
LEMMA InformedTold ==
  ASSUME Typed, FiresAre, Informed, Versions, Gone, [Next]_vars, NEW g \in Goroutines, HandleSub(g),
         NEW s \in Subs, NEW h \in Undisturbed(s)'
  PROVE  /\ InformedOf(s, h)'
         /\ [sub |-> s, hash |-> h] \in unheard' => [sub |-> s, hash |-> h] \in unheard
<1> DEFINE e == Event(g)
<1>1. h \in Undisturbed(s) /\ InformedOf(s, h) /\ h \in Tables!Calm
  BY UndisturbedShrinks DEF Informed
<1>2. PICK t \in todo[g] :
        /\ todo' = [todo EXCEPT ![g] = @ \ {t}]
        /\ IF Match(e, t.version) /\ rule # None THEN Told(t.sub, e.hash, IsRecovered(g))
           ELSE UNCHANGED <<alerted, unheard>>
        /\ UNCHANGED <<subs, detail>>
  BY DEF HandleSub, configVars
<1>3. Routed  BY RoutedSteps
<1>4. UNCHANGED <<fires, recovered, running>> /\ Tables!InFlight' = Tables!InFlight
      /\ Tables!OnTheirWay' = Tables!OnTheirWay
  BY <1>3, RoutedKeeps DEF Routed
<1>5. todo[g] # None /\ Tables!At(g, "notify")  BY DEF HandleSub, Typed, Placed
<1>6. t \in [sub : Subs, version : SubVersions]  BY <1>5 DEF Typed, SendTypes
<1>7. todo'[g] = todo[g] \ {t} /\ todo'[g] # None
  <2>1. todo'[g] = todo[g] \ {t}  BY <1>2 DEF Typed, Placed
  <2>2. todo'[g] \in SUBSET [sub : Subs, version : SubVersions]  BY <1>5, <2>1 DEF Typed, SendTypes
  <2> QED  BY <2>1, <2>2, NoneAssumption
<1>8. \A f \in Goroutines \ {g} : todo'[f] = todo[f]  BY <1>2 DEF Typed, Placed
<1>9. ASSUME h # e.hash \/ s # t.sub PROVE h \in alerted'[s] <=> h \in alerted[s]
  BY <1>2, <1>6, <1>9 DEF Told, Typed, HistoryTypes
<1>10. ASSUME h # e.hash \/ s # t.sub
       PROVE  [sub |-> s, hash |-> h] \in unheard' => [sub |-> s, hash |-> h] \in unheard
  <2>1. unheard' \subseteq unheard \cup {[sub |-> t.sub, hash |-> e.hash]}  BY <1>2 DEF Told
  <2>2. [sub |-> s, hash |-> h] # [sub |-> t.sub, hash |-> e.hash]  BY <1>10
  <2> QED  BY <2>1, <2>2
<1> HIDE DEF e
<1>11. ASSUME Handled(s, h)' <=> Handled(s, h), h \in alerted'[s] <=> h \in alerted[s]
       PROVE  InformedOf(s, h)'
  BY <1>1, <1>2, <1>4, <1>11, InformedKept
<1>12. CASE h # e.hash
  <2>1. ~Tables!Runs(g, h)  BY <1>12 DEF Tables!Runs, Event, e
  <2>2. Handled(s, h)' <=> Handled(s, h)
    BY <1>4, <1>8, <2>1 DEF Handled, Tables!Runs, Tables!Idle, Tables!NoEvent
  <2> QED  BY <1>9, <1>10, <1>11, <1>12, <2>2
<1>13. CASE h = e.hash /\ s # t.sub
  <2>1. Handled(s, h)' <=> Handled(s, h)
    BY <1>4, <1>5, <1>7, <1>8, <1>13 DEF Handled, Tables!Runs, Tables!Idle, Tables!NoEvent
  <2> QED  BY <1>9, <1>10, <1>11, <1>13, <2>1
<1>14. CASE h = e.hash /\ s = t.sub
  <2>1. /\ Tables!Runs(g, h) /\ e \in Tables!InFlight /\ rule # None
        /\ IsRecovered(g) => h \notin DOMAIN fires
        /\ ~IsRecovered(g) => h \in DOMAIN fires /\ fires[h] = e
        /\ ~Handled(s, h) => IF IsRecovered(g) THEN h \in alerted[s] <=> Match(e, subs[s])
                             ELSE h \in alerted[s] => Match(e, subs[s])
    BY <1>1, <1>5, <1>14, AtNotify DEF e
  <2>2. ~Handled(s, h)  BY <1>1, <1>14, <2>1, HandledBy
  <2>3. t.version = subs[s]  BY <1>1, <1>5, <1>14 DEF Versions, e
  <2>4. Handled(s, h)'
    <3>1. ASSUME NEW u \in todo[g], u.sub = s PROVE u = t
      <4>1. u.version = subs[s]  BY <1>1, <1>5, <1>14, <3>1 DEF Versions, e
      <4>2. u \in [sub : Subs, version : SubVersions]  BY <1>5 DEF Typed, SendTypes
      <4> QED  BY <1>6, <1>14, <2>3, <3>1, <4>1, <4>2
    <3>2. \A u \in todo'[g] : u.sub # s  BY <1>7, <3>1
    <3>3. Tables!Runs(g, h)'  BY <1>4, <2>1 DEF Tables!Runs, Tables!Idle, Tables!NoEvent
    <3> QED  BY <1>7, <3>2, <3>3 DEF Handled
  <2>5. alerted[s] \in SUBSET Hashes /\ alerted \in [Subs -> SUBSET Hashes]  BY DEF Typed, HistoryTypes
  <2>6. CASE Match(e, subs[s])
    <3>1. Told(s, h, IsRecovered(g))  BY <1>2, <1>14, <2>1, <2>3, <2>6
    <3>2. h \in alerted'[s] <=> ~IsRecovered(g)  BY <2>5, <3>1 DEF Told
    <3>3. UNCHANGED unheard  BY <2>1, <2>2, <2>6, <3>1 DEF Told
    <3>4. h \in alerted'[s] <=> h \in DOMAIN fires /\ Match(fires[h], subs[s])
      BY <2>1, <2>6, <3>2
    <3> QED  BY <1>2, <1>4, <2>4, <3>3, <3>4 DEF InformedOf, Match
  <2>7. CASE ~Match(e, subs[s])
    <3>1. UNCHANGED <<alerted, unheard>>  BY <1>2, <2>3, <2>7
    <3>2. h \in alerted'[s] <=> h \in DOMAIN fires /\ Match(fires[h], subs[s])
      BY <2>1, <2>2, <2>7, <3>1
    <3> QED  BY <1>2, <1>4, <2>4, <3>1, <3>2 DEF InformedOf, Match
  <2> QED  BY <2>6, <2>7
<1> QED  BY <1>12, <1>13, <1>14

\* The end of a goroutine: it is done with all subscriptions, or nobody is to be told.
LEMMA InformedEnds ==
  ASSUME Typed, FiresAre, Informed, Gone, [Next]_vars, NEW g \in Goroutines, Unnoticed(g) \/ Release(g),
         NEW s \in Subs, NEW h \in Undisturbed(s)'
  PROVE  InformedOf(s, h)'
<1> DEFINE e == Event(g)
<1>1. h \in Undisturbed(s) /\ InformedOf(s, h) /\ h \in Tables!Calm
  BY UndisturbedShrinks DEF Informed
<1>2. Ended(g)  BY NotifyEnds DEF Unnoticed, Release, Typed
<1>3. /\ UNCHANGED <<fires, recovered>> /\ Tables!InFlight' \subseteq Tables!InFlight
      /\ \A d \in Tables!InFlight : d # e => d \in Tables!InFlight'
      /\ Tables!At(g, "notify") /\ running'[g] = Tables!Idle
      /\ \A f \in Goroutines \ {g} : running'[f] = running[f]
      /\ e.hash \in Tables!Calm => e.hash \notin Tables!OnTheirWay'
  BY <1>2 DEF Ended, Event
<1>4. UNCHANGED <<subs, detail>> /\ \A f \in Goroutines \ {g} : todo'[f] = todo[f]
  BY DEF Unnoticed, Release, configVars, notifyVars, Typed, Placed
<1>5. Unnoticed(g) =>
        todo[g] = None /\ (rule = None \/ (IsRecovered(g) /\ alerted' = [x \in Subs |-> alerted[x] \ {e.hash}]))
  BY DEF Unnoticed
<1>6. Release(g) => todo[g] = {} /\ UNCHANGED alerted  BY DEF Release, historyVars
<1>7. UNCHANGED alerted \/ alerted' = [x \in Subs |-> alerted[x] \ {e.hash}]
  BY DEF Unnoticed, Release, historyVars
<1> HIDE DEF e
<1>8. CASE h # e.hash
  <2>1. ~Tables!Runs(g, h)  BY <1>8 DEF Tables!Runs, Event, e
  <2>2. ~Tables!Runs(g, h)'  BY <1>3 DEF Tables!Runs, Tables!Idle, Tables!NoEvent
  <2>3. Handled(s, h)' <=> Handled(s, h)
    BY <1>3, <1>4, <2>1, <2>2 DEF Handled, Tables!Runs, Tables!Idle, Tables!NoEvent
  <2>4. h \in Tables!OnTheirWay' <=> h \in Tables!OnTheirWay  BY <1>3, <1>8 DEF Tables!OnTheirWay
  <2>5. h \in alerted'[s] <=> h \in alerted[s]  BY <1>7, <1>8
  <2> QED  BY <1>1, <1>3, <1>4, <2>3, <2>4, <2>5, InformedKept
<1>9. CASE h = e.hash
  <2>1. /\ Tables!Runs(g, h) /\ rule # None
        /\ IsRecovered(g) => h \notin DOMAIN fires
    BY <1>1, <1>3, <1>9, AtNotify DEF e
  <2>2. h \in alerted'[s] <=> h \in DOMAIN fires /\ Match(fires[h], subs[s])
    <3>1. CASE Unnoticed(g)
      <4>1. IsRecovered(g) /\ h \notin alerted'[s]  BY <1>5, <1>9, <2>1, <3>1
      <4> QED  BY <2>1, <4>1
    <3>2. CASE Release(g)
      <4>1. todo[g] # None
        <5>1. None # {}  BY NoneAssumption
        <5> QED  BY <1>6, <3>2, <5>1
      <4>2. Handled(s, h)  BY <1>1, <1>6, <2>1, <3>2, <4>1, HandledBy
      <4> QED  BY <1>1, <1>6, <3>2, <4>2 DEF InformedOf
    <3> QED  BY <3>1, <3>2
  <2>3. h \notin Tables!OnTheirWay'  BY <1>1, <1>3, <1>9
  <2>4. \A d \in Tables!InFlight' : d.hash # h  BY <2>3 DEF Tables!OnTheirWay
  <2> QED  BY <1>3, <1>4, <2>2, <2>3, <2>4 DEF InformedOf, Match
<1> QED  BY <1>8, <1>9

\* An edited subscription starts anew with the alerts that are not open.
LEMMA InformedEdit ==
  ASSUME Typed, Informed, [Next]_vars, NEW x \in Subs, NEW v \in SubVersions, EditSub(x, v),
         NEW s \in Subs, NEW h \in Undisturbed(s)'
  PROVE  InformedOf(s, h)'
<1>1. InformedOf(s, h)  BY UndisturbedShrinks DEF Informed
<1>2. Routed  BY RoutedSteps
<1>3. UNCHANGED <<alerted, detail, todo>> /\ subs' = [subs EXCEPT ![x] = v]
  BY DEF EditSub, notifyVars
<1>4. UNCHANGED <<fires, recovered, running>> /\ Tables!InFlight' = Tables!InFlight
      /\ Tables!OnTheirWay' = Tables!OnTheirWay
  BY <1>2, RoutedKeeps DEF Routed
<1>5. CASE s # x
  <2>1. subs'[s] = subs[s]  BY <1>3, <1>5 DEF Typed, ConfigTypes
  <2> QED  BY <1>3, <1>4, <2>1, InformedQuiet
<1>6. CASE s = x
  <2>1. [sub |-> s, hash |-> h] \notin disturbed'  BY DEF Undisturbed
  <2>2. h \notin Open  BY <1>6, <2>1 DEF EditSub, Disturb
  <2>3. h \notin DOMAIN fires /\ h \notin Tables!OnTheirWay  BY <2>2, SameFlight DEF Open
  <2>4. h \notin alerted[s]  BY <1>1, <2>3 DEF InformedOf
  <2>5. \A e \in Tables!InFlight' : e.hash # h  BY <1>4, <2>3 DEF Tables!OnTheirWay
  <2> QED  BY <1>3, <1>4, <2>3, <2>4, <2>5 DEF InformedOf
<1> QED  BY <1>5, <1>6

InformedInv == Typed /\ NamesKept /\ FiresAre /\ RowAges /\ Versions /\ Gone /\ Informed /\ NoRecoveryUnheard

\* No step misinforms a subscription.
LEMMA InformedStep ==
  ASSUME InformedInv, Typed', [Next]_vars
  PROVE  Informed' /\ NoRecoveryUnheard'
<1> USE DEF InformedInv
<1> SUFFICES ASSUME NEW s \in Subs, NEW h \in Undisturbed(s)'
             PROVE  /\ InformedOf(s, h)'
                    /\ [sub |-> s, hash |-> h] \in unheard' => [sub |-> s, hash |-> h] \in unheard
  <2>1. \A x : Undisturbed(x)' \subseteq Undisturbed(x)  BY UndisturbedShrinks
  <2> QED  BY <2>1 DEF Informed, NoRecoveryUnheard
<1> DEFINE Goal == /\ InformedOf(s, h)'
                   /\ [sub |-> s, hash |-> h] \in unheard' => [sub |-> s, hash |-> h] \in unheard
<1> USE DEF historyVars
<1>1. ASSUME NEW k \in Hashes, Fire(k) PROVE Goal
  <2>1. UNCHANGED unheard  BY <1>1 DEF Fire
  <2> QED  BY <1>1, <2>1, InformedFire
<1>2. ASSUME NEW k \in Hashes, Recover(k) PROVE Goal
  <2>1. UNCHANGED unheard  BY <1>2 DEF Recover
  <2> QED  BY <1>2, <2>1, InformedRecover
<1>3. ASSUME Crash \/ Reload PROVE Goal
  <2>1. UNCHANGED unheard  BY <1>3 DEF Crash, Reload
  <2> QED  BY <1>3, <2>1, InformedRestart
<1>4. ASSUME UNCHANGED <<alerted, unheard, subs, fires, recovered, detail, todo>>,
             Tables!InFlight' = Tables!InFlight
      PROVE  Goal
  BY <1>4, InformedQuiet
<1> HIDE DEF Goal
<1> USE DEF configVars, notifyVars
<1>5. ASSUME NEW k \in Hashes, UserDelete(k) PROVE Goal
  <2>1. /\ UNCHANGED <<alerted, unheard, subs, fires, recovered, detail, todo>>
        /\ UNCHANGED <<running, queue, batch>>
    BY <1>5 DEF UserDelete, Pipeline!UserDelete, Pipeline!processorVars, Pipeline!consumerVars
  <2>2. Tables!InFlight' = Tables!InFlight
    BY <2>1 DEF Tables!InFlight, Tables!Busy, Tables!ToSet, Tables!Idle, Tables!NoEvent
  <2> QED  BY <1>4, <2>1, <2>2
<1>6. ASSUME Consume PROVE Goal
  <2>1. UNCHANGED <<alerted, unheard, subs, detail, todo>>  BY <1>6 DEF Consume
  <2> QED  BY <1>4, <1>6, <2>1, ConsumeMoves DEF Moved, Typed
<1>7. ASSUME NEW g \in Goroutines, AddCur(g) \/ StatementFails(g) PROVE Goal
  <2>1. Statement(g) /\ UNCHANGED <<alerted, unheard, subs, detail, todo>>
    BY <1>7, SameConsumer DEF Statement, AddCur, StatementFails
  <2> QED  BY <1>4, <2>1, StatementMoves DEF Moved, Typed
<1>8. ASSUME NEW g \in Goroutines, Unnoticed(g) \/ Release(g) PROVE Goal
  <2>1. UNCHANGED unheard  BY <1>8 DEF Unnoticed, Release
  <2> QED  BY <1>8, <2>1, InformedEnds DEF Goal
<1>9. ASSUME NEW g \in Goroutines, HandleEventNotify(g) PROVE Goal
  <2>1. UNCHANGED unheard  BY <1>9 DEF HandleEventNotify
  <2> QED  BY <1>9, <2>1, InformedReads DEF Goal
<1>10. ASSUME NEW g \in Goroutines, HandleSub(g) PROVE Goal
  BY <1>10, InformedTold DEF Goal
<1>11. ASSUME SendStep \/ ReloadTpls \/ UNCHANGED vars PROVE Goal
  <2>1. Routed  BY <1>11, RoutedSteps
  <2>2. UNCHANGED <<alerted, unheard, subs, detail, todo>>
    <3>1. SendStep => UNCHANGED <<alerted, unheard, subs, detail, todo>>  BY DEF SendStep, Send
    <3>2. ReloadTpls \/ UNCHANGED vars => UNCHANGED <<alerted, unheard, subs, detail, todo>>
      BY DEF ReloadTpls, vars
    <3> QED  BY <1>11, <3>1, <3>2
  <2> QED  BY <1>4, <2>1, <2>2, RoutedKeeps DEF Routed
<1>12. ASSUME NEW r \in Rules \cup {None}, EditRule(r) PROVE Goal
  <2>1. UNCHANGED <<alerted, unheard, subs, detail, todo>>  BY <1>12 DEF EditRule
  <2>2. Routed  BY <1>12, RoutedSteps
  <2> QED  BY <1>4, <2>1, <2>2, RoutedKeeps DEF Routed
<1>13. ASSUME NEW x \in Subs, NEW v \in SubVersions, EditSub(x, v) PROVE Goal
  <2>1. UNCHANGED unheard  BY <1>13 DEF EditSub
  <2> QED  BY <1>13, <2>1, InformedEdit DEF Goal
<1>14. Goal
  BY <1>1, <1>2, <1>3, <1>5, <1>6, <1>7, <1>8, <1>9, <1>10, <1>11, <1>12, <1>13 DEF Next, NotifyStep
<1> QED  BY <1>14 DEF Goal

\* Nobody has been told of anything at the start.
LEMMA InformedInvInit == Init => InformedInv
<1> SUFFICES ASSUME Init PROVE InformedInv  OBVIOUS
<1>1. AskedInv  BY AskedInit
<1>2. Tables!Init  BY SameRest DEF Init
<1>3. /\ DOMAIN fires = {} /\ queue = <<>> /\ batch = <<>>
      /\ \A g \in Goroutines : running[g] = Tables!Idle
  BY <1>2 DEF Tables!Init
<1>4. Tables!InFlight = {} /\ Tables!OnTheirWay = {}
  BY <1>3 DEF Tables!InFlight, Tables!Busy, Tables!ToSet, Tables!OnTheirWay
<1>5. /\ \A g \in Goroutines : todo[g] = None
      /\ alerted = [s \in Subs |-> {}] /\ unheard = {} /\ rule \in Rules
  BY DEF Init
<1>6. FiresAre  BY <1>4 DEF FiresAre
<1>7. RowAges  BY <1>3 DEF RowAges, Tables!At, Tables!Idle
<1>8. Versions /\ Gone  BY <1>5, NoneAssumption DEF Versions, Gone
<1>9. Informed  BY <1>3, <1>4, <1>5 DEF Informed, InformedOf
<1>10. NoRecoveryUnheard  BY <1>5 DEF NoRecoveryUnheard
<1> QED  BY <1>1, <1>6, <1>7, <1>8, <1>9, <1>10 DEF InformedInv, AskedInv

\* The invariant is inductive.
LEMMA InformedInvStep == InformedInv /\ [Next]_vars => InformedInv'
<1> SUFFICES ASSUME InformedInv, [Next]_vars PROVE InformedInv'  OBVIOUS
<1>1. Typed'  BY TypedStep DEF InformedInv
<1>2. NamesKept' /\ FiresAre' /\ RowAges'
  BY <1>1, NamesStep, FiresAreStep, RowAgesStep DEF InformedInv
<1>3. Versions' /\ Gone'  BY <1>1, VersionsStep, GoneStep DEF InformedInv
<1>4. Informed' /\ NoRecoveryUnheard'  BY <1>1, InformedStep
<1> QED  BY <1>1, <1>2, <1>3, <1>4 DEF InformedInv

\* With nothing on its way, the receivers of a subscription believe of a calm alert
\* that nothing got between what the processor does, through repetitions, edits of
\* others, crashes and new processors.
THEOREM SubscribersAreInformed == Spec => []SubscribersInformed
<1>1. InformedInv => SubscribersInformed
  <2> SUFFICES ASSUME InformedInv, Pipeline!Drained, NEW s \in Subs, NEW h \in Undisturbed(s)
               PROVE  h \in alerted[s] <=>
                        h \in DOMAIN fires /\ h \in subs[s].alerts
                        /\ detail[fires[h]].age >= subs[s].forDuration
    BY DEF SubscribersInformed
  <2>1. Tables!InFlight = {}  BY SameFlight DEF Pipeline!Drained
  <2>2. h \notin Tables!OnTheirWay  BY <2>1 DEF Tables!OnTheirWay
  <2>3. h \in alerted[s] <=> h \in DOMAIN fires /\ Match(fires[h], subs[s])
    BY <2>2 DEF InformedInv, Informed, InformedOf
  <2>4. h \in DOMAIN fires => /\ fires[h].hash = h
                              /\ detail[fires[h]].age \in Nat /\ subs[s].forDuration \in Nat
    <3>1. subs[s] \in SubVersions  BY DEF InformedInv, Typed, ConfigTypes
    <3>2. subs[s].forDuration \in 0..MaxAge  BY <3>1, SubVersionsAssumption
    <3>3. h \in DOMAIN fires => detail[fires[h]] \in Detail
      BY DEF InformedInv, Typed, DetailTypes
    <3>4. h \in DOMAIN fires => fires[h].hash = h  BY DEF InformedInv, Typed, Tables!IInv, Tables!TypeOK
    <3> QED  BY <3>2, <3>3, <3>4 DEF Detail
  <2> QED  BY <2>3, <2>4 DEF Match
<1> QED  BY <1>1, InformedInvInit, InformedInvStep, PTL DEF Spec

\* handleSub, which remembers nothing of what it has sent, tells no subscription of
\* the end of a calm alert it was not told of.
THEOREM RecoveriesAreHeard == Spec => []NoRecoveryUnheard
<1>1. InformedInv => NoRecoveryUnheard  BY DEF InformedInv
<1> QED  BY <1>1, InformedInvInit, InformedInvStep, PTL DEF Spec
===============================================================================
