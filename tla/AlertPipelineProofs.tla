-------------------------- MODULE AlertPipelineProofs --------------------------
(***************************************************************************)
(* The tables agree with the processor (AlertPipeline), for any number of  *)
(* alerts and goroutines, any queue and any bounds.                        *)
(*                                                                         *)
(* What an alert will be in the tables is decided by its last event on the *)
(* way.  That one agrees with p.fires, and nothing else of its alert can   *)
(* come between its statements: with one goroutine because there is no     *)
(* other, else because an alert that is not raced has one event on its way.*)
(***************************************************************************)
EXTENDS AlertPipeline, TLAPS, FiniteSetTheorems, SequenceTheorems

\* The events were pushed before the next one.
Numbered ==
  /\ \A e \in recovered : e.id <= pushes
  /\ \A i \in DOMAIN queue : queue[i].id <= pushes
  /\ \A i \in DOMAIN batch : batch[i].id <= pushes
  /\ \A g \in Goroutines : running[g].event.id <= pushes
  /\ \A h \in DOMAIN fires : fires[h].id <= pushes

InQueue(h) == \E i \in DOMAIN queue : queue[i].hash = h
InBatch(h) == \E i \in DOMAIN batch : batch[i].hash = h
Runs(g, h) == running[g] # Idle /\ running[g].event.hash = h

\* A calm alert has one event on its way.
OneInQueue(h) == \A i, j \in DOMAIN queue : queue[i].hash = h /\ queue[j].hash = h => i = j
OneInBatch(h) == \A i, j \in DOMAIN batch : batch[i].hash = h /\ batch[j].hash = h => i = j
Apart ==
  \A h \in Calm :
    /\ OneInQueue(h) /\ OneInBatch(h)
    /\ ~(InQueue(h) /\ InBatch(h))
    /\ \A g \in Goroutines : Runs(g, h) => ~InQueue(h) /\ ~InBatch(h)

\* An orderly alert is stored by one goroutine at a time.
Exclusive == \A h \in Orderly : \A f, g \in Goroutines : Runs(f, h) /\ Runs(g, h) => f = g

\* Between its statements a goroutine knows the rows of its alert.
RowsKnown ==
  \A g \in Goroutines : \A h \in Orderly :
    Runs(g, h) =>
      /\ At(g, "addHis") /\ ~running[g].has => cur[h] = 0
      /\ At(g, "decide") \/ At(g, "addCur") => cur[h] = 0

\* The last event of an alert says what the processor says.
Agrees(e) == e \in recovered <=> e.hash \notin DOMAIN fires
LastInQueue(i) == \A j \in DOMAIN queue : queue[j].hash = queue[i].hash => j <= i
LastInBatch(i) ==
  /\ ~InQueue(batch[i].hash)
  /\ \A j \in DOMAIN batch : batch[j].hash = batch[i].hash => j <= i
LastRuns(g, h) == Runs(g, h) /\ ~InQueue(h) /\ ~InBatch(h)

QueueAgrees == \A i \in DOMAIN queue : queue[i].hash \in Orderly /\ LastInQueue(i) => Agrees(queue[i])
BatchAgrees == \A i \in DOMAIN batch : batch[i].hash \in Orderly /\ LastInBatch(i) => Agrees(batch[i])
RunAgrees ==
  \A g \in Goroutines : \A h \in Orderly :
    LastRuns(g, h) =>
      /\ Agrees(running[g].event)
      /\ At(g, "addCur") => running[g].event \notin recovered
      /\ At(g, "notify") => (cur[h] > 0 <=> running[g].event \notin recovered)
RestAgrees ==
  \A h \in Orderly :
    ~InQueue(h) /\ ~InBatch(h) /\ (\A g \in Goroutines : ~Runs(g, h)) =>
      (cur[h] > 0 <=> h \in DOMAIN fires)

IInv ==
  /\ TypeOK /\ Numbered /\ Apart /\ Exclusive /\ RowsKnown /\ OneRowPerHash
  /\ QueueAgrees /\ BatchAgrees /\ RunAgrees /\ RestAgrees

-------------------------------------------------------------------------------
(***************************************************************************)
(* The sequences, element by element.                                      *)
(***************************************************************************)

\* A push puts the event behind the others, or loses it.
LEMMA PushEffect ==
  ASSUME TypeOK, NEW e \in Event, Enqueue(e)
  PROVE  /\ queue' \in Seq(Event) /\ Len(queue') <= QueueSize
         /\ Accepted => /\ Len(queue) \in Nat /\ DOMAIN queue' = 1..Len(queue) + 1
                        /\ \A i \in 1..Len(queue) : queue'[i] = queue[i]
                        /\ queue'[Len(queue) + 1] = e
         /\ ~Accepted => queue' = queue
<1>1. queue \in Seq(Event) /\ Len(queue) <= QueueSize  BY DEF TypeOK
<1>2. QueueSize \in Nat  BY QueueAssumption
<1>3. Len(queue) \in Nat  BY <1>1
<1>4. CASE Accepted
  <2>1. queue' = Append(queue, e)  BY <1>1, <1>2, <1>3, <1>4 DEF Enqueue, Accepted
  <2>2. queue' \in Seq(Event) /\ Len(queue') = Len(queue) + 1  BY <1>1, <2>1
  <2>3. DOMAIN queue' = 1..Len(queue) + 1  BY <2>2
  <2>4. \A i \in 1..Len(queue) : queue'[i] = queue[i]  BY <1>1, <2>1
  <2>5. queue'[Len(queue) + 1] = e  BY <1>1, <2>1
  <2> QED  BY <1>2, <1>3, <1>4, <2>2, <2>3, <2>4, <2>5 DEF Accepted
<1>5. CASE ~Accepted  BY <1>1, <1>2, <1>3, <1>5 DEF Enqueue, Accepted
<1> QED  BY <1>4, <1>5

\* A batch is the oldest events of the queue.
LEMMA PopEffect ==
  ASSUME TypeOK, Pop
  PROVE  \E n \in 1..Len(queue) :
           /\ Len(queue) \in Nat /\ n <= BatchSize
           /\ batch' \in Seq(Event) /\ DOMAIN batch' = 1..n /\ Len(batch') = n
           /\ \A i \in 1..n : batch'[i] = queue[i]
           /\ queue' \in Seq(Event) /\ Len(queue') = Len(queue) - n
           /\ DOMAIN queue' = 1..Len(queue) - n
           /\ \A i \in 1..Len(queue) - n : queue'[i] = queue[i + n]
<1> DEFINE n == IF Len(queue) < BatchSize THEN Len(queue) ELSE BatchSize
<1>1. queue \in Seq(Event) /\ BatchSize \in Nat \ {0} /\ queue # <<>>  BY QueueAssumption DEF TypeOK, Pop
<1>2. Len(queue) \in Nat /\ Len(queue) > 0  BY <1>1
<1>3. n \in 1..Len(queue) /\ n <= BatchSize  BY <1>1, <1>2
<1>4. batch' = SubSeq(queue, 1, n) /\ queue' = SubSeq(queue, n + 1, Len(queue))  BY DEF Pop
<1> HIDE DEF n
<1>5. batch' \in Seq(Event) /\ Len(batch') = n /\ \A i \in 1..n : batch'[i] = queue[i]
  <2>1. 1 \in 1..Len(queue) + 1 /\ n \in 0..Len(queue)  BY <1>2, <1>3
  <2> QED  BY <1>1, <1>2, <1>3, <1>4, <2>1, SubSeqProperties
<1>6. queue' \in Seq(Event) /\ Len(queue') = Len(queue) - n
      /\ \A i \in 1..Len(queue) - n : queue'[i] = queue[i + n]
  <2>1. n + 1 \in 1..Len(queue) + 1 /\ Len(queue) \in (n + 1) - 1 .. Len(queue)  BY <1>2, <1>3
  <2>2. \A i \in 1..Len(queue) - n : queue'[i] = queue[n + 1 + i - 1] /\ n + 1 + i - 1 = i + n
    BY <1>1, <1>2, <1>3, <1>4, <2>1, SubSeqProperties
  <2>3. queue' \in Seq(Event)  BY <1>1, <1>2, <1>3, <1>4, <2>1, SubSeqProperties
  <2>4. Len(queue') = Len(queue) - n  BY <1>1, <1>2, <1>3, <1>4, <2>1, SubSeqProperties
  <2> QED  BY <2>2, <2>3, <2>4
<1>7. DOMAIN batch' = 1..n /\ DOMAIN queue' = 1..Len(queue) - n  BY <1>5, <1>6
<1> QED  BY <1>2, <1>3, <1>5, <1>6, <1>7

\* A goroutine takes the first event of the batch.
LEMMA StartEffect ==
  ASSUME TypeOK, NEW g \in Goroutines, Start(g)
  PROVE  /\ Len(batch) \in Nat /\ Len(batch) > 0 /\ DOMAIN batch = 1..Len(batch) /\ batch[1] \in Event
         /\ batch' \in Seq(Event) /\ Len(batch') = Len(batch) - 1 /\ DOMAIN batch' = 1..Len(batch) - 1
         /\ \A i \in 1..Len(batch) - 1 : batch'[i] = batch[i + 1]
         /\ running' = [running EXCEPT ![g] = [step |-> "exists", event |-> batch[1], has |-> FALSE]]
<1>1. batch \in Seq(Event) /\ batch # <<>> /\ batch' = Tail(batch)  BY DEF TypeOK, Start
<1>2. Len(batch) \in Nat /\ Len(batch) > 0 /\ DOMAIN batch = 1..Len(batch)  BY <1>1
<1>3. batch[1] \in Event /\ Head(batch) = batch[1]  BY <1>1, <1>2
<1>4. batch' \in Seq(Event) /\ Len(batch') = Len(batch) - 1  BY <1>1, <1>2
<1>5. \A i \in 1..Len(batch) - 1 : batch'[i] = batch[i + 1]  BY <1>1, <1>2
<1>6. DOMAIN batch' = 1..Len(batch) - 1  BY <1>4
<1> QED  BY <1>2, <1>3, <1>4, <1>5, <1>6 DEF Start

\* What is on its way is in the queue, in the batch or with a goroutine.
LEMMA OnTheirWayIs ==
  ASSUME NEW h
  PROVE  h \in OnTheirWay <=> InQueue(h) \/ InBatch(h) \/ \E g \in Goroutines : Runs(g, h)
BY DEF OnTheirWay, InFlight, Busy, ToSet, InQueue, InBatch, Runs

\* The histories only grow, and what they leave only shrinks.
LEMMA Shrinks ==
  ASSUME harmed \subseteq harmed', raced \subseteq raced'
  PROVE  Orderly' \subseteq Orderly /\ Calm' \subseteq Calm
BY DEF Orderly, Calm, Serial

\* An orderly alert is calm, or there is one goroutine.
LEMMA CalmOrOne ==
  ASSUME NEW h \in Orderly
  PROVE  h \in Hashes /\ (h \in Calm \/ \A f, g \in Goroutines : f = g)
<1>1. CASE Serial
  <2>1. PICK g : Goroutines = {g}
    BY <1>1, GoroutinesAssumption, FS_Singleton DEF Serial
  <2> QED  BY <1>1, <2>1 DEF Orderly
<1>2. CASE ~Serial  BY <1>2 DEF Orderly, Calm
<1> QED  BY <1>1, <1>2

\* The events have alerts, as has a goroutine that is not idle.
LEMMA EventsTyped ==
  ASSUME TypeOK
  PROVE  /\ \A i \in DOMAIN queue : queue[i] \in Event /\ queue[i].hash \in Hashes
         /\ \A i \in DOMAIN batch : batch[i] \in Event /\ batch[i].hash \in Hashes
         /\ \A g \in Goroutines : running[g] # Idle =>
              /\ running[g] \in [step : Steps, event : Event, has : BOOLEAN]
              /\ running[g].event \in Event /\ HashOf(g) \in Hashes
<1>1. queue \in Seq(Event) /\ batch \in Seq(Event)  BY DEF TypeOK
<1>2. \A i \in DOMAIN queue : queue[i] \in Event  BY <1>1
<1>3. \A i \in DOMAIN batch : batch[i] \in Event  BY <1>1
<1>4. ASSUME NEW g \in Goroutines, running[g] # Idle
      PROVE  running[g] \in [step : Steps, event : Event, has : BOOLEAN]
  BY <1>4 DEF TypeOK
<1> QED  BY <1>2, <1>3, <1>4 DEF Event, HashOf

-------------------------------------------------------------------------------
(***************************************************************************)
(* The state keeps its type.                                               *)
(***************************************************************************)

\* The initial state has its type.
LEMMA TypeInit == Init => TypeOK
<1> SUFFICES ASSUME Init PROVE TypeOK  OBVIOUS
<1>1. queue \in Seq(Event) /\ Len(queue) = 0 /\ batch \in Seq(Event) /\ Len(batch) = 0  BY DEF Init
<1>2. QueueSize \in Nat /\ BatchSize \in Nat  BY QueueAssumption
<1>3. Len(queue) <= QueueSize /\ Len(batch) <= BatchSize  BY <1>1, <1>2
<1>4. /\ pushes \in 0..MaxPushes /\ reloads \in 0..MaxReloads /\ crashes \in 0..MaxCrashes
      /\ deletes \in 0..MaxDeletes /\ failures \in 0..MaxFailures
  BY BoundsAssumption DEF Init
<1>5. /\ running \in [Goroutines -> {Idle} \cup [step : Steps, event : Event, has : BOOLEAN]]
      /\ cur \in [Hashes -> Nat] /\ pushed \in [Hashes -> Nat]
      /\ his \in [Hashes -> [fired : Nat, recovered : Nat]]
  BY DEF Init
<1>6. DOMAIN fires = {} /\ recovered = {} /\ raced = {} /\ harmed = {}  BY DEF Init
<1> QED  BY <1>1, <1>3, <1>4, <1>5, <1>6 DEF TypeOK

\* Storing leaves the type: what each statement may do to the rows and the goroutine.
LEMMA GotoType ==
  ASSUME TypeOK, NEW g \in Goroutines, running[g].step \in Steps, NEW t \in Steps, Goto(g, t)
  PROVE  /\ running[g] # Idle /\ running'[g] # Idle
         /\ running' \in [Goroutines -> {Idle} \cup [step : Steps, event : Event, has : BOOLEAN]]
         /\ running'[g].event = running[g].event /\ running'[g].step = t
         /\ running'[g].has = running[g].has
         /\ \A f \in Goroutines \ {g} : running'[f] = running[f]
<1>1. running[g] # Idle  BY DEF Steps, Idle
<1>2. running[g] \in [step : Steps, event : Event, has : BOOLEAN]  BY <1>1, EventsTyped
<1>3. running \in [Goroutines -> {Idle} \cup [step : Steps, event : Event, has : BOOLEAN]]  BY DEF TypeOK
<1>4. running'[g] = [running[g] EXCEPT !.step = t] /\ \A f \in Goroutines \ {g} : running'[f] = running[f]
  BY <1>3 DEF Goto
<1>5. running'[g] \in [step : Steps, event : Event, has : BOOLEAN]  BY <1>2, <1>4
<1>6. running' \in [Goroutines -> {Idle} \cup [step : Steps, event : Event, has : BOOLEAN]]
  BY <1>3, <1>5 DEF Goto
<1>7. running'[g].event = running[g].event /\ running'[g].step = t /\ running'[g].has = running[g].has
  BY <1>2, <1>4
<1>8. running'[g] # Idle  BY <1>7 DEF Steps, Idle
<1> QED  BY <1>1, <1>4, <1>6, <1>7, <1>8

\* The same of the statement that reads whether there is a row.
LEMMA CheckExistsType ==
  ASSUME TypeOK, NEW g \in Goroutines, CheckExists(g)
  PROVE  /\ running[g] # Idle /\ running'[g] # Idle
         /\ running' \in [Goroutines -> {Idle} \cup [step : Steps, event : Event, has : BOOLEAN]]
         /\ running'[g].event = running[g].event /\ running'[g].step = "addHis"
         /\ running'[g].has = (cur[HashOf(g)] > 0)
         /\ \A f \in Goroutines \ {g} : running'[f] = running[f]
<1> DEFINE b == cur[HashOf(g)] > 0
<1>1. running[g] # Idle  BY DEF CheckExists, At, Idle
<1>2. running[g] \in [step : Steps, event : Event, has : BOOLEAN]  BY <1>1, EventsTyped
<1>3. running \in [Goroutines -> {Idle} \cup [step : Steps, event : Event, has : BOOLEAN]]  BY DEF TypeOK
<1>4. b \in BOOLEAN  OBVIOUS
<1> DEFINE r == [running EXCEPT ![g].step = "addHis"]
<1>5. running' = [r EXCEPT ![g].has = b]  BY DEF CheckExists
<1> HIDE DEF b
<1>6. r[g] \in [step : Steps, event : Event, has : BOOLEAN] /\ r[g].step = "addHis"
      /\ r[g].event = running[g].event
  BY <1>2, <1>3 DEF Steps
<1>7. /\ r \in [Goroutines -> {Idle} \cup [step : Steps, event : Event, has : BOOLEAN]]
      /\ \A f \in Goroutines \ {g} : r[f] = running[f]
  BY <1>3, <1>6
<1> HIDE DEF r
<1>8. running'[g] = [r[g] EXCEPT !.has = b] /\ \A f \in Goroutines \ {g} : running'[f] = r[f]
  BY <1>5, <1>7
<1>9. /\ running'[g] \in [step : Steps, event : Event, has : BOOLEAN]
      /\ running'[g].step = "addHis" /\ running'[g].event = running[g].event /\ running'[g].has = b
  BY <1>4, <1>6, <1>8
<1>10. running' \in [Goroutines -> {Idle} \cup [step : Steps, event : Event, has : BOOLEAN]]
  BY <1>5, <1>7, <1>8, <1>9
<1>11. running'[g] # Idle  BY <1>9 DEF Idle
<1> QED  BY <1>1, <1>7, <1>8, <1>9, <1>10, <1>11 DEF b

\* Every step keeps the type.
LEMMA TypeStep == TypeOK /\ [Next]_vars => TypeOK'
<1> SUFFICES ASSUME TypeOK, [Next]_vars PROVE TypeOK'  OBVIOUS
<1> USE BoundsAssumption
<1>0. QueueSize \in Nat \ {0} /\ BatchSize \in Nat \ {0}  BY QueueAssumption
<1>1. ASSUME NEW h \in Hashes, Fire(h) PROVE TypeOK'
  <2> DEFINE e == [hash |-> h, id |-> pushes + 1]
  <2>1. pushes + 1 \in 0..MaxPushes  BY <1>1 DEF TypeOK, Fire, MayPush
  <2>2. e \in Event /\ e.hash = h  BY <2>1 DEF Event
  <2>3. Enqueue(e)  BY <1>1 DEF Fire
  <2>4. fires' = [g \in DOMAIN fires \cup {h} |-> IF g = h THEN e ELSE fires[g]]  BY <1>1 DEF Fire
  <2> HIDE DEF e
  <2>5. queue' \in Seq(Event) /\ Len(queue') <= QueueSize  BY <2>2, <2>3, PushEffect
  <2>6. DOMAIN fires' \subseteq Hashes /\ \A x \in DOMAIN fires' : fires'[x] \in Event /\ fires'[x].hash = x
    BY <2>2, <2>4 DEF TypeOK
  <2>7. pushed' \in [Hashes -> Nat]  BY <1>1 DEF Fire, TypeOK
  <2>8. raced' \subseteq Hashes /\ harmed' \subseteq Hashes  BY <1>1 DEF Fire, Record, TypeOK
  <2>9. pushes' \in 0..MaxPushes  BY <1>1, <2>1 DEF Fire
  <2> QED  BY <1>1, <2>5, <2>6, <2>7, <2>8, <2>9 DEF Fire, TypeOK, consumerVars, tableVars, boundVars
<1>2. ASSUME NEW h \in Hashes, Recover(h) PROVE TypeOK'
  <2>1. pushes + 1 \in 0..MaxPushes  BY <1>2 DEF TypeOK, Recover, MayPush
  <2>2. fires[h] \in Event /\ Enqueue(fires[h])  BY <1>2 DEF Recover, TypeOK
  <2>3. queue' \in Seq(Event) /\ Len(queue') <= QueueSize  BY <2>2, PushEffect
  <2>4. DOMAIN fires' \subseteq Hashes /\ \A x \in DOMAIN fires' : fires'[x] \in Event /\ fires'[x].hash = x
    BY <1>2 DEF TypeOK, Recover
  <2>5. recovered' \subseteq Event  BY <1>2, <2>2 DEF TypeOK, Recover
  <2>6. raced' \subseteq Hashes /\ harmed' \subseteq Hashes  BY <1>2 DEF Recover, Record, TypeOK
  <2>7. pushes' \in 0..MaxPushes  BY <1>2, <2>1 DEF Recover
  <2> QED  BY <1>2, <2>3, <2>4, <2>5, <2>6, <2>7 DEF Recover, TypeOK, consumerVars, tableVars, boundVars
<1>3. CASE Pop
  <2>1. PICK n \in 1..Len(queue) :
          /\ Len(queue) \in Nat /\ n <= BatchSize
          /\ batch' \in Seq(Event) /\ Len(batch') = n
          /\ queue' \in Seq(Event) /\ Len(queue') = Len(queue) - n
    BY <1>3, PopEffect
  <2>2. Len(queue) <= QueueSize  BY DEF TypeOK
  <2>3. Len(queue') <= QueueSize /\ Len(batch') <= BatchSize  BY <1>0, <2>1, <2>2
  <2> QED  BY <1>3, <2>1, <2>3 DEF Pop, TypeOK, tableVars, historyVars, boundVars
<1>4. ASSUME NEW g \in Goroutines, Start(g) PROVE TypeOK'
  <2>1. /\ Len(batch) \in Nat /\ batch[1] \in Event
        /\ batch' \in Seq(Event) /\ Len(batch') = Len(batch) - 1
        /\ running' = [running EXCEPT ![g] = [step |-> "exists", event |-> batch[1], has |-> FALSE]]
    BY <1>4, StartEffect
  <2>2. Len(batch') <= BatchSize  BY <1>0, <2>1 DEF TypeOK
  <2>3. [step |-> "exists", event |-> batch[1], has |-> FALSE] \in [step : Steps, event : Event, has : BOOLEAN]
    BY <2>1 DEF Steps
  <2>4. running' \in [Goroutines -> {Idle} \cup [step : Steps, event : Event, has : BOOLEAN]]
    BY <2>1, <2>3 DEF TypeOK
  <2> QED  BY <1>4, <2>1, <2>2, <2>4 DEF Start, TypeOK, processorVars, tableVars, historyVars, boundVars
<1>5. ASSUME NEW g \in Goroutines, CheckExists(g) PROVE TypeOK'
  <2>1. running' \in [Goroutines -> {Idle} \cup [step : Steps, event : Event, has : BOOLEAN]]
    BY <1>5, CheckExistsType
  <2> QED  BY <1>5, <2>1 DEF CheckExists, TypeOK, processorVars, tableVars, historyVars, boundVars
<1>6. ASSUME NEW g \in Goroutines, AddHis(g) PROVE TypeOK'
  <2>1. running[g].step \in Steps /\ (IF running[g].has THEN "delete" ELSE "decide") \in Steps
    BY <1>6 DEF AddHis, At, Steps
  <2>2. /\ running[g] # Idle
        /\ running' \in [Goroutines -> {Idle} \cup [step : Steps, event : Event, has : BOOLEAN]]
    BY <1>6, <2>1, GotoType DEF AddHis
  <2>3. HashOf(g) \in Hashes  BY <2>2, EventsTyped
  <2>5. his \in [Hashes -> [fired : Nat, recovered : Nat]]  BY DEF TypeOK
  <2>6. his[HashOf(g)].fired \in Nat /\ his[HashOf(g)].recovered \in Nat  BY <2>3, <2>5
  <2>4. his' \in [Hashes -> [fired : Nat, recovered : Nat]]
    <3>1. CASE IsRecovered(g)
      <4>1. his' = [his EXCEPT ![HashOf(g)].recovered = his[HashOf(g)].recovered + 1]
        BY <1>6, <3>1 DEF AddHis
      <4> QED  BY <2>3, <2>5, <2>6, <4>1
    <3>2. CASE ~IsRecovered(g)
      <4>1. his' = [his EXCEPT ![HashOf(g)].fired = his[HashOf(g)].fired + 1]  BY <1>6, <3>2 DEF AddHis
      <4> QED  BY <2>3, <2>5, <2>6, <4>1
    <3> QED  BY <3>1, <3>2
  <2> QED  BY <1>6, <2>2, <2>4 DEF AddHis, TypeOK, processorVars, historyVars, boundVars
<1>7. ASSUME NEW g \in Goroutines, DeleteCur(g) PROVE TypeOK'
  <2>1. running[g].step \in Steps /\ "decide" \in Steps  BY <1>7 DEF DeleteCur, At, Steps
  <2>2. running' \in [Goroutines -> {Idle} \cup [step : Steps, event : Event, has : BOOLEAN]]
    BY <1>7, <2>1, GotoType DEF DeleteCur
  <2>3. cur' \in [Hashes -> Nat]  BY <1>7 DEF DeleteCur, TypeOK
  <2> QED  BY <1>7, <2>2, <2>3 DEF DeleteCur, TypeOK, processorVars, historyVars, boundVars
<1>8. ASSUME NEW g \in Goroutines, Decide(g) PROVE TypeOK'
  <2>1. running[g].step \in Steps /\ (IF IsRecovered(g) THEN "notify" ELSE "addCur") \in Steps
    BY <1>8 DEF Decide, At, Steps
  <2>2. running' \in [Goroutines -> {Idle} \cup [step : Steps, event : Event, has : BOOLEAN]]
    BY <1>8, <2>1, GotoType DEF Decide
  <2> QED  BY <1>8, <2>2 DEF Decide, TypeOK, processorVars, tableVars, historyVars, boundVars
<1>9. ASSUME NEW g \in Goroutines, AddCur(g) PROVE TypeOK'
  <2>1. running[g].step \in Steps /\ "notify" \in Steps  BY <1>9 DEF AddCur, At, Steps
  <2>2. running' \in [Goroutines -> {Idle} \cup [step : Steps, event : Event, has : BOOLEAN]]
    BY <1>9, <2>1, GotoType DEF AddCur
  <2>3. cur' \in [Hashes -> Nat]
    <3>1. running[g] # Idle  BY <1>9 DEF AddCur, At, Idle
    <3>2. HashOf(g) \in Hashes  BY <3>1, EventsTyped
    <3> QED  BY <1>9, <3>2 DEF AddCur, TypeOK
  <2> QED  BY <1>9, <2>2, <2>3 DEF AddCur, TypeOK, processorVars, historyVars, boundVars
<1>10. ASSUME NEW g \in Goroutines, StatementFails(g) PROVE TypeOK'
  <2>1. running[g].step \in Steps /\ "notify" \in Steps  BY <1>10 DEF StatementFails, Steps
  <2>2. /\ running[g] # Idle
        /\ running' \in [Goroutines -> {Idle} \cup [step : Steps, event : Event, has : BOOLEAN]]
    BY <1>10, <2>1, GotoType DEF StatementFails
  <2>3. HashOf(g) \in Hashes  BY <2>2, EventsTyped
  <2>4. failures' \in 0..MaxFailures  BY <1>10 DEF StatementFails, TypeOK
  <2> QED  BY <1>10, <2>2, <2>3, <2>4 DEF StatementFails, TypeOK, processorVars, tableVars
<1>11. ASSUME NEW g \in Goroutines, Notify(g) PROVE TypeOK'
  BY <1>11 DEF Notify, TypeOK, processorVars, tableVars, historyVars, boundVars
<1>12. CASE Reload
  <2>1. pushes + 1 \in 0..MaxPushes /\ reloads + 1 \in 0..MaxReloads  BY <1>12 DEF TypeOK, Reload
  <2>2. DOMAIN fires' \subseteq Hashes /\ \A x \in DOMAIN fires' : fires'[x] \in Event /\ fires'[x].hash = x
    BY <1>12, <2>1 DEF Reload, Event
  <2>3. OnTheirWay \subseteq Hashes
    <3> SUFFICES ASSUME NEW h \in OnTheirWay PROVE h \in Hashes  OBVIOUS
    <3> QED  BY EventsTyped, OnTheirWayIs DEF InQueue, InBatch, Runs, HashOf
  <2>4. harmed' \subseteq Hashes  BY <1>12, <2>3 DEF Reload, TypeOK
  <2> QED  BY <1>12, <2>1, <2>2, <2>4 DEF Reload, TypeOK, consumerVars, tableVars
<1>13. CASE Crash
  <2>1. crashes + 1 \in 0..MaxCrashes  BY <1>13 DEF TypeOK, Crash
  <2>2. 0 \in 0..MaxPushes  OBVIOUS
  <2>3. DOMAIN fires' \subseteq Hashes /\ \A x \in DOMAIN fires' : fires'[x] \in Event /\ fires'[x].hash = x
    BY <1>13, <2>2 DEF Crash, Event
  <2>4. /\ queue' \in Seq(Event) /\ batch' \in Seq(Event) /\ Len(queue') <= QueueSize
        /\ Len(batch') <= BatchSize
    BY <1>0, <1>13 DEF Crash
  <2>5. running' \in [Goroutines -> {Idle} \cup [step : Steps, event : Event, has : BOOLEAN]]
    BY <1>13 DEF Crash
  <2>6. pushed' \in [Hashes -> Nat]  BY <1>13 DEF Crash, TypeOK
  <2> QED  BY <1>13, <2>1, <2>3, <2>4, <2>5, <2>6 DEF Crash, TypeOK, tableVars, historyVars
<1>14. ASSUME NEW h \in Hashes, UserDelete(h) PROVE TypeOK'
  <2>1. deletes' \in 0..MaxDeletes  BY <1>14 DEF UserDelete, TypeOK
  <2>2. cur' \in [Hashes -> Nat]  BY <1>14 DEF UserDelete, TypeOK
  <2>3. harmed' \subseteq Hashes  BY <1>14 DEF UserDelete, TypeOK
  <2> QED  BY <1>14, <2>1, <2>2, <2>3 DEF UserDelete, TypeOK, processorVars, consumerVars
<1>15. CASE UNCHANGED vars
  BY <1>15 DEF TypeOK, vars, processorVars, consumerVars, tableVars, historyVars, boundVars
<1> QED
  BY <1>1, <1>2, <1>3, <1>4, <1>5, <1>6, <1>7, <1>8, <1>9, <1>10, <1>11, <1>12, <1>13, <1>14, <1>15
     DEF Next, ConsumerStep


-------------------------------------------------------------------------------
(***************************************************************************)
(* What a kind of step keeps.                                              *)
(***************************************************************************)

\* The parts of IInv that tell what will be in the tables.
Ordered ==
  /\ Apart /\ Exclusive /\ RowsKnown /\ OneRowPerHash
  /\ QueueAgrees /\ BatchAgrees /\ RunAgrees /\ RestAgrees

\* The initial state has no events and no rows.
LEMMA InvInit == Init => IInv
<1> SUFFICES ASSUME Init PROVE IInv  OBVIOUS
<1>1. TypeOK  BY TypeInit
<1>2. /\ queue = <<>> /\ batch = <<>> /\ DOMAIN queue = {} /\ DOMAIN batch = {}
      /\ recovered = {} /\ DOMAIN fires = {} /\ pushes = 0
      /\ \A g \in Goroutines : running[g] = Idle
  BY DEF Init
<1>3. \A h \in Hashes : cur[h] = 0  BY DEF Init
<1>4. Orderly \subseteq Hashes  BY CalmOrOne
<1>5. Numbered
  <2>1. \A g \in Goroutines : running[g].event.id = 0  BY <1>2 DEF Idle, NoEvent
  <2> QED  BY <1>2, <2>1 DEF Numbered
<1>6. Apart  BY <1>2 DEF Apart, OneInQueue, OneInBatch, InQueue, InBatch, Runs
<1>7. Exclusive /\ RowsKnown /\ RunAgrees  BY <1>2 DEF Exclusive, RowsKnown, RunAgrees, Runs, LastRuns
<1>8. OneRowPerHash  BY <1>3, <1>4 DEF OneRowPerHash
<1>9. QueueAgrees /\ BatchAgrees  BY <1>2 DEF QueueAgrees, BatchAgrees
<1>10. RestAgrees  BY <1>2, <1>3, <1>4 DEF RestAgrees
<1> QED  BY <1>1, <1>5, <1>6, <1>7, <1>8, <1>9, <1>10 DEF IInv

\* A push by the processor, a fire event or a recovery: the event agrees, and it is
\* the last of its alert.
LEMMA PushKeeps ==
  ASSUME TypeOK, Ordered, NEW h \in Hashes, NEW e \in Event, e.hash = h,
         Enqueue(e), Record(h), UNCHANGED <<batch, running, cur>>,
         e \in recovered' <=> h \notin DOMAIN fires',
         \A x \in Event : x.hash # h => (x \in recovered' <=> x \in recovered),
         \A x \in Hashes \ {h} : x \in DOMAIN fires' <=> x \in DOMAIN fires
  PROVE  Ordered'
<1>1. Orderly' \subseteq Orderly /\ Calm' \subseteq Calm  BY Shrinks DEF Record
<1>2. \A g \in Goroutines : \A x : Runs(g, x)' <=> Runs(g, x)  BY DEF Runs
<1>3. \A x : InBatch(x)' <=> InBatch(x)  BY DEF InBatch
<1>4. Exclusive'  BY <1>1, <1>2 DEF Ordered, Exclusive
<1>5. RowsKnown'  BY <1>1, <1>2 DEF Ordered, RowsKnown, At
<1>6. OneRowPerHash'  BY <1>1 DEF Ordered, OneRowPerHash
<1>7. \A x \in Event : x.hash \in Hashes /\ (x.hash # h => (Agrees(x)' <=> Agrees(x)))  BY DEF Agrees, Event
<1>8. /\ \A i \in DOMAIN queue : queue[i] \in Event
      /\ \A i \in DOMAIN batch : batch[i] \in Event
      /\ \A g \in Goroutines : \A x : Runs(g, x) => running[g].event \in Event
  BY EventsTyped DEF Runs
<1>9. \A x \in Orderly' : x \in Hashes  BY <1>1, CalmOrOne
<1>10. CASE ~Accepted
  <2>1. queue' = queue  BY <1>10, PushEffect
  <2>2. h \notin Orderly'  BY <1>10 DEF Record, Orderly, Calm
  <2>3. \A x : InQueue(x)' <=> InQueue(x)  BY <2>1 DEF InQueue
  <2>4. Apart'
    <3>1. \A x : (OneInQueue(x)' <=> OneInQueue(x)) /\ (OneInBatch(x)' <=> OneInBatch(x))
      BY <2>1 DEF OneInQueue, OneInBatch
    <3> QED  BY <1>1, <1>2, <1>3, <2>3, <3>1 DEF Ordered, Apart
  <2>5. QueueAgrees'  BY <1>1, <1>7, <1>8, <2>1, <2>2 DEF Ordered, QueueAgrees, LastInQueue
  <2>6. BatchAgrees'  BY <1>1, <1>7, <1>8, <2>2, <2>3 DEF Ordered, BatchAgrees, LastInBatch
  <2>7. RunAgrees'
    <3> SUFFICES ASSUME NEW g \in Goroutines, NEW x \in Orderly', LastRuns(g, x)'
                 PROVE  /\ Agrees(running[g].event)'
                        /\ At(g, "addCur")' => running'[g].event \notin recovered'
                        /\ At(g, "notify")' => (cur'[x] > 0 <=> running'[g].event \notin recovered')
      BY DEF RunAgrees
    <3>1. x # h /\ x \in Orderly /\ LastRuns(g, x)  BY <1>1, <1>2, <1>3, <2>2, <2>3 DEF LastRuns
    <3>2. running[g].event \in Event /\ running[g].event.hash = x  BY <1>8, <3>1 DEF LastRuns, Runs
    <3> QED  BY <1>7, <3>1, <3>2 DEF Ordered, RunAgrees, At
  <2>8. RestAgrees'
    BY <1>1, <1>2, <1>3, <1>9, <2>2, <2>3 DEF Ordered, RestAgrees
  <2> QED  BY <1>4, <1>5, <1>6, <2>4, <2>5, <2>6, <2>7, <2>8 DEF Ordered
<1>11. CASE Accepted
  <2> DEFINE n == Len(queue)
  <2>1. /\ n \in Nat /\ DOMAIN queue' = 1..n + 1 /\ queue'[n + 1] = e
        /\ \A i \in 1..n : queue'[i] = queue[i]
    BY <1>11, PushEffect
  <2>2. DOMAIN queue = 1..n  BY DEF TypeOK
  <2> HIDE DEF n
  <2>3. n + 1 \in DOMAIN queue' /\ \A i \in DOMAIN queue' : i = n + 1 \/ i \in 1..n  BY <2>1
  <2>4. InQueue(h)'  BY <2>1, <2>3 DEF InQueue
  <2>5. \A i \in 1..n : i \in DOMAIN queue' /\ i < n + 1  BY <2>1
  <2>6. \A x : x # h => (InQueue(x)' <=> InQueue(x))  BY <2>1, <2>2, <2>3, <2>5 DEF InQueue
  <2>7. h \in Calm' => ~InQueue(h) /\ ~InBatch(h) /\ \A g \in Goroutines : ~Runs(g, h)
    <3>1. h \in Calm' => h \notin OnTheirWay  BY DEF Record, Calm
    <3> QED  BY <3>1, OnTheirWayIs
  <2>8. Apart'
    <3> SUFFICES ASSUME NEW x \in Calm'
                 PROVE  /\ OneInQueue(x)' /\ OneInBatch(x)'
                        /\ ~(InQueue(x)' /\ InBatch(x)')
                        /\ \A g \in Goroutines : Runs(g, x)' => ~InQueue(x)' /\ ~InBatch(x)'
      BY DEF Apart
    <3>1. x \in Calm  BY <1>1
    <3>2. OneInBatch(x)'  BY <3>1 DEF Ordered, Apart, OneInBatch
    <3>3. CASE x = h
      <4>1. \A i \in 1..n : queue[i].hash # h  BY <2>2, <2>7, <3>3 DEF InQueue
      <4>2. OneInQueue(x)'  BY <2>1, <2>3, <3>3, <4>1 DEF OneInQueue
      <4> QED  BY <1>2, <1>3, <2>7, <3>2, <3>3, <4>2
    <3>4. CASE x # h
      <4>1. OneInQueue(x)  BY <3>1 DEF Ordered, Apart
      <4>2. OneInQueue(x)'  BY <2>1, <2>2, <2>3, <3>4, <4>1 DEF OneInQueue
      <4> QED  BY <1>2, <1>3, <2>6, <3>1, <3>2, <3>4, <4>2 DEF Ordered, Apart
    <3> QED  BY <3>3, <3>4
  <2>9. QueueAgrees'
    <3> SUFFICES ASSUME NEW i \in DOMAIN queue', queue'[i].hash \in Orderly', LastInQueue(i)'
                 PROVE  Agrees(queue[i])'
      BY DEF QueueAgrees
    <3>1. CASE i = n + 1
      BY <2>1, <3>1 DEF Agrees
    <3>2. CASE i \in 1..n
      <4>1. queue'[i] = queue[i] /\ queue[i] \in Event  BY <1>8, <2>1, <2>2, <3>2
      <4>2. queue[i].hash # h  BY <2>1, <2>3, <2>5, <3>2, <4>1 DEF LastInQueue
      <4>3. LastInQueue(i)  BY <2>1, <2>2, <2>5, <3>2 DEF LastInQueue
      <4>4. Agrees(queue[i])  BY <1>1, <2>2, <3>2, <4>1, <4>3 DEF Ordered, QueueAgrees
      <4>5. queue[i] \in recovered' <=> queue[i] \in recovered  BY <4>1, <4>2
      <4>6. queue[i].hash \in DOMAIN fires' <=> queue[i].hash \in DOMAIN fires  BY <1>7, <4>1, <4>2
      <4> QED  BY <4>1, <4>4, <4>5, <4>6 DEF Agrees
    <3> QED  BY <2>3, <3>1, <3>2
  <2>10. BatchAgrees'
    <3> SUFFICES ASSUME NEW i \in DOMAIN batch, batch[i].hash \in Orderly', LastInBatch(i)'
                 PROVE  Agrees(batch[i])'
      BY DEF BatchAgrees
    <3>1. batch[i].hash # h  BY <2>4 DEF LastInBatch
    <3>2. LastInBatch(i)  BY <2>6, <3>1 DEF LastInBatch
    <3> QED  BY <1>1, <1>7, <1>8, <3>1, <3>2 DEF Ordered, BatchAgrees
  <2>11. RunAgrees'
    <3> SUFFICES ASSUME NEW g \in Goroutines, NEW x \in Orderly', LastRuns(g, x)'
                 PROVE  /\ Agrees(running[g].event)'
                        /\ At(g, "addCur")' => running'[g].event \notin recovered'
                        /\ At(g, "notify")' => (cur'[x] > 0 <=> running'[g].event \notin recovered')
      BY DEF RunAgrees
    <3>1. x # h  BY <2>4 DEF LastRuns
    <3>2. x \in Orderly /\ LastRuns(g, x)  BY <1>1, <1>2, <1>3, <2>6, <3>1 DEF LastRuns
    <3>3. running[g].event \in Event /\ running[g].event.hash = x  BY <1>8, <3>2 DEF LastRuns, Runs
    <3> QED  BY <1>7, <3>1, <3>2, <3>3 DEF Ordered, RunAgrees, At
  <2>12. RestAgrees'
    <3> SUFFICES ASSUME NEW x \in Orderly', ~InQueue(x)', ~InBatch(x)', \A g \in Goroutines : ~Runs(g, x)'
                 PROVE  cur'[x] > 0 <=> x \in DOMAIN fires'
      BY DEF RestAgrees
    <3>1. x # h  BY <2>4
    <3> QED  BY <1>1, <1>2, <1>3, <1>9, <2>6, <3>1 DEF Ordered, RestAgrees
  <2> QED  BY <1>4, <1>5, <1>6, <2>8, <2>9, <2>10, <2>11, <2>12 DEF Ordered
<1> QED  BY <1>10, <1>11

\* A batch is taken: the events go on in the order they came.
LEMMA PopKeeps ==
  ASSUME TypeOK, Ordered, Pop
  PROVE  Ordered'
<1>1. PICK n \in 1..Len(queue) :
        /\ Len(queue) \in Nat /\ DOMAIN batch' = 1..n /\ DOMAIN queue' = 1..Len(queue) - n
        /\ \A i \in 1..n : batch'[i] = queue[i]
        /\ \A i \in 1..Len(queue) - n : queue'[i] = queue[i + n]
  BY PopEffect
<1> DEFINE m == Len(queue)
<1>2. DOMAIN queue = 1..m  BY DEF TypeOK
<1>3. DOMAIN batch = {}  BY DEF Pop
<1>4. m \in Nat /\ n \in 1..m  BY <1>1
<1>5. DOMAIN batch' = 1..n /\ \A i \in 1..n : batch'[i] = queue[i]  BY <1>1
<1>6. DOMAIN queue' = 1..m - n /\ \A i \in 1..m - n : queue'[i] = queue[i + n]  BY <1>1
<1> HIDE DEF m
<1>7. /\ \A i \in 1..n : i \in 1..m
      /\ \A i \in 1..m - n : i + n \in 1..m
      /\ \A i \in 1..m : i \in 1..n \/ (i - n \in 1..m - n /\ (i - n) + n = i)
  BY <1>4
<1>8. UNCHANGED <<fires, recovered, running, cur, harmed, raced>>
  BY DEF Pop, tableVars, historyVars
<1>9. Orderly' = Orderly /\ Calm' = Calm  BY <1>8 DEF Orderly, Calm, Serial
<1>10. \A g \in Goroutines : \A x : Runs(g, x)' <=> Runs(g, x)  BY <1>8 DEF Runs
<1>11. \A x : (InQueue(x)' \/ InBatch(x)') <=> InQueue(x)
  <2>1. \A x : InQueue(x)' => InQueue(x)  BY <1>2, <1>6, <1>7 DEF InQueue
  <2>2. \A x : InBatch(x)' => InQueue(x)  BY <1>2, <1>5, <1>7 DEF InQueue, InBatch
  <2>3. ASSUME NEW x, InQueue(x) PROVE InQueue(x)' \/ InBatch(x)'
    <3>1. PICK i \in 1..m : queue[i].hash = x  BY <1>2, <2>3 DEF InQueue
    <3>2. CASE i \in 1..n  BY <1>5, <3>1, <3>2 DEF InBatch
    <3>3. CASE i - n \in 1..m - n /\ (i - n) + n = i
      <4>1. queue'[i - n] = queue[i]  BY <1>6, <3>3
      <4> QED  BY <1>6, <3>1, <3>3, <4>1 DEF InQueue
    <3> QED  BY <1>7, <3>2, <3>3
  <2> QED  BY <2>1, <2>2, <2>3
<1>12. \A x : ~InBatch(x)  BY <1>3 DEF InBatch
<1>13. Exclusive' /\ RowsKnown' /\ OneRowPerHash'
  BY <1>8, <1>9, <1>10 DEF Ordered, Exclusive, RowsKnown, OneRowPerHash, At
<1>14. Apart'
  <2> SUFFICES ASSUME NEW x \in Calm
               PROVE  /\ OneInQueue(x)' /\ OneInBatch(x)'
                      /\ ~(InQueue(x)' /\ InBatch(x)')
                      /\ \A g \in Goroutines : Runs(g, x)' => ~InQueue(x)' /\ ~InBatch(x)'
    BY <1>9 DEF Apart
  <2>1. /\ \A i, j \in 1..m : queue[i].hash = x /\ queue[j].hash = x => i = j
        /\ \A g \in Goroutines : Runs(g, x) => ~InQueue(x)
    BY <1>2 DEF Ordered, Apart, OneInQueue
  <2>2. OneInQueue(x)'
    <3> SUFFICES ASSUME NEW i \in 1..m - n, NEW j \in 1..m - n, queue[i + n].hash = x, queue[j + n].hash = x
                 PROVE  i = j
      BY <1>6 DEF OneInQueue
    <3>1. i + n = j + n  BY <1>7, <2>1
    <3> QED  BY <1>4, <3>1
  <2>3. OneInBatch(x)'  BY <1>5, <1>7, <2>1 DEF OneInBatch
  <2>4. ~(InQueue(x)' /\ InBatch(x)')
    <3> SUFFICES ASSUME NEW i \in 1..m - n, NEW j \in 1..n, queue[i + n].hash = x, queue[j].hash = x
                 PROVE  FALSE
      BY <1>5, <1>6 DEF InQueue, InBatch
    <3>1. i + n = j  BY <1>7, <2>1
    <3> QED  BY <1>4, <3>1
  <2>5. \A g \in Goroutines : Runs(g, x)' => ~InQueue(x)' /\ ~InBatch(x)'  BY <1>10, <1>11, <2>1
  <2> QED  BY <2>2, <2>3, <2>4, <2>5
<1>15. QueueAgrees'
  <2> SUFFICES ASSUME NEW i \in 1..m - n, queue'[i].hash \in Orderly, LastInQueue(i)'
               PROVE  Agrees(queue[i])'
    BY <1>6, <1>9 DEF QueueAgrees
  <2>1. queue'[i] = queue[i + n] /\ i + n \in 1..m  BY <1>6, <1>7
  <2>2. LastInQueue(i + n)
    <3> SUFFICES ASSUME NEW j \in 1..m, queue[j].hash = queue[i + n].hash PROVE j <= i + n
      BY <1>2 DEF LastInQueue
    <3>1. CASE j \in 1..n  BY <1>4, <3>1
    <3>2. CASE j - n \in 1..m - n /\ (j - n) + n = j
      <4>1. queue'[j - n] = queue[j]  BY <1>6, <3>2
      <4>2. j - n <= i  BY <1>6, <2>1, <3>2, <4>1 DEF LastInQueue
      <4> QED  BY <1>4, <4>2
    <3> QED  BY <1>7, <3>1, <3>2
  <2>3. Agrees(queue[i + n])  BY <1>2, <2>1, <2>2 DEF Ordered, QueueAgrees
  <2> QED  BY <1>8, <2>1, <2>3 DEF Agrees
<1>16. BatchAgrees'
  <2> SUFFICES ASSUME NEW i \in 1..n, batch'[i].hash \in Orderly, LastInBatch(i)'
               PROVE  Agrees(batch[i])'
    BY <1>5, <1>9 DEF BatchAgrees
  <2>1. batch'[i] = queue[i] /\ i \in 1..m  BY <1>5, <1>7
  <2>2. LastInQueue(i)
    <3> SUFFICES ASSUME NEW j \in 1..m, queue[j].hash = queue[i].hash PROVE j <= i
      BY <1>2 DEF LastInQueue
    <3>1. CASE j \in 1..n
      <4>1. batch'[j] = queue[j]  BY <1>5, <3>1
      <4> QED  BY <1>5, <2>1, <3>1, <4>1 DEF LastInBatch
    <3>2. CASE j - n \in 1..m - n /\ (j - n) + n = j
      <4>1. queue'[j - n] = queue[j]  BY <1>6, <3>2
      <4>2. PICK x : x = queue[i].hash  OBVIOUS
      <4>3. InQueue(x)'  BY <1>6, <3>2, <4>1, <4>2 DEF InQueue
      <4>4. ~InQueue(x)'  BY <2>1, <4>2 DEF LastInBatch, InQueue
      <4> QED  BY <4>3, <4>4
    <3> QED  BY <1>7, <3>1, <3>2
  <2>3. Agrees(queue[i])  BY <1>2, <2>1, <2>2 DEF Ordered, QueueAgrees
  <2> QED  BY <1>8, <2>1, <2>3 DEF Agrees
<1>17. \A g \in Goroutines : \A x : LastRuns(g, x)' => LastRuns(g, x)
  BY <1>10, <1>11, <1>12 DEF LastRuns
<1>18. RunAgrees'  BY <1>8, <1>9, <1>17 DEF Ordered, RunAgrees, Agrees, At
<1>19. RestAgrees'  BY <1>8, <1>9, <1>10, <1>11, <1>12 DEF Ordered, RestAgrees
<1> QED  BY <1>13, <1>14, <1>15, <1>16, <1>18, <1>19 DEF Ordered

\* A goroutine takes the oldest event of the batch: no other stores one of its alert.
LEMMA StartKeeps ==
  ASSUME TypeOK, Ordered, NEW g \in Goroutines, Start(g)
  PROVE  Ordered'
<1> DEFINE m == Len(batch)
           e == batch[1]
           k == e.hash
<1>1. /\ m \in Nat /\ m > 0 /\ DOMAIN batch = 1..m /\ e \in Event /\ DOMAIN batch' = 1..m - 1
      /\ \A i \in 1..m - 1 : batch'[i] = batch[i + 1]
      /\ running' = [running EXCEPT ![g] = [step |-> "exists", event |-> e, has |-> FALSE]]
  BY StartEffect
<1>2. running[g] = Idle  BY DEF Start
<1>3. running'[g] = [step |-> "exists", event |-> e, has |-> FALSE]
      /\ \A f \in Goroutines \ {g} : running'[f] = running[f]
  BY <1>1 DEF TypeOK
<1> HIDE DEF m, e
<1>4. /\ 1 \in 1..m
      /\ \A i \in 1..m - 1 : i + 1 \in 1..m
      /\ \A i \in 1..m : i = 1 \/ (i - 1 \in 1..m - 1 /\ (i - 1) + 1 = i)
  BY <1>1
<1>5. UNCHANGED <<fires, recovered, queue, cur, harmed, raced>>
  BY DEF Start, processorVars, tableVars, historyVars
<1>6. Orderly' = Orderly /\ Calm' = Calm  BY <1>5 DEF Orderly, Calm, Serial
<1>7. \A x : InQueue(x)' <=> InQueue(x)  BY <1>5 DEF InQueue
<1>8. InBatch(k)  BY <1>1, <1>4 DEF InBatch, e
<1>9. running'[g] # Idle /\ running'[g].step = "exists" /\ running'[g].event = e  BY <1>3 DEF Idle
<1>10. \A x : Runs(g, x)' <=> x = k  BY <1>9 DEF Runs
<1>11. \A x : ~Runs(g, x)  BY <1>2 DEF Runs
<1>12. \A f \in Goroutines \ {g} : \A x : Runs(f, x)' <=> Runs(f, x)  BY <1>3 DEF Runs
<1>13. \A x : InBatch(x) <=> InBatch(x)' \/ x = k
  <2>1. \A x : InBatch(x)' => InBatch(x)  BY <1>1, <1>4 DEF InBatch
  <2>2. ASSUME NEW x, InBatch(x), x # k PROVE InBatch(x)'
    <3>1. PICK i \in 1..m : batch[i].hash = x  BY <1>1, <2>2 DEF InBatch
    <3>2. i # 1  BY <2>2, <3>1 DEF e
    <3>3. i - 1 \in 1..m - 1 /\ batch'[i - 1] = batch[i]  BY <1>1, <1>4, <3>2
    <3> QED  BY <1>1, <3>1, <3>3 DEF InBatch
  <2> QED  BY <1>8, <2>1, <2>2
<1>14. k \in Orderly => \A f \in Goroutines \ {g} : ~Runs(f, k)
  <2> SUFFICES ASSUME k \in Orderly, NEW f \in Goroutines \ {g}, Runs(f, k) PROVE FALSE  OBVIOUS
  <2>1. k \in Calm  BY CalmOrOne
  <2> QED  BY <1>8, <2>1 DEF Ordered, Apart
<1>15. Exclusive'
  <2> SUFFICES ASSUME NEW x \in Orderly, NEW f \in Goroutines, NEW h \in Goroutines, Runs(f, x)', Runs(h, x)'
               PROVE  f = h
    BY <1>6 DEF Exclusive
  <2>1. CASE x = k  BY <1>12, <1>14, <2>1
  <2>2. CASE x # k
    <3>1. Runs(f, x) /\ Runs(h, x)  BY <1>10, <1>12, <2>2
    <3> QED  BY <3>1 DEF Ordered, Exclusive
  <2> QED  BY <2>1, <2>2
<1>16. RowsKnown'
  <2> SUFFICES ASSUME NEW f \in Goroutines, NEW x \in Orderly, Runs(f, x)'
               PROVE  /\ At(f, "addHis")' /\ ~running'[f].has => cur'[x] = 0
                      /\ At(f, "decide")' \/ At(f, "addCur")' => cur'[x] = 0
    BY <1>6 DEF RowsKnown
  <2>1. CASE f = g  BY <1>9, <2>1 DEF At
  <2>2. CASE f # g  BY <1>3, <1>5, <1>12, <2>2 DEF Ordered, RowsKnown, At
  <2> QED  BY <2>1, <2>2
<1>17. OneRowPerHash'  BY <1>5, <1>6 DEF Ordered, OneRowPerHash
<1>18. Apart'
  <2> SUFFICES ASSUME NEW x \in Calm
               PROVE  /\ OneInQueue(x)' /\ OneInBatch(x)'
                      /\ ~(InQueue(x)' /\ InBatch(x)')
                      /\ \A f \in Goroutines : Runs(f, x)' => ~InQueue(x)' /\ ~InBatch(x)'
    BY <1>6 DEF Apart
  <2>1. /\ OneInQueue(x)
        /\ \A i, j \in 1..m : batch[i].hash = x /\ batch[j].hash = x => i = j
        /\ ~(InQueue(x) /\ InBatch(x))
        /\ \A f \in Goroutines : Runs(f, x) => ~InQueue(x) /\ ~InBatch(x)
    BY <1>1 DEF Ordered, Apart, OneInBatch
  <2>2. OneInQueue(x)'  BY <1>5, <2>1 DEF OneInQueue
  <2>3. OneInBatch(x)'
    <3> SUFFICES ASSUME NEW i \in 1..m - 1, NEW j \in 1..m - 1, batch[i + 1].hash = x, batch[j + 1].hash = x
                 PROVE  i = j
      BY <1>1 DEF OneInBatch
    <3>1. i + 1 = j + 1  BY <1>4, <2>1
    <3> QED  BY <3>1
  <2>4. ~(InQueue(x)' /\ InBatch(x)')  BY <1>7, <1>13, <2>1
  <2>5. ASSUME NEW f \in Goroutines, Runs(f, x)' PROVE ~InQueue(x)' /\ ~InBatch(x)'
    <3>1. CASE f # g  BY <1>7, <1>12, <1>13, <2>1, <2>5, <3>1
    <3>2. CASE f = g
      <4>1. x = k /\ ~InQueue(x)'  BY <1>7, <1>8, <1>10, <2>1, <2>5, <3>2
      <4>2. ~InBatch(x)'
        <5> SUFFICES ASSUME NEW i \in 1..m - 1, batch[i + 1].hash = x PROVE FALSE
          BY <1>1 DEF InBatch
        <5>1. i + 1 = 1  BY <1>4, <2>1, <4>1 DEF e
        <5> QED  BY <5>1
      <4> QED  BY <4>1, <4>2
    <3> QED  BY <3>1, <3>2
  <2> QED  BY <2>2, <2>3, <2>4, <2>5
<1>19. QueueAgrees'  BY <1>5, <1>6 DEF Ordered, QueueAgrees, LastInQueue, Agrees
<1>20. BatchAgrees'
  <2> SUFFICES ASSUME NEW i \in 1..m - 1, batch'[i].hash \in Orderly, LastInBatch(i)'
               PROVE  Agrees(batch[i])'
    BY <1>1, <1>6 DEF BatchAgrees
  <2>1. batch'[i] = batch[i + 1] /\ i + 1 \in 1..m  BY <1>1, <1>4
  <2>2. LastInBatch(i + 1)
    <3>1. ~InQueue(batch[i + 1].hash)  BY <1>7, <2>1 DEF LastInBatch
    <3>2. ASSUME NEW j \in 1..m, batch[j].hash = batch[i + 1].hash PROVE j <= i + 1
      <4>1. CASE j = 1  BY <4>1
      <4>2. CASE j - 1 \in 1..m - 1 /\ (j - 1) + 1 = j
        <5>1. batch'[j - 1] = batch[j]  BY <1>1, <4>2
        <5>2. j - 1 <= i  BY <1>1, <2>1, <3>2, <4>2, <5>1 DEF LastInBatch
        <5> QED  BY <5>2
      <4> QED  BY <1>4, <4>1, <4>2
    <3> QED  BY <1>1, <3>1, <3>2 DEF LastInBatch
  <2>3. Agrees(batch[i + 1])  BY <1>1, <2>1, <2>2 DEF Ordered, BatchAgrees
  <2> QED  BY <1>5, <2>1, <2>3 DEF Agrees
<1>21. RunAgrees'
  <2> SUFFICES ASSUME NEW f \in Goroutines, NEW x \in Orderly, LastRuns(f, x)'
               PROVE  /\ Agrees(running[f].event)'
                      /\ At(f, "addCur")' => running'[f].event \notin recovered'
                      /\ At(f, "notify")' => (cur'[x] > 0 <=> running'[f].event \notin recovered')
    BY <1>6 DEF RunAgrees
  <2>1. CASE f = g
    <3>1. x = k /\ ~InQueue(x) /\ ~InBatch(x)'  BY <1>7, <1>10, <2>1 DEF LastRuns
    <3>2. LastInBatch(1)
      <4>1. ASSUME NEW j \in 1..m, batch[j].hash = k PROVE j <= 1
        <5>1. CASE j - 1 \in 1..m - 1
          <6>1. batch'[j - 1] = batch[j]  BY <1>1, <1>4, <5>1
          <6> QED  BY <1>1, <3>1, <4>1, <5>1, <6>1 DEF InBatch
        <5>2. CASE j = 1  BY <5>2
        <5> QED  BY <1>4, <5>1, <5>2
      <4> QED  BY <1>1, <3>1, <4>1 DEF LastInBatch, e
    <3>3. Agrees(e)  BY <1>1, <1>4, <3>1, <3>2 DEF Ordered, BatchAgrees, e
    <3>4. Agrees(running[f].event)'  BY <1>5, <1>9, <2>1, <3>3 DEF Agrees
    <3> QED  BY <1>9, <2>1, <3>4 DEF At
  <2>2. CASE f # g
    <3>1. Runs(f, x)  BY <1>12, <2>2 DEF LastRuns
    <3>2. x # k  BY <1>14, <2>2, <3>1
    <3>3. LastRuns(f, x)  BY <1>7, <1>13, <3>1, <3>2 DEF LastRuns
    <3>4. running'[f] = running[f]  BY <1>3, <2>2
    <3> QED  BY <1>5, <3>3, <3>4 DEF Ordered, RunAgrees, Agrees, At
  <2> QED  BY <2>1, <2>2
<1>22. RestAgrees'
  <2> SUFFICES ASSUME NEW x \in Orderly, ~InQueue(x)', ~InBatch(x)', \A f \in Goroutines : ~Runs(f, x)'
               PROVE  cur'[x] > 0 <=> x \in DOMAIN fires'
    BY <1>6 DEF RestAgrees
  <2>1. x # k  BY <1>10
  <2>2. \A f \in Goroutines : ~Runs(f, x)  BY <1>11, <1>12
  <2>3. ~InQueue(x) /\ ~InBatch(x)  BY <1>7, <1>13, <2>1
  <2> QED  BY <1>5, <2>2, <2>3 DEF Ordered, RestAgrees
<1> QED  BY <1>15, <1>16, <1>17, <1>18, <1>19, <1>20, <1>21, <1>22 DEF Ordered

\* A goroutine comes to its next statement: nothing but its own alert is disturbed.
LEMMA StatementKeeps ==
  ASSUME TypeOK, Ordered, NEW g \in Goroutines,
         running[g] # Idle, running'[g] # Idle, running'[g].event = running[g].event,
         \A f \in Goroutines \ {g} : running'[f] = running[f],
         UNCHANGED <<fires, recovered, queue, batch, raced>>, harmed \subseteq harmed',
         \A x \in Hashes \ {HashOf(g)} : cur'[x] = cur[x],
         HashOf(g) \in Orderly' =>
           /\ cur'[HashOf(g)] <= 1
           /\ At(g, "addHis")' /\ ~running'[g].has => cur'[HashOf(g)] = 0
           /\ At(g, "decide")' \/ At(g, "addCur")' => cur'[HashOf(g)] = 0
           /\ At(g, "addCur")' => running[g].event \notin recovered
           /\ At(g, "notify")' /\ LastRuns(g, HashOf(g)) =>
                (cur'[HashOf(g)] > 0 <=> running[g].event \notin recovered)
  PROVE  Ordered'
<1> DEFINE k == running[g].event.hash
<1>1. Orderly' \subseteq Orderly /\ Calm' \subseteq Calm  BY Shrinks
<1>2. \A x \in Orderly' : x \in Hashes  BY <1>1, CalmOrOne
<1>3. \A f \in Goroutines : \A x : Runs(f, x)' <=> Runs(f, x)  BY DEF Runs
<1>4. \A x : (InQueue(x)' <=> InQueue(x)) /\ (InBatch(x)' <=> InBatch(x))  BY DEF InQueue, InBatch
<1>5. k = HashOf(g) /\ Runs(g, k)  BY DEF HashOf, Runs
<1>6. \A f \in Goroutines : running'[f].event = running[f].event  OBVIOUS
<1>7. \A f \in Goroutines : \A x : LastRuns(f, x)' <=> LastRuns(f, x)  BY <1>3, <1>4 DEF LastRuns
<1>8. \A x \in Orderly' : \A f \in Goroutines \ {g} : Runs(f, x) => x # k /\ cur'[x] = cur[x]
  BY <1>1, <1>2, <1>5 DEF Ordered, Exclusive
<1>9. Exclusive'  BY <1>1, <1>3 DEF Ordered, Exclusive
<1>10. Apart'
  <2>1. \A x : (OneInQueue(x)' <=> OneInQueue(x)) /\ (OneInBatch(x)' <=> OneInBatch(x))
    BY DEF OneInQueue, OneInBatch
  <2> QED  BY <1>1, <1>3, <1>4, <2>1 DEF Ordered, Apart
<1>11. RowsKnown'
  <2> SUFFICES ASSUME NEW f \in Goroutines, NEW x \in Orderly', Runs(f, x)
               PROVE  /\ At(f, "addHis")' /\ ~running'[f].has => cur'[x] = 0
                      /\ At(f, "decide")' \/ At(f, "addCur")' => cur'[x] = 0
    BY <1>3 DEF RowsKnown
  <2>1. CASE f = g
    <3>1. x = HashOf(g)  BY <1>5, <2>1 DEF Runs
    <3> QED  BY <2>1, <3>1
  <2>2. CASE f # g
    <3>1. cur'[x] = cur[x] /\ running'[f] = running[f] /\ x \in Orderly  BY <1>1, <1>8, <2>2
    <3> QED  BY <3>1 DEF Ordered, RowsKnown, At
  <2> QED  BY <2>1, <2>2
<1>12. OneRowPerHash'
  <2> SUFFICES ASSUME NEW x \in Orderly' PROVE cur'[x] <= 1  BY DEF OneRowPerHash
  <2> QED  BY <1>1, <1>2 DEF Ordered, OneRowPerHash
<1>13. QueueAgrees' /\ BatchAgrees'
  <2>1. QueueAgrees'  BY <1>1 DEF Ordered, QueueAgrees, LastInQueue, Agrees
  <2>2. \A i \in DOMAIN batch : LastInBatch(i)' => LastInBatch(i)  BY DEF LastInBatch, InQueue
  <2> QED  BY <1>1, <2>1, <2>2 DEF Ordered, BatchAgrees, Agrees
<1>14. RunAgrees'
  <2> SUFFICES ASSUME NEW f \in Goroutines, NEW x \in Orderly', LastRuns(f, x)
               PROVE  /\ Agrees(running[f].event)'
                      /\ At(f, "addCur")' => running'[f].event \notin recovered'
                      /\ At(f, "notify")' => (cur'[x] > 0 <=> running'[f].event \notin recovered')
    BY <1>7 DEF RunAgrees
  <2>1. Agrees(running[f].event)'
    <3>1. Agrees(running[f].event)  BY <1>1 DEF Ordered, RunAgrees
    <3> QED  BY <1>6, <3>1 DEF Agrees
  <2>2. CASE f = g
    <3>1. x = HashOf(g)  BY <1>5, <2>2 DEF LastRuns, Runs
    <3> QED  BY <2>1, <2>2, <3>1
  <2>3. CASE f # g
    <3>1. cur'[x] = cur[x] /\ running'[f] = running[f] /\ x \in Orderly
      BY <1>1, <1>8, <2>3 DEF LastRuns
    <3> QED  BY <2>1, <3>1 DEF Ordered, RunAgrees, At
  <2> QED  BY <2>2, <2>3
<1>15. RestAgrees'
  <2> SUFFICES ASSUME NEW x \in Orderly', ~InQueue(x), ~InBatch(x), \A f \in Goroutines : ~Runs(f, x)
               PROVE  cur'[x] > 0 <=> x \in DOMAIN fires
    BY <1>3, <1>4 DEF RestAgrees
  <2>1. x # HashOf(g)  BY <1>5
  <2> QED  BY <1>1, <1>2, <2>1 DEF Ordered, RestAgrees
<1> QED  BY <1>9, <1>10, <1>11, <1>12, <1>13, <1>14, <1>15 DEF Ordered

\* A goroutine is done with its event: the rows are what the processor says.
LEMMA NotifyKeeps ==
  ASSUME TypeOK, Ordered, NEW g \in Goroutines, Notify(g)
  PROVE  Ordered'
<1>1. UNCHANGED <<fires, recovered, queue, batch, cur, harmed, raced>>
  BY DEF Notify, processorVars, tableVars, historyVars
<1>2. running'[g] = Idle /\ \A f \in Goroutines \ {g} : running'[f] = running[f]  BY DEF Notify, TypeOK
<1>3. Orderly' = Orderly /\ Calm' = Calm  BY <1>1 DEF Orderly, Calm, Serial
<1>4. \A f \in Goroutines : \A x : Runs(f, x)' <=> f # g /\ Runs(f, x)  BY <1>2 DEF Runs
<1>5. \A x : (InQueue(x)' <=> InQueue(x)) /\ (InBatch(x)' <=> InBatch(x))  BY <1>1 DEF InQueue, InBatch
<1>6. \A x : (OneInQueue(x)' <=> OneInQueue(x)) /\ (OneInBatch(x)' <=> OneInBatch(x))
  BY <1>1 DEF OneInQueue, OneInBatch
<1>7. Apart' /\ Exclusive'  BY <1>3, <1>4, <1>5, <1>6 DEF Ordered, Apart, Exclusive
<1>8. RowsKnown' /\ OneRowPerHash'
  BY <1>1, <1>2, <1>3, <1>4 DEF Ordered, RowsKnown, OneRowPerHash, At
<1>9. QueueAgrees'  BY <1>1, <1>3 DEF Ordered, QueueAgrees, LastInQueue, Agrees
<1>10. BatchAgrees'
  <2>1. \A i \in DOMAIN batch : LastInBatch(i)' => LastInBatch(i)  BY <1>1 DEF LastInBatch, InQueue
  <2> QED  BY <1>1, <1>3, <2>1 DEF Ordered, BatchAgrees, Agrees
<1>11. RunAgrees'
  <2> SUFFICES ASSUME NEW f \in Goroutines, NEW x \in Orderly, LastRuns(f, x)'
               PROVE  /\ Agrees(running[f].event)'
                      /\ At(f, "addCur")' => running'[f].event \notin recovered'
                      /\ At(f, "notify")' => (cur'[x] > 0 <=> running'[f].event \notin recovered')
    BY <1>3 DEF RunAgrees
  <2>1. LastRuns(f, x) /\ running'[f] = running[f]  BY <1>2, <1>4, <1>5 DEF LastRuns
  <2> QED  BY <1>1, <2>1 DEF Ordered, RunAgrees, Agrees, At
<1>12. RestAgrees'
  <2> SUFFICES ASSUME NEW x \in Orderly, ~InQueue(x), ~InBatch(x), \A f \in Goroutines : ~Runs(f, x)'
               PROVE  cur[x] > 0 <=> x \in DOMAIN fires
    BY <1>1, <1>3, <1>5 DEF RestAgrees
  <2>1. CASE Runs(g, x)
    <3>1. LastRuns(g, x)  BY <2>1 DEF LastRuns
    <3>2. Agrees(running[g].event) /\ (cur[x] > 0 <=> running[g].event \notin recovered)
      BY <3>1 DEF Ordered, RunAgrees, Notify
    <3> QED  BY <2>1, <3>2 DEF Agrees, Runs
  <2>2. CASE ~Runs(g, x)
    <3>1. \A f \in Goroutines : ~Runs(f, x)  BY <1>4, <2>2
    <3> QED  BY <3>1 DEF Ordered, RestAgrees
  <2> QED  BY <2>1, <2>2
<1> QED  BY <1>7, <1>8, <1>9, <1>10, <1>11, <1>12 DEF Ordered

\* A processor reads the table: what is left on its way is of no orderly alert.
LEMMA RereadKeeps ==
  ASSUME TypeOK, Ordered, harmed \subseteq harmed', raced' = raced, cur' = cur,
         DOMAIN fires' = {x \in Hashes : cur[x] > 0},
         \A x \in Orderly' : ~InQueue(x)' /\ ~InBatch(x)' /\ \A g \in Goroutines : ~Runs(g, x)'
  PROVE  Ordered'
<1>1. Orderly' \subseteq Orderly /\ Calm' \subseteq Calm  BY Shrinks
<1>2. Calm' \subseteq Orderly'  BY DEF Calm, Orderly
<1>3. \A x \in Orderly' : x \in Hashes  BY <1>1, CalmOrOne
<1>4. Apart'  BY <1>2 DEF Apart, OneInQueue, OneInBatch, InQueue, InBatch
<1>5. Exclusive' /\ RowsKnown' /\ RunAgrees'  BY DEF Exclusive, RowsKnown, RunAgrees, LastRuns
<1>6. OneRowPerHash'  BY <1>1 DEF Ordered, OneRowPerHash
<1>7. QueueAgrees' /\ BatchAgrees'  BY DEF QueueAgrees, BatchAgrees, InQueue, InBatch
<1>8. RestAgrees'  BY <1>3 DEF RestAgrees
<1> QED  BY <1>4, <1>5, <1>6, <1>7, <1>8 DEF Ordered

\* A user deletes the rows of an alert, which is harmed by it.
LEMMA DeleteKeeps ==
  ASSUME TypeOK, Ordered, NEW h \in Hashes, UserDelete(h)
  PROVE  Ordered'
<1>1. UNCHANGED <<fires, recovered, queue, batch, running, raced>> /\ harmed' = harmed \cup {h}
  BY DEF UserDelete, processorVars, consumerVars
<1>2. Orderly' \subseteq Orderly /\ Calm' \subseteq Calm  BY <1>1, Shrinks
<1>3. \A x \in Orderly' : x \in Hashes /\ cur'[x] = cur[x]
  <2>1. \A x \in Orderly' : x \in Hashes /\ x # h  BY <1>1, <1>2, CalmOrOne DEF Orderly, Calm
  <2> QED  BY <2>1 DEF UserDelete, TypeOK
<1>4. \A x : /\ InQueue(x)' <=> InQueue(x)
             /\ InBatch(x)' <=> InBatch(x)
             /\ \A g \in Goroutines : Runs(g, x)' <=> Runs(g, x)
  BY <1>1 DEF InQueue, InBatch, Runs
<1>5. Apart'
  <2>1. \A x : (OneInQueue(x)' <=> OneInQueue(x)) /\ (OneInBatch(x)' <=> OneInBatch(x))
    BY <1>1 DEF OneInQueue, OneInBatch
  <2> QED  BY <1>2, <1>4, <2>1 DEF Ordered, Apart
<1>6. Exclusive'  BY <1>2, <1>4 DEF Ordered, Exclusive
<1>7. RowsKnown' /\ OneRowPerHash'
  BY <1>1, <1>2, <1>3, <1>4 DEF Ordered, RowsKnown, OneRowPerHash, At
<1>8. QueueAgrees'  BY <1>1, <1>2 DEF Ordered, QueueAgrees, LastInQueue, Agrees
<1>9. BatchAgrees'
  <2>1. \A i \in DOMAIN batch : LastInBatch(i)' => LastInBatch(i)  BY <1>1 DEF LastInBatch, InQueue
  <2> QED  BY <1>1, <1>2, <2>1 DEF Ordered, BatchAgrees, Agrees
<1>10. RunAgrees'
  <2>1. \A g \in Goroutines : \A x : LastRuns(g, x)' <=> LastRuns(g, x)  BY <1>4 DEF LastRuns
  <2> QED  BY <1>1, <1>2, <1>3, <2>1 DEF Ordered, RunAgrees, Agrees, At
<1>11. RestAgrees'  BY <1>1, <1>2, <1>3, <1>4 DEF Ordered, RestAgrees
<1> QED  BY <1>5, <1>6, <1>7, <1>8, <1>9, <1>10, <1>11 DEF Ordered

-------------------------------------------------------------------------------
(***************************************************************************)
(* Every step keeps the invariant.                                         *)
(***************************************************************************)

\* The events are numbered by the pushes.
LEMMA NumberedStep == TypeOK /\ TypeOK' /\ Numbered /\ [Next]_vars => Numbered'
<1> SUFFICES ASSUME TypeOK, TypeOK', Numbered, [Next]_vars PROVE Numbered'  OBVIOUS
<1>0. pushes \in Nat /\ pushes' \in Nat  BY BoundsAssumption DEF TypeOK
<1>1. ASSUME pushes <= pushes',
             \A e \in recovered' : e.id <= pushes',
             \A i \in DOMAIN queue' : queue'[i].id <= pushes',
             \A h \in DOMAIN fires' : fires'[h].id <= pushes',
             UNCHANGED <<batch, running>>
      PROVE  Numbered'
  <2>1. \A i \in DOMAIN batch : batch[i].id \in Nat  BY EventsTyped DEF Event
  <2>2. \A g \in Goroutines : running[g].event.id \in Nat  BY EventsTyped DEF Event, Idle, NoEvent
  <2> QED  BY <1>0, <1>1, <2>1, <2>2 DEF Numbered
<1>2. /\ \A e \in recovered : e.id \in Nat
      /\ \A i \in DOMAIN queue : queue[i].id \in Nat
      /\ \A h \in DOMAIN fires : fires[h].id \in Nat
  <2>1. recovered \subseteq Event /\ \A h \in DOMAIN fires : fires[h] \in Event  BY DEF TypeOK
  <2>2. \A i \in DOMAIN queue : queue[i] \in Event  BY EventsTyped
  <2>3. \A x \in Event : x.id \in Nat  BY DEF Event
  <2> QED  BY <2>1, <2>2, <2>3
<1>3. ASSUME NEW h \in Hashes, Fire(h) PROVE Numbered'
  <2> DEFINE e == [hash |-> h, id |-> pushes + 1]
  <2>1. pushes' = pushes + 1 /\ pushes + 1 \in 0..MaxPushes
    BY <1>0, <1>3, BoundsAssumption DEF Fire, MayPush
  <2>2. e \in Event /\ e.id = pushes + 1  BY <2>1 DEF Event
  <2>3. Enqueue(e) /\ fires' = [g \in DOMAIN fires \cup {h} |-> IF g = h THEN e ELSE fires[g]]
    BY <1>3 DEF Fire
  <2> HIDE DEF e
  <2>4. \A i \in DOMAIN queue' : queue'[i] = e \/ \E j \in DOMAIN queue : queue'[i] = queue[j]
    <3>1. CASE Accepted
      <4>1. /\ Len(queue) \in Nat /\ DOMAIN queue' = 1..Len(queue) + 1
            /\ \A i \in 1..Len(queue) : queue'[i] = queue[i]
            /\ queue'[Len(queue) + 1] = e
        BY <2>2, <2>3, <3>1, PushEffect
      <4>2. DOMAIN queue = 1..Len(queue)  BY DEF TypeOK
      <4> QED  BY <4>1, <4>2
    <3>2. CASE ~Accepted  BY <2>2, <2>3, <3>2, PushEffect
    <3> QED  BY <3>1, <3>2
  <2>5. \A i \in DOMAIN queue' : queue'[i].id <= pushes'  BY <1>0, <1>2, <2>1, <2>2, <2>4 DEF Numbered
  <2>6. \A x \in DOMAIN fires' : fires'[x].id <= pushes'  BY <1>0, <1>2, <2>1, <2>2, <2>3 DEF Numbered
  <2>7. recovered' = recovered /\ UNCHANGED <<batch, running>>  BY <1>3 DEF Fire, consumerVars
  <2>8. \A x \in recovered' : x.id <= pushes'  BY <1>0, <1>2, <2>1, <2>7 DEF Numbered
  <2> QED  BY <1>0, <1>1, <2>1, <2>5, <2>6, <2>7, <2>8
<1>4. ASSUME NEW h \in Hashes, Recover(h) PROVE Numbered'
  <2>1. pushes' = pushes + 1 /\ h \in DOMAIN fires /\ fires[h] \in Event /\ fires[h].id <= pushes
    BY <1>4 DEF Recover, TypeOK, Numbered
  <2>2. Enqueue(fires[h])  BY <1>4 DEF Recover
  <2>3. \A i \in DOMAIN queue' : queue'[i] = fires[h] \/ \E j \in DOMAIN queue : queue'[i] = queue[j]
    <3>1. CASE Accepted
      <4>1. /\ Len(queue) \in Nat /\ DOMAIN queue' = 1..Len(queue) + 1
            /\ \A i \in 1..Len(queue) : queue'[i] = queue[i]
            /\ queue'[Len(queue) + 1] = fires[h]
        BY <2>1, <2>2, <3>1, PushEffect
      <4>2. DOMAIN queue = 1..Len(queue)  BY DEF TypeOK
      <4> QED  BY <4>1, <4>2
    <3>2. CASE ~Accepted  BY <2>1, <2>2, <3>2, PushEffect
    <3> QED  BY <3>1, <3>2
  <2>4. fires[h].id \in Nat  BY <1>2, <2>1
  <2>5. \A i \in DOMAIN queue' : queue'[i].id <= pushes'  BY <1>0, <1>2, <2>1, <2>3, <2>4 DEF Numbered
  <2>6. \A x \in DOMAIN fires' : x \in DOMAIN fires /\ fires'[x] = fires[x]  BY <1>4 DEF Recover
  <2>7. \A x \in DOMAIN fires' : fires'[x].id <= pushes'  BY <1>0, <1>2, <2>1, <2>6 DEF Numbered
  <2>8. recovered' = recovered \cup {fires[h]} /\ UNCHANGED <<batch, running>>
    BY <1>4 DEF Recover, consumerVars
  <2>9. \A x \in recovered' : x.id <= pushes'  BY <1>0, <1>2, <2>1, <2>4, <2>8 DEF Numbered
  <2> QED  BY <1>0, <1>1, <2>1, <2>5, <2>7, <2>8, <2>9
<1>5. CASE Pop
  <2>1. PICK n \in 1..Len(queue) :
          /\ Len(queue) \in Nat /\ DOMAIN batch' = 1..n /\ DOMAIN queue' = 1..Len(queue) - n
          /\ \A i \in 1..n : batch'[i] = queue[i]
          /\ \A i \in 1..Len(queue) - n : queue'[i] = queue[i + n]
    BY <1>5, PopEffect
  <2>2. DOMAIN queue = 1..Len(queue)  BY DEF TypeOK
  <2> DEFINE m == Len(queue)
  <2>3. m \in Nat /\ n \in 1..m /\ (\A i \in 1..n : i \in 1..m) /\ \A i \in 1..m - n : i + n \in 1..m
    BY <2>1
  <2>4. /\ \A i \in DOMAIN batch' : batch'[i] = queue[i] /\ i \in 1..m
        /\ \A i \in DOMAIN queue' : queue'[i] = queue[i + n] /\ i + n \in 1..m
    BY <2>1, <2>3
  <2> HIDE DEF m
  <2>5. \A i \in 1..m : queue[i].id <= pushes  BY <2>2 DEF Numbered, m
  <2>6. /\ \A i \in DOMAIN batch' : batch'[i].id <= pushes
        /\ \A i \in DOMAIN queue' : queue'[i].id <= pushes
    BY <2>4, <2>5
  <2> QED  BY <1>5, <2>6 DEF Numbered, Pop
<1>6. ASSUME NEW g \in Goroutines, Start(g) PROVE Numbered'
  <2>1. /\ Len(batch) \in Nat /\ Len(batch) > 0 /\ DOMAIN batch = 1..Len(batch)
        /\ DOMAIN batch' = 1..Len(batch) - 1
        /\ \A i \in 1..Len(batch) - 1 : batch'[i] = batch[i + 1]
        /\ running' = [running EXCEPT ![g] = [step |-> "exists", event |-> batch[1], has |-> FALSE]]
    BY <1>6, StartEffect
  <2>2. \A i \in DOMAIN batch' : batch'[i].id <= pushes  BY <2>1 DEF Numbered
  <2>3. batch[1].id <= pushes  BY <2>1 DEF Numbered
  <2>4. \A f \in Goroutines : running'[f].event = running[f].event \/ running'[f].event = batch[1]
    BY <2>1 DEF TypeOK
  <2>5. \A f \in Goroutines : running'[f].event.id <= pushes  BY <2>3, <2>4 DEF Numbered
  <2> QED  BY <1>6, <2>2, <2>5 DEF Numbered, Start, processorVars
<1>7. ASSUME NEW g \in Goroutines,
             CheckExists(g) \/ AddHis(g) \/ DeleteCur(g) \/ Decide(g) \/ AddCur(g) \/ StatementFails(g)
      PROVE  Numbered'
  <2>1. UNCHANGED <<fires, recovered, queue, batch, pushes>>
    BY <1>7 DEF CheckExists, AddHis, DeleteCur, Decide, AddCur, StatementFails, processorVars, tableVars
  <2>2. \A f \in Goroutines : running'[f].event = running[f].event
    <3>1. CASE CheckExists(g)  BY <3>1, CheckExistsType
    <3>2. CASE ~CheckExists(g)
      <4>1. running[g].step \in Steps /\ \E t \in Steps : Goto(g, t)
        BY <1>7, <3>2 DEF AddHis, DeleteCur, Decide, AddCur, StatementFails, At, Steps
      <4> QED  BY <4>1, GotoType
    <3> QED  BY <3>1, <3>2
  <2> QED  BY <2>1, <2>2 DEF Numbered
<1>8. ASSUME NEW g \in Goroutines, Notify(g) PROVE Numbered'
  <2>1. \A f \in Goroutines : running'[f].event.id = running[f].event.id \/ running'[f].event.id = 0
    BY <1>8 DEF Notify, TypeOK, Idle, NoEvent
  <2> QED  BY <1>0, <1>8, <2>1 DEF Numbered, Notify, processorVars
<1>9. CASE Reload
  <2>1. pushes' = pushes + 1 /\ UNCHANGED <<recovered, queue, batch, running>>
        /\ \A x \in DOMAIN fires' : fires'[x].id = pushes + 1
    BY <1>9 DEF Reload, consumerVars
  <2>2. /\ \A x \in recovered' : x.id <= pushes'
        /\ \A i \in DOMAIN queue' : queue'[i].id <= pushes'
    BY <1>0, <1>2, <2>1 DEF Numbered
  <2> QED  BY <1>0, <1>1, <2>1, <2>2
<1>10. CASE Crash
  <2>1. /\ recovered' = {} /\ DOMAIN queue' = {} /\ DOMAIN batch' = {}
        /\ \A g \in Goroutines : running'[g].event.id = 0
        /\ \A x \in DOMAIN fires' : fires'[x].id = 0
    BY <1>10 DEF Crash, Idle, NoEvent
  <2> QED  BY <1>0, <2>1 DEF Numbered
<1>11. ASSUME NEW h \in Hashes, UserDelete(h) PROVE Numbered'
  BY <1>11 DEF UserDelete, Numbered, processorVars, consumerVars
<1>12. CASE UNCHANGED vars
  BY <1>12 DEF Numbered, vars, processorVars, consumerVars
<1> QED
  BY <1>3, <1>4, <1>5, <1>6, <1>7, <1>8, <1>9, <1>10, <1>11, <1>12 DEF Next, ConsumerStep

\* What the statements of EventPersist do to the rows of their alert.
LEMMA StatementStep ==
  ASSUME TypeOK, Ordered, NEW g \in Goroutines,
         CheckExists(g) \/ AddHis(g) \/ DeleteCur(g) \/ Decide(g) \/ AddCur(g) \/ StatementFails(g)
  PROVE  Ordered'
<1> DEFINE k == HashOf(g)
<1>1. running[g].step \in Steps /\ running[g] # Idle
  BY DEF CheckExists, AddHis, DeleteCur, Decide, AddCur, StatementFails, At, Steps, Idle
<1>2. k \in Hashes /\ Runs(g, k)  BY <1>1, EventsTyped DEF Runs, HashOf
<1>3. cur[k] \in Nat /\ cur \in [Hashes -> Nat]  BY <1>2 DEF TypeOK
<1>4. k \in Orderly => cur[k] <= 1  BY DEF Ordered, OneRowPerHash
<1> HIDE DEF k
<1>5. CASE CheckExists(g)
  <2>1. /\ UNCHANGED <<fires, recovered, queue, batch, raced, harmed, cur>>
        /\ running'[g] # Idle /\ running'[g].event = running[g].event
        /\ running'[g].step = "addHis" /\ running'[g].has = (cur[k] > 0)
        /\ \A f \in Goroutines \ {g} : running'[f] = running[f]
    BY <1>5, CheckExistsType DEF CheckExists, processorVars, tableVars, historyVars, k
  <2>2. Orderly' = Orderly  BY <2>1 DEF Orderly, Calm, Serial
  <2>3. ~running'[g].has => cur'[k] = 0
    <3>1. CASE cur[k] > 0  BY <2>1, <3>1
    <3>2. CASE ~(cur[k] > 0)
      <4>1. cur[k] = 0  BY <1>3, <3>2
      <4> QED  BY <2>1, <4>1
    <3> QED  BY <3>1, <3>2
  <2> QED  BY <1>1, <1>4, <2>1, <2>2, <2>3, StatementKeeps DEF At, k
<1>6. CASE AddHis(g)
  <2> DEFINE t == IF running[g].has THEN "delete" ELSE "decide"
  <2>1. t \in Steps /\ Goto(g, t) /\ At(g, "addHis")  BY <1>6 DEF AddHis, Steps
  <2>2. /\ UNCHANGED <<fires, recovered, queue, batch, raced, harmed, cur>>
        /\ running'[g] # Idle /\ running'[g].event = running[g].event /\ running'[g].step = t
        /\ \A f \in Goroutines \ {g} : running'[f] = running[f]
    BY <1>1, <1>6, <2>1, GotoType DEF AddHis, processorVars, historyVars
  <2>3. Orderly' = Orderly  BY <2>2 DEF Orderly, Calm, Serial
  <2>4. k \in Orderly /\ t = "decide" => cur'[k] = 0  BY <1>2, <2>1, <2>2 DEF Ordered, RowsKnown
  <2> QED  BY <1>1, <1>4, <2>2, <2>3, <2>4, StatementKeeps DEF At, k
<1>7. CASE DeleteCur(g)
  <2>1. "decide" \in Steps /\ Goto(g, "decide")  BY <1>7 DEF DeleteCur, Steps
  <2>2. /\ UNCHANGED <<fires, recovered, queue, batch, raced, harmed>>
        /\ running'[g] # Idle /\ running'[g].event = running[g].event /\ running'[g].step = "decide"
        /\ \A f \in Goroutines \ {g} : running'[f] = running[f]
    BY <1>1, <1>7, <2>1, GotoType DEF DeleteCur, processorVars, historyVars
  <2>3. cur'[k] = 0 /\ \A x \in Hashes \ {k} : cur'[x] = cur[x]  BY <1>2, <1>3, <1>7 DEF DeleteCur, k
  <2>4. At(g, "decide")' /\ ~At(g, "addHis")' /\ ~At(g, "addCur")' /\ ~At(g, "notify")'
    BY <2>2 DEF At
  <2> QED  BY <1>1, <2>2, <2>3, <2>4, StatementKeeps DEF k
<1>8. CASE Decide(g)
  <2> DEFINE t == IF IsRecovered(g) THEN "notify" ELSE "addCur"
  <2>1. t \in Steps /\ Goto(g, t) /\ At(g, "decide")  BY <1>8 DEF Decide, Steps
  <2>2. /\ UNCHANGED <<fires, recovered, queue, batch, raced, harmed, cur>>
        /\ running'[g] # Idle /\ running'[g].event = running[g].event /\ running'[g].step = t
        /\ \A f \in Goroutines \ {g} : running'[f] = running[f]
    BY <1>1, <1>8, <2>1, GotoType DEF Decide, processorVars, tableVars, historyVars
  <2>3. Orderly' = Orderly  BY <2>2 DEF Orderly, Calm, Serial
  <2>4. k \in Orderly => cur'[k] = 0  BY <1>2, <2>1, <2>2 DEF Ordered, RowsKnown
  <2>5. /\ t = "addCur" => running[g].event \notin recovered
        /\ t = "notify" => running[g].event \in recovered
        /\ t # "addHis" /\ t # "decide"
    BY DEF IsRecovered
  <2> HIDE DEF t
  <2>6. ~At(g, "addHis")' /\ ~At(g, "decide")' /\ (At(g, "addCur")' => t = "addCur")
        /\ (At(g, "notify")' => t = "notify")
    BY <2>2, <2>5 DEF At
  <2> QED  BY <1>1, <1>4, <2>2, <2>3, <2>4, <2>5, <2>6, StatementKeeps DEF k
<1>9. CASE AddCur(g)
  <2>1. "notify" \in Steps /\ Goto(g, "notify") /\ At(g, "addCur")  BY <1>9 DEF AddCur, Steps
  <2>2. /\ UNCHANGED <<fires, recovered, queue, batch, raced, harmed>>
        /\ running'[g] # Idle /\ running'[g].event = running[g].event /\ running'[g].step = "notify"
        /\ \A f \in Goroutines \ {g} : running'[f] = running[f]
    BY <1>1, <1>9, <2>1, GotoType DEF AddCur, processorVars, historyVars
  <2>3. Orderly' = Orderly  BY <2>2 DEF Orderly, Calm, Serial
  <2>4. cur'[k] = cur[k] + 1 /\ \A x \in Hashes \ {k} : cur'[x] = cur[x]
    BY <1>2, <1>3, <1>9 DEF AddCur, k
  <2>5. k \in Orderly => cur[k] = 0  BY <1>2, <2>1 DEF Ordered, RowsKnown
  <2>6. k \in Orderly /\ LastRuns(g, k) => running[g].event \notin recovered
    BY <2>1 DEF Ordered, RunAgrees
  <2>7. At(g, "notify")' /\ ~At(g, "addHis")' /\ ~At(g, "decide")' /\ ~At(g, "addCur")'
    BY <2>2 DEF At
  <2>8. k \in Orderly => cur'[k] = 1 /\ cur'[k] <= 1 /\ cur'[k] > 0  BY <2>4, <2>5
  <2> QED  BY <1>1, <2>2, <2>3, <2>4, <2>6, <2>7, <2>8, StatementKeeps DEF k
<1>10. CASE StatementFails(g)
  <2>1. "notify" \in Steps /\ Goto(g, "notify")  BY <1>10 DEF StatementFails, Steps
  <2>2. /\ UNCHANGED <<fires, recovered, queue, batch, raced, cur>> /\ harmed' = harmed \cup {k}
        /\ running'[g] # Idle /\ running'[g].event = running[g].event
        /\ \A f \in Goroutines \ {g} : running'[f] = running[f]
    BY <1>1, <1>10, <2>1, GotoType DEF StatementFails, processorVars, tableVars, k
  <2>3. k \notin Orderly'  BY <2>2 DEF Orderly, Calm
  <2> QED  BY <1>1, <2>2, <2>3, StatementKeeps DEF k
<1> QED  BY <1>5, <1>6, <1>7, <1>8, <1>9, <1>10

\* A stutter keeps it.
LEMMA StutterKeeps == Ordered /\ UNCHANGED vars => Ordered'
BY DEF Ordered, Apart, Exclusive, RowsKnown, OneRowPerHash, QueueAgrees, BatchAgrees, RunAgrees,
       RestAgrees, OneInQueue, OneInBatch, InQueue, InBatch, Runs, LastRuns, LastInQueue, LastInBatch,
       Agrees, At, Orderly, Calm, Serial, vars, processorVars, consumerVars, tableVars, historyVars

\* The invariant is inductive.
LEMMA InvStep == IInv /\ [Next]_vars => IInv'
<1> SUFFICES ASSUME IInv, [Next]_vars PROVE IInv'  OBVIOUS
<1>1. TypeOK /\ Numbered /\ Ordered  BY DEF IInv, Ordered
<1>2. TypeOK' /\ Numbered'  BY <1>1, TypeStep, NumberedStep
<1>3. Ordered'
  <2>1. ASSUME NEW h \in Hashes, Fire(h) PROVE Ordered'
    <3> DEFINE e == [hash |-> h, id |-> pushes + 1]
    <3>1. pushes \in Nat /\ pushes + 1 \in 0..MaxPushes
      BY <1>1, <2>1, BoundsAssumption DEF TypeOK, Fire, MayPush
    <3>2. e \in Event /\ e.hash = h /\ e.id = pushes + 1  BY <3>1 DEF Event
    <3>3. e \notin recovered  BY <1>1, <3>1, <3>2 DEF Numbered
    <3>4. /\ Enqueue(e) /\ Record(h) /\ DOMAIN fires' = DOMAIN fires \cup {h}
          /\ UNCHANGED <<recovered, batch, running, cur>>
      BY <2>1 DEF Fire, consumerVars, tableVars
    <3> HIDE DEF e
    <3> QED  BY <1>1, <3>2, <3>3, <3>4, PushKeeps
  <2>2. ASSUME NEW h \in Hashes, Recover(h) PROVE Ordered'
    <3>1. h \in DOMAIN fires /\ fires[h] \in Event /\ fires[h].hash = h  BY <1>1, <2>2 DEF Recover, TypeOK
    <3>2. /\ Enqueue(fires[h]) /\ Record(h) /\ DOMAIN fires' = DOMAIN fires \ {h}
          /\ recovered' = recovered \cup {fires[h]} /\ UNCHANGED <<batch, running, cur>>
      BY <2>2 DEF Recover, consumerVars, tableVars
    <3>3. PICK e : e = fires[h]  OBVIOUS
    <3> QED  BY <1>1, <3>1, <3>2, <3>3, PushKeeps
  <2>3. CASE Pop  BY <1>1, <2>3, PopKeeps
  <2>4. ASSUME NEW g \in Goroutines, ConsumerStep(g) PROVE Ordered'
    BY <1>1, <2>4, StartKeeps, StatementStep, NotifyKeeps DEF ConsumerStep
  <2>5. CASE Reload
    <3>1. /\ harmed' = harmed \cup OnTheirWay /\ raced' = raced /\ cur' = cur
          /\ UNCHANGED <<queue, batch, running>> /\ DOMAIN fires' = {x \in Hashes : cur[x] > 0}
      BY <2>5 DEF Reload, consumerVars, tableVars
    <3>2. \A x \in Orderly' : ~InQueue(x)' /\ ~InBatch(x)' /\ \A g \in Goroutines : ~Runs(g, x)'
      <4>1. \A x \in Orderly' : x \notin OnTheirWay  BY <3>1 DEF Orderly, Calm
      <4> QED  BY <3>1, <4>1, OnTheirWayIs DEF InQueue, InBatch, Runs
    <3> QED  BY <1>1, <3>1, <3>2, RereadKeeps
  <2>6. CASE Crash
    <3>1. /\ harmed' = harmed /\ raced' = raced /\ cur' = cur
          /\ DOMAIN queue' = {} /\ DOMAIN batch' = {} /\ \A g \in Goroutines : running'[g] = Idle
          /\ DOMAIN fires' = {x \in Hashes : cur[x] > 0}
      BY <2>6 DEF Crash, tableVars, historyVars
    <3>2. \A x : ~InQueue(x)' /\ ~InBatch(x)' /\ \A g \in Goroutines : ~Runs(g, x)'
      BY <3>1 DEF InQueue, InBatch, Runs
    <3> QED  BY <1>1, <3>1, <3>2, RereadKeeps
  <2>7. ASSUME NEW h \in Hashes, UserDelete(h) PROVE Ordered'  BY <1>1, <2>7, DeleteKeeps
  <2>8. CASE UNCHANGED vars  BY <1>1, <2>8, StutterKeeps
  <2> QED  BY <2>1, <2>2, <2>3, <2>4, <2>5, <2>6, <2>7, <2>8 DEF Next
<1> QED  BY <1>2, <1>3 DEF IInv, Ordered

-------------------------------------------------------------------------------
(***************************************************************************)
(* The theorems.                                                           *)
(***************************************************************************)

\* The inductive invariant holds.
THEOREM Invariant == Spec => []IInv
BY InvInit, InvStep, PTL DEF Spec

\* The state keeps its type.
THEOREM TypeCorrect == Spec => []TypeOK
<1>1. IInv => TypeOK  BY DEF IInv
<1> QED  BY <1>1, Invariant, PTL

\* EventPersist never leaves an orderly alert with two rows of alert_cur_event.
THEOREM RowsAreUnique == Spec => []OneRowPerHash
<1>1. IInv => OneRowPerHash  BY DEF IInv
<1> QED  BY <1>1, Invariant, PTL

\* When nothing is on its way the rows are those of the fired events.
LEMMA DrainedRows ==
  ASSUME IInv, Drained, NEW h \in Orderly
  PROVE  h \in Hashes /\ (cur[h] > 0 <=> h \in DOMAIN fires)
<1>1. h \notin OnTheirWay  BY DEF Drained, OnTheirWay
<1>2. ~InQueue(h) /\ ~InBatch(h) /\ \A g \in Goroutines : ~Runs(g, h)  BY <1>1, OnTheirWayIs
<1> QED  BY <1>2, CalmOrOne DEF IInv, RestAgrees

\* An orderly alert that the processor has recovered does not stay in
\* alert_cur_event.
THEOREM NoRowIsStale == Spec => []NoStaleRow
<1>1. IInv => NoStaleRow  BY DrainedRows DEF NoStaleRow
<1> QED  BY <1>1, Invariant, PTL

\* Every orderly alert that has fired has its row, for a restart to find.
THEOREM NoRowIsMissing == Spec => []NoMissingRow
<1>1. IInv => NoMissingRow  BY DrainedRows DEF NoMissingRow
<1> QED  BY <1>1, Invariant, PTL

-------------------------------------------------------------------------------
(***************************************************************************)
(* The events on their way as a set, for a consumer with more to it        *)
(* (Notification).                                                         *)
(***************************************************************************)

\* A push adds its event, unless the queue is full.
LEMMA PushFlight ==
  ASSUME TypeOK, NEW e \in Event, Enqueue(e), UNCHANGED <<batch, running>>
  PROVE  InFlight' = IF Accepted THEN InFlight \cup {e} ELSE InFlight
<1>1. CASE Accepted
  <2>1. /\ Len(queue) \in Nat /\ DOMAIN queue' = 1..Len(queue) + 1
        /\ \A i \in 1..Len(queue) : queue'[i] = queue[i]
        /\ queue'[Len(queue) + 1] = e
    BY <1>1, PushEffect
  <2>2. DOMAIN queue = 1..Len(queue)  BY DEF TypeOK
  <2>3. ToSet(queue') = ToSet(queue) \cup {e}
    <3>1. \A i \in DOMAIN queue : i \in DOMAIN queue'  BY <2>1, <2>2
    <3>2. \A i \in DOMAIN queue' : i \in DOMAIN queue \/ i = Len(queue) + 1  BY <2>1, <2>2
    <3>3. Len(queue) + 1 \in DOMAIN queue'  BY <2>1
    <3> QED  BY <2>1, <2>2, <3>1, <3>2, <3>3 DEF ToSet
  <2> QED  BY <1>1, <2>3 DEF InFlight, Busy
<1>2. CASE ~Accepted
  <2>1. queue' = queue  BY <1>2, PushEffect
  <2> QED  BY <1>2, <2>1 DEF InFlight, Busy
<1> QED  BY <1>1, <1>2

\* Taking a batch and starting a goroutine change what is on its way by nothing.
LEMMA PopFlight ==
  ASSUME TypeOK, Pop
  PROVE  InFlight' = InFlight
<1>1. PICK n \in 1..Len(queue) :
        /\ Len(queue) \in Nat /\ DOMAIN batch' = 1..n
        /\ \A i \in 1..n : batch'[i] = queue[i]
        /\ DOMAIN queue' = 1..Len(queue) - n
        /\ \A i \in 1..Len(queue) - n : queue'[i] = queue[i + n]
  BY PopEffect
<1>2. DOMAIN queue = 1..Len(queue)  BY DEF TypeOK
<1>3. ToSet(queue) \subseteq ToSet(queue') \cup ToSet(batch')
  <2> SUFFICES ASSUME NEW i \in DOMAIN queue PROVE queue[i] \in ToSet(queue') \cup ToSet(batch')
    BY DEF ToSet
  <2>1. CASE i \in 1..n  BY <1>1, <2>1 DEF ToSet
  <2>2. CASE i \notin 1..n
    <3>1. i - n \in 1..Len(queue) - n /\ (i - n) + n = i  BY <1>1, <1>2, <2>2
    <3>2. queue'[i - n] = queue[i]  BY <1>1, <3>1
    <3> QED  BY <1>1, <3>1, <3>2 DEF ToSet
  <2> QED  BY <2>1, <2>2
<1>4. ToSet(queue') \subseteq ToSet(queue)
  <2> SUFFICES ASSUME NEW i \in DOMAIN queue' PROVE queue'[i] \in ToSet(queue)
    BY DEF ToSet
  <2>1. i + n \in DOMAIN queue /\ queue'[i] = queue[i + n]  BY <1>1, <1>2
  <2> QED  BY <2>1 DEF ToSet
<1>5. ToSet(batch') \subseteq ToSet(queue)
  <2> SUFFICES ASSUME NEW i \in DOMAIN batch' PROVE batch'[i] \in ToSet(queue)
    BY DEF ToSet
  <2>1. i \in DOMAIN queue /\ batch'[i] = queue[i]  BY <1>1, <1>2
  <2> QED  BY <2>1 DEF ToSet
<1>6. ToSet(batch) = {} /\ UNCHANGED running  BY DEF Pop, ToSet
<1> QED  BY <1>3, <1>4, <1>5, <1>6 DEF InFlight, Busy

\* An event taken from the batch stays on its way.
LEMMA StartFlight ==
  ASSUME TypeOK, NEW g \in Goroutines, Start(g)
  PROVE  /\ InFlight' = InFlight
         /\ running[g] = Idle /\ running'[g].step = "exists"
         /\ \A f \in Goroutines \ {g} : running'[f] = running[f]
<1>1. /\ Len(batch) \in Nat /\ Len(batch) > 0 /\ DOMAIN batch = 1..Len(batch)
      /\ DOMAIN batch' = 1..Len(batch) - 1
      /\ \A i \in 1..Len(batch) - 1 : batch'[i] = batch[i + 1]
      /\ running' = [running EXCEPT ![g] = [step |-> "exists", event |-> batch[1], has |-> FALSE]]
  BY StartEffect
<1>2. ToSet(batch) = ToSet(batch') \cup {batch[1]}
  <2>1. \A i \in DOMAIN batch : i # 1 => i - 1 \in DOMAIN batch' /\ batch'[i - 1] = batch[i]
    BY <1>1
  <2>2. \A i \in DOMAIN batch' : i + 1 \in DOMAIN batch /\ batch'[i] = batch[i + 1]
    BY <1>1
  <2>3. 1 \in DOMAIN batch  BY <1>1
  <2> QED  BY <2>1, <2>2, <2>3 DEF ToSet
<1>3. /\ running[g] = Idle
      /\ running'[g] = [step |-> "exists", event |-> batch[1], has |-> FALSE]
      /\ \A f \in Goroutines \ {g} : running'[f] = running[f]
  BY <1>1 DEF Start, TypeOK
<1>4. running'[g] # Idle  BY <1>3 DEF Idle
<1>5. { running'[f].event : f \in Busy' } = { running[f].event : f \in Busy } \cup {batch[1]}
  BY <1>3, <1>4 DEF Busy
<1>6. UNCHANGED queue  BY DEF Start, processorVars
<1>7. /\ InFlight = ToSet(queue) \cup ToSet(batch) \cup { running[f].event : f \in Busy }
      /\ InFlight' = ToSet(queue') \cup ToSet(batch') \cup { running'[f].event : f \in Busy' }
  BY DEF InFlight
<1>8. InFlight' = InFlight  BY <1>2, <1>5, <1>6, <1>7
<1> QED  BY <1>3, <1>8

\* A statement leaves its event with its goroutine.
LEMMA StatementFlight ==
  ASSUME TypeOK, NEW g \in Goroutines,
         CheckExists(g) \/ AddHis(g) \/ DeleteCur(g) \/ Decide(g) \/ AddCur(g) \/ StatementFails(g)
  PROVE  /\ InFlight' = InFlight
         /\ running[g] # Idle /\ running'[g] # Idle /\ running[g].step # "notify"
         /\ running'[g].event = running[g].event
         /\ \A f \in Goroutines \ {g} : running'[f] = running[f]
<1>1. /\ running[g].step \in Steps /\ running[g].step # "notify" /\ UNCHANGED <<queue, batch>>
  BY DEF CheckExists, AddHis, DeleteCur, Decide, AddCur, StatementFails, At, Steps, processorVars
<1>2. running[g] # Idle  BY <1>1 DEF Idle, Steps
<1>3. running[g] \in [step : Steps, event : Event, has : BOOLEAN]  BY <1>2, EventsTyped
<1>4. /\ running'[g] # Idle /\ running'[g].event = running[g].event
      /\ \A f \in Goroutines \ {g} : running'[f] = running[f]
  <2>1. CASE CheckExists(g)
    <3>1. running'[g].step = "addHis" /\ running'[g].event = running[g].event
          /\ \A f \in Goroutines \ {g} : running'[f] = running[f]
      BY <1>3, <2>1 DEF CheckExists, TypeOK
    <3> QED  BY <3>1 DEF Idle
  <2>2. ASSUME NEW t \in Steps, Goto(g, t)
        PROVE  /\ running'[g] # Idle /\ running'[g].event = running[g].event
               /\ \A f \in Goroutines \ {g} : running'[f] = running[f]
    BY <1>1, <2>2, GotoType
  <2>3. CASE AddHis(g)
    <3>1. Goto(g, IF running[g].has THEN "delete" ELSE "decide")  BY <2>3 DEF AddHis
    <3>2. (IF running[g].has THEN "delete" ELSE "decide") \in Steps  BY DEF Steps
    <3> QED  BY <2>2, <3>1, <3>2
  <2>4. CASE DeleteCur(g)
    <3>1. Goto(g, "decide") /\ "decide" \in Steps  BY <2>4 DEF DeleteCur, Steps
    <3> QED  BY <2>2, <3>1
  <2>5. CASE Decide(g)
    <3>1. Goto(g, IF IsRecovered(g) THEN "notify" ELSE "addCur")  BY <2>5 DEF Decide
    <3>2. (IF IsRecovered(g) THEN "notify" ELSE "addCur") \in Steps  BY DEF Steps
    <3> QED  BY <2>2, <3>1, <3>2
  <2>6. CASE AddCur(g) \/ StatementFails(g)
    <3>1. Goto(g, "notify") /\ "notify" \in Steps  BY <2>6 DEF AddCur, StatementFails, Steps
    <3> QED  BY <2>2, <3>1
  <2> QED  BY <2>1, <2>3, <2>4, <2>5, <2>6
<1>5. Busy' = Busy /\ \A f \in Busy : running'[f].event = running[f].event
  BY <1>2, <1>4 DEF Busy
<1>6. InFlight' = InFlight  BY <1>1, <1>5 DEF InFlight
<1> QED  BY <1>1, <1>2, <1>4, <1>6

\* The event of a goroutine that ends was the only one of a calm alert.
LEMMA NotifyFlight ==
  ASSUME IInv, NEW g \in Goroutines, Notify(g)
  PROVE  /\ InFlight' \subseteq InFlight
         /\ \A e \in InFlight : e # running[g].event => e \in InFlight'
         /\ running[g] # Idle /\ running'[g] = Idle
         /\ \A f \in Goroutines \ {g} : running'[f] = running[f]
         /\ running[g].event.hash \in Calm => running[g].event.hash \notin OnTheirWay'
<1>1. /\ running[g] # Idle /\ running'[g] = Idle /\ UNCHANGED <<queue, batch>>
      /\ \A f \in Goroutines \ {g} : running'[f] = running[f]
  BY DEF Notify, At, Idle, IInv, TypeOK, processorVars
<1>2. Busy' = Busy \ {g} /\ \A f \in Busy' : running'[f].event = running[f].event
  BY <1>1 DEF Busy
<1>3. InFlight' \subseteq InFlight /\ \A e \in InFlight : e # running[g].event => e \in InFlight'
  BY <1>1, <1>2 DEF InFlight
<1>4. ASSUME NEW h \in Calm, running[g].event.hash = h
      PROVE  h \notin OnTheirWay'
  <2>1. Runs(g, h)  BY <1>1, <1>4 DEF Runs
  <2>2. h \in Orderly  BY <2>1 DEF Calm, Orderly
  <2>3. ~InQueue(h) /\ ~InBatch(h)  BY <2>1 DEF IInv, Apart
  <2>4. \A f \in Goroutines : Runs(f, h) => f = g  BY <2>1, <2>2 DEF IInv, Exclusive
  <2>5. ~InQueue(h)' /\ ~InBatch(h)'  BY <1>1, <2>3 DEF InQueue, InBatch
  <2>6. \A f \in Goroutines : ~Runs(f, h)'  BY <1>1, <2>4 DEF Runs
  <2> QED  BY <2>5, <2>6 DEF OnTheirWay, InFlight, Busy, ToSet, InQueue, InBatch, Runs
<1> QED  BY <1>1, <1>3, <1>4

\* A calm alert has one event on its way, and nothing on its way when it has none
\* there; then the table says what the processor says.
LEMMA OneOnItsWay ==
  ASSUME IInv, NEW d \in InFlight, NEW e \in InFlight, d.hash = e.hash, e.hash \in Calm
  PROVE  d = e
<1> DEFINE h == e.hash
<1>1. h \in Calm /\ h \in Orderly /\ e.hash = h /\ d.hash = h  BY DEF Calm, Orderly
<1> HIDE DEF h
<1>2. /\ OneInQueue(h) /\ OneInBatch(h) /\ ~(InQueue(h) /\ InBatch(h))
      /\ \A g \in Goroutines : Runs(g, h) => ~InQueue(h) /\ ~InBatch(h)
  BY <1>1 DEF IInv, Apart
<1>3. \A f, g \in Goroutines : Runs(f, h) /\ Runs(g, h) => f = g  BY <1>1 DEF IInv, Exclusive
<1>4. ASSUME NEW x \in InFlight, x.hash = h
      PROVE  \/ \E i \in DOMAIN queue : queue[i] = x /\ InQueue(h)
             \/ \E i \in DOMAIN batch : batch[i] = x /\ InBatch(h)
             \/ \E g \in Goroutines : running[g].event = x /\ Runs(g, h)
  BY <1>4 DEF InFlight, ToSet, Busy, InQueue, InBatch, Runs
<1>5. CASE InQueue(h)
  <2>1. PICK i \in DOMAIN queue : queue[i] = d  BY <1>1, <1>2, <1>4, <1>5
  <2>2. PICK j \in DOMAIN queue : queue[j] = e  BY <1>1, <1>2, <1>4, <1>5
  <2> QED  BY <1>1, <1>2, <2>1, <2>2 DEF OneInQueue
<1>6. CASE InBatch(h)
  <2>1. PICK i \in DOMAIN batch : batch[i] = d  BY <1>1, <1>2, <1>4, <1>6
  <2>2. PICK j \in DOMAIN batch : batch[j] = e  BY <1>1, <1>2, <1>4, <1>6
  <2> QED  BY <1>1, <1>2, <2>1, <2>2 DEF OneInBatch
<1>7. CASE ~InQueue(h) /\ ~InBatch(h)
  <2>1. PICK f \in Goroutines : running[f].event = d /\ Runs(f, h)  BY <1>1, <1>4, <1>7
  <2>2. PICK g \in Goroutines : running[g].event = e /\ Runs(g, h)  BY <1>1, <1>4, <1>7
  <2> QED  BY <1>3, <2>1, <2>2
<1> QED  BY <1>5, <1>6, <1>7

===============================================================================
