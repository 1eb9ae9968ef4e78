--------------------------- MODULE AlertHistoryProofs ---------------------------
(***************************************************************************)
(* The history of calm alerts is complete (AlertPipeline), for any number  *)
(* of alerts and goroutines, any queue and any bounds.                     *)
(*                                                                         *)
(* A calm alert has one event on its way (AlertPipelineProofs).  When that *)
(* is a fire event which EventPersist has not recorded yet, the history is *)
(* one short of what the processor pushed, else it is complete; and a      *)
(* recovery on its way has its row until EventPersist deletes it.          *)
(***************************************************************************)
EXTENDS AlertPipelineProofs

\* A fire event of the alert is still to be recorded.
Awaits(h) ==
  \/ \E i \in DOMAIN queue : queue[i].hash = h /\ queue[i] \notin recovered
  \/ \E i \in DOMAIN batch : batch[i].hash = h /\ batch[i] \notin recovered
  \/ \E g \in Goroutines :
       Runs(g, h) /\ running[g].step \in {"exists", "addHis"} /\ running[g].event \notin recovered

Recording == \A h \in Calm : pushed[h] = his[h].fired + IF Awaits(h) THEN 1 ELSE 0

\* A recovery that has not looked for its row yet finds it; one that has, has found it.
ToFind(h) ==
  \/ \E i \in DOMAIN queue : queue[i].hash = h /\ queue[i] \in recovered
  \/ \E i \in DOMAIN batch : batch[i].hash = h /\ batch[i] \in recovered
  \/ \E g \in Goroutines : Runs(g, h) /\ At(g, "exists") /\ running[g].event \in recovered
Finding ==
  \A h \in Calm :
    /\ ToFind(h) => cur[h] > 0
    /\ \A g \in Goroutines :
         Runs(g, h) /\ running[g].event \in recovered /\ running[g].step \in {"addHis", "delete", "decide"}
           => running[g].has

HInv == Recording /\ Finding

\* A calm alert is orderly; an event of it that a goroutine stores is its only one.
LEMMA CalmAlone ==
  ASSUME Ordered, NEW h \in Calm
  PROVE  /\ h \in Hashes /\ h \in Orderly
         /\ \A g \in Goroutines : Runs(g, h) =>
              ~InQueue(h) /\ ~InBatch(h) /\ \A f \in Goroutines : Runs(f, h) => f = g
<1>1. h \in Hashes /\ h \in Orderly  BY DEF Calm, Orderly
<1> QED  BY <1>1 DEF Ordered, Apart, Exclusive

\* Nothing is to be recorded or found of an alert that has nothing on its way.
LEMMA NothingAwaited ==
  ASSUME NEW h, h \notin OnTheirWay
  PROVE  ~Awaits(h) /\ ~ToFind(h) /\ \A g \in Goroutines : ~Runs(g, h)
BY OnTheirWayIs DEF Awaits, ToFind, InQueue, InBatch

\* The initial state has no events.
LEMMA HistoryInit == Init => HInv
<1> SUFFICES ASSUME Init PROVE HInv  OBVIOUS
<1>1. DOMAIN queue = {} /\ DOMAIN batch = {} /\ \A g \in Goroutines : running[g] = Idle  BY DEF Init
<1>2. \A h : ~Awaits(h) /\ ~ToFind(h) /\ \A g \in Goroutines : ~Runs(g, h)  BY <1>1 DEF Awaits, ToFind, Runs
<1>3. \A h \in Hashes : pushed[h] = 0 /\ his[h].fired = 0  BY DEF Init
<1>4. Recording  BY <1>2, <1>3 DEF Recording, Calm
<1>5. Finding  BY <1>2 DEF Finding
<1> QED  BY <1>4, <1>5 DEF HInv

\* A step keeps the history of an alert when it leaves what it is made of alone.
LEMMA SameHistory ==
  ASSUME HInv, NEW h \in Calm, pushed'[h] = pushed[h], his'[h].fired = his[h].fired,
         Awaits(h)' <=> Awaits(h), ToFind(h)' => ToFind(h), cur'[h] = cur[h],
         \A g \in Goroutines : Runs(g, h)' /\ running'[g].event \in recovered'
                                 /\ running'[g].step \in {"addHis", "delete", "decide"} =>
           Runs(g, h) /\ running'[g] = running[g] /\ running[g].event \in recovered
  PROVE  /\ pushed'[h] = his'[h].fired + IF Awaits(h)' THEN 1 ELSE 0
         /\ ToFind(h)' => cur'[h] > 0
         /\ \A g \in Goroutines :
              Runs(g, h)' /\ running'[g].event \in recovered'
                /\ running'[g].step \in {"addHis", "delete", "decide"} => running'[g].has
BY DEF HInv, Recording, Finding

\* The invariant, alert by alert.
LEMMA ByAlert ==
  ASSUME \A h \in Calm' :
           /\ pushed'[h] = his'[h].fired + IF Awaits(h)' THEN 1 ELSE 0
           /\ ToFind(h)' => cur'[h] > 0
           /\ \A g \in Goroutines :
                Runs(g, h)' /\ running'[g].event \in recovered'
                  /\ running'[g].step \in {"addHis", "delete", "decide"} => running'[g].has
  PROVE  HInv'
BY DEF HInv, Recording, Finding

-------------------------------------------------------------------------------
(***************************************************************************)
(* What a kind of step keeps.                                              *)
(***************************************************************************)

\* A push by the processor counts a fire event, and a recovery has its row.
LEMMA PushHistory ==
  ASSUME TypeOK, HInv, NEW h \in Hashes, NEW e \in Event, e.hash = h,
         Enqueue(e), Record(h), UNCHANGED <<batch, running, cur, his>>,
         \A x \in Event : x.hash # h => (x \in recovered' <=> x \in recovered),
         \A x \in Hashes \ {h} : pushed'[x] = pushed[x],
         h \in Calm /\ h \notin OnTheirWay /\ Accepted =>
           /\ pushed'[h] = his[h].fired + IF e \in recovered' THEN 0 ELSE 1
           /\ e \in recovered' => cur[h] > 0
  PROVE  HInv'
<1>1. Calm' \subseteq Calm /\ \A x \in Calm' : x \in Hashes  BY Shrinks DEF Record, Calm
<1>2. /\ \A i \in DOMAIN queue : queue[i] \in Event
      /\ \A i \in DOMAIN batch : batch[i] \in Event
      /\ \A g \in Goroutines : \A x : Runs(g, x) => running[g].event \in Event
  BY EventsTyped DEF Runs
<1>3. \A g \in Goroutines : \A x : Runs(g, x)' <=> Runs(g, x)  BY DEF Runs
<1>4. \A i \in DOMAIN queue : i \in DOMAIN queue' /\ queue'[i] = queue[i]
  <2>1. DOMAIN queue = 1..Len(queue)  BY DEF TypeOK
  <2>2. CASE Accepted
    <3>1. /\ Len(queue) \in Nat /\ DOMAIN queue' = 1..Len(queue) + 1
          /\ \A i \in 1..Len(queue) : queue'[i] = queue[i]
      BY <2>2, PushEffect
    <3> QED  BY <2>1, <3>1
  <2>3. CASE ~Accepted  BY <2>3, PushEffect
  <2> QED  BY <2>2, <2>3
<1>5. \A i \in DOMAIN queue' : (i \in DOMAIN queue /\ queue'[i] = queue[i]) \/ (Accepted /\ queue'[i] = e)
  <2>1. DOMAIN queue = 1..Len(queue)  BY DEF TypeOK
  <2>2. CASE Accepted
    <3>1. /\ Len(queue) \in Nat /\ DOMAIN queue' = 1..Len(queue) + 1
          /\ \A i \in 1..Len(queue) : queue'[i] = queue[i]
          /\ queue'[Len(queue) + 1] = e
      BY <2>2, PushEffect
    <3> QED  BY <2>1, <2>2, <3>1
  <2>3. CASE ~Accepted  BY <2>3, PushEffect
  <2> QED  BY <2>2, <2>3
<1>6. Accepted => \E i \in DOMAIN queue' : queue'[i] = e
  <2> SUFFICES ASSUME Accepted PROVE \E i \in DOMAIN queue' : queue'[i] = e  OBVIOUS
  <2>1. Len(queue) \in Nat /\ DOMAIN queue' = 1..Len(queue) + 1 /\ queue'[Len(queue) + 1] = e
    BY PushEffect
  <2>2. Len(queue) + 1 \in DOMAIN queue'  BY <2>1
  <2> QED  BY <2>1, <2>2
<1>7. ASSUME NEW x \in Calm', x # h
      PROVE  (Awaits(x)' <=> Awaits(x)) /\ (ToFind(x)' <=> ToFind(x))
  <2>1. /\ \A i \in DOMAIN queue : queue[i].hash = x => (queue[i] \in recovered' <=> queue[i] \in recovered)
        /\ \A i \in DOMAIN batch : batch[i].hash = x => (batch[i] \in recovered' <=> batch[i] \in recovered)
        /\ \A g \in Goroutines : Runs(g, x) =>
             (running[g].event \in recovered' <=> running[g].event \in recovered)
    BY <1>2, <1>7 DEF Runs
  <2>2. Awaits(x) => Awaits(x)'  BY <1>3, <1>4, <2>1 DEF Awaits
  <2>3. Awaits(x)' => Awaits(x)
    <3> SUFFICES ASSUME Awaits(x)' PROVE Awaits(x)  OBVIOUS
    <3>1. CASE \E i \in DOMAIN queue' : queue'[i].hash = x /\ queue'[i] \notin recovered'
      BY <1>5, <1>7, <2>1, <3>1 DEF Awaits
    <3>2. CASE \E i \in DOMAIN batch : batch[i].hash = x /\ batch[i] \notin recovered'
      BY <2>1, <3>2 DEF Awaits
    <3>3. CASE \E g \in Goroutines :
                 Runs(g, x) /\ running[g].step \in {"exists", "addHis"} /\ running[g].event \notin recovered'
      BY <2>1, <3>3 DEF Awaits
    <3> QED  BY <1>3, <3>1, <3>2, <3>3 DEF Awaits
  <2>4. ToFind(x) => ToFind(x)'  BY <1>3, <1>4, <2>1 DEF ToFind, At
  <2>5. ToFind(x)' => ToFind(x)
    <3> SUFFICES ASSUME ToFind(x)' PROVE ToFind(x)  OBVIOUS
    <3>1. CASE \E i \in DOMAIN queue' : queue'[i].hash = x /\ queue'[i] \in recovered'
      BY <1>5, <1>7, <2>1, <3>1 DEF ToFind
    <3>2. CASE \E i \in DOMAIN batch : batch[i].hash = x /\ batch[i] \in recovered'
      BY <2>1, <3>2 DEF ToFind
    <3>3. CASE \E g \in Goroutines : Runs(g, x) /\ At(g, "exists") /\ running[g].event \in recovered'
      BY <2>1, <3>3 DEF ToFind
    <3> QED  BY <1>3, <3>1, <3>2, <3>3 DEF ToFind, At
  <2> QED  BY <2>2, <2>3, <2>4, <2>5
<1>8. ASSUME NEW x \in Calm'
      PROVE  /\ pushed'[x] = his'[x].fired + IF Awaits(x)' THEN 1 ELSE 0
             /\ ToFind(x)' => cur'[x] > 0
             /\ \A g \in Goroutines :
                  Runs(g, x)' /\ running'[g].event \in recovered'
                    /\ running'[g].step \in {"addHis", "delete", "decide"} => running'[g].has
  <2>1. CASE x # h
    <3>1. x \in Calm /\ x \in Hashes \ {h}  BY <1>1, <2>1
    <3>2. \A g \in Goroutines : Runs(g, x) =>
            (running[g].event \in recovered' <=> running[g].event \in recovered)
      BY <1>2, <2>1 DEF Runs
    <3> QED  BY <1>3, <1>7, <2>1, <3>1, <3>2, SameHistory
  <2>2. CASE x = h
    <3>1. h \in Calm /\ h \notin OnTheirWay /\ Accepted
      BY <1>1, <1>8, <2>2 DEF Record, Calm
    <3>2. ~Awaits(h) /\ ~ToFind(h) /\ \A g \in Goroutines : ~Runs(g, h)  BY <3>1, NothingAwaited
    <3>3. ~InQueue(h) /\ ~InBatch(h)  BY <3>1, OnTheirWayIs
    <3>4. Awaits(h)' <=> e \notin recovered'
      BY <1>3, <1>5, <1>6, <3>1, <3>2, <3>3 DEF Awaits, InQueue, InBatch
    <3>5. ToFind(h)' => e \in recovered'
      BY <1>3, <1>5, <3>2, <3>3 DEF ToFind, InQueue, InBatch
    <3> QED  BY <1>3, <2>2, <3>1, <3>2, <3>4, <3>5
  <2> QED  BY <2>1, <2>2
<1> QED  BY <1>8, ByAlert

\* A batch is taken, or a goroutine started: the events only move.
LEMMA MoveHistory ==
  ASSUME TypeOK, HInv, UNCHANGED <<recovered, pushed, cur, his, raced, harmed>>,
         \A h : Awaits(h)' <=> Awaits(h), \A h : ToFind(h)' => ToFind(h),
         \A g \in Goroutines : running'[g] = running[g] \/ running'[g].step = "exists"
  PROVE  HInv'
<1>1. Calm' = Calm  BY DEF Calm
<1>2. ASSUME NEW h \in Calm
      PROVE  /\ pushed'[h] = his'[h].fired + IF Awaits(h)' THEN 1 ELSE 0
             /\ ToFind(h)' => cur'[h] > 0
             /\ \A g \in Goroutines :
                  Runs(g, h)' /\ running'[g].event \in recovered'
                    /\ running'[g].step \in {"addHis", "delete", "decide"} => running'[g].has
  <2>1. \A g \in Goroutines : Runs(g, h)' /\ running'[g].event \in recovered'
                                /\ running'[g].step \in {"addHis", "delete", "decide"} =>
          Runs(g, h) /\ running'[g] = running[g] /\ running[g].event \in recovered
    BY DEF Runs
  <2> QED  BY <2>1, SameHistory
<1> QED  BY <1>1, <1>2, ByAlert

\* LoopConsume takes a batch.
LEMMA PopHistory == ASSUME TypeOK, HInv, Pop PROVE HInv'
<1>1. PICK n \in 1..Len(queue) :
        /\ Len(queue) \in Nat /\ DOMAIN batch' = 1..n /\ DOMAIN queue' = 1..Len(queue) - n
        /\ \A i \in 1..n : batch'[i] = queue[i]
        /\ \A i \in 1..Len(queue) - n : queue'[i] = queue[i + n]
  BY PopEffect
<1> DEFINE m == Len(queue)
<1>2. DOMAIN queue = 1..m  BY DEF TypeOK
<1>3. DOMAIN batch = {}  BY DEF Pop
<1>4. m \in Nat /\ n \in 1..m  BY <1>1
<1>5. DOMAIN batch' = 1..n /\ \A i \in 1..n : batch'[i] = queue[i]  BY <1>1
<1>6. DOMAIN queue' = 1..m - n /\ \A i \in 1..m - n : queue'[i] = queue[i + n]  BY <1>1
<1> HIDE DEF m
<1>7. /\ \A i \in 1..n : i \in 1..m
      /\ \A i \in 1..m - n : i + n \in 1..m
      /\ \A i \in 1..m : i \in 1..n \/ (i - n \in 1..m - n /\ (i - n) + n = i)
  BY <1>4
<1>8. UNCHANGED <<recovered, pushed, cur, his, raced, harmed, running>>
  BY DEF Pop, tableVars, historyVars
<1>9. /\ \A i \in DOMAIN queue' : \E j \in DOMAIN queue : queue'[i] = queue[j]
      /\ \A i \in DOMAIN batch' : \E j \in DOMAIN queue : batch'[i] = queue[j]
  BY <1>2, <1>5, <1>6, <1>7
<1>10. \A j \in DOMAIN queue : \/ \E i \in DOMAIN queue' : queue'[i] = queue[j]
                               \/ \E i \in DOMAIN batch' : batch'[i] = queue[j]
  <2> SUFFICES ASSUME NEW j \in 1..m
               PROVE  \/ \E i \in DOMAIN queue' : queue'[i] = queue[j]
                      \/ \E i \in DOMAIN batch' : batch'[i] = queue[j]
    BY <1>2
  <2>1. CASE j \in 1..n  BY <1>5, <2>1
  <2>2. CASE j - n \in 1..m - n /\ (j - n) + n = j
    <3>1. queue'[j - n] = queue[j]  BY <1>6, <2>2
    <3> QED  BY <1>6, <2>2, <3>1
  <2> QED  BY <1>7, <2>1, <2>2
<1>11. \A g \in Goroutines : \A h : Runs(g, h)' <=> Runs(g, h)  BY <1>8 DEF Runs
<1>12. ASSUME NEW h PROVE (Awaits(h)' <=> Awaits(h)) /\ (ToFind(h)' => ToFind(h))
  <2>1. Awaits(h)' => Awaits(h)  BY <1>8, <1>9, <1>11 DEF Awaits
  <2>2. Awaits(h) => Awaits(h)'
    <3>1. CASE \E i \in DOMAIN queue : queue[i].hash = h /\ queue[i] \notin recovered
      BY <1>8, <1>10, <3>1 DEF Awaits
    <3>2. CASE \E g \in Goroutines :
                 Runs(g, h) /\ running[g].step \in {"exists", "addHis"} /\ running[g].event \notin recovered
      BY <1>8, <1>11, <3>2 DEF Awaits
    <3> QED  BY <1>3, <3>1, <3>2 DEF Awaits
  <2>3. ToFind(h)' => ToFind(h)  BY <1>8, <1>9, <1>11 DEF ToFind, At
  <2> QED  BY <2>1, <2>2, <2>3
<1> QED  BY <1>8, <1>12, MoveHistory

\* consume starts a goroutine for an event.
LEMMA StartHistory == ASSUME TypeOK, HInv, NEW g \in Goroutines, Start(g) PROVE HInv'
<1> DEFINE m == Len(batch)
           e == batch[1]
<1>1. /\ m \in Nat /\ m > 0 /\ DOMAIN batch = 1..m /\ DOMAIN batch' = 1..m - 1
      /\ \A i \in 1..m - 1 : batch'[i] = batch[i + 1]
      /\ running' = [running EXCEPT ![g] = [step |-> "exists", event |-> e, has |-> FALSE]]
  BY StartEffect
<1>2. running[g] = Idle  BY DEF Start
<1>3. running'[g] = [step |-> "exists", event |-> e, has |-> FALSE]
      /\ \A f \in Goroutines \ {g} : running'[f] = running[f]
  BY <1>1 DEF TypeOK
<1> HIDE DEF m
<1>4. /\ 1 \in 1..m
      /\ \A i \in 1..m - 1 : i + 1 \in 1..m
      /\ \A i \in 1..m : i = 1 \/ (i - 1 \in 1..m - 1 /\ (i - 1) + 1 = i)
  BY <1>1
<1>5. UNCHANGED <<recovered, queue, pushed, cur, his, raced, harmed>>
  BY DEF Start, processorVars, tableVars, historyVars
<1>6. \A i \in DOMAIN batch' : \E j \in DOMAIN batch : batch'[i] = batch[j]  BY <1>1, <1>4
<1>7. \A j \in DOMAIN batch : batch[j] = e \/ \E i \in DOMAIN batch' : batch'[i] = batch[j]
  <2> SUFFICES ASSUME NEW j \in 1..m
               PROVE  batch[j] = e \/ \E i \in DOMAIN batch' : batch'[i] = batch[j]
    BY <1>1
  <2>1. CASE j - 1 \in 1..m - 1 /\ (j - 1) + 1 = j
    <3>1. batch'[j - 1] = batch[j]  BY <1>1, <2>1
    <3> QED  BY <1>1, <2>1, <3>1
  <2> QED  BY <1>4, <2>1
<1>8. \E j \in DOMAIN batch : batch[j] = e  BY <1>1, <1>4
<1> HIDE DEF e
<1>9. running'[g] # Idle /\ running'[g].step = "exists" /\ running'[g].event = e  BY <1>3 DEF Idle
<1>10. \A h : (Runs(g, h)' <=> h = e.hash) /\ ~Runs(g, h)  BY <1>2, <1>9 DEF Runs
<1>11. \A f \in Goroutines \ {g} : \A h : Runs(f, h)' <=> Runs(f, h)  BY <1>3 DEF Runs
<1>12. ASSUME NEW h PROVE (Awaits(h)' <=> Awaits(h)) /\ (ToFind(h)' => ToFind(h))
  <2>1. Awaits(h)' => Awaits(h)
    <3> SUFFICES ASSUME Awaits(h)' PROVE Awaits(h)  OBVIOUS
    <3>1. CASE \E i \in DOMAIN queue : queue[i].hash = h /\ queue[i] \notin recovered  BY <3>1 DEF Awaits
    <3>2. CASE \E i \in DOMAIN batch' : batch'[i].hash = h /\ batch'[i] \notin recovered
      BY <1>6, <3>2 DEF Awaits
    <3>3. CASE \E f \in Goroutines : Runs(f, h)' /\ running'[f].step \in {"exists", "addHis"}
                                       /\ running'[f].event \notin recovered
      <4>1. PICK f \in Goroutines : Runs(f, h)' /\ running'[f].step \in {"exists", "addHis"}
                                      /\ running'[f].event \notin recovered
        BY <3>3
      <4>2. CASE f = g  BY <1>8, <1>9, <1>10, <4>1, <4>2 DEF Awaits
      <4>3. CASE f # g  BY <1>3, <1>11, <4>1, <4>3 DEF Awaits
      <4> QED  BY <4>2, <4>3
    <3> QED  BY <1>5, <3>1, <3>2, <3>3 DEF Awaits
  <2>2. Awaits(h) => Awaits(h)'
    <3> SUFFICES ASSUME Awaits(h) PROVE Awaits(h)'  OBVIOUS
    <3>1. CASE \E i \in DOMAIN queue : queue[i].hash = h /\ queue[i] \notin recovered
      BY <1>5, <3>1 DEF Awaits
    <3>2. CASE \E i \in DOMAIN batch : batch[i].hash = h /\ batch[i] \notin recovered
      BY <1>5, <1>7, <1>9, <1>10, <3>2 DEF Awaits
    <3>3. CASE \E f \in Goroutines :
                 Runs(f, h) /\ running[f].step \in {"exists", "addHis"} /\ running[f].event \notin recovered
      BY <1>3, <1>5, <1>10, <1>11, <3>3 DEF Awaits
    <3> QED  BY <3>1, <3>2, <3>3 DEF Awaits
  <2>3. ToFind(h)' => ToFind(h)
    <3> SUFFICES ASSUME ToFind(h)' PROVE ToFind(h)  OBVIOUS
    <3>1. CASE \E i \in DOMAIN queue : queue[i].hash = h /\ queue[i] \in recovered  BY <3>1 DEF ToFind
    <3>2. CASE \E i \in DOMAIN batch' : batch'[i].hash = h /\ batch'[i] \in recovered
      BY <1>6, <3>2 DEF ToFind
    <3>3. CASE \E f \in Goroutines : Runs(f, h)' /\ running'[f].step = "exists"
                                       /\ running'[f].event \in recovered
      <4>1. PICK f \in Goroutines : Runs(f, h)' /\ running'[f].step = "exists"
                                      /\ running'[f].event \in recovered
        BY <3>3
      <4>2. CASE f = g  BY <1>8, <1>9, <1>10, <4>1, <4>2 DEF ToFind
      <4>3. CASE f # g  BY <1>3, <1>11, <4>1, <4>3 DEF ToFind, At
      <4> QED  BY <4>2, <4>3
    <3> QED  BY <1>5, <3>1, <3>2, <3>3 DEF ToFind, At
  <2> QED  BY <2>1, <2>2, <2>3
<1>13. \A f \in Goroutines : running'[f] = running[f] \/ running'[f].step = "exists"  BY <1>3, <1>9
<1> QED  BY <1>5, <1>12, <1>13, MoveHistory

\* A goroutine comes to its next statement: only the history of its own alert is written.
LEMMA StatementHistory ==
  ASSUME TypeOK, Ordered, HInv, NEW g \in Goroutines,
         running[g] # Idle, running'[g] # Idle, running'[g].event = running[g].event,
         \A f \in Goroutines \ {g} : running'[f] = running[f],
         UNCHANGED <<recovered, queue, batch, pushed, raced>>, harmed \subseteq harmed',
         running'[g].step # "exists",
         \A x \in Hashes \ {HashOf(g)} : cur'[x] = cur[x] /\ his'[x] = his[x],
         HashOf(g) \in Calm' =>
           /\ pushed[HashOf(g)] = his'[HashOf(g)].fired +
                IF running'[g].step = "addHis" /\ running[g].event \notin recovered THEN 1 ELSE 0
           /\ running[g].event \in recovered /\ running'[g].step \in {"addHis", "delete", "decide"}
                => running'[g].has
  PROVE  HInv'
<1> DEFINE k == running[g].event.hash
<1>1. Calm' \subseteq Calm  BY Shrinks
<1>2. k = HashOf(g) /\ Runs(g, k)  BY DEF HashOf, Runs
<1>3. \A f \in Goroutines : \A x : Runs(f, x)' <=> Runs(f, x)  BY DEF Runs
<1>4. \A x : Runs(g, x) => x = k  BY DEF Runs
<1> HIDE DEF k
<1>5. ASSUME NEW x \in Calm'
      PROVE  /\ pushed'[x] = his'[x].fired + IF Awaits(x)' THEN 1 ELSE 0
             /\ ToFind(x)' => cur'[x] > 0
             /\ \A f \in Goroutines :
                  Runs(f, x)' /\ running'[f].event \in recovered'
                    /\ running'[f].step \in {"addHis", "delete", "decide"} => running'[f].has
  <2>1. x \in Calm /\ x \in Hashes  BY <1>1, <1>5 DEF Calm
  <2>2. CASE x # k
    <3>1. \A f \in Goroutines : Runs(f, x) => f # g /\ running'[f] = running[f]  BY <1>4, <2>2
    <3>2. Awaits(x)' <=> Awaits(x)  BY <1>3, <3>1 DEF Awaits
    <3>3. ToFind(x)' => ToFind(x)  BY <1>3, <3>1 DEF ToFind, At
    <3>4. cur'[x] = cur[x] /\ his'[x] = his[x] /\ pushed' = pushed  BY <1>2, <2>1, <2>2
    <3> QED  BY <1>3, <2>1, <3>1, <3>2, <3>3, <3>4, SameHistory
  <2>3. CASE x = k
    <3>1. Runs(g, x) /\ ~InQueue(x) /\ ~InBatch(x) /\ \A f \in Goroutines : Runs(f, x) => f = g
      BY <1>2, <2>1, <2>3, CalmAlone
    <3>2. Awaits(x)' <=> running'[g].step = "addHis" /\ running[g].event \notin recovered
      BY <1>2, <1>3, <3>1 DEF Awaits, InQueue, InBatch
    <3>3. ~ToFind(x)'  BY <1>3, <3>1 DEF ToFind, InQueue, InBatch, At
    <3> QED  BY <1>2, <1>3, <1>5, <2>3, <3>1, <3>2, <3>3
  <2> QED  BY <2>2, <2>3
<1> QED  BY <1>5, ByAlert

\* What the statements of EventPersist record.
LEMMA StatementsHistory ==
  ASSUME TypeOK, Ordered, HInv, NEW g \in Goroutines,
         CheckExists(g) \/ AddHis(g) \/ DeleteCur(g) \/ Decide(g) \/ AddCur(g) \/ StatementFails(g)
  PROVE  HInv'
<1> DEFINE k == HashOf(g)
           fire == running[g].event \notin recovered
<1>1. running[g].step \in Steps /\ running[g] # Idle
  BY DEF CheckExists, AddHis, DeleteCur, Decide, AddCur, StatementFails, At, Steps, Idle
<1>2. k \in Hashes /\ Runs(g, k)  BY <1>1, EventsTyped DEF Runs, HashOf
<1>3. /\ cur \in [Hashes -> Nat] /\ his \in [Hashes -> [fired : Nat, recovered : Nat]]
      /\ his[k].fired \in Nat
  BY <1>2 DEF TypeOK
<1>4. k \in Calm =>
        /\ Awaits(k) <=> running[g].step \in {"exists", "addHis"} /\ fire
        /\ pushed[k] = his[k].fired + IF running[g].step \in {"exists", "addHis"} /\ fire THEN 1 ELSE 0
  <2> SUFFICES ASSUME k \in Calm
               PROVE  /\ Awaits(k) <=> running[g].step \in {"exists", "addHis"} /\ fire
                      /\ pushed[k] = his[k].fired + IF Awaits(k) THEN 1 ELSE 0
    OBVIOUS
  <2>1. ~InQueue(k) /\ ~InBatch(k) /\ \A f \in Goroutines : Runs(f, k) => f = g  BY <1>2, CalmAlone
  <2>2. Awaits(k) <=> running[g].step \in {"exists", "addHis"} /\ fire
    BY <1>2, <2>1 DEF Awaits, InQueue, InBatch
  <2>3. pushed[k] = his[k].fired + IF Awaits(k) THEN 1 ELSE 0  BY DEF HInv, Recording
  <2> QED  BY <2>2, <2>3
<1>5. k \in Calm /\ ~fire =>
        /\ At(g, "exists") => cur[k] > 0
        /\ running[g].step \in {"addHis", "delete", "decide"} => running[g].has
  BY <1>2 DEF HInv, Finding, ToFind
<1> HIDE DEF k
<1>6. CASE CheckExists(g)
  <2>1. /\ UNCHANGED <<recovered, queue, batch, pushed, raced, harmed, cur, his>>
        /\ running'[g] # Idle /\ running'[g].event = running[g].event
        /\ running'[g].step = "addHis" /\ running'[g].has = (cur[k] > 0)
        /\ \A f \in Goroutines \ {g} : running'[f] = running[f]
        /\ running[g].step = "exists"
    BY <1>6, CheckExistsType DEF CheckExists, processorVars, tableVars, historyVars, At, k
  <2>2. Calm' = Calm  BY <2>1 DEF Calm
  <2>3. cur[k] > 0 => running'[g].has  BY <2>1
  <2>4. k \in Calm => pushed[k] = his'[k].fired + IF running'[g].step = "addHis" /\ fire THEN 1 ELSE 0
    BY <1>4, <2>1
  <2>5. k \in Calm /\ ~fire => running'[g].has  BY <1>5, <2>1, <2>3 DEF At
  <2> QED  BY <1>1, <2>1, <2>2, <2>4, <2>5, StatementHistory DEF k
<1>7. CASE AddHis(g)
  <2> DEFINE t == IF running[g].has THEN "delete" ELSE "decide"
  <2>1. t \in Steps /\ t # "exists" /\ t # "addHis" /\ Goto(g, t) /\ running[g].step = "addHis"
    BY <1>7 DEF AddHis, Steps, At
  <2>2. /\ UNCHANGED <<recovered, queue, batch, pushed, raced, harmed, cur>>
        /\ running'[g] # Idle /\ running'[g].event = running[g].event /\ running'[g].step = t
        /\ running'[g].has = running[g].has
        /\ \A f \in Goroutines \ {g} : running'[f] = running[f]
    BY <1>1, <1>7, <2>1, GotoType DEF AddHis, processorVars, historyVars
  <2>3. Calm' = Calm  BY <2>2 DEF Calm
  <2> HIDE DEF t
  <2>4. /\ \A x \in Hashes \ {k} : his'[x] = his[x]
        /\ his'[k].fired = his[k].fired + IF fire THEN 1 ELSE 0
    <3>1. CASE IsRecovered(g)
      <4>1. his' = [his EXCEPT ![k].recovered = his[k].recovered + 1]  BY <1>7, <3>1 DEF AddHis, k
      <4> QED  BY <1>2, <1>3, <3>1, <4>1 DEF IsRecovered
    <3>2. CASE ~IsRecovered(g)
      <4>1. his' = [his EXCEPT ![k].fired = his[k].fired + 1]  BY <1>7, <3>2 DEF AddHis, k
      <4> QED  BY <1>2, <1>3, <3>2, <4>1 DEF IsRecovered
    <3> QED  BY <3>1, <3>2
  <2>5. k \in Calm => pushed[k] = his'[k].fired  BY <1>3, <1>4, <2>1, <2>4
  <2>6. k \in Calm => his'[k].fired \in Nat /\ his'[k].fired = his'[k].fired + 0  BY <1>3, <2>4
  <2>7. k \in Calm /\ ~fire => running'[g].has  BY <1>5, <2>1, <2>2
  <2> QED  BY <1>1, <2>1, <2>2, <2>3, <2>4, <2>5, <2>6, <2>7, StatementHistory DEF k
<1>8. ASSUME NEW t \in Steps, t # "exists", t # "addHis", Goto(g, t),
             UNCHANGED <<recovered, queue, batch, pushed, raced, his>>, harmed \subseteq harmed',
             \A x \in Hashes \ {k} : cur'[x] = cur[x],
             k \in Calm' => running[g].step \notin {"exists", "addHis"},
             t \in {"delete", "decide"} => running[g].step \in {"addHis", "delete", "decide"}
      PROVE  HInv'
  <2>1. /\ running'[g] # Idle /\ running'[g].event = running[g].event /\ running'[g].step = t
        /\ running'[g].has = running[g].has
        /\ \A f \in Goroutines \ {g} : running'[f] = running[f]
    BY <1>1, <1>8, GotoType
  <2>2. Calm' \subseteq Calm  BY <1>8, Shrinks
  <2>3. k \in Calm' => pushed[k] = his'[k].fired + 0  BY <1>4, <1>8, <2>2
  <2>4. k \in Calm' /\ ~fire /\ t \in {"delete", "decide"} => running'[g].has  BY <1>5, <1>8, <2>1, <2>2
  <2> QED  BY <1>1, <1>8, <2>1, <2>3, <2>4, StatementHistory DEF k
<1>9. CASE DeleteCur(g)
  <2>1. \A x \in Hashes \ {k} : cur'[x] = cur[x]  BY <1>2, <1>3, <1>9 DEF DeleteCur, k
  <2> QED  BY <1>8, <1>9, <2>1 DEF DeleteCur, Steps, At, processorVars, historyVars
<1>10. CASE Decide(g)
  <2> DEFINE t == IF IsRecovered(g) THEN "notify" ELSE "addCur"
  <2>1. /\ t \in Steps /\ t \notin {"exists", "addHis", "delete", "decide"} /\ Goto(g, t)
        /\ running[g].step = "decide"
        /\ UNCHANGED <<recovered, queue, batch, pushed, raced, harmed, his, cur>>
    BY <1>10 DEF Decide, Steps, At, processorVars, tableVars, historyVars
  <2> QED  BY <1>8, <2>1
<1>11. CASE AddCur(g)
  <2>1. \A x \in Hashes \ {k} : cur'[x] = cur[x]  BY <1>2, <1>3, <1>11 DEF AddCur, k
  <2> QED  BY <1>8, <1>11, <2>1 DEF AddCur, Steps, At, processorVars, historyVars
<1>12. CASE StatementFails(g)
  <2>1. k \notin Calm'  BY <1>12 DEF StatementFails, Calm, k
  <2>2. /\ Goto(g, "notify") /\ harmed \subseteq harmed'
        /\ UNCHANGED <<recovered, queue, batch, pushed, raced, his, cur>>
    BY <1>12 DEF StatementFails, processorVars, tableVars
  <2> QED  BY <1>8, <2>1, <2>2 DEF Steps
<1> QED  BY <1>6, <1>7, <1>9, <1>10, <1>11, <1>12

\* A goroutine that is done has recorded its event.
LEMMA NotifyHistory == ASSUME TypeOK, HInv, NEW g \in Goroutines, Notify(g) PROVE HInv'
<1>1. UNCHANGED <<recovered, queue, batch, pushed, cur, his, harmed, raced>>
  BY DEF Notify, processorVars, tableVars, historyVars
<1>2. running'[g] = Idle /\ \A f \in Goroutines \ {g} : running'[f] = running[f]  BY DEF Notify, TypeOK
<1>3. Calm' = Calm  BY <1>1 DEF Calm
<1>4. \A f \in Goroutines : \A x : Runs(f, x)' <=> f # g /\ Runs(f, x)  BY <1>2 DEF Runs
<1>5. running[g].step = "notify"  BY DEF Notify, At
<1>6. ASSUME NEW x PROVE (Awaits(x)' <=> Awaits(x)) /\ (ToFind(x)' => ToFind(x))
  <2>1. Awaits(x)' => Awaits(x)  BY <1>1, <1>2, <1>4 DEF Awaits
  <2>2. Awaits(x) => Awaits(x)'
    <3>1. CASE \E i \in DOMAIN queue : queue[i].hash = x /\ queue[i] \notin recovered
      BY <1>1, <3>1 DEF Awaits
    <3>2. CASE \E i \in DOMAIN batch : batch[i].hash = x /\ batch[i] \notin recovered
      BY <1>1, <3>2 DEF Awaits
    <3>3. CASE \E f \in Goroutines :
                 Runs(f, x) /\ running[f].step \in {"exists", "addHis"} /\ running[f].event \notin recovered
      <4>1. PICK f \in Goroutines :
              Runs(f, x) /\ running[f].step \in {"exists", "addHis"} /\ running[f].event \notin recovered
        BY <3>3
      <4>2. f # g  BY <1>5, <4>1
      <4> QED  BY <1>1, <1>2, <1>4, <4>1, <4>2 DEF Awaits
    <3> QED  BY <3>1, <3>2, <3>3 DEF Awaits
  <2>3. ToFind(x)' => ToFind(x)  BY <1>1, <1>2, <1>4 DEF ToFind, At
  <2> QED  BY <2>1, <2>2, <2>3
<1>7. ASSUME NEW x \in Calm'
      PROVE  /\ pushed'[x] = his'[x].fired + IF Awaits(x)' THEN 1 ELSE 0
             /\ ToFind(x)' => cur'[x] > 0
             /\ \A f \in Goroutines :
                  Runs(f, x)' /\ running'[f].event \in recovered'
                    /\ running'[f].step \in {"addHis", "delete", "decide"} => running'[f].has
  <2>1. \A f \in Goroutines : Runs(f, x)' => Runs(f, x) /\ running'[f] = running[f]  BY <1>2, <1>4
  <2> QED  BY <1>1, <1>3, <1>6, <1>7, <2>1, SameHistory
<1> QED  BY <1>7, ByAlert

\* A worker or an engine starts anew: nothing of a calm alert is on its way.
LEMMA RereadHistory ==
  ASSUME HInv, harmed \subseteq harmed', raced \subseteq raced',
         \A h \in Calm' : h \notin OnTheirWay' /\ pushed'[h] = his'[h].fired + 0
  PROVE  HInv'
<1>1. \A h \in Calm' : ~InQueue(h)' /\ ~InBatch(h)' /\ \A g \in Goroutines : ~Runs(g, h)'
  <2>1. ASSUME NEW h PROVE (h \in OnTheirWay <=> InQueue(h) \/ InBatch(h) \/ \E g \in Goroutines : Runs(g, h))'
    BY DEF OnTheirWay, InFlight, Busy, ToSet, InQueue, InBatch, Runs
  <2> QED  BY <2>1
<1>2. \A h \in Calm' : ~Awaits(h)' /\ ~ToFind(h)'  BY <1>1 DEF Awaits, ToFind, InQueue, InBatch
<1> QED  BY <1>1, <1>2, ByAlert

-------------------------------------------------------------------------------
\* The invariant is inductive, given the one of the tables.
LEMMA HistoryStep == IInv /\ HInv /\ [Next]_vars => HInv'
<1> SUFFICES ASSUME IInv, HInv, [Next]_vars PROVE HInv'  OBVIOUS
<1>1. TypeOK /\ Numbered /\ Ordered  BY DEF IInv, Ordered
<1>2. \A h \in Calm : h \notin OnTheirWay =>
        /\ pushed[h] = his[h].fired + 0 /\ his[h].fired \in Nat /\ pushed[h] = his[h].fired
        /\ h \in DOMAIN fires => cur[h] > 0
  <2> SUFFICES ASSUME NEW h \in Calm, h \notin OnTheirWay
               PROVE  /\ pushed[h] = his[h].fired + 0 /\ his[h].fired \in Nat /\ pushed[h] = his[h].fired
                      /\ h \in DOMAIN fires => cur[h] > 0
    OBVIOUS
  <2>1. h \in Hashes /\ h \in Orderly  BY <1>1, CalmAlone
  <2>2. ~InQueue(h) /\ ~InBatch(h) /\ \A g \in Goroutines : ~Runs(g, h)  BY OnTheirWayIs
  <2>3. h \in DOMAIN fires => cur[h] > 0  BY <1>1, <2>1, <2>2 DEF Ordered, RestAgrees
  <2>4. his[h].fired \in Nat  BY <1>1, <2>1 DEF TypeOK
  <2>5. pushed[h] = his[h].fired + 0  BY NothingAwaited DEF HInv, Recording
  <2> QED  BY <2>3, <2>4, <2>5
<1>3. ASSUME NEW h \in Hashes, Fire(h) PROVE HInv'
  <2> DEFINE e == [hash |-> h, id |-> pushes + 1]
  <2>1. pushes \in Nat /\ pushes + 1 \in 0..MaxPushes
    BY <1>1, <1>3, BoundsAssumption DEF TypeOK, Fire, MayPush
  <2>2. e \in Event /\ e.hash = h /\ e.id = pushes + 1  BY <2>1 DEF Event
  <2>3. e \notin recovered  BY <1>1, <2>1, <2>2 DEF Numbered
  <2>4. Enqueue(e) /\ Record(h) /\ UNCHANGED <<recovered, batch, running, cur, his>>
    BY <1>3 DEF Fire, consumerVars, tableVars
  <2>5. pushed' = [pushed EXCEPT ![h] = IF Accepted THEN @ + 1 ELSE @]  BY <1>3 DEF Fire
  <2>6. \A x \in Hashes \ {h} : pushed'[x] = pushed[x]  BY <1>1, <2>5 DEF TypeOK
  <2>7. Accepted => pushed'[h] = pushed[h] + 1  BY <1>1, <2>5 DEF TypeOK
  <2> HIDE DEF e
  <2>8. h \in Calm /\ h \notin OnTheirWay /\ Accepted => pushed'[h] = his[h].fired + 1
    BY <1>2, <2>7
  <2> QED  BY <1>1, <2>2, <2>3, <2>4, <2>6, <2>8, PushHistory
<1>4. ASSUME NEW h \in Hashes, Recover(h) PROVE HInv'
  <2>1. h \in DOMAIN fires /\ fires[h] \in Event /\ fires[h].hash = h  BY <1>1, <1>4 DEF Recover, TypeOK
  <2>2. PICK e : e = fires[h]  OBVIOUS
  <2>3. /\ Enqueue(e) /\ Record(h) /\ recovered' = recovered \cup {e}
        /\ UNCHANGED <<batch, running, cur, his, pushed>>
    BY <1>4, <2>2 DEF Recover, consumerVars, tableVars
  <2>4. h \in Calm /\ h \notin OnTheirWay => pushed'[h] = his[h].fired + 0 /\ cur[h] > 0
    BY <1>2, <2>1, <2>3
  <2> QED  BY <1>1, <2>1, <2>2, <2>3, <2>4, PushHistory
<1>5. CASE Pop  BY <1>1, <1>5, PopHistory
<1>6. ASSUME NEW g \in Goroutines, ConsumerStep(g) PROVE HInv'
  BY <1>1, <1>6, StartHistory, StatementsHistory, NotifyHistory DEF ConsumerStep
<1>7. CASE Reload
  <2>1. /\ harmed' = harmed \cup OnTheirWay /\ raced' = raced
        /\ UNCHANGED <<queue, batch, running, pushed, his>>
    BY <1>7 DEF Reload, consumerVars, tableVars
  <2>2. OnTheirWay' = OnTheirWay  BY <2>1 DEF OnTheirWay, InFlight, Busy
  <2>3. \A h \in Calm' : h \in Calm /\ h \notin OnTheirWay  BY <2>1 DEF Calm
  <2> QED  BY <1>2, <2>1, <2>2, <2>3, RereadHistory
<1>8. CASE Crash
  <2>1. /\ harmed' = harmed /\ raced' = raced /\ his' = his /\ pushed' = [h \in Hashes |-> his[h].fired]
        /\ DOMAIN queue' = {} /\ DOMAIN batch' = {} /\ \A g \in Goroutines : running'[g] = Idle
    BY <1>8 DEF Crash, tableVars, historyVars
  <2>2. OnTheirWay' = {}  BY <2>1 DEF OnTheirWay, InFlight, Busy, ToSet
  <2>3. \A h \in Calm' : h \in Hashes /\ his[h].fired \in Nat  BY <1>1 DEF Calm, TypeOK
  <2>4. \A h \in Calm' : h \notin OnTheirWay' /\ pushed'[h] = his'[h].fired + 0  BY <2>1, <2>2, <2>3
  <2> QED  BY <2>1, <2>4, RereadHistory
<1>9. ASSUME NEW h \in Hashes, UserDelete(h) PROVE HInv'
  <2>1. /\ UNCHANGED <<recovered, queue, batch, running, pushed, raced, his>> /\ harmed' = harmed \cup {h}
        /\ \A x \in Hashes \ {h} : cur'[x] = cur[x]
    BY <1>1, <1>9 DEF UserDelete, processorVars, consumerVars, TypeOK
  <2>2. \A x \in Calm' : x \in Calm /\ x \in Hashes \ {h}  BY <2>1 DEF Calm
  <2>3. \A x : (Awaits(x)' <=> Awaits(x)) /\ (ToFind(x)' <=> ToFind(x))
               /\ \A g \in Goroutines : Runs(g, x)' <=> Runs(g, x)
    BY <2>1 DEF Awaits, ToFind, Runs, At
  <2>4. ASSUME NEW x \in Calm'
        PROVE  /\ pushed'[x] = his'[x].fired + IF Awaits(x)' THEN 1 ELSE 0
               /\ ToFind(x)' => cur'[x] > 0
               /\ \A g \in Goroutines :
                    Runs(g, x)' /\ running'[g].event \in recovered'
                      /\ running'[g].step \in {"addHis", "delete", "decide"} => running'[g].has
    BY <2>1, <2>2, <2>3, SameHistory
  <2> QED  BY <2>4, ByAlert
<1>10. CASE UNCHANGED vars
  BY <1>10 DEF HInv, Recording, Finding, Awaits, ToFind, Runs, At, Calm, vars, processorVars, consumerVars,
               tableVars, historyVars
<1> QED  BY <1>3, <1>4, <1>5, <1>6, <1>7, <1>8, <1>9, <1>10 DEF Next

\* The history of a calm alert holds every fire event the queue accepted, and its
\* recovery finds the row it closes.
THEOREM HistoryIsComplete == Spec => []CalmHistory
<1>1. IInv /\ HInv => CalmHistory
  <2> SUFFICES ASSUME IInv, HInv PROVE CalmHistory  OBVIOUS
  <2>1. ASSUME Drained, NEW h \in Calm PROVE Recorded(h)
    <3>1. h \notin OnTheirWay  BY <2>1 DEF Drained, OnTheirWay
    <3>2. h \in Hashes /\ his[h].fired \in Nat  BY DEF Calm, IInv, TypeOK
    <3>3. pushed[h] = his[h].fired + 0  BY <3>1, NothingAwaited DEF HInv, Recording
    <3> QED  BY <3>2, <3>3 DEF Recorded
  <2>2. ASSUME NEW g \in Busy, HashOf(g) \in Calm PROVE FindsRow(g)
    <3>1. g \in Goroutines /\ Runs(g, HashOf(g))  BY DEF Busy, Runs, HashOf
    <3> QED  BY <2>2, <3>1 DEF FindsRow, HInv, Finding, At, IsRecovered
  <2> QED  BY <2>1, <2>2 DEF CalmHistory
<1>2. Spec => []HInv
  <2>1. Init => HInv  BY HistoryInit
  <2>2. IInv /\ HInv /\ [Next]_vars => HInv'  BY HistoryStep
  <2> QED  BY <2>1, <2>2, Invariant, PTL DEF Spec
<1> QED  BY <1>1, <1>2, Invariant, PTL
===============================================================================
