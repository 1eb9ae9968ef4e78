-------------------------- MODULE HostRegistryProofs --------------------------
(***************************************************************************)
(* Proofs about HostRegistry, for any hosts, gateways, batch size and      *)
(* bounds: no report is lost on its way to the table, and a cache that     *)
(* sees no change in the statistics has all the hosts of the table, and    *)
(* every edit but those of the second its statistics are from.             *)
(***************************************************************************)
EXTENDS HostRegistry, FiniteSetTheorems, WellFoundedInduction, TLAPS

\* What a gateway holds between two statements: nothing is in a batch while the
\* next one is cut, and an idle gateway holds nothing.
FlushShape ==
  /\ items \in [Gateways -> SUBSET Hosts]
  /\ flush \in [Gateways -> {Idle} \cup Flushing]
  /\ \A g \in Gateways : flush[g].step = "batch" => Batch(g) = {}
  /\ owed \subseteq Hosts
  /\ now \in Nat

\* The hosts a gateway has yet to store.
Held(g) == items[g] \cup flush[g].todo \cup Batch(g)

\* Nothing has been reported at the start.
LEMMA InitFlushShape == Init => FlushShape /\ NoReportLost
BY DEF Init, FlushShape, NoReportLost, Idle, Batch

\* A request adds its host to what the gateway holds.
LEMMA RemoteWriteKeeps ==
  ASSUME FlushShape, NoReportLost, NEW g \in Gateways, NEW s \in Series, RemoteWrite(g, s)
  PROVE  (FlushShape /\ NoReportLost)'
<1> DEFINE h == Ident(s, IgnoreIdent)
<1>1. h \in Hosts
  BY SeriesAssumption DEF RemoteWrite
<1> HIDE DEF h
<1>2. /\ items' = [items EXCEPT ![g] = @ \cup {h}]
      /\ owed' = owed \cup {h}
      /\ UNCHANGED <<flush, target, now>>
  BY DEF RemoteWrite, h
<1>3. FlushShape'
  BY <1>1, <1>2 DEF FlushShape, Batch
<1>4. NoReportLost'
  <2> SUFFICES ASSUME NEW k \in owed', k \notin DOMAIN target PROVE OnItsWay(k)'
    BY <1>2 DEF NoReportLost
  <2>1. CASE k = h
    BY <1>2, <2>1 DEF OnItsWay, FlushShape
  <2>2. CASE k # h
    <3>1. PICK e \in Gateways : k \in items[e] \cup flush[e].todo \cup Batch(e)
      BY <1>2, <2>2 DEF NoReportLost, OnItsWay
    <3>2. k \in (items[e] \cup flush[e].todo \cup Batch(e))'
      BY <1>2, <3>1 DEF FlushShape, Batch
    <3> QED
      BY <3>2 DEF OnItsWay
  <2> QED
    BY <2>1, <2>2
<1> QED
  BY <1>3, <1>4

\* What a step of one gateway may do to the hosts on their way: nobody else's are
\* touched, and its own stay with it, get into the table, or are owed no longer.
Hands(g) ==
  /\ \A e \in Gateways \ {g} : items'[e] = items[e] /\ flush'[e] = flush[e]
  /\ DOMAIN target \subseteq DOMAIN target'
  /\ owed' \subseteq owed
  /\ Held(g) \cap owed' \subseteq Held(g)' \cup DOMAIN target'

\* A step that leaves the reports where they are loses none.
LEMMA HandsKeep ==
  ASSUME NoReportLost, NEW g \in Gateways, Hands(g)
  PROVE  NoReportLost'
<1> SUFFICES ASSUME NEW k \in owed', k \notin DOMAIN target' PROVE OnItsWay(k)'
  BY DEF NoReportLost
<1>1. PICK e \in Gateways : k \in Held(e)
  BY DEF NoReportLost, OnItsWay, Hands, Held
<1>2. CASE e = g
  BY <1>1, <1>2 DEF Hands, Held, OnItsWay
<1>3. CASE e # g
  BY <1>1, <1>3 DEF Hands, Held, OnItsWay, Batch
<1> QED
  BY <1>2, <1>3

\* Goto moves a gateway on, with another batch.
LEMMA GotoFlush ==
  ASSUME FlushShape, NEW g \in Gateways, flush[g].step # "idle",
         NEW step \in {"batch", "update", "pluck", "insert"}, NEW batch \in SUBSET Hosts,
         step = "batch" => batch = {},
         Goto(g, step, batch), UNCHANGED <<items, now>>, owed' \subseteq owed
  PROVE  /\ FlushShape'
         /\ Batch(g)' = batch /\ flush'[g].todo = flush[g].todo
         /\ \A e \in Gateways \ {g} : flush'[e] = flush[e]
<1>1. flush[g] \in Flushing
  BY DEF FlushShape, Idle
<1>2. flush'[g] = [flush[g] EXCEPT !.step = step, !.batch = batch]
  BY DEF Goto, FlushShape
<1>3. \A e \in Gateways \ {g} : flush'[e] = flush[e]
  BY DEF Goto, FlushShape
<1>4. flush'[g] \in Flushing /\ flush'[g].batch = batch /\ flush'[g].todo = flush[g].todo
      /\ flush'[g].step = step
  BY <1>1, <1>2 DEF Flushing
<1>5. flush' \in [Gateways -> {Idle} \cup Flushing]
  BY <1>3, <1>4 DEF Goto, FlushShape
<1> QED
  BY <1>3, <1>4, <1>5 DEF FlushShape, Batch

\* MSet.Clear hands the reports to the flush.
LEMMA PersistHands ==
  ASSUME FlushShape, NEW g \in Gateways, Persist(g)
  PROVE  FlushShape' /\ Hands(g)
<1>1. /\ flush'[g] = [step |-> "batch", todo |-> items[g], batch |-> {}, at |-> now]
      /\ items'[g] = {}
      /\ \A e \in Gateways \ {g} : items'[e] = items[e] /\ flush'[e] = flush[e]
      /\ UNCHANGED <<target, owed, now>> /\ flush[g] = Idle
  BY DEF Persist, FlushShape, historyVars
<1>2. /\ flush'[g] \in Flushing /\ flush'[g].step = "batch"
      /\ flush'[g].todo = items[g] /\ flush'[g].batch = {}
  BY <1>1 DEF FlushShape, Flushing
<1>3. /\ flush' \in [Gateways -> {Idle} \cup Flushing]
      /\ items' \in [Gateways -> SUBSET Hosts]
  <2>1. flush' = [flush EXCEPT ![g] = flush'[g]] /\ items' = [items EXCEPT ![g] = {}]
    BY <1>1 DEF Persist, FlushShape
  <2> QED
    BY <1>2, <2>1 DEF FlushShape
<1>4. FlushShape'
  BY <1>1, <1>2, <1>3 DEF FlushShape, Batch
<1>5. Held(g) \subseteq Held(g)'
  BY <1>1, <1>2 DEF Held, Batch, Idle
<1> QED
  BY <1>1, <1>4, <1>5 DEF Hands

\* The batches cut from a map take all of it: only an empty rest makes an empty batch.
LEMMA EmptyBatch ==
  ASSUME NEW todo \in SUBSET Hosts, NEW batch \in kSubset(FullBatch(todo), todo), batch = {}
  PROVE  todo = {}
<1>1. IsFiniteSet(todo)
  BY HostsAssumption, FS_Subset
<1>2. Cardinality(batch) = 0
  BY FS_EmptySet
<1>3. FullBatch(todo) = 0
  BY <1>2 DEF kSubset
<1>4. Cardinality(todo) \in Nat
  BY <1>1, FS_CardinalityType
<1>5. Cardinality(todo) = 0
  BY <1>3, <1>4, BatchAssumption DEF FullBatch
<1> QED
  BY <1>1, <1>5, FS_EmptySet

\* Every host of the flush comes in one batch.
LEMMA NextBatchHands ==
  ASSUME FlushShape, NEW g \in Gateways, NextBatch(g)
  PROVE  FlushShape' /\ Hands(g)
<1>1. flush[g] \in Flushing /\ Batch(g) = {}
  BY DEF NextBatch, FlushShape, Idle
<1>2. flush[g].todo \in SUBSET Hosts
  BY <1>1 DEF Flushing
<1>3. PICK batch \in kSubset(FullBatch(flush[g].todo), flush[g].todo) :
        flush' = [flush EXCEPT ![g] =
          IF batch = {} THEN Idle
          ELSE [flush[g] EXCEPT !.step = "update", !.batch = batch, !.todo = flush[g].todo \ batch]]
  BY DEF NextBatch
<1>4. batch \in SUBSET flush[g].todo
  BY DEF kSubset
<1>5. \A e \in Gateways \ {g} : flush'[e] = flush[e]
  BY <1>3 DEF FlushShape
<1>6. UNCHANGED <<items, target, owed, now>>
  BY DEF NextBatch, historyVars
<1>7. CASE batch = {}
  <2>1. flush[g].todo = {}
    BY <1>2, <1>7, EmptyBatch
  <2>2. flush'[g] = Idle
    BY <1>3, <1>7 DEF FlushShape
  <2>3. FlushShape'
    BY <1>3, <1>5, <1>6, <2>2 DEF FlushShape, Batch, Idle
  <2> QED
    BY <1>1, <1>5, <1>6, <2>1, <2>2, <2>3 DEF Hands, Held, Batch, Idle
<1>8. CASE batch # {}
  <2>1. flush'[g] = [flush[g] EXCEPT !.step = "update", !.batch = batch,
                                     !.todo = flush[g].todo \ batch]
    BY <1>3, <1>8 DEF FlushShape
  <2>2. /\ flush'[g].step = "update" /\ flush'[g].batch = batch
        /\ flush'[g].todo = flush[g].todo \ batch /\ flush'[g] \in Flushing
    BY <1>1, <1>2, <1>4, <2>1 DEF Flushing
  <2>3. flush' \in [Gateways -> {Idle} \cup Flushing]
    BY <1>3, <1>5, <2>2 DEF FlushShape
  <2>4. FlushShape'
    BY <1>5, <1>6, <2>2, <2>3 DEF FlushShape, Batch
  <2> QED
    BY <1>1, <1>4, <1>5, <1>6, <2>2, <2>4 DEF Hands, Held, Batch
<1> QED
  BY <1>7, <1>8

\* UPDATE and SELECT leave the table its hosts; what leaves the batch is there.
LEMMA UpdatePluckHands ==
  ASSUME FlushShape, NEW g \in Gateways, UpdateRows(g) \/ Pluck(g)
  PROVE  FlushShape' /\ Hands(g)
<1>1. /\ flush[g].step # "idle" /\ UNCHANGED <<items, owed, now>>
      /\ DOMAIN target' = DOMAIN target
  BY DEF UpdateRows, Pluck, historyVars
<1>2. Batch(g) \in SUBSET Hosts
  BY <1>1 DEF FlushShape, Flushing, Idle, Batch
<1>3. PICK step \in {"batch", "update", "pluck", "insert"}, batch \in SUBSET Hosts :
        /\ Goto(g, step, batch) /\ (step = "batch" => batch = {})
        /\ Batch(g) \subseteq batch \cup DOMAIN target
  <2>1. CASE NewHosts(g) = {}
    BY <2>1 DEF UpdateRows, Pluck, NewHosts
  <2>2. CASE NewHosts(g) # {}
    BY <1>2, <2>2 DEF UpdateRows, Pluck, NewHosts
  <2> QED
    BY <2>1, <2>2
<1>4. /\ FlushShape'
      /\ Batch(g)' = batch /\ flush'[g].todo = flush[g].todo
      /\ \A e \in Gateways \ {g} : flush'[e] = flush[e]
  BY <1>1, <1>3, GotoFlush
<1> QED
  BY <1>1, <1>3, <1>4 DEF Hands, Held

\* INSERT, the statements that fail, and a restart.
LEMMA InsertHands ==
  ASSUME FlushShape, NEW g \in Gateways, NEW h \in Hosts, Insert(g, h) \/ InsertFails(g, h)
  PROVE  FlushShape' /\ Hands(g)
<1>1. /\ flush[g].step # "idle" /\ UNCHANGED <<items, now>> /\ owed' \subseteq owed
      /\ h \in Batch(g) /\ Inserted(g, h)
      /\ DOMAIN target \subseteq DOMAIN target'
      /\ h \in DOMAIN target' \/ h \notin owed'
  BY DEF Insert, InsertFails, historyVars
<1>2. Batch(g) \in SUBSET Hosts
  BY <1>1 DEF FlushShape, Flushing, Idle, Batch
<1>3. /\ FlushShape'
      /\ Batch(g)' = Batch(g) \ {h} /\ flush'[g].todo = flush[g].todo
      /\ \A e \in Gateways \ {g} : flush'[e] = flush[e]
  <2>1. CASE Batch(g) = {h}
    <3>1. Goto(g, "batch", {})
      BY <1>1, <2>1 DEF Inserted
    <3> QED
      BY <1>1, <2>1, <3>1, GotoFlush
  <2>2. CASE Batch(g) # {h}
    <3>1. Goto(g, "insert", Batch(g) \ {h})
      BY <1>1, <2>2 DEF Inserted
    <3> QED
      BY <1>1, <1>2, <3>1, GotoFlush
  <2> QED
    BY <2>1, <2>2
<1> QED
  BY <1>1, <1>3 DEF Hands, Held

\* What fails or stops gives its reports up; they are owed no more.
LEMMA FaultHands ==
  ASSUME FlushShape, NEW g \in Gateways, BatchFails(g) \/ Restart(g)
  PROVE  FlushShape' /\ Hands(g)
<1>1. CASE BatchFails(g)
  <2>1. /\ flush[g].step # "idle" /\ UNCHANGED <<items, target, now>>
        /\ owed' = owed \ Batch(g) /\ Goto(g, "batch", {})
    BY <1>1 DEF BatchFails
  <2>2. /\ FlushShape'
        /\ Batch(g)' = {} /\ flush'[g].todo = flush[g].todo
        /\ \A e \in Gateways \ {g} : flush'[e] = flush[e]
    BY <2>1, GotoFlush
  <2> QED
    BY <2>1, <2>2 DEF Hands, Held
<1>2. CASE Restart(g)
  BY <1>2 DEF Restart, FlushShape, Hands, Held, Batch, Idle
<1> QED
  BY <1>1, <1>2

\* Users, the cache and the clock do not touch the gateways.
LEMMA OthersKeep ==
  ASSUME FlushShape, NoReportLost,
         \/ \E h \in Hosts : Edit(h) \/ Delete(h)
         \/ SyncStep \/ Tick
         \/ UNCHANGED vars
  PROVE  (FlushShape /\ NoReportLost)'
<1>1. /\ UNCHANGED <<items, flush>> /\ owed' \subseteq owed /\ now' \in Nat
      /\ \A k \in owed' : k \in DOMAIN target => k \in DOMAIN target'
  <2>1. CASE \E h \in Hosts : Edit(h)
    BY <2>1 DEF FlushShape, Edit, gatewayVars, historyVars
  <2>2. CASE \E h \in Hosts : Delete(h)
    BY <2>2 DEF FlushShape, Delete, gatewayVars
  <2>3. CASE SyncStep
    BY <2>3 DEF FlushShape, SyncStep, ReadStat, ReadRows, SyncFails, gatewayVars, historyVars
  <2>4. CASE Tick \/ UNCHANGED vars
    BY <2>4 DEF FlushShape, Tick, vars, gatewayVars, historyVars
  <2> QED
    BY <2>1, <2>2, <2>3, <2>4
<1> QED
  BY <1>1 DEF FlushShape, NoReportLost, OnItsWay, Batch

\* No report gets out of hand.
LEMMA ReportsStep == FlushShape /\ NoReportLost /\ [Next]_vars => (FlushShape /\ NoReportLost)'
<1> SUFFICES ASSUME FlushShape, NoReportLost, [Next]_vars
             PROVE  (FlushShape /\ NoReportLost)'
  OBVIOUS
<1>1. ASSUME NEW g \in Gateways, NEW s \in Series, RemoteWrite(g, s)
      PROVE  (FlushShape /\ NoReportLost)'
  BY <1>1, RemoteWriteKeeps
<1>2. ASSUME NEW g \in Gateways, FlushStep(g) \/ Restart(g)
      PROVE  (FlushShape /\ NoReportLost)'
  <2>1. FlushShape' /\ Hands(g)
    BY <1>2, PersistHands, NextBatchHands, UpdatePluckHands, InsertHands, FaultHands
       DEF FlushStep
  <2> QED
    BY <2>1, HandsKeep
<1> QED
  BY <1>1, <1>2, OthersKeep DEF Next, OtherStep

\* A host that reported is in the table or on its way to it, until a statement
\* fails, a gateway restarts or a user deletes it: LoopPersist, the batches and the
\* races of gateways for one host lose none (NoReportLost).
THEOREM NothingIsLost == Spec => []NoReportLost
BY ReportsStep, InitFlushShape, PTL DEF Spec

-------------------------------------------------------------------------------
\* Without deletions the table only grows: the cache has no row the table lacks, and
\* the numbers the cache compares were counted before its rows were read.
CountedBefore ==
  /\ DOMAIN target \subseteq Hosts
  /\ deletes \in Nat
  /\ stat.total \in Nat
  /\ sync.step = "rows" => sync.stat.total \in Nat
  /\ deletes = 0 =>
       /\ DOMAIN cache \subseteq DOMAIN target
       /\ stat.total <= Cardinality(DOMAIN cache)
       /\ sync.step = "rows" => sync.stat.total <= Cardinality(DOMAIN target)

\* There is nothing to count at the start.
LEMMA InitCountedBefore == Init => CountedBefore
<1> SUFFICES ASSUME Init PROVE CountedBefore
  OBVIOUS
<1>1. DOMAIN target = {} /\ DOMAIN cache = {} /\ stat.total = 0 /\ deletes = 0
      /\ sync.step = "idle"
  BY DEF Init, Waiting
<1>2. Cardinality(DOMAIN cache) = 0
  BY <1>1, FS_EmptySet
<1> QED
  BY <1>1, <1>2 DEF CountedBefore

\* The count of a part of the hosts.
LEMMA Counted ==
  ASSUME NEW T \in SUBSET Hosts, NEW S \in SUBSET T
  PROVE  /\ Cardinality(S) \in Nat /\ Cardinality(T) \in Nat
         /\ Cardinality(S) <= Cardinality(T)
         /\ Cardinality(S) = Cardinality(T) => S = T
<1>1. IsFiniteSet(T)
  BY HostsAssumption, FS_Subset
<1> QED
  BY <1>1, FS_Subset, FS_CardinalityType

\* A step that leaves the cache alone and takes no host out of the table.
LEMMA GrowingKeeps ==
  ASSUME CountedBefore, UNCHANGED <<cacheVars, deletes>>,
         DOMAIN target \subseteq DOMAIN target', DOMAIN target' \subseteq Hosts
  PROVE  CountedBefore'
<1>1. /\ Cardinality(DOMAIN target) \in Nat /\ Cardinality(DOMAIN target') \in Nat
      /\ Cardinality(DOMAIN target) <= Cardinality(DOMAIN target')
  BY Counted
<1>2. UNCHANGED <<cache, stat, sync, deletes>>
  BY DEF cacheVars
<1> QED
  BY <1>1, <1>2 DEF CountedBefore

\* The table only grows but for deletions.
LEMMA TableStepKeeps ==
  ASSUME CountedBefore,
         \/ \E g \in Gateways, s \in Series : RemoteWrite(g, s)
         \/ \E g \in Gateways : FlushStep(g) \/ Restart(g)
         \/ \E h \in Hosts : Edit(h)
         \/ Tick
         \/ UNCHANGED vars
  PROVE  CountedBefore'
<1>1. /\ UNCHANGED <<cacheVars, deletes>> /\ DOMAIN target \subseteq DOMAIN target'
      /\ DOMAIN target' \subseteq Hosts
  <2>1. CASE \E g \in Gateways : FlushStep(g) \/ Restart(g)
    <3>1. PICK g \in Gateways : FlushStep(g) \/ Restart(g)
      BY <2>1
    <3>2. CASE UpdateRows(g)
      BY <3>2 DEF CountedBefore, UpdateRows, boundVars
    <3>3. CASE \E h \in Hosts : Insert(g, h)
      BY <3>3 DEF CountedBefore, Insert, boundVars
    <3>4. CASE Persist(g) \/ NextBatch(g) \/ Pluck(g) \/ BatchFails(g) \/ Restart(g)
               \/ \E h \in Hosts : InsertFails(g, h)
      BY <3>4 DEF CountedBefore, Persist, NextBatch, Pluck, BatchFails, InsertFails, Restart,
                  boundVars
    <3> QED
      BY <3>1, <3>2, <3>3, <3>4 DEF FlushStep
  <2>2. CASE (\E g \in Gateways, s \in Series : RemoteWrite(g, s)) \/ Tick \/ UNCHANGED vars
    BY <2>2 DEF CountedBefore, RemoteWrite, Tick, vars, boundVars
  <2>3. CASE \E h \in Hosts : Edit(h)
    BY <2>3 DEF CountedBefore, Edit
  <2> QED
    BY <2>1, <2>2, <2>3
<1> QED
  BY <1>1, GrowingKeeps

\* What a deletion spoils is not claimed any more.
LEMMA DeleteKeeps ==
  ASSUME CountedBefore, NEW h \in Hosts, Delete(h)
  PROVE  CountedBefore'
<1>1. /\ DOMAIN target' \subseteq Hosts /\ deletes' = deletes + 1
      /\ UNCHANGED <<cache, stat, sync>>
  BY DEF CountedBefore, Delete, cacheVars
<1> QED
  BY <1>1 DEF CountedBefore

\* A refresh caches no more rows than there were.
LEMMA SyncKeeps ==
  ASSUME CountedBefore, SyncStep
  PROVE  CountedBefore'
<1>1. Cardinality(DOMAIN target) \in Nat
  BY Counted DEF CountedBefore
<1>2. CASE ReadStat
  <2>1. /\ sync'.step = "rows" /\ sync'.stat.total = Cardinality(DOMAIN target)
        /\ UNCHANGED <<target, cache, stat, deletes>>
    BY <1>2 DEF ReadStat, Statistics, boundVars
  <2> QED
    BY <1>1, <2>1 DEF CountedBefore
<1>3. CASE ReadRows
  <2>1. /\ sync.step = "rows" /\ cache' = target /\ stat' = sync.stat
        /\ sync'.step = "idle" /\ UNCHANGED <<target, deletes>>
    BY <1>3 DEF ReadRows, Waiting, boundVars
  <2> QED
    BY <1>1, <2>1 DEF CountedBefore
<1>4. CASE SyncFails
  <2>1. sync'.step = "idle" /\ UNCHANGED <<target, cache, stat, deletes>>
    BY <1>4 DEF SyncFails, Waiting
  <2> QED
    BY <2>1 DEF CountedBefore
<1> QED
  BY <1>2, <1>3, <1>4 DEF SyncStep

\* A cache that sees no change in the statistics has the hosts of the table and no
\* others, unless rows were deleted: reading the statistics before the rows makes
\* the cache count too little at worst, and then synchronise again (CacheComplete).
THEOREM CacheIsComplete == Spec => []CacheComplete
<1>1. CountedBefore /\ [Next]_vars => CountedBefore'
  BY TableStepKeeps, DeleteKeeps, SyncKeeps DEF Next, OtherStep
<1>2. CountedBefore => CacheComplete
  <2> SUFFICES ASSUME CountedBefore, deletes = 0, stat = Statistics
               PROVE  DOMAIN cache = DOMAIN target
    BY DEF CacheComplete, StatChanged
  <2>1. stat.total = Cardinality(DOMAIN target)
    BY DEF Statistics
  <2>2. /\ DOMAIN cache \subseteq DOMAIN target /\ DOMAIN target \subseteq Hosts
        /\ stat.total <= Cardinality(DOMAIN cache)
    BY DEF CountedBefore
  <2>3. /\ Cardinality(DOMAIN cache) \in Nat /\ Cardinality(DOMAIN target) \in Nat
        /\ Cardinality(DOMAIN cache) <= Cardinality(DOMAIN target)
        /\ Cardinality(DOMAIN cache) = Cardinality(DOMAIN target)
             => DOMAIN cache = DOMAIN target
    BY <2>2, Counted
  <2> QED
    BY <2>1, <2>2, <2>3
<1> QED
  BY <1>1, <1>2, InitCountedBefore, PTL DEF Spec
-------------------------------------------------------------------------------
\* Types.  A statement of a gateway changes the row of a host by its time stamp only.

\* A set of numbers with a bound has a greatest one, which Max finds: the least of
\* its upper bounds is an element.
LEMMA MaxIsGreatest ==
  ASSUME NEW S \in SUBSET Nat, S # {}, NEW n \in Nat, \A x \in S : x <= n
  PROVE  /\ Max(S) \in S
         /\ \A x \in S : x <= Max(S)
<1> DEFINE Bounds == { b \in Nat : \A x \in S : x <= b }
<1>1. PICK b \in Bounds : \A c \in Bounds : ~(<<c, b>> \in OpToRel(<, Nat))
  <2>1. IsWellFoundedOn(OpToRel(<, Nat), Nat)
    BY NatLessThanWellFounded
  <2>2. Bounds \subseteq Nat /\ Bounds # {}
    OBVIOUS
  <2> HIDE DEF Bounds
  <2> QED
    BY <2>1, <2>2, WFMin
<1>2. b \in S
  <2> SUFFICES ASSUME b \notin S PROVE FALSE
    OBVIOUS
  <2>1. PICK x \in S : TRUE
    OBVIOUS
  <2>2. b - 1 \in Nat /\ b - 1 < b
    BY <2>1
  <2>3. b - 1 \in Bounds
    BY <2>2
  <2>4. <<b - 1, b>> \in OpToRel(<, Nat)
    BY <2>2 DEF OpToRel
  <2> QED
    BY <1>1, <2>3, <2>4
<1>3. \E x \in S : \A y \in S : x >= y
  BY <1>2
<1> QED
  BY <1>3 DEF Max

\* The statistics of a table whose time stamps lie in the past.
LEMMA StatisticsOf ==
  ASSUME IsTable(target), now \in Nat, \A h \in DOMAIN target : target[h].updateAt <= now
  PROVE  /\ Statistics \in Stat
         /\ Statistics.last <= now
         /\ \A h \in DOMAIN target : target[h].updateAt <= Statistics.last
<1> DEFINE S == {0} \cup { target[h].updateAt : h \in DOMAIN target }
<1>1. S \in SUBSET Nat /\ S # {} /\ \A x \in S : x <= now
  BY DEF IsTable, Row
<1>2. Statistics = [total |-> Cardinality(DOMAIN target), last |-> Max(S)]
  BY DEF Statistics
<1>3. Cardinality(DOMAIN target) \in Nat
  BY HostsAssumption, FS_Subset, FS_CardinalityType DEF IsTable
<1>4. \A h \in DOMAIN target : target[h].updateAt \in S
  OBVIOUS
<1> HIDE DEF S
<1>5. Max(S) \in S /\ \A x \in S : x <= Max(S)
  BY <1>1, MaxIsGreatest
<1> QED
  BY <1>1, <1>2, <1>3, <1>4, <1>5 DEF Stat

\* The types of the gateways, with what FlushShape keeps of them.
GatewayTypes ==
  /\ FlushShape
  /\ \A g \in Gateways : Cardinality(Batch(g)) <= BatchSize

\* A part of a batch is no larger than the batch.
LEMMA BatchPart ==
  ASSUME GatewayTypes, NEW g \in Gateways, NEW part \in SUBSET Batch(g)
  PROVE  Cardinality(part) <= BatchSize
<1>1. Batch(g) \in SUBSET Hosts
  BY DEF GatewayTypes, FlushShape, Flushing, Idle, Batch
<1>2. /\ Cardinality(part) \in Nat /\ Cardinality(Batch(g)) \in Nat
      /\ Cardinality(part) <= Cardinality(Batch(g))
  BY <1>1, Counted
<1> QED
  BY <1>2, BatchAssumption DEF GatewayTypes

\* Every batch a gateway goes on with is part of the last one, or one it has cut.
LEMMA GatewayTypesKept ==
  ASSUME GatewayTypes, FlushShape', NEW g \in Gateways, FlushStep(g) \/ Restart(g)
  PROVE  GatewayTypes'
<1>1. Cardinality({}) = 0 /\ BatchSize \in Nat
  BY FS_EmptySet, BatchAssumption
<1>2. flush[g] \in {Idle} \cup Flushing
  BY DEF GatewayTypes, FlushShape
<1>3. /\ flush' \in [Gateways -> {Idle} \cup Flushing]
      /\ \A e \in Gateways \ {g} : flush'[e] = flush[e]
  BY DEF GatewayTypes, FlushShape, FlushStep, Restart, Persist, NextBatch, UpdateRows, Pluck, BatchFails,
         Insert, InsertFails, Inserted, Goto
<1>4. flush'[g].batch \in SUBSET Batch(g) \/ Cardinality(flush'[g].batch) <= BatchSize
  <2>1. CASE Persist(g) \/ Restart(g)
    BY <1>1, <2>1 DEF GatewayTypes, FlushShape, Persist, Restart, Idle
  <2>2. CASE NextBatch(g)
    <3>1. PICK batch \in kSubset(FullBatch(flush[g].todo), flush[g].todo) :
            flush' = [flush EXCEPT ![g] =
              IF batch = {} THEN Idle
              ELSE [flush[g] EXCEPT !.step = "update", !.batch = batch,
                                    !.todo = flush[g].todo \ batch]]
      BY <2>2 DEF NextBatch
    <3>2. flush[g] \in Flushing
      BY <1>2, <2>2 DEF NextBatch, Idle
    <3>3. flush'[g].batch = batch
      BY <3>1, <3>2 DEF GatewayTypes, FlushShape, Idle, Flushing
    <3>4. Cardinality(batch) = FullBatch(flush[g].todo)
      BY DEF kSubset
    <3>5. Cardinality(flush[g].todo) \in Nat
      BY <3>2, Counted DEF Flushing
    <3> QED
      BY <1>1, <3>3, <3>4, <3>5 DEF FullBatch
  <2>3. CASE UpdateRows(g) \/ Pluck(g) \/ BatchFails(g)
             \/ \E h \in Hosts : Insert(g, h) \/ InsertFails(g, h)
    <3>1. flush[g] \in Flushing
      <4>1. flush[g].step # "idle"
        BY <2>3 DEF UpdateRows, Pluck, BatchFails, Insert, InsertFails
      <4> QED
        BY <1>2, <4>1 DEF Idle
    <3>2. ASSUME NEW step, NEW batch, Goto(g, step, batch)
          PROVE  flush'[g].batch = batch
      BY <3>1, <3>2 DEF Goto, GatewayTypes, FlushShape, Flushing
    <3>3. CASE UpdateRows(g) \/ Pluck(g)
      <4>1. \/ Goto(g, "batch", {})
            \/ Goto(g, "pluck", Batch(g))
            \/ Goto(g, "insert", NewHosts(g))
        BY <3>3 DEF UpdateRows, Pluck
      <4> QED
        BY <3>2, <4>1 DEF NewHosts
    <3>4. CASE BatchFails(g)
      <4>1. Goto(g, "batch", {})
        BY <3>4 DEF BatchFails
      <4> QED
        BY <3>2, <4>1
    <3>5. ASSUME NEW h \in Hosts, Insert(g, h) \/ InsertFails(g, h)
          PROVE  flush'[g].batch \in SUBSET Batch(g)
      <4>1. Goto(g, IF Batch(g) = {h} THEN "batch" ELSE "insert", Batch(g) \ {h})
        BY <3>5 DEF Insert, InsertFails, Inserted
      <4> QED
        BY <3>2, <4>1
    <3> QED
      BY <2>3, <3>3, <3>4, <3>5
  <2> QED
    BY <2>1, <2>2, <2>3 DEF FlushStep
<1>5. Cardinality(flush'[g].batch) <= BatchSize
  BY <1>4, BatchPart
<1> QED
  BY <1>3, <1>5 DEF GatewayTypes, Batch

-------------------------------------------------------------------------------
\* What the statistics can tell of edits.  All times lie in the past; a row that is
\* not disturbed was updated no earlier than it was edited; and a row the cache has
\* otherwise was edited since the statistics of the cache were read.
CacheTypes ==
  /\ IsTable(target) /\ IsTable(cache)
  /\ stat \in Stat
  /\ sync \in {Waiting} \cup [step : {"rows"}, stat : Stat]
  /\ disturbed \subseteq Hosts

Past ==
  /\ \A h \in DOMAIN target : target[h].updateAt <= now /\ target[h].edited <= now
  /\ \A g \in Gateways : flush[g].at <= now
  /\ stat.last <= now /\ sync.stat.last <= now

EditsKnown ==
  /\ \A h \in DOMAIN target \ disturbed : target[h].edited <= target[h].updateAt
  /\ DOMAIN cache \subseteq DOMAIN target \cup disturbed
  /\ \A h \in (DOMAIN target \cap DOMAIN cache) \ disturbed :
       cache[h].content = target[h].content \/ stat.last <= target[h].edited

TableInv == CacheTypes /\ Past /\ EditsKnown

\* The statistics tell of every edit but those of the second they are from.
LEMMA EditsKnownAreSeen == FlushShape /\ TableInv => EditsSeen
<1> SUFFICES ASSUME FlushShape, TableInv, stat = Statistics,
                    NEW h \in DOMAIN target \cap DOMAIN cache, h \notin disturbed,
                    cache[h].content # target[h].content
             PROVE  target[h].edited = stat.last
  BY DEF EditsSeen, StatChanged
<1>1. target[h].updateAt <= stat.last /\ stat \in Stat
  BY StatisticsOf DEF FlushShape, TableInv, CacheTypes, Past
<1>2. target[h].edited <= target[h].updateAt /\ stat.last <= target[h].edited
  BY DEF TableInv, EditsKnown
<1>3. target[h] \in Row
  BY DEF TableInv, CacheTypes, IsTable
<1> QED
  BY <1>1, <1>2, <1>3 DEF Row, Stat

\* The caches are empty at the start.
LEMMA InitTableInv == Init => TableInv
BY DEF Init, TableInv, CacheTypes, Past, EditsKnown, IsTable, Stat, Waiting, Idle

\* What a flush does with its time: it keeps it, or takes that of the clock.
LEMMA FlushTime ==
  ASSUME FlushShape, TableInv, NEW g \in Gateways, FlushStep(g) \/ Restart(g)
  PROVE  \A e \in Gateways : flush'[e].at <= now
<1>1. \A e \in Gateways : flush[e] \in {Idle} \cup Flushing /\ flush[e].at <= now /\ now \in Nat
  BY DEF FlushShape, TableInv, Past
<1>2. flush \in [Gateways -> {Idle} \cup Flushing]
  BY DEF FlushShape
<1>3. CASE Persist(g) \/ Restart(g)
  BY <1>1, <1>2, <1>3 DEF Persist, Restart, Idle
<1>4. CASE NextBatch(g)
  <2>1. flush[g] \in Flushing
    BY <1>1, <1>4 DEF NextBatch, Idle
  <2> QED
    BY <1>1, <1>2, <1>4, <2>1 DEF NextBatch, Idle, Flushing
<1>5. CASE UpdateRows(g) \/ Pluck(g) \/ BatchFails(g)
           \/ \E h \in Hosts : Insert(g, h) \/ InsertFails(g, h)
  <2>1. ASSUME NEW step, NEW batch, Goto(g, step, batch)
        PROVE  \A e \in Gateways : flush'[e].at <= now
    <3>1. flush[g] \in Flushing
      <4>1. flush[g].step # "idle"
        BY <1>5 DEF UpdateRows, Pluck, BatchFails, Insert, InsertFails
      <4> QED
        BY <1>1, <4>1 DEF Idle
    <3> QED
      BY <1>1, <1>2, <2>1, <3>1 DEF Goto, Flushing
  <2>2. CASE UpdateRows(g) \/ Pluck(g)
    <3>1. \/ Goto(g, "batch", {})
          \/ Goto(g, "pluck", Batch(g))
          \/ Goto(g, "insert", NewHosts(g))
      BY <2>2 DEF UpdateRows, Pluck
    <3> QED
      BY <2>1, <3>1
  <2>3. CASE BatchFails(g)
    <3>1. Goto(g, "batch", {})
      BY <2>3 DEF BatchFails
    <3> QED
      BY <2>1, <3>1
  <2>4. ASSUME NEW h \in Hosts, Insert(g, h) \/ InsertFails(g, h)
        PROVE  \A e \in Gateways : flush'[e].at <= now
    <3>1. Goto(g, IF Batch(g) = {h} THEN "batch" ELSE "insert", Batch(g) \ {h})
      BY <2>4 DEF Insert, InsertFails, Inserted
    <3> QED
      BY <2>1, <3>1
  <2> QED
    BY <1>5, <2>2, <2>3, <2>4
<1> QED
  BY <1>3, <1>4, <1>5 DEF FlushStep

\* A step that leaves the table and the cache alone.
LEMMA QuietKeeps ==
  ASSUME FlushShape, TableInv, UNCHANGED <<target, cacheVars, disturbed>>,
         now' \in Nat, now <= now', \A e \in Gateways : flush'[e].at <= now'
  PROVE  TableInv'
<1>1. UNCHANGED <<target, cache, stat, sync, disturbed>>
  BY DEF cacheVars
<1>2. stat.last \in Nat /\ sync.stat.last \in Nat /\ now \in Nat
  BY DEF FlushShape, TableInv, CacheTypes, Stat, Waiting
<1>3. \A h \in DOMAIN target : target[h] \in Row
  BY DEF TableInv, CacheTypes, IsTable
<1>4. Past'
  BY <1>1, <1>2, <1>3 DEF TableInv, Past, Row
<1>5. CacheTypes'
  BY <1>1 DEF TableInv, CacheTypes, IsTable
<1>6. EditsKnown'
  BY <1>1 DEF TableInv, EditsKnown
<1> QED
  BY <1>4, <1>5, <1>6 DEF TableInv

\* UPDATE: only time stamps change, and a host whose stamp goes back is disturbed.
LEMMA UpdateRowsKnown ==
  ASSUME FlushShape, TableInv, NEW g \in Gateways, UpdateRows(g)
  PROVE  TableInv'
<1> DEFINE Row2(h) == IF h \in Batch(g) THEN [target[h] EXCEPT !.updateAt = flush[g].at] ELSE target[h]
<1>1. /\ target' = [h \in DOMAIN target |-> Row2(h)]
      /\ disturbed' = disturbed \cup { h \in Batch(g) \ NewHosts(g) : target[h].updateAt > flush[g].at }
      /\ UNCHANGED <<now, cache, stat, sync>>
  BY DEF UpdateRows, cacheVars
<1>2. flush[g] \in Flushing /\ flush[g].at <= now /\ now \in Nat
  <2>1. flush[g].step # "idle" /\ flush[g] \in {Idle} \cup Flushing
    BY DEF UpdateRows, FlushShape
  <2> QED
    BY <2>1 DEF Idle, TableInv, Past, FlushShape
<1>3. \A h \in DOMAIN target :
        /\ target[h] \in Row
        /\ Row2(h) \in Row
        /\ Row2(h).content = target[h].content /\ Row2(h).edited = target[h].edited
        /\ Row2(h).updateAt <= now
        /\ Row2(h).updateAt \in {target[h].updateAt, flush[g].at}
        /\ Row2(h).updateAt < target[h].updateAt => h \in disturbed'
  <2> SUFFICES ASSUME NEW h \in DOMAIN target
               PROVE  /\ target[h] \in Row
                      /\ Row2(h) \in Row
                      /\ Row2(h).content = target[h].content /\ Row2(h).edited = target[h].edited
                      /\ Row2(h).updateAt <= now
                      /\ Row2(h).updateAt \in {target[h].updateAt, flush[g].at}
                      /\ Row2(h).updateAt < target[h].updateAt => h \in disturbed'
    OBVIOUS
  <2>1. target[h] \in Row /\ target[h].updateAt <= now
    BY DEF TableInv, CacheTypes, IsTable, Past
  <2>2. flush[g].at \in Nat
    BY <1>2 DEF Flushing
  <2>3. CASE h \in Batch(g)
    BY <1>1, <1>2, <2>1, <2>2, <2>3 DEF Row, NewHosts
  <2>4. CASE h \notin Batch(g)
    BY <2>1, <2>4 DEF Row
  <2> QED
    BY <2>3, <2>4
<1>4. DOMAIN target' = DOMAIN target /\ \A h \in DOMAIN target : target'[h] = Row2(h)
  BY <1>1
<1>5. disturbed \subseteq disturbed' /\ disturbed' \subseteq Hosts
  <2>1. Batch(g) \subseteq Hosts
    BY <1>2 DEF Flushing, Batch
  <2> QED
    BY <1>1, <2>1 DEF TableInv, CacheTypes
<1> HIDE DEF Row2
<1>6. CacheTypes'
  BY <1>1, <1>3, <1>4, <1>5 DEF TableInv, CacheTypes, IsTable
<1>7. \A e \in Gateways : flush'[e].at <= now
  BY FlushTime DEF FlushStep
<1>8. Past'
  BY <1>1, <1>3, <1>4, <1>7 DEF TableInv, Past
<1>9. \A h \in DOMAIN target' \ disturbed' : target'[h].edited <= target'[h].updateAt
  <2> SUFFICES ASSUME NEW h \in DOMAIN target, h \notin disturbed'
               PROVE  target'[h].edited <= target'[h].updateAt
    BY <1>4
  <2>1. target[h].edited <= target[h].updateAt
    BY <1>5 DEF TableInv, EditsKnown
  <2>2. target[h].edited \in Int /\ target[h].updateAt \in Nat /\ Row2(h).updateAt \in Nat
    BY <1>3 DEF Row
  <2>3. ~(Row2(h).updateAt < target[h].updateAt)
    BY <1>3
  <2> QED
    BY <1>3, <1>4, <2>1, <2>2, <2>3
<1>10. EditsKnown'
  BY <1>1, <1>3, <1>4, <1>5, <1>9 DEF TableInv, EditsKnown
<1> QED
  BY <1>6, <1>8, <1>10 DEF TableInv

\* INSERT: a new row was never edited; the cache may know it only from a row that
\* was deleted.
LEMMA InsertKnown ==
  ASSUME FlushShape, TableInv, NEW g \in Gateways, NEW h \in Hosts, Insert(g, h)
  PROVE  TableInv'
<1> DEFINE new == [updateAt |-> flush[g].at, content |-> NewContent, edited |-> -1]
<1>1. /\ DOMAIN target' = DOMAIN target \cup {h}
      /\ \A k \in DOMAIN target' : target'[k] = IF k \in DOMAIN target THEN target[k] ELSE new
      /\ UNCHANGED <<now, cache, stat, sync, disturbed>>
  BY DEF Insert, cacheVars, historyVars
<1>2. flush[g].at \in Nat /\ flush[g].at <= now /\ now \in Nat
  <2>1. flush[g].step # "idle" /\ flush[g] \in {Idle} \cup Flushing
    BY DEF Insert, FlushShape
  <2> QED
    BY <2>1 DEF Idle, TableInv, Past, FlushShape, Flushing
<1>3. new \in Row /\ new.updateAt <= now /\ new.edited <= now /\ new.edited <= new.updateAt
  BY <1>2, ContentsAssumption DEF Row
<1> HIDE DEF new
<1>4. CacheTypes'
  BY <1>1, <1>3 DEF TableInv, CacheTypes, IsTable
<1>5. \A e \in Gateways : flush'[e].at <= now
  BY FlushTime DEF FlushStep
<1>6. Past'
  BY <1>1, <1>3, <1>5 DEF TableInv, Past
<1>7. EditsKnown'
  BY <1>1, <1>3 DEF TableInv, EditsKnown
<1> QED
  BY <1>4, <1>6, <1>7 DEF TableInv

\* An edit is stamped with the clock; a deletion disturbs its host.
LEMMA EditKnown ==
  ASSUME FlushShape, TableInv, NEW h \in Hosts, Edit(h)
  PROVE  TableInv'
<1>1. PICK content \in Contents :
        target' = [target EXCEPT ![h] = [updateAt |-> now, content |-> content, edited |-> now]]
  BY DEF Edit
<1> DEFINE new == [updateAt |-> now, content |-> content, edited |-> now]
<1>2. /\ DOMAIN target' = DOMAIN target
      /\ \A k \in DOMAIN target : target'[k] = IF k = h THEN new ELSE target[k]
      /\ UNCHANGED <<now, flush, cache, stat, sync, disturbed>>
  BY <1>1 DEF Edit, gatewayVars, cacheVars, historyVars
<1>3. new \in Row /\ new.updateAt <= now /\ new.edited <= now /\ new.edited <= new.updateAt
      /\ new.edited = now
  BY DEF Row, FlushShape
<1> HIDE DEF new
<1>4. CacheTypes'
  BY <1>2, <1>3 DEF TableInv, CacheTypes, IsTable
<1>5. Past'
  BY <1>2, <1>3 DEF TableInv, Past
<1>6. EditsKnown'
  BY <1>2, <1>3 DEF TableInv, EditsKnown, Past
<1> QED
  BY <1>4, <1>5, <1>6 DEF TableInv

\* The cache may still hold a row that is gone: its host is disturbed.
LEMMA DeleteKnown ==
  ASSUME FlushShape, TableInv, NEW h \in Hosts, Delete(h)
  PROVE  TableInv'
<1>1. /\ DOMAIN target' = DOMAIN target \ {h}
      /\ \A k \in DOMAIN target' : target'[k] = target[k]
      /\ disturbed' = disturbed \cup {h}
      /\ UNCHANGED <<now, flush, cache, stat, sync>>
  BY DEF Delete, gatewayVars, cacheVars
<1>2. CacheTypes'
  BY <1>1 DEF TableInv, CacheTypes, IsTable
<1>3. Past'
  BY <1>1 DEF TableInv, Past
<1>4. EditsKnown'
  BY <1>1 DEF TableInv, EditsKnown
<1> QED
  BY <1>2, <1>3, <1>4 DEF TableInv

\* The rows are read after the statistics: at most they are newer.
LEMMA SyncKnown ==
  ASSUME FlushShape, TableInv, SyncStep
  PROVE  TableInv'
<1>1. UNCHANGED <<now, flush, target, disturbed>>
  BY DEF SyncStep, ReadStat, ReadRows, SyncFails, gatewayVars, historyVars
<1>2. CASE ReadStat
  <2>1. Statistics \in Stat /\ Statistics.last <= now
    BY StatisticsOf DEF FlushShape, TableInv, CacheTypes, Past
  <2>2. sync' = [step |-> "rows", stat |-> Statistics] /\ UNCHANGED <<cache, stat>>
    BY <1>2 DEF ReadStat
  <2>3. CacheTypes'
    BY <1>1, <2>1, <2>2 DEF TableInv, CacheTypes, IsTable
  <2>4. Past'
    BY <1>1, <2>1, <2>2 DEF TableInv, Past
  <2>5. EditsKnown'
    BY <1>1, <2>2 DEF TableInv, EditsKnown
  <2> QED
    BY <2>3, <2>4, <2>5 DEF TableInv
<1>3. CASE ReadRows
  <2>1. cache' = target /\ stat' = sync.stat /\ sync' = Waiting /\ sync.stat \in Stat
    BY <1>3 DEF ReadRows, TableInv, CacheTypes, Waiting
  <2>2. CacheTypes'
    BY <1>1, <2>1 DEF TableInv, CacheTypes, IsTable
  <2>3. Past'
    BY <1>1, <2>1 DEF TableInv, Past, Waiting, FlushShape
  <2>4. EditsKnown'
    BY <1>1, <2>1 DEF TableInv, EditsKnown
  <2> QED
    BY <2>2, <2>3, <2>4 DEF TableInv
<1>4. CASE SyncFails
  <2>1. sync' = Waiting /\ UNCHANGED <<cache, stat>>
    BY <1>4 DEF SyncFails
  <2>2. CacheTypes'
    BY <1>1, <2>1 DEF TableInv, CacheTypes, IsTable
  <2>3. Past'
    BY <1>1, <2>1 DEF TableInv, Past, Waiting, FlushShape
  <2>4. EditsKnown'
    BY <1>1, <2>1 DEF TableInv, EditsKnown
  <2> QED
    BY <2>2, <2>3, <2>4 DEF TableInv
<1> QED
  BY <1>2, <1>3, <1>4 DEF SyncStep

\* The invariant of the table is inductive.
LEMMA TableInvStep ==
  ASSUME FlushShape, FlushShape', TableInv, [Next]_vars
  PROVE  TableInv'
<1>1. CASE \E g \in Gateways, s \in Series : RemoteWrite(g, s)
  <2>1. UNCHANGED <<target, cacheVars, disturbed, now, flush>>
    BY <1>1 DEF RemoteWrite
  <2> QED
    BY <2>1, QuietKeeps DEF FlushShape, TableInv, Past
<1>2. ASSUME NEW g \in Gateways, FlushStep(g) \/ Restart(g)
      PROVE  TableInv'
  <2>1. CASE UpdateRows(g) \/ \E h \in Hosts : Insert(g, h)
    BY <2>1, UpdateRowsKnown, InsertKnown
  <2>2. CASE Persist(g) \/ NextBatch(g) \/ Pluck(g) \/ BatchFails(g) \/ Restart(g)
             \/ \E h \in Hosts : InsertFails(g, h)
    <3>1. UNCHANGED <<target, cacheVars, disturbed, now>>
      BY <2>2 DEF Persist, NextBatch, Pluck, BatchFails, InsertFails, Restart, historyVars
    <3>2. \A e \in Gateways : flush'[e].at <= now
      BY <1>2, FlushTime
    <3> QED
      BY <3>1, <3>2, QuietKeeps DEF FlushShape
  <2> QED
    BY <1>2, <2>1, <2>2 DEF FlushStep
<1>3. CASE Tick
  <2>1. UNCHANGED <<target, cacheVars, disturbed, flush>> /\ now' = now + 1
    BY <1>3 DEF Tick, gatewayVars, historyVars
  <2>2. \A e \in Gateways : flush[e].at \in Nat /\ flush[e].at <= now
    BY DEF FlushShape, Flushing, Idle, TableInv, Past
  <2> QED
    BY <2>1, <2>2, QuietKeeps DEF FlushShape
<1>4. CASE UNCHANGED vars
  <2>1. UNCHANGED <<target, cacheVars, disturbed, now, flush>>
    BY <1>4 DEF vars, gatewayVars, historyVars
  <2> QED
    BY <2>1, QuietKeeps DEF FlushShape, TableInv, Past
<1> QED
  BY <1>1, <1>2, <1>3, <1>4, EditKnown, DeleteKnown, SyncKnown DEF Next, OtherStep

\* When the cache sees no change in the statistics, it has missed at most edits of
\* the second they are from, rows that were deleted and rows a late flush has set
\* back: the statistics are read before the rows, and users stamp what they write.
THEOREM EditsAreSeen == Spec => []EditsSeen
<1>1. Init => FlushShape /\ NoReportLost /\ TableInv
  BY InitFlushShape, InitTableInv
<1>2. FlushShape /\ NoReportLost /\ TableInv /\ [Next]_vars
        => (FlushShape /\ NoReportLost /\ TableInv)'
  BY ReportsStep, TableInvStep
<1> QED
  BY <1>1, <1>2, EditsKnownAreSeen, PTL DEF Spec

-------------------------------------------------------------------------------
\* The counters stay within their bounds.
CountersOK ==
  /\ now \in 0..MaxTime
  /\ requests \in 0..MaxRequests /\ edits \in 0..MaxEdits /\ deletes \in 0..MaxDeletes
  /\ failures \in 0..MaxFailures /\ restarts \in 0..MaxRestarts

\* The bounded counters stay within their bounds.
LEMMA CountersStep ==
  ASSUME CountersOK, [Next]_vars
  PROVE  CountersOK'
<1> USE BoundsAssumption DEF CountersOK
<1>1. CASE \E g \in Gateways, s \in Series : RemoteWrite(g, s)
  BY <1>1 DEF RemoteWrite
<1>2. ASSUME NEW g \in Gateways, FlushStep(g) \/ Restart(g)
      PROVE  CountersOK'
  <2>1. CASE Persist(g) \/ NextBatch(g) \/ UpdateRows(g) \/ Pluck(g) \/ \E h \in Hosts : Insert(g, h)
    <3>1. UNCHANGED <<now, requests, edits, deletes, failures, restarts>>
      BY <2>1 DEF Persist, NextBatch, UpdateRows, Pluck, Insert, boundVars
    <3> QED
      BY <3>1
  <2>2. CASE BatchFails(g) \/ \E h \in Hosts : InsertFails(g, h)
    <3>1. /\ UNCHANGED <<now, requests, edits, deletes, restarts>>
          /\ failures < MaxFailures /\ failures' = failures + 1
      BY <2>2 DEF BatchFails, InsertFails
    <3> QED
      BY <3>1
  <2>3. CASE Restart(g)
    BY <2>3 DEF Restart
  <2> QED
    BY <1>2, <2>1, <2>2, <2>3 DEF FlushStep
<1>3. ASSUME NEW h \in Hosts, Edit(h) \/ Delete(h)
      PROVE  CountersOK'
  <2>1. CASE Edit(h)
    BY <2>1 DEF Edit
  <2>2. CASE Delete(h)
    BY <2>2 DEF Delete
  <2> QED
    BY <1>3, <2>1, <2>2
<1>4. CASE SyncStep
  <2>1. CASE ReadStat \/ ReadRows
    BY <2>1 DEF ReadStat, ReadRows, boundVars
  <2>2. CASE SyncFails
    BY <2>2 DEF SyncFails
  <2> QED
    BY <1>4, <2>1, <2>2 DEF SyncStep
<1>5. CASE Tick \/ UNCHANGED vars
  BY <1>5 DEF Tick, vars, boundVars
<1> QED
  BY <1>1, <1>2, <1>3, <1>4, <1>5 DEF Next, OtherStep

\* The batches of the gateways, the rows of the table and of its copy, the
\* statistics and the counters keep their types (TypeOK).
THEOREM TypeCorrect == Spec => []TypeOK
<1> DEFINE TInv == GatewayTypes /\ NoReportLost /\ TableInv /\ CountersOK
<1>1. Init => TInv
  <2> SUFFICES ASSUME Init PROVE TInv
    OBVIOUS
  <2>1. FlushShape /\ NoReportLost /\ TableInv
    BY InitFlushShape, InitTableInv
  <2>2. \A g \in Gateways : Batch(g) = {}
    BY DEF Init, Batch, Idle
  <2>3. GatewayTypes
    BY <2>1, <2>2, FS_EmptySet, BatchAssumption DEF GatewayTypes
  <2>4. CountersOK
    BY BoundsAssumption DEF Init, CountersOK
  <2> QED
    BY <2>1, <2>3, <2>4
<1>2. TInv /\ [Next]_vars => TInv'
  <2> SUFFICES ASSUME TInv, [Next]_vars PROVE TInv'
    OBVIOUS
  <2>1. (FlushShape /\ NoReportLost)'
    BY ReportsStep DEF GatewayTypes
  <2>2. TableInv' /\ CountersOK'
    BY <2>1, TableInvStep, CountersStep DEF GatewayTypes
  <2>3. GatewayTypes'
    <3>1. CASE \E g \in Gateways : FlushStep(g) \/ Restart(g)
      BY <2>1, <3>1, GatewayTypesKept
    <3>2. CASE UNCHANGED flush
      BY <2>1, <3>2 DEF GatewayTypes, Batch
    <3>3. CASE \E g \in Gateways, s \in Series : RemoteWrite(g, s)
      BY <3>2, <3>3 DEF RemoteWrite
    <3>4. CASE (\E h \in Hosts : Edit(h) \/ Delete(h)) \/ SyncStep \/ Tick \/ UNCHANGED vars
      BY <3>2, <3>4 DEF Edit, Delete, SyncStep, ReadStat, ReadRows, SyncFails, Tick, vars, gatewayVars
    <3> QED
      BY <3>1, <3>3, <3>4 DEF Next, OtherStep
  <2> QED
    BY <2>1, <2>2, <2>3
<1>3. TInv => TypeOK
  BY DEF GatewayTypes, FlushShape, TableInv, CacheTypes, CountersOK, TypeOK, Batch
<1> QED
  BY <1>1, <1>2, <1>3, PTL DEF Spec
-------------------------------------------------------------------------------
\* Labels, with the name the route gives to that of the host (the provers know no
\* literal to be a STRING), and what an assignment to one field leaves of a label.
RouteLabel == [name : STRING \cup {"ident"}, value : STRING]

\* An assignment to one field of a label leaves the other.
LEMMA Renamed ==
  ASSUME NEW l \in RouteLabel, NEW v
  PROVE  /\ v = "ident" => [l EXCEPT !.name = v] \in RouteLabel
         /\ [l EXCEPT !.name = v].name = v
         /\ [l EXCEPT !.value = v].name = l.name
BY DEF RouteLabel

\* A series without a name twice keeps that when its label of the host is
\* renamed: a label ident, if there is one, is the label of the host.
LEMMA WithIdentUnique ==
  ASSUME NEW s \in Seq(Label), ~Duplicate(s), NEW ignore
  PROVE  WithIdent(s, ignore) \in Seq(RouteLabel) /\ ~Duplicate(WithIdent(s, ignore))
<1> DEFINE w == WithIdent(s, ignore)
           name == IdentName(s, ignore)
<1>1. \A i \in DOMAIN s : s[i] \in RouteLabel
  <2>1. \A i \in DOMAIN s : s[i] \in Label
    OBVIOUS
  <2>2. \A l \in Label : l \in RouteLabel
    BY DEF Label, RouteLabel
  <2> QED
    BY <2>1, <2>2
<1>2. "ident" \in Names(s) => name = "ident"
  <2> SUFFICES ASSUME "ident" \in Names(s) PROVE name = "ident"
    OBVIOUS
  <2> DEFINE names == IdentNames(ignore)
             present == { i \in DOMAIN names : names[i] \in Names(s) }
             rest == IF ignore THEN <<>> ELSE <<"host">>
  <2>1. names = <<"ident", "agent_hostname">> \o rest /\ rest \in Seq({"host"})
    <3>1. rest \in Seq({"host"})
      <4>1. CASE ignore
        BY <4>1
      <4>2. CASE ~ignore
        <5>1. rest = <<"host">>
          BY <4>2
        <5>2. <<"host">> \in Seq({"host"})
          OBVIOUS
        <5> HIDE DEF rest
        <5> QED
          BY <5>1, <5>2
      <4> QED
        BY <4>1, <4>2
    <3> QED
      BY <3>1 DEF IdentNames
  <2>2. 1 \in DOMAIN names /\ names[1] = "ident" /\ \A i \in DOMAIN names : i \in Nat /\ 1 <= i
    BY <2>1
  <2>3. name = IF present = {} THEN "" ELSE names[Min(present)]
    BY DEF IdentName
  <2>4. 1 \in present /\ \A i \in present : i \in Nat /\ 1 <= i
    BY <2>2
  <2> HIDE DEF present, names
  <2>5. Min(present) = 1
    BY <2>4 DEF Min
  <2> QED
    BY <2>2, <2>3, <2>4, <2>5
<1>3. w = [i \in DOMAIN s |-> IF s[i].name = name THEN [s[i] EXCEPT !.name = "ident"] ELSE s[i]]
  BY DEF WithIdent
<1> HIDE DEF w, name
<1>4. DOMAIN w = DOMAIN s
      /\ \A i \in DOMAIN s : /\ w[i] \in RouteLabel
                             /\ w[i].name = IF s[i].name = name THEN "ident" ELSE s[i].name
  <2>1. DOMAIN w = DOMAIN s
    BY <1>3
  <2>2. ASSUME NEW i \in DOMAIN s
        PROVE  /\ w[i] \in RouteLabel
               /\ w[i].name = IF s[i].name = name THEN "ident" ELSE s[i].name
    <3>1. CASE s[i].name = name
      <4>1. w[i] = [s[i] EXCEPT !.name = "ident"]
        BY <1>3, <3>1
      <4>2. s[i] \in RouteLabel
        BY <1>1
      <4>3. [s[i] EXCEPT !.name = "ident"] \in RouteLabel /\ [s[i] EXCEPT !.name = "ident"].name = "ident"
        BY <4>2, Renamed
      <4> QED
        BY <3>1, <4>1, <4>3
    <3>2. CASE s[i].name # name
      BY <1>1, <1>3, <3>2
    <3> QED
      BY <3>1, <3>2
  <2> QED
    BY <2>1, <2>2
<1>5. w \in Seq(RouteLabel)
  <2>1. w \in [1..Len(s) -> RouteLabel] /\ Len(s) \in Nat
    BY <1>3, <1>4
  <2> QED
    BY <1>4, <2>1
<1>6. ~Duplicate(w)
  <2> SUFFICES ASSUME NEW i \in DOMAIN s, NEW j \in DOMAIN s, i # j, w[i].name = w[j].name
               PROVE  FALSE
    BY <1>4 DEF Duplicate
  <2>1. s[i].name # s[j].name
    BY DEF Duplicate
  <2>2. s[i].name \in Names(s) /\ s[j].name \in Names(s)
    BY DEF Names
  <2> QED
    BY <1>2, <1>4, <2>1, <2>2
<1> QED
  BY <1>5, <1>6 DEF w

\* The new labels have the names they are made of, each once.
LEMMA NewLabelsUnique ==
  ASSUME NEW tags, NEW names \in SUBSET DOMAIN tags, IsFiniteSet(names)
  PROVE  LET labels == NewLabels(tags, names)
         IN  /\ labels \in Seq({ [name |-> name, value |-> tags[name]] : name \in names })
             /\ \A i \in DOMAIN labels : labels[i].name \in names
             /\ ~Duplicate(labels)
<1> DEFINE S == { [name |-> name, value |-> tags[name]] : name \in names }
           labels == NewLabels(tags, names)
<1>1. IsFiniteSet(S)
  <2> DEFINE f == [name \in names |-> [name |-> name, value |-> tags[name]]]
  <2>1. f \in Surjection(names, S)
    BY DEF Surjection
  <2> HIDE DEF f, S
  <2> QED
    BY <2>1, FS_Surjection
<1>2. \A x, y \in S : x.name = y.name => x = y
  OBVIOUS
<1>3. \A x \in S : x.name \in names
  OBVIOUS
<1>4. labels = SetToSeq(S)
  BY DEF NewLabels
<1> HIDE DEF S, labels
<1>5. Cardinality(S) \in Nat /\ \E f \in [1..Cardinality(S) -> S] : IsInjective(f)
  <2>1. Cardinality(S) \in Nat /\ ExistsBijection(1..Cardinality(S), S)
    BY <1>1, FS_CardinalityType
  <2>2. PICK f \in Bijection(1..Cardinality(S), S) : TRUE
    BY <2>1 DEF ExistsBijection
  <2>3. f \in [1..Cardinality(S) -> S] /\ IsInjective(f)
    BY <2>2 DEF Bijection, Injection, IsInjective
  <2> QED
    BY <2>1, <2>3
<1>6. labels \in [1..Cardinality(S) -> S] /\ IsInjective(labels)
  BY <1>4, <1>5 DEF SetToSeq
<1>7. labels \in Seq(S)
  BY <1>5, <1>6
<1>8. ~Duplicate(labels)
  BY <1>2, <1>6 DEF Duplicate, IsInjective
<1> QED
  BY <1>3, <1>6, <1>7, <1>8 DEF S, labels

\* Two sequences that have no name twice and none in common.
LEMMA JoinedUnique ==
  ASSUME NEW S, NEW T, NEW s \in Seq(S), NEW t \in Seq(T), ~Duplicate(s), ~Duplicate(t),
         \A i \in DOMAIN s, j \in DOMAIN t : s[i].name # t[j].name
  PROVE  ~Duplicate(s \o t)
<1> SUFFICES ASSUME NEW i \in DOMAIN (s \o t), NEW j \in DOMAIN (s \o t), i # j,
                    (s \o t)[i].name = (s \o t)[j].name
             PROVE  FALSE
  BY DEF Duplicate
<1>1. \A k \in DOMAIN (s \o t) :
        /\ k \in Nat
        /\ k <= Len(s) => k \in DOMAIN s /\ (s \o t)[k] = s[k]
        /\ ~(k <= Len(s)) => k - Len(s) \in DOMAIN t /\ (s \o t)[k] = t[k - Len(s)]
  OBVIOUS
<1>2. Len(s) \in Nat
  OBVIOUS
<1>3. CASE i <= Len(s) /\ j <= Len(s)
  BY <1>1, <1>3 DEF Duplicate
<1>4. CASE ~(i <= Len(s)) /\ ~(j <= Len(s))
  <2>1. i - Len(s) # j - Len(s)
    BY <1>1, <1>2
  <2> QED
    BY <1>1, <1>4, <2>1 DEF Duplicate
<1>5. CASE (i <= Len(s) /\ ~(j <= Len(s))) \/ (j <= Len(s) /\ ~(i <= Len(s)))
  BY <1>1, <1>5
<1> QED
  BY <1>3, <1>4, <1>5

\* The tags that are appended are those the series lacks.
LEMMA AppendTagsUnique ==
  ASSUME NEW s \in Seq(RouteLabel), ~Duplicate(s), NEW tags, IsFiniteSet(DOMAIN tags)
  PROVE  LET w == AppendTags(s, tags)
         IN  /\ ~Duplicate(w)
             /\ \E S : w \in Seq(S)
             /\ \A i \in DOMAIN w : w[i].name \in Names(s) \cup DOMAIN tags
<1> DEFINE kept == [ i \in DOMAIN s |->
                      IF LabelRewrite /\ s[i].name \in DOMAIN tags
                        THEN [s[i] EXCEPT !.value = tags[s[i].name]] ELSE s[i] ]
           new == NewLabels(tags, DOMAIN tags \ Names(s))
           N == { [name |-> name, value |-> tags[name]] : name \in DOMAIN tags \ Names(s) }
<1>1. /\ new \in Seq(N)
      /\ \A i \in DOMAIN new : new[i].name \in DOMAIN tags \ Names(s)
      /\ ~Duplicate(new)
  <2>1. IsFiniteSet(DOMAIN tags \ Names(s))
    BY FS_Subset
  <2> QED
    BY <2>1, NewLabelsUnique
<1>2. /\ kept \in Seq({kept[i] : i \in DOMAIN s}) /\ DOMAIN kept = DOMAIN s
      /\ \A i \in DOMAIN s : kept[i].name = s[i].name
  <2>1. ASSUME NEW i \in DOMAIN s PROVE kept[i].name = s[i].name
    <3>1. s[i] \in RouteLabel
      OBVIOUS
    <3>2. [s[i] EXCEPT !.value = tags[s[i].name]].name = s[i].name
      BY <3>1, Renamed
    <3> QED
      BY <3>2
  <2>2. DOMAIN s = 1..Len(s) /\ Len(s) \in Nat
    OBVIOUS
  <2>3. DOMAIN kept = DOMAIN s
    OBVIOUS
  <2>4. kept = [i \in DOMAIN s |-> kept[i]]
    OBVIOUS
  <2> HIDE DEF kept
  <2> QED
    BY <2>1, <2>2, <2>3, <2>4
<1>3. AppendTags(s, tags) = kept \o new
  BY DEF AppendTags
<1> HIDE DEF kept, new, N
<1>4. ~Duplicate(kept) /\ \A i \in DOMAIN s : s[i].name \in Names(s)
  BY <1>2 DEF Duplicate, Names
<1>5. ~Duplicate(kept \o new)
  BY <1>1, <1>2, <1>4, JoinedUnique
<1> DEFINE K == {kept[i] : i \in DOMAIN s}
<1>6. kept \in Seq(K \cup N) /\ new \in Seq(K \cup N)
  BY <1>1, <1>2
<1> HIDE DEF K
<1>7. kept \o new \in Seq(K \cup N)
  BY <1>6
<1>8. ASSUME NEW i \in DOMAIN (kept \o new)
      PROVE  (kept \o new)[i].name \in Names(s) \cup DOMAIN tags
  <2>1. \/ i \in DOMAIN kept /\ (kept \o new)[i] = kept[i]
        \/ \E j \in DOMAIN new : (kept \o new)[i] = new[j]
    <3>1. i \in Nat /\ Len(kept) \in Nat
      BY <1>6
    <3>2. i <= Len(kept) => i \in DOMAIN kept /\ (kept \o new)[i] = kept[i]
      BY <1>6, <3>1
    <3>3. ~(i <= Len(kept)) => i - Len(kept) \in DOMAIN new /\ (kept \o new)[i] = new[i - Len(kept)]
      BY <1>6, <3>1
    <3> QED
      BY <3>2, <3>3
  <2> QED
    BY <1>1, <1>2, <1>4, <2>1
<1> QED
  BY <1>3, <1>5, <1>7, <1>8

\* The labels of a host that the cache knows: no name comes twice, unless a tag has
\* the key of the business groups.
LEMMA AppendLabelsUnique ==
  ASSUME NEW s \in Seq(RouteLabel), ~Duplicate(s), NEW tags, IsFiniteSet(DOMAIN tags), NEW group,
         BusiGroupLabelKey \notin DOMAIN tags
  PROVE  ~Duplicate(AppendLabels(s, tags, group))
<1> DEFINE w == AppendTags(s, tags)
           label == [name |-> BusiGroupLabelKey, value |-> GroupLabels[group]]
<1>1. PICK S : w \in Seq(S)
  BY AppendTagsUnique
<1>2. ~Duplicate(w) /\ \A i \in DOMAIN w : w[i].name \in Names(s) \cup DOMAIN tags
  BY AppendTagsUnique
<1>3. /\ <<label>> \in Seq({label}) /\ ~Duplicate(<<label>>)
      /\ \A j \in DOMAIN <<label>> : <<label>>[j].name = BusiGroupLabelKey
  BY DEF Duplicate
<1>4. AppendLabels(s, tags, group) \in {w} \/
        (BusiGroupLabelKey \notin Names(s) /\ AppendLabels(s, tags, group) = w \o <<label>>)
  BY DEF AppendLabels
<1> HIDE DEF w, label
<1>5. BusiGroupLabelKey \notin Names(s) => ~Duplicate(w \o <<label>>)
  <2> SUFFICES ASSUME BusiGroupLabelKey \notin Names(s) PROVE ~Duplicate(w \o <<label>>)
    OBVIOUS
  <2>1. \A i \in DOMAIN w, j \in DOMAIN <<label>> : w[i].name # <<label>>[j].name
    BY <1>2, <1>3
  <2> QED
    BY <1>1, <1>2, <1>3, <2>1, JoinedUnique
<1> QED
  BY <1>2, <1>4, <1>5

\* The labels the center forwards have no name twice, whatever tags the cache has for
\* the host; the exception is a tag with the key of the business groups
\* (AppendLabels looks only at the labels the series came with).
THEOREM ForwardedUnique == Spec => LabelsUnique
<1> DEFINE Unique == \/ ~Duplicate(forwarded')
                     \/ \E h \in DOMAIN cache : BusiGroupLabelKey \in DOMAIN cache[h].content.tags
<1>1. TypeOK /\ [Next]_vars => [forwarded' # NoSeries => Unique]_vars
  <2> SUFFICES ASSUME TypeOK, Next, forwarded' # NoSeries PROVE Unique
    OBVIOUS
  <2>1. PICK g \in Gateways, s \in Series : RemoteWrite(g, s)
    BY DEF Next
  <2>2. forwarded' = Labelled(s) /\ ~Duplicate(s) /\ s \in Seq(Label)
    BY <2>1, SeriesAssumption DEF RemoteWrite
  <2> DEFINE series == WithIdent(s, IgnoreIdent)
             h == Ident(s, IgnoreIdent)
  <2>3. series \in Seq(RouteLabel) /\ ~Duplicate(series)
    BY <2>2, WithIdentUnique
  <2>4. Labelled(s) = IF h \in DOMAIN cache
                        THEN AppendLabels(series, cache[h].content.tags, cache[h].content.group)
                        ELSE series
    BY DEF Labelled
  <2> HIDE DEF series, h
  <2>5. CASE h \in DOMAIN cache
    <3>1. cache[h].content \in Contents
      BY <2>5 DEF TypeOK, IsTable, Row
    <3>2. IsFiniteSet(DOMAIN cache[h].content.tags)
      BY <3>1, ContentsAssumption
    <3>3. CASE BusiGroupLabelKey \in DOMAIN cache[h].content.tags
      BY <2>5, <3>3
    <3>4. CASE BusiGroupLabelKey \notin DOMAIN cache[h].content.tags
      BY <2>2, <2>3, <2>4, <2>5, <3>2, <3>4, AppendLabelsUnique
    <3> QED
      BY <3>3, <3>4
  <2>6. CASE h \notin DOMAIN cache
    BY <2>2, <2>3, <2>4, <2>6
  <2> QED
    BY <2>5, <2>6
<1> QED
  BY <1>1, TypeCorrect, PTL DEF Spec, LabelsUnique
===============================================================================
