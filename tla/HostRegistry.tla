----------------------------- MODULE HostRegistry -----------------------------
(***************************************************************************)
(* How a host gets known: the push gateways collect the idents of the      *)
(* samples they receive (pushgw/idents), each flushes them once a second   *)
(* in batches to the table target, and the target cache of the center      *)
(* (memsto) copies the table whenever the number of its rows or its latest *)
(* update_at has changed.  The route reads the cache to label the samples. *)
(*                                                                         *)
(* Every statement is a step of its own, so that gateways, the cache and   *)
(* users interleave between any two of them.  All the caches of memsto     *)
(* synchronise this way.                                                   *)
(***************************************************************************)
EXTENDS SampleLabels, Integers

CONSTANTS
  Hosts,         \* the idents
  Gateways,      \* the engines with an IdentSet
  Center,        \* the gateway whose target cache this is
  Series,        \* the series that requests bring
  IgnoreIdent,   \* their query parameter ignore_ident
  Contents,      \* what a user writes into a row: [tags, group]
  NewContent,    \* the content of an inserted row
  BatchSize,     \* 100 idents a statement
  MaxTime,       \* bound: the clock stops here
  MaxRequests, MaxEdits, MaxDeletes, MaxFailures, MaxRestarts   \* bounds of these steps

ASSUME HostsAssumption == IsFiniteSet(Hosts) /\ Center \in Gateways
ASSUME SeriesAssumption ==
  \A s \in Series :
    /\ s \in Seq(Label)
    /\ HasIdent(s, IgnoreIdent) /\ ~Duplicate(s) => Ident(s, IgnoreIdent) \in Hosts
ASSUME ContentsAssumption ==
  NewContent \in Contents /\ \A c \in Contents : IsFiniteSet(DOMAIN c.tags)
ASSUME BatchAssumption == BatchSize \in Nat \ {0}
ASSUME BoundsAssumption == {MaxTime, MaxRequests, MaxEdits, MaxDeletes, MaxFailures, MaxRestarts} \subseteq Nat

VARIABLES
  now,           \* time.Now().Unix()
  items,         \* Set.items of each gateway
  flush,         \* what LoopPersist of each gateway does
  target,        \* the table target: host -> row
  cache,         \* TargetCacheType.targets: host -> row
  stat,          \* statTotal and statLastUpdated of the cache
  sync,          \* what loopSyncTargets does
  forwarded,     \* the series the last step forwarded from the center
  owed,          \* history: hosts that reported and that no fault has lost
  disturbed,     \* history: hosts whose row was deleted, or whose update_at a late
                 \* flush has set back
  requests, edits, deletes, failures, restarts   \* counters of the bounded steps

gatewayVars == <<items, flush>>
cacheVars == <<cache, stat, sync>>
historyVars == <<owed, disturbed>>
boundVars == <<requests, edits, deletes, failures, restarts>>
vars == <<now, gatewayVars, target, cacheVars, forwarded, historyVars, boundVars>>

\* edited: history, the second of the last edit by a user
Row == [updateAt : Nat, content : Contents, edited : Int]
Stat == [total : Nat, last : Nat]

Idle == [step |-> "idle", todo |-> {}, batch |-> {}, at |-> 0]
Flushing == [step : {"batch", "update", "pluck", "insert"}, todo : SUBSET Hosts,
             batch : SUBSET Hosts, at : Nat]
Waiting == [step |-> "idle", stat |-> [total |-> 0, last |-> 0]]

NoSeries == <<>>

IsTable(t) == DOMAIN t \subseteq Hosts /\ \A h \in DOMAIN t : t[h] \in Row

TypeOK ==
  /\ now \in 0..MaxTime
  /\ items \in [Gateways -> SUBSET Hosts]
  /\ flush \in [Gateways -> {Idle} \cup Flushing]
  /\ \A g \in Gateways : Cardinality(flush[g].batch) <= BatchSize
  /\ IsTable(target) /\ IsTable(cache)
  /\ stat \in Stat
  /\ sync \in {Waiting} \cup [step : {"rows"}, stat : Stat]
  /\ owed \subseteq Hosts /\ disturbed \subseteq Hosts
  /\ requests \in 0..MaxRequests /\ edits \in 0..MaxEdits /\ deletes \in 0..MaxDeletes
  /\ failures \in 0..MaxFailures /\ restarts \in 0..MaxRestarts

Init ==
  /\ now = 0
  /\ items = [g \in Gateways |-> {}]
  /\ flush = [g \in Gateways |-> Idle]
  /\ target = [h \in {} |-> 0] /\ cache = target
  /\ stat = [total |-> 0, last |-> 0]
  /\ sync = Waiting
  /\ forwarded = NoSeries
  /\ owed = {} /\ disturbed = {}
  /\ requests = 0 /\ edits = 0 /\ deletes = 0 /\ failures = 0 /\ restarts = 0

-------------------------------------------------------------------------------
\* The gateways.

\* remoteWrite, for a series that names its host: the labels of the host as the
\* cache knows it, the series to its queue, the ident to the set (MSet).  A series
\* with duplicate labels is skipped, one without a host changes nothing here.
Labelled(s) ==
  LET series == WithIdent(s, IgnoreIdent)
      h      == Ident(s, IgnoreIdent)
  IN  IF h \in DOMAIN cache
        THEN AppendLabels(series, cache[h].content.tags, cache[h].content.group)
        ELSE series

RemoteWrite(g, s) ==
  /\ requests < MaxRequests
  /\ requests' = requests + 1
  /\ ~Duplicate(s) /\ HasIdent(s, IgnoreIdent)
  /\ forwarded' = IF g = Center THEN Labelled(s) ELSE NoSeries
  /\ items' = [items EXCEPT ![g] = @ \cup {Ident(s, IgnoreIdent)}]
  /\ owed' = owed \cup {Ident(s, IgnoreIdent)}
  /\ UNCHANGED <<now, flush, target, cacheVars, disturbed, edits, deletes, failures, restarts>>

\* persist: the lock is held to take the idents over, not while they are flushed
Persist(g) ==
  /\ flush[g] = Idle /\ items[g] # {}
  /\ flush' = [flush EXCEPT ![g] = [step |-> "batch", todo |-> items[g], batch |-> {}, at |-> now]]
  /\ items' = [items EXCEPT ![g] = {}]
  /\ UNCHANGED <<now, target, cacheVars, historyVars, boundVars>>

\* Mutant of FullBatch: the batch is cut one host too late.
FullBatchAndOne(todo) ==
  IF Cardinality(todo) < BatchSize + 1 THEN Cardinality(todo) ELSE BatchSize + 1

\* updateTimestamp: 100 idents, the last batch what is left
FullBatch(todo) == IF Cardinality(todo) < BatchSize THEN Cardinality(todo) ELSE BatchSize

\* Mutant of NextBatch: the set is made anew when the flush has ended.
NextBatchClears(g) ==
  /\ flush[g].step = "batch"
  /\ \E batch \in kSubset(FullBatch(flush[g].todo), flush[g].todo) :
       /\ flush' = [flush EXCEPT ![g] =
            IF batch = {} THEN Idle
            ELSE [@ EXCEPT !.step = "update", !.batch = batch, !.todo = flush[g].todo \ batch]]
       /\ items' = IF batch = {} THEN [items EXCEPT ![g] = {}] ELSE items
  /\ UNCHANGED <<now, target, cacheVars, historyVars, boundVars>>

\* updateTimestamp: the next batch of the map, in any order; `now` stays
NextBatch(g) ==
  /\ flush[g].step = "batch"
  /\ \E batch \in kSubset(FullBatch(flush[g].todo), flush[g].todo) :
       flush' = [flush EXCEPT ![g] =
         IF batch = {} THEN Idle
         ELSE [@ EXCEPT !.step = "update", !.batch = batch, !.todo = flush[g].todo \ batch]]
  /\ UNCHANGED <<now, items, target, cacheVars, historyVars, boundVars>>

Batch(g) == flush[g].batch
NewHosts(g) == Batch(g) \ DOMAIN target
Goto(g, step, batch) == flush' = [flush EXCEPT ![g].step = step, ![g].batch = batch]

\* UpdateTargets: UPDATE target SET update_at; done if it affects all the rows
UpdateRows(g) ==
  /\ flush[g].step = "update"
  /\ target' = [h \in DOMAIN target |->
       IF h \in Batch(g) THEN [target[h] EXCEPT !.updateAt = flush[g].at] ELSE target[h]]
  /\ disturbed' = disturbed \cup { h \in Batch(g) \ NewHosts(g) : target[h].updateAt > flush[g].at }
  /\ IF NewHosts(g) = {} THEN Goto(g, "batch", {}) ELSE Goto(g, "pluck", Batch(g))
  /\ UNCHANGED <<now, items, cacheVars, owed, boundVars>>

\* UpdateTargets: SELECT ident, and the idents that are not there
Pluck(g) ==
  /\ flush[g].step = "pluck"
  /\ IF NewHosts(g) = {} THEN Goto(g, "batch", {}) ELSE Goto(g, "insert", NewHosts(g))
  /\ UNCHANGED <<now, items, target, cacheVars, historyVars, boundVars>>

Inserted(g, h) == Goto(g, IF Batch(g) = {h} THEN "batch" ELSE "insert", Batch(g) \ {h})

\* UpdateTargets: INSERT INTO target; ident is unique, a second row is an error
\* that is only logged
Insert(g, h) ==
  /\ flush[g].step = "insert" /\ h \in Batch(g)
  /\ target' = [k \in DOMAIN target \cup {h} |->
       IF k \in DOMAIN target THEN target[k]
       ELSE [updateAt |-> flush[g].at, content |-> NewContent, edited |-> -1]]
  /\ Inserted(g, h)
  /\ UNCHANGED <<now, items, cacheVars, historyVars, boundVars>>

\* A statement fails: that of a batch gives the batch up, an INSERT its host.
BatchFails(g) ==
  /\ failures < MaxFailures
  /\ flush[g].step \in {"update", "pluck"}
  /\ failures' = failures + 1
  /\ owed' = owed \ Batch(g)
  /\ Goto(g, "batch", {})
  /\ UNCHANGED <<now, items, target, cacheVars, disturbed, requests, edits, deletes, restarts>>

InsertFails(g, h) ==
  /\ failures < MaxFailures
  /\ flush[g].step = "insert" /\ h \in Batch(g)
  /\ failures' = failures + 1
  /\ owed' = owed \ {h}
  /\ Inserted(g, h)
  /\ UNCHANGED <<now, items, target, cacheVars, disturbed, requests, edits, deletes, restarts>>

\* A gateway restarts: what it has not stored is gone until the hosts report again.
Restart(g) ==
  /\ restarts < MaxRestarts
  /\ restarts' = restarts + 1
  /\ owed' = owed \ (items[g] \cup flush[g].todo \cup Batch(g))
  /\ items' = [items EXCEPT ![g] = {}]
  /\ flush' = [flush EXCEPT ![g] = Idle]
  /\ UNCHANGED <<now, target, cacheVars, disturbed, requests, edits, deletes, failures>>

-------------------------------------------------------------------------------
\* Users.

\* AddTags, DelTags, TargetUpdateNote, TargetUpdateBgid: all write update_at
Edit(h) ==
  /\ edits < MaxEdits /\ h \in DOMAIN target
  /\ \E content \in Contents \ {target[h].content} :
       target' = [target EXCEPT ![h] = [updateAt |-> now, content |-> content, edited |-> now]]
  /\ edits' = edits + 1
  /\ UNCHANGED <<now, gatewayVars, cacheVars, historyVars, requests, deletes, failures,
                 restarts>>

\* TargetDel
Delete(h) ==
  /\ deletes < MaxDeletes /\ h \in DOMAIN target
  /\ target' = [k \in DOMAIN target \ {h} |-> target[k]]
  /\ owed' = owed \ {h}
  /\ disturbed' = disturbed \cup {h}
  /\ deletes' = deletes + 1
  /\ UNCHANGED <<now, gatewayVars, cacheVars, requests, edits, failures, restarts>>

-------------------------------------------------------------------------------
\* The cache.

\* TargetStatistics: count(*), max(update_at)
Statistics ==
  [ total |-> Cardinality(DOMAIN target),
    last  |-> Max({0} \cup { target[h].updateAt : h \in DOMAIN target }) ]

\* Mutants of StatChanged: one of the two numbers is not compared.
StatChangedByTotal(s) == stat.total # s.total
StatChangedByTime(s) == stat.last # s.last

StatChanged(s) == stat # s

\* syncTargets: the statistics; nothing to do if they have not changed
ReadStat ==
  /\ sync = Waiting /\ StatChanged(Statistics)
  /\ sync' = [step |-> "rows", stat |-> Statistics]
  /\ UNCHANGED <<now, gatewayVars, target, cache, stat, historyVars, boundVars>>

\* syncTargets: TargetGetsAll, then Set with the statistics read before
ReadRows ==
  /\ sync.step = "rows"
  /\ cache' = target
  /\ stat' = sync.stat
  /\ sync' = Waiting
  /\ UNCHANGED <<now, gatewayVars, target, historyVars, boundVars>>

\* Mutant of SyncFails: the statistics are kept although the rows were not read.
SyncFailsWithStat ==
  /\ failures < MaxFailures
  /\ sync.step = "rows"
  /\ failures' = failures + 1
  /\ stat' = sync.stat
  /\ sync' = Waiting
  /\ UNCHANGED <<now, gatewayVars, target, cache, historyVars, requests, edits, deletes,
                 restarts>>

\* The query of the rows fails: the next synchronisation starts over.
SyncFails ==
  /\ failures < MaxFailures
  /\ sync.step = "rows"
  /\ failures' = failures + 1
  /\ sync' = Waiting
  /\ UNCHANGED <<now, gatewayVars, target, cache, stat, historyVars, requests, edits, deletes,
                 restarts>>

Tick ==
  /\ now < MaxTime
  /\ now' = now + 1
  /\ UNCHANGED <<gatewayVars, target, cacheVars, historyVars, boundVars>>

FlushStep(g) ==
  \/ Persist(g) \/ NextBatch(g) \/ UpdateRows(g) \/ Pluck(g) \/ BatchFails(g)
  \/ \E h \in Hosts : Insert(g, h) \/ InsertFails(g, h)
SyncStep == ReadStat \/ ReadRows \/ SyncFails

OtherStep ==
  \/ \E g \in Gateways : FlushStep(g) \/ Restart(g)
  \/ \E h \in Hosts : Edit(h) \/ Delete(h)
  \/ SyncStep
  \/ Tick

Next ==
  \/ \E g \in Gateways, s \in Series : RemoteWrite(g, s)
  \/ OtherStep /\ forwarded' = NoSeries

Spec == Init /\ [][Next]_vars

\* LoopPersist and loopSyncTargets are endless loops of goroutines of their own.
Fairness ==
  /\ WF_vars(SyncStep /\ forwarded' = NoSeries)
  /\ \A g \in Gateways : WF_vars(FlushStep(g) /\ forwarded' = NoSeries)

FairSpec == Spec /\ Fairness

-------------------------------------------------------------------------------
\* Properties

\* A host that reported is in the table or on its way there: taking the idents
\* over, batching them, and the races of several gateways for one host lose none.
OnItsWay(h) == \E g \in Gateways : h \in items[g] \cup flush[g].todo \cup Batch(g)
NoReportLost == \A h \in owed : h \in DOMAIN target \/ OnItsWay(h)

\* When the cache sees no change in the statistics, it has all the
\* hosts of the table and no others, as long as no row was deleted: then a second
\* row could have taken its place in the count.
CacheComplete == deletes = 0 /\ ~StatChanged(Statistics) => DOMAIN cache = DOMAIN target

\* When the cache sees no change in the statistics, the only edits it can
\* have missed are those of the second its statistics are from.  Rows that were
\* deleted and inserted again, and rows whose update_at a flush that started before
\* the edit has set back, are beyond what the statistics can tell.
EditsSeen ==
  ~StatChanged(Statistics) =>
    \A h \in DOMAIN target \cap DOMAIN cache :
      \/ cache[h].content = target[h].content
      \/ target[h].edited = stat.last
      \/ h \in disturbed

\* A host that reports gets into the cache, whatever fails on the way, unless a
\* fault has lost the report or rows are deleted.
EventuallyCached ==
  \A h \in Hosts : h \in owed ~> (h \in DOMAIN cache \/ h \notin owed \/ deletes > 0)

\* The labels the center forwards have no name twice, whatever tags the cache has
\* for the host by now.  A tag with the key of the business group is the exception:
\* AppendLabels does not see the labels it has just appended.
LabelsUnique ==
  [][ forwarded' # NoSeries =>
        \/ ~Duplicate(forwarded')
        \/ \E h \in DOMAIN cache : BusiGroupLabelKey \in DOMAIN cache[h].content.tags ]_vars
===============================================================================
