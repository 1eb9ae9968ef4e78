---------------------------- MODULE EngineCluster ----------------------------
(***************************************************************************)
(* Which engine evaluates a rule (alert/naming, alert/eval).  Every engine *)
(* writes heartbeats into the table alerting_engines, one per datasource   *)
(* of its cluster, reads who else is alive, and keeps a hash ring per      *)
(* datasource; its scheduler starts the workers of the rules that the      *)
(* rings give to it and stops the others.  Nothing else coordinates them.  *)
(*                                                                         *)
(* A tick is the time within which every loop comes round once: at least   *)
(* the nine seconds of LoopSyncRules.  The clocks of the engines agree.    *)
(***************************************************************************)
EXTENDS Integers, FiniteSets

CONSTANTS
  Engines,       \* the endpoints
  Centers,       \* those with a database; the others (edges) call a center over HTTP
  Clusters,      \* values of EngineName
  ClusterOf,     \* the EngineName each engine is configured with
  Datasources,   \* ids of the datasources
  HostDatasource,\* 99999999, under which centers share the host rules
  NoDatasource,  \* 0, under which an engine without a datasource reports
  Rules,
  Pairs,         \* [rule, ds]: the rules with the datasources to evaluate them on
  Rank,          \* the order in which the ring of a rule id meets the engines
  None,
  Window,        \* 30 s: a heartbeat older than that does not count
  Obsolete,      \* 600 s: a heartbeat older than that is deleted
  EngineDelay,   \* 30 s: LoopSyncRules waits that long first
  MaxRunning,    \* bound: engines that run at a time
  MaxTroubles    \* bound: crashes, failures and edits of datasources

Keys == Datasources \cup {HostDatasource, NoDatasource}

ASSUME EnginesAssumption ==
  Centers \subseteq Engines /\ ClusterOf \in [Engines -> Clusters] /\ None \notin Clusters
ASSUME KeysAssumption ==
  HostDatasource \notin Datasources /\ NoDatasource \notin Datasources /\ HostDatasource # NoDatasource
ASSUME PairsAssumption == Pairs \subseteq [rule : Rules, ds : Datasources \cup {HostDatasource}]
ASSUME RankAssumption ==
  /\ Rank \in [Rules -> [Engines -> Nat]]
  /\ \A r \in Rules : \A S \in SUBSET Engines \ {{}} :
       \E e \in S : \A f \in S : Rank[r][e] <= Rank[r][f] /\ (Rank[r][e] = Rank[r][f] => e = f)
ASSUME NoneAssumption == None \notin Nat /\ \A S \in SUBSET Engines : None # S
ASSUME TimesAssumption ==
  {Window, Obsolete, EngineDelay, MaxRunning, MaxTroubles} \subseteq Nat /\ Window >= 2 /\ Obsolete >= Window

VARIABLES
  owner,         \* datasource.cluster_name, which users edit; None when empty
  clock,         \* alerting_engines: the age in ticks of a row, None without a row
  phase,         \* what naming of an engine does; "off" when it does not run
  ids,           \* datasourceIds of the last heartbeat
  ring,          \* DatasourceHashRing: the members, {} as well when there is none
  localss,       \* localss: the members the ring was last built of
  workers,       \* Scheduler.alertRules
  pause,         \* ticks until syncAlertRules runs
  calm,          \* history: ticks since the last trouble, up to Settle
  troubles       \* counter of the bounded steps

engineVars == <<phase, ids, ring, localss, workers, pause>>
vars == <<owner, clock, engineVars, calm, troubles>>

Running == {e \in Engines : phase[e] # "off"}

(***************************************************************************)
(* Whether the requests of e reach the database.                           *)
(***************************************************************************)
Reaches(e) == e \in Centers \/ \E c \in Centers : phase[c] \notin {"off", "boot"}

\* Mutant of ActiveServers: a heartbeat counts until it is deleted
ActiveForever == [k \in Keys |-> {e \in Engines : clock[e][k] # None}]

(***************************************************************************)
(* What the rings, members and ages are read as.                           *)
(***************************************************************************)
ActiveServers == [k \in Keys |-> {e \in Engines : clock[e][k] # None /\ clock[e][k] < Window}]

GetNode(members, r) == CHOOSE e \in members : \A f \in members : Rank[r][e] <= Rank[r][f]

IsHit(e, p) == ring[e][p.ds] # {} /\ GetNode(ring[e][p.ds], p.rule) = e

OwnPairs(e) == {p \in Pairs : IsHit(e, p) /\ (p.ds = HostDatasource => e \in Centers)}

Bound(cluster) == {d \in Datasources : owner[d] = cluster}

(***************************************************************************)
(* After so many ticks without trouble nothing of the past is left: stale  *)
(* heartbeats have expired or delayed schedulers have woken up, then comes *)
(* a heartbeat, and then a synchronisation of the rules.                   *)
(***************************************************************************)
Settle == 2 + (IF Window > EngineDelay THEN Window ELSE EngineDelay)

Trouble == troubles < MaxTroubles /\ troubles' = troubles + 1 /\ calm' = 0
NoTrouble == UNCHANGED <<calm, troubles>>

Init ==
  /\ owner \in [Datasources -> Clusters]
  /\ clock = [e \in Engines |-> [k \in Keys |-> None]]
  /\ phase = [e \in Engines |-> "off"]
  /\ ids = [e \in Engines |-> {}]
  /\ ring = [e \in Engines |-> [k \in Keys |-> {}]]
  /\ localss = [e \in Engines |-> [k \in Keys |-> None]]
  /\ workers = [e \in Engines |-> {}]
  /\ pause = [e \in Engines |-> 0]
  /\ calm = 0
  /\ troubles = 0

-----------------------------------------------------------------------------
(***************************************************************************)
(* Processes and users                                                     *)
(***************************************************************************)
Start(e) ==
  /\ phase[e] = "off" /\ Cardinality(Running) < MaxRunning
  /\ phase' = [phase EXCEPT ![e] = "boot"]
  /\ pause' = [pause EXCEPT ![e] = EngineDelay + 1]
  /\ calm' = 0
  /\ UNCHANGED <<owner, clock, ids, ring, localss, workers, troubles>>

Crash(e) ==
  /\ phase[e] # "off"
  /\ Trouble
  /\ phase' = [phase EXCEPT ![e] = "off"]
  /\ ids' = [ids EXCEPT ![e] = {}]
  /\ ring' = [ring EXCEPT ![e] = [k \in Keys |-> {}]]
  /\ localss' = [localss EXCEPT ![e] = [k \in Keys |-> None]]
  /\ workers' = [workers EXCEPT ![e] = {}]
  /\ pause' = [pause EXCEPT ![e] = 0]
  /\ UNCHANGED <<owner, clock>>

Bind(d, c) ==
  /\ owner[d] # c
  /\ Trouble
  /\ owner' = [owner EXCEPT ![d] = c]
  /\ UNCHANGED <<clock, engineVars>>

-----------------------------------------------------------------------------
(***************************************************************************)
(* heartbeat: which datasources are ours and a row for each of them, then  *)
(* the ring of each of them, and on a center the host rules.               *)
(***************************************************************************)

\* Mutant of Heartbeat: the heartbeat inserts a missing row and does not update one that is there
HeartbeatInserts(e, keys) ==
  clock' = [clock EXCEPT ![e] = [k \in Keys |-> IF k \in keys /\ @[k] = None THEN 0 ELSE @[k]]]

(***************************************************************************)
(* AlertingEngineHeartbeatWithCluster for a set of keys.                   *)
(***************************************************************************)
Heartbeat(e, keys) == clock' = [clock EXCEPT ![e] = [k \in Keys |-> IF k \in keys THEN 0 ELSE @[k]]]

(***************************************************************************)
(* Some of the requests fail: all of them when no center is reached.       *)
(***************************************************************************)
Failing(e, keys, failed) ==
  /\ failed \subseteq keys
  /\ Reaches(e) \/ failed = keys
  /\ IF Reaches(e) /\ failed # {} THEN Trouble ELSE NoTrouble

OwnKeys(own) == IF own = {} THEN {NoDatasource} ELSE own

Report(e) ==
  /\ phase[e] \in {"boot", "due"}
  /\ Reaches(e)
  /\ LET own == Bound(ClusterOf[e]) IN
     /\ ids' = [ids EXCEPT ![e] = own]
     /\ \E failed \in SUBSET OwnKeys(own) :
          Failing(e, OwnKeys(own), failed) /\ Heartbeat(e, OwnKeys(own) \ failed)
  /\ phase' = [phase EXCEPT ![e] = "rings"]
  /\ UNCHANGED <<owner, ring, localss, workers, pause>>

(***************************************************************************)
(* GetDatasourceIdsByEngineName fails, and heartbeat returns.  The first   *)
(* heartbeat runs in NewNaming, before the loop is started: when it fails, *)
(* the engine goes on without the loop.                                    *)
(***************************************************************************)
FailReport(e) ==
  /\ phase[e] \in {"boot", "due"}
  /\ IF Reaches(e) THEN Trouble ELSE NoTrouble
  /\ phase' = [phase EXCEPT ![e] = IF phase[e] = "boot" THEN "silent" ELSE "done"]
  /\ UNCHANGED <<owner, clock, ids, ring, localss, workers, pause>>

(***************************************************************************)
(* A ring is built again when localss of its datasource is another.        *)
(***************************************************************************)
Rebuild(e, keys, active) ==
  LET changed == {k \in keys : localss[e][k] # active[k]} IN
  /\ ring' = [ring EXCEPT ![e] = [k \in Keys |-> IF k \in changed THEN active[k] ELSE @[k]]]
  /\ localss' = [localss EXCEPT ![e] = [k \in Keys |-> IF k \in changed THEN active[k] ELSE @[k]]]

\* Mutant of Clear: an engine without a datasource keeps its rings
ClearNothing(e) == UNCHANGED <<ring, localss>>

(***************************************************************************)
(* DatasourceHashRing.Clear and localss, all but the ring of host rules.   *)
(***************************************************************************)
Clear(e) ==
  /\ ring' = [ring EXCEPT ![e] = [k \in Keys |-> IF k = HostDatasource THEN @[k] ELSE {}]]
  /\ localss' = [localss EXCEPT ![e] = [k \in Keys |-> IF k = HostDatasource THEN @[k] ELSE None]]

UpdateRings(e) ==
  /\ phase[e] = "rings"
  /\ \/ ids[e] = {} /\ Clear(e) /\ NoTrouble
     \/ /\ ids[e] # {}
        /\ \E failed \in SUBSET ids[e] :
             Failing(e, ids[e], failed) /\ Rebuild(e, ids[e] \ failed, ActiveServers)
  /\ phase' = [phase EXCEPT ![e] = IF e \in Centers THEN "host" ELSE "done"]
  /\ UNCHANGED <<owner, clock, ids, workers, pause>>

(***************************************************************************)
(* The row of a center for host rules and the ring of them: the one, the   *)
(* other or both may fail.                                                 *)
(***************************************************************************)
UpdateHostRing(e) ==
  /\ phase[e] = "host"
  /\ \E written, read \in BOOLEAN :
       /\ IF written /\ read THEN NoTrouble ELSE Trouble
       /\ Heartbeat(e, IF written THEN {HostDatasource} ELSE {})
       /\ Rebuild(e, IF read THEN {HostDatasource} ELSE {}, ActiveServers')
  /\ phase' = [phase EXCEPT ![e] = "done"]
  /\ UNCHANGED <<owner, ids, workers, pause>>

-----------------------------------------------------------------------------
\* Mutant of SyncAlertRules: workers are started and never stopped
SyncStartsOnly(e) ==
  /\ phase[e] \notin {"off", "boot"} /\ pause[e] = 0
  /\ workers' = [workers EXCEPT ![e] = @ \cup OwnPairs(e)]
  /\ pause' = [pause EXCEPT ![e] = 1]
  /\ UNCHANGED <<owner, clock, phase, ids, ring, localss, calm, troubles>>

(***************************************************************************)
(* syncAlertRules: workers of the rules that are ours are started, the     *)
(* others are stopped.                                                     *)
(***************************************************************************)
SyncAlertRules(e) ==
  /\ phase[e] \notin {"off", "boot"} /\ pause[e] = 0
  /\ workers' = [workers EXCEPT ![e] = OwnPairs(e)]
  /\ pause' = [pause EXCEPT ![e] = 1]
  /\ UNCHANGED <<owner, clock, phase, ids, ring, localss, calm, troubles>>

(***************************************************************************)
(* DeleteInactiveInstances, every ten minutes on every center.             *)
(***************************************************************************)
DeleteInactiveInstances(e) ==
  /\ e \in Centers /\ phase[e] \notin {"off", "boot", "silent"}
  /\ LET Inactive(f, k) == clock[f][k] # None /\ clock[f][k] > Obsolete IN
     /\ \E f \in Engines, k \in Keys : Inactive(f, k)
     /\ clock' = [f \in Engines |-> [k \in Keys |-> IF Inactive(f, k) THEN None ELSE clock[f][k]]]
  /\ UNCHANGED <<owner, engineVars, calm, troubles>>

(***************************************************************************)
(* Time passes when every loop has come round.  Ages stop growing once     *)
(* they are past Obsolete.                                                 *)
(***************************************************************************)
Older(age) == IF age = None \/ age > Obsolete THEN age ELSE age + 1

\* Mutant of Tick: the countdown of a scheduler goes on below zero
TickBelowZero ==
  /\ \A e \in Running : phase[e] \in {"done", "silent"} /\ pause[e] > 0
  /\ clock' = [e \in Engines |-> [k \in Keys |-> Older(clock[e][k])]]
  /\ phase' = [e \in Engines |-> IF phase[e] = "done" THEN "due" ELSE phase[e]]
  /\ pause' = [e \in Engines |-> pause[e] - 1]
  /\ calm' = IF calm < Settle THEN calm + 1 ELSE calm
  /\ UNCHANGED <<owner, ids, ring, localss, workers, troubles>>

Tick ==
  /\ \A e \in Running : phase[e] \in {"done", "silent"} /\ pause[e] > 0
  /\ clock' = [e \in Engines |-> [k \in Keys |-> Older(clock[e][k])]]
  /\ phase' = [e \in Engines |-> IF phase[e] = "done" THEN "due" ELSE phase[e]]
  /\ pause' = [e \in Engines |-> IF pause[e] > 0 THEN pause[e] - 1 ELSE 0]
  /\ calm' = IF calm < Settle THEN calm + 1 ELSE calm
  /\ UNCHANGED <<owner, ids, ring, localss, workers, troubles>>

HeartbeatStep(e) == Report(e) \/ FailReport(e) \/ UpdateRings(e) \/ UpdateHostRing(e)

Next ==
  \/ \E e \in Engines :
       \/ Start(e) \/ Crash(e)
       \/ HeartbeatStep(e) \/ SyncAlertRules(e) \/ DeleteInactiveInstances(e)
  \/ \E d \in Datasources, c \in Clusters \cup {None} : Bind(d, c)
  \/ Tick

Spec == Init /\ [][Next]_vars

(***************************************************************************)
(* The loops never end and time passes.                                    *)
(***************************************************************************)
Fairness ==
  /\ \A e \in Engines : WF_vars(HeartbeatStep(e)) /\ WF_vars(SyncAlertRules(e))
  /\ WF_vars(Tick)

FairSpec == Spec /\ Fairness
-----------------------------------------------------------------------------
(***************************************************************************)
(* Type invariant                                                          *)
(***************************************************************************)
TypeOK ==
  /\ owner \in [Datasources -> Clusters \cup {None}]
  /\ clock \in [Engines -> [Keys -> Nat \cup {None}]]
  /\ phase \in [Engines -> {"off", "boot", "silent", "due", "rings", "host", "done"}]
  /\ ids \in [Engines -> SUBSET Datasources]
  /\ ring \in [Engines -> [Keys -> SUBSET Engines]]
  /\ localss \in [Engines -> [Keys -> {None} \cup SUBSET Engines]]
  /\ workers \in [Engines -> SUBSET Pairs]
  /\ pause \in [Engines -> 0..EngineDelay + 1]
  /\ calm \in 0..Settle
  /\ troubles \in 0..MaxTroubles

(***************************************************************************)
(* Safety.                                                                 *)
(***************************************************************************)

(***************************************************************************)
(* An engine whose loop of heartbeats runs and that reaches the database.  *)
(***************************************************************************)
Serving == {e \in Engines : phase[e] \notin {"off", "boot", "silent"} /\ Reaches(e)}

\* the engines that should share the rules of a datasource
Sharing(ds) == {e \in Serving : IF ds = HostDatasource THEN e \in Centers ELSE owner[ds] = ClusterOf[e]}

OneOwnerEach ==
  \A p \in Pairs : Sharing(p.ds) # {} =>
    \E e \in Sharing(p.ds) : {f \in Sharing(p.ds) : p \in workers[f]} = {e}

(***************************************************************************)
(* Once nothing has gone wrong for Settle ticks, every rule is evaluated   *)
(* on its datasource by exactly one of the engines of the cluster it is    *)
(* bound to, whatever crashed, failed or was bound to another before.      *)
(***************************************************************************)
OwnedOnce == calm = Settle => OneOwnerEach

(***************************************************************************)
(* An engine evaluates a rule on a datasource of another cluster only when *)
(* its own cluster has still a datasource: without any, Clear makes it     *)
(* forget all, with one left its rings of the others are never updated.    *)
(***************************************************************************)
StrangersKeepOne ==
  calm = Settle =>
    \A e \in Serving : \A p \in workers[e] :
      e \in Sharing(p.ds) \/ Bound(ClusterOf[e]) # {}

(***************************************************************************)
(* Action property: in quiet times no rule changes hands, so that no       *)
(* pending alert is forgotten by a worker that starts anew.                *)
(***************************************************************************)
Steady == [][calm = Settle /\ calm' = Settle => workers' = workers]_vars

(***************************************************************************)
(* Liveness: troubles end, and then every rule has one owner for good.     *)
(***************************************************************************)
EventuallyOwned == <>[]OneOwnerEach
==============================================================================
