------------------------- MODULE EngineClusterProofs -------------------------
(***************************************************************************)
(* That every rule has one owner once nothing has gone wrong for a while,  *)
(* for any number of engines, datasources and rules, and for any window    *)
(* and delay.  The invariant follows the ticks of calm: what a heartbeat   *)
(* has read, which rows have expired, what the rings are, and what the     *)
(* schedulers have made of them.                                           *)
(***************************************************************************)
EXTENDS EngineCluster, TLAPS

\* the phases of an engine that sends no heartbeats
Mute == {"off", "boot", "silent"}

RealKeys == Datasources \cup {HostDatasource}

-----------------------------------------------------------------------------
(***************************************************************************)
(* What the operators on rows and rings do.                                *)
(***************************************************************************)

\* A heartbeat sets the age of the rows of e, and of no other engine, to zero.
LEMMA HeartbeatEffect ==
  ASSUME clock \in [Engines -> [Keys -> Nat \cup {None}]], NEW e \in Engines, NEW keys, Heartbeat(e, keys)
  PROVE  /\ clock' \in [Engines -> [Keys -> Nat \cup {None}]]
         /\ \A f \in Engines, k \in Keys : clock'[f][k] = IF f = e /\ k \in keys THEN 0 ELSE clock[f][k]
<1> DEFINE row == [k \in Keys |-> IF k \in keys THEN 0 ELSE clock[e][k]]
<1>1. row \in [Keys -> Nat \cup {None}]  OBVIOUS
<1>2. clock' = [clock EXCEPT ![e] = row]  BY DEF Heartbeat
<1>3. \A k \in Keys : row[k] = IF k \in keys THEN 0 ELSE clock[e][k]  OBVIOUS
<1> HIDE DEF row
<1> QED  BY <1>1, <1>2, <1>3

(***************************************************************************)
(* A heartbeat that finds its members in localss leaves the ring alone:    *)
(* localss is what the ring was built of, through Clear, failures and a    *)
(* ring of hosts that lives on while the others are cleared.               *)
(***************************************************************************)
RingIsLocal ==
  \A e \in Engines, k \in Keys :
    ring[e][k] = IF localss[e][k] = None THEN {} ELSE localss[e][k]

\* Rebuilding sets ring and localss of some keys to the active engines; a ring
\* whose localss is left was that already.
LEMMA RebuildEffect ==
  ASSUME TypeOK, RingIsLocal, NEW e \in Engines, NEW keys, NEW active \in [Keys -> SUBSET Engines],
         Rebuild(e, keys, active)
  PROVE  /\ ring' \in [Engines -> [Keys -> SUBSET Engines]]
         /\ localss' \in [Engines -> [Keys -> {None} \cup SUBSET Engines]]
         /\ \A f \in Engines, k \in Keys :
              /\ ring'[f][k] = IF f = e /\ k \in keys THEN active[k] ELSE ring[f][k]
              /\ localss'[f][k] = IF f = e /\ k \in keys THEN active[k] ELSE localss[f][k]
<1> DEFINE changed == {k \in keys : localss[e][k] # active[k]}
           r == [k \in Keys |-> IF k \in changed THEN active[k] ELSE ring[e][k]]
           l == [k \in Keys |-> IF k \in changed THEN active[k] ELSE localss[e][k]]
<1>1. ring' = [ring EXCEPT ![e] = r] /\ localss' = [localss EXCEPT ![e] = l]  BY DEF Rebuild
<1>2. ring \in [Engines -> [Keys -> SUBSET Engines]] /\ localss \in [Engines -> [Keys -> {None} \cup SUBSET Engines]]
  BY DEF TypeOK
<1>3. r \in [Keys -> SUBSET Engines] /\ l \in [Keys -> {None} \cup SUBSET Engines]  BY <1>2
<1>4. \A k \in Keys : l[k] = IF k \in keys THEN active[k] ELSE localss[e][k]  OBVIOUS
<1>5. \A k \in Keys : r[k] = IF k \in keys THEN active[k] ELSE ring[e][k]
  <2> SUFFICES ASSUME NEW k \in Keys, k \in keys, localss[e][k] = active[k]  PROVE ring[e][k] = active[k]
    OBVIOUS
  <2>1. active[k] # None  BY NoneAssumption
  <2> QED  BY <2>1 DEF RingIsLocal
<1> HIDE DEF changed, r, l
<1> QED  BY <1>1, <1>2, <1>3, <1>4, <1>5

\* Clear empties every ring of e but the one of the host rules.
LEMMA ClearEffect ==
  ASSUME TypeOK, NEW e \in Engines, Clear(e)
  PROVE  /\ ring' \in [Engines -> [Keys -> SUBSET Engines]]
         /\ localss' \in [Engines -> [Keys -> {None} \cup SUBSET Engines]]
         /\ \A f \in Engines, k \in Keys :
              /\ ring'[f][k] = IF f = e /\ k # HostDatasource THEN {} ELSE ring[f][k]
              /\ localss'[f][k] = IF f = e /\ k # HostDatasource THEN None ELSE localss[f][k]
<1> DEFINE r == [k \in Keys |-> IF k = HostDatasource THEN ring[e][k] ELSE {}]
           l == [k \in Keys |-> IF k = HostDatasource THEN localss[e][k] ELSE None]
<1>1. ring' = [ring EXCEPT ![e] = r] /\ localss' = [localss EXCEPT ![e] = l]  BY DEF Clear
<1>2. ring \in [Engines -> [Keys -> SUBSET Engines]] /\ localss \in [Engines -> [Keys -> {None} \cup SUBSET Engines]]
  BY DEF TypeOK
<1>3. r \in [Keys -> SUBSET Engines] /\ l \in [Keys -> {None} \cup SUBSET Engines]  BY <1>2
<1>4. \A k \in Keys : /\ r[k] = IF k = HostDatasource THEN ring[e][k] ELSE {}
                      /\ l[k] = IF k = HostDatasource THEN localss[e][k] ELSE None
  OBVIOUS
<1> HIDE DEF r, l
<1> QED  BY <1>1, <1>2, <1>3, <1>4

LEMMA ActiveType == ActiveServers \in [Keys -> SUBSET Engines]
BY DEF ActiveServers

LEMMA SettleType == Settle \in Nat /\ Settle >= Window + 2 /\ Settle >= EngineDelay + 2
BY TimesAssumption DEF Settle
-----------------------------------------------------------------------------
(***************************************************************************)
(* Types, and the rings against localss.                                   *)
(***************************************************************************)
Base == TypeOK /\ RingIsLocal

LEMMA BaseInit == Init => Base
<1> SUFFICES ASSUME Init  PROVE Base
  OBVIOUS
<1> USE TimesAssumption, EnginesAssumption, NoneAssumption, SettleType
<1>1. owner \in [Datasources -> Clusters \cup {None}]  BY DEF Init
<1>2. clock \in [Engines -> [Keys -> Nat \cup {None}]]  BY DEF Init
<1>3. phase \in [Engines -> {"off", "boot", "silent", "due", "rings", "host", "done"}]  BY DEF Init
<1>4. /\ ids \in [Engines -> SUBSET Datasources] /\ workers \in [Engines -> SUBSET Pairs]
      /\ ring \in [Engines -> [Keys -> SUBSET Engines]]
      /\ localss \in [Engines -> [Keys -> {None} \cup SUBSET Engines]]
  BY DEF Init
<1>5. pause \in [Engines -> 0..EngineDelay + 1] /\ calm \in 0..Settle /\ troubles \in 0..MaxTroubles
  BY DEF Init
<1>6. RingIsLocal  BY DEF Init, RingIsLocal
<1> QED  BY <1>1, <1>2, <1>3, <1>4, <1>5, <1>6 DEF Base, TypeOK

LEMMA TroubleType ==
  ASSUME TypeOK, Trouble \/ NoTrouble
  PROVE  calm' \in 0..Settle /\ troubles' \in 0..MaxTroubles
BY TimesAssumption, SettleType DEF TypeOK, Trouble, NoTrouble

LEMMA FailingType ==
  ASSUME NEW e, NEW keys, NEW failed, Failing(e, keys, failed)
  PROVE  Trouble \/ NoTrouble
BY DEF Failing

LEMMA BaseStep == Base /\ [Next]_vars => Base'
<1> SUFFICES ASSUME Base, [Next]_vars  PROVE Base'
  OBVIOUS
<1> USE TimesAssumption, EnginesAssumption
<1>t. TypeOK /\ RingIsLocal  BY DEF Base
<1>0. CASE UNCHANGED vars  BY <1>t, <1>0 DEF Base, TypeOK, RingIsLocal, vars, engineVars
<1>1. ASSUME NEW e \in Engines, Start(e)  PROVE Base'
  BY <1>t, <1>1, SettleType DEF Base, TypeOK, RingIsLocal, Start
<1>2. ASSUME NEW e \in Engines, Crash(e)  PROVE Base'
  <2>1. calm' \in 0..Settle /\ troubles' \in 0..MaxTroubles  BY <1>t, <1>2, TroubleType DEF Crash
  <2>2. TypeOK'  BY <1>t, <1>2, <2>1 DEF TypeOK, Crash
  <2>3. RingIsLocal'  BY <1>t, <1>2 DEF TypeOK, RingIsLocal, Crash
  <2> QED  BY <2>2, <2>3 DEF Base
<1>3. ASSUME NEW e \in Engines, Report(e)  PROVE Base'
  <2> DEFINE own == Bound(ClusterOf[e])
  <2>1. PICK failed : Failing(e, OwnKeys(own), failed) /\ Heartbeat(e, OwnKeys(own) \ failed)
    BY <1>3 DEF Report
  <2>2. calm' \in 0..Settle /\ troubles' \in 0..MaxTroubles  BY <1>t, <2>1, TroubleType, FailingType
  <2>3. clock' \in [Engines -> [Keys -> Nat \cup {None}]]  BY <1>t, <2>1, HeartbeatEffect DEF TypeOK
  <2>4. ids' = [ids EXCEPT ![e] = own] /\ own \in SUBSET Datasources  BY <1>3 DEF Report, Bound
  <2>5. ids' \in [Engines -> SUBSET Datasources]  BY <1>t, <2>4 DEF TypeOK
  <2>6. phase' \in [Engines -> {"off", "boot", "silent", "due", "rings", "host", "done"}]
    BY <1>t, <1>3 DEF TypeOK, Report
  <2>7. UNCHANGED <<owner, ring, localss, workers, pause>>  BY <1>3 DEF Report
  <2> QED  BY <1>t, <2>2, <2>3, <2>5, <2>6, <2>7 DEF Base, TypeOK, RingIsLocal
<1>4. ASSUME NEW e \in Engines, FailReport(e)  PROVE Base'
  <2>1. calm' \in 0..Settle /\ troubles' \in 0..MaxTroubles  BY <1>t, <1>4, TroubleType DEF FailReport
  <2> QED  BY <1>t, <1>4, <2>1 DEF Base, TypeOK, RingIsLocal, FailReport
<1>5. ASSUME NEW e \in Engines, UpdateRings(e)  PROVE Base'
  <2>1. calm' \in 0..Settle /\ troubles' \in 0..MaxTroubles
    BY <1>t, <1>5, TroubleType, FailingType DEF UpdateRings
  <2>2. phase' \in [Engines -> {"off", "boot", "silent", "due", "rings", "host", "done"}]
    BY <1>t, <1>5 DEF TypeOK, UpdateRings
  <2>3. UNCHANGED <<owner, clock, ids, workers, pause>>  BY <1>5 DEF UpdateRings
  <2>4. CASE Clear(e)
    <3>1. RingIsLocal'  BY <1>t, <2>4, ClearEffect DEF RingIsLocal
    <3> QED  BY <1>t, <2>1, <2>2, <2>3, <2>4, <3>1, ClearEffect DEF Base, TypeOK
  <2>5. ASSUME NEW keys, Rebuild(e, keys, ActiveServers)  PROVE Base'
    <3>1. RingIsLocal'  BY <1>t, <2>5, RebuildEffect, ActiveType, NoneAssumption DEF RingIsLocal
    <3> QED  BY <1>t, <2>1, <2>2, <2>3, <2>5, <3>1, RebuildEffect, ActiveType DEF Base, TypeOK
  <2> QED  BY <1>5, <2>4, <2>5 DEF UpdateRings
<1>6. ASSUME NEW e \in Engines, UpdateHostRing(e)  PROVE Base'
  <2>1. PICK keys, keys2 : Heartbeat(e, keys2) /\ Rebuild(e, keys, ActiveServers')
    BY <1>6 DEF UpdateHostRing
  <2>2. calm' \in 0..Settle /\ troubles' \in 0..MaxTroubles
    BY <1>t, <1>6, TroubleType DEF UpdateHostRing
  <2>3. phase' \in [Engines -> {"off", "boot", "silent", "due", "rings", "host", "done"}]
    BY <1>t, <1>6 DEF TypeOK, UpdateHostRing
  <2>4. UNCHANGED <<owner, ids, workers, pause>>  BY <1>6 DEF UpdateHostRing
  <2>5. ActiveServers' \in [Keys -> SUBSET Engines]  BY DEF ActiveServers
  <2>6. RingIsLocal'  BY <1>t, <2>1, <2>5, RebuildEffect, NoneAssumption DEF RingIsLocal
  <2>7. clock' \in [Engines -> [Keys -> Nat \cup {None}]]  BY <1>t, <2>1, HeartbeatEffect DEF TypeOK
  <2>8. /\ ring' \in [Engines -> [Keys -> SUBSET Engines]]
        /\ localss' \in [Engines -> [Keys -> {None} \cup SUBSET Engines]]
    BY <1>t, <2>1, <2>5, RebuildEffect
  <2> QED  BY <1>t, <2>2, <2>3, <2>4, <2>6, <2>7, <2>8 DEF Base, TypeOK
<1>7. ASSUME NEW e \in Engines, SyncAlertRules(e)  PROVE Base'
  <2>1. OwnPairs(e) \in SUBSET Pairs  BY DEF OwnPairs
  <2>2. 1 \in 0..EngineDelay + 1  OBVIOUS
  <2> QED  BY <1>t, <1>7, <2>1, <2>2 DEF Base, TypeOK, RingIsLocal, SyncAlertRules
<1>8. ASSUME NEW e \in Engines, DeleteInactiveInstances(e)  PROVE Base'
  BY <1>t, <1>8 DEF Base, TypeOK, RingIsLocal, DeleteInactiveInstances, engineVars
<1>9. ASSUME NEW d \in Datasources, NEW c \in Clusters \cup {None}, Bind(d, c)  PROVE Base'
  <2>1. calm' \in 0..Settle /\ troubles' \in 0..MaxTroubles  BY <1>t, <1>9, TroubleType DEF Bind
  <2> QED  BY <1>t, <1>9, <2>1 DEF Base, TypeOK, RingIsLocal, Bind, engineVars
<1>10. CASE Tick
  <2>1. clock' \in [Engines -> [Keys -> Nat \cup {None}]]
    <3>1. \A f \in Engines, k \in Keys : Older(clock[f][k]) \in Nat \cup {None}  BY <1>t DEF TypeOK, Older
    <3> QED  BY <1>10, <3>1 DEF Tick
  <2>2. phase' \in [Engines -> {"off", "boot", "silent", "due", "rings", "host", "done"}]
    BY <1>t, <1>10 DEF TypeOK, Tick
  <2>3. pause' \in [Engines -> 0..EngineDelay + 1]  BY <1>t, <1>10 DEF TypeOK, Tick
  <2>4. calm' \in 0..Settle /\ troubles' \in 0..MaxTroubles  BY <1>t, <1>10, SettleType DEF TypeOK, Tick
  <2> QED  BY <1>t, <1>10, <2>1, <2>2, <2>3, <2>4 DEF Base, TypeOK, RingIsLocal, Tick
<1> QED  BY <1>0, <1>1, <1>2, <1>3, <1>4, <1>5, <1>6, <1>7, <1>8, <1>9, <1>10 DEF Next, HeartbeatStep

(***************************************************************************)
(* The state keeps its type.                                               *)
(***************************************************************************)
THEOREM TypeCorrect == Spec => []TypeOK
<1>1. Spec => []Base  BY BaseInit, BaseStep, PTL DEF Spec
<1>2. Base => TypeOK  BY DEF Base
<1> QED  BY <1>1, <1>2, PTL

(***************************************************************************)
(* localss is what the ring was built of.                                  *)
(***************************************************************************)
THEOREM RingsFollowLocalss == Spec => []RingIsLocal
<1>1. Spec => []Base  BY BaseInit, BaseStep, PTL DEF Spec
<1>2. Base => RingIsLocal  BY DEF Base
<1> QED  BY <1>1, <1>2, PTL
-----------------------------------------------------------------------------
(***************************************************************************)
(* The invariant.                                                          *)
(***************************************************************************)

\* an engine that has not begun its heartbeats knows nothing and does nothing
MuteIsEmpty ==
  \A e \in Engines : phase[e] \in Mute =>
    /\ ids[e] = {} /\ workers[e] = {}
    /\ \A k \in Keys : ring[e][k] = {}

\* an engine starts within the tick in which calm begins
BootIsNew == \A e \in Engines : phase[e] = "boot" => calm = 0

HostIsCenter == \A e \in Engines : phase[e] = "host" => e \in Centers

\* a center that is lost makes calm begin again, and edges end their heartbeats
HeartbeatReaches == \A e \in Engines : calm >= 1 /\ phase[e] = "rings" => Reaches(e)

\* a scheduler sleeps no longer than EngineDelay
DelayEnds == \A e \in Engines : pause[e] <= 1 \/ pause[e] + calm <= EngineDelay + 1

\* the heartbeat has read the datasources that are bound now
Reread(e) == e \in Serving /\ (calm >= 2 \/ (calm = 1 /\ phase[e] # "due"))
IdsFresh == \A e \in Engines : Reread(e) => ids[e] = Bound(ClusterOf[e])

\* an engine without a datasource has cleared its rings
Cleared(e) == e \in Serving /\ (calm >= 2 \/ (calm = 1 /\ phase[e] \in {"host", "done"}))
Forgotten ==
  \A e \in Engines : Cleared(e) /\ Bound(ClusterOf[e]) = {} =>
    \A k \in Keys \ {HostDatasource} : ring[e][k] = {}

\* the rows of the engines that share a datasource are young
Young ==
  \A k \in RealKeys : \A e \in Sharing(k) :
    /\ calm >= 2 => clock[e][k] \in {0, 1}
    /\ calm >= 1 /\ phase[e] \in {"rings", "host", "done"} /\ k # HostDatasource => clock[e][k] = 0
    /\ calm >= 1 /\ phase[e] = "done" => clock[e][k] = 0

\* the rows of the others are at least as old as the calm
Aged ==
  \A k \in RealKeys : \A e \in Engines \ Sharing(k) :
    clock[e][k] = None \/ clock[e][k] >= calm \/ clock[e][k] > Obsolete

\* e has built the ring of k since all rows were young
Rebuilt(e, k) ==
  \/ calm > Window
  \/ calm = Window /\ phase[e] = "done"
  \/ calm = Window /\ phase[e] = "host" /\ k # HostDatasource

\* such a ring has the engines that share its datasource
RingsRight ==
  \A k \in RealKeys : \A e \in Sharing(k) :
    Rebuilt(e, k) => ring[e][k] = Sharing(k)

\* the schedulers have seen these rings
Slow == IF Window > EngineDelay THEN Window ELSE EngineDelay
Synced ==
  \A e \in Engines : phase[e] \notin {"off", "boot"} =>
    ((calm = Slow + 1 /\ pause[e] > 0) \/ calm > Slow + 1 => workers[e] = OwnPairs(e))

IInv ==
  /\ Base /\ MuteIsEmpty /\ BootIsNew /\ HostIsCenter /\ HeartbeatReaches /\ DelayEnds
  /\ IdsFresh /\ Forgotten /\ Young /\ Aged /\ RingsRight /\ Synced
-----------------------------------------------------------------------------
(***************************************************************************)
(* The parts that do not depend on the calm.                               *)
(***************************************************************************)
LEMMA MuteStep == ASSUME Base, MuteIsEmpty, HostIsCenter, [Next]_vars  PROVE MuteIsEmpty' /\ HostIsCenter'
<1>t. TypeOK /\ RingIsLocal  BY DEF Base
<1>0. CASE UNCHANGED vars  BY <1>0 DEF MuteIsEmpty, HostIsCenter, vars, engineVars
<1>1. ASSUME NEW e \in Engines, Start(e)  PROVE MuteIsEmpty' /\ HostIsCenter'
  BY <1>t, <1>1 DEF TypeOK, MuteIsEmpty, HostIsCenter, Mute, Start
<1>2. ASSUME NEW e \in Engines, Crash(e)  PROVE MuteIsEmpty' /\ HostIsCenter'
  BY <1>t, <1>2 DEF TypeOK, MuteIsEmpty, HostIsCenter, Mute, Crash
<1>3. ASSUME NEW e \in Engines, Report(e)  PROVE MuteIsEmpty' /\ HostIsCenter'
  BY <1>t, <1>3 DEF TypeOK, MuteIsEmpty, HostIsCenter, Mute, Report
<1>4. ASSUME NEW e \in Engines, FailReport(e)  PROVE MuteIsEmpty' /\ HostIsCenter'
  BY <1>t, <1>4 DEF TypeOK, MuteIsEmpty, HostIsCenter, Mute, FailReport
<1>5. ASSUME NEW e \in Engines, UpdateRings(e)  PROVE MuteIsEmpty' /\ HostIsCenter'
  <2>1. /\ phase' = [phase EXCEPT ![e] = IF e \in Centers THEN "host" ELSE "done"]
        /\ UNCHANGED <<ids, workers>>
    BY <1>5 DEF UpdateRings
  <2>2. \A f \in Engines : f # e => ring'[f] = ring[f]
    BY <1>t, <1>5 DEF TypeOK, UpdateRings, Clear, Rebuild
  <2> QED  BY <1>t, <2>1, <2>2 DEF TypeOK, MuteIsEmpty, HostIsCenter, Mute
<1>6. ASSUME NEW e \in Engines, UpdateHostRing(e)  PROVE MuteIsEmpty' /\ HostIsCenter'
  <2>1. phase' = [phase EXCEPT ![e] = "done"] /\ UNCHANGED <<ids, workers>>  BY <1>6 DEF UpdateHostRing
  <2>2. \A f \in Engines : f # e => ring'[f] = ring[f]
    BY <1>t, <1>6 DEF TypeOK, UpdateHostRing, Rebuild
  <2> QED  BY <1>t, <2>1, <2>2 DEF TypeOK, MuteIsEmpty, HostIsCenter, Mute
<1>7. ASSUME NEW e \in Engines, SyncAlertRules(e)  PROVE MuteIsEmpty' /\ HostIsCenter'
  <2>1. UNCHANGED <<phase, ids, ring>> /\ workers' = [workers EXCEPT ![e] = OwnPairs(e)]
    BY <1>7 DEF SyncAlertRules
  <2>2. phase[e] \in Mute => OwnPairs(e) = {}
    BY PairsAssumption DEF MuteIsEmpty, OwnPairs, IsHit, Keys
  <2> QED  BY <1>t, <2>1, <2>2 DEF TypeOK, MuteIsEmpty, HostIsCenter
<1>8. ASSUME NEW e \in Engines, DeleteInactiveInstances(e)  PROVE MuteIsEmpty' /\ HostIsCenter'
  BY <1>8 DEF MuteIsEmpty, HostIsCenter, DeleteInactiveInstances, engineVars
<1>9. ASSUME NEW d \in Datasources, NEW c \in Clusters \cup {None}, Bind(d, c)  PROVE MuteIsEmpty' /\ HostIsCenter'
  BY <1>9 DEF MuteIsEmpty, HostIsCenter, Bind, engineVars
<1>10. CASE Tick
  BY <1>t, <1>10 DEF TypeOK, MuteIsEmpty, HostIsCenter, Mute, Tick
<1> QED  BY <1>0, <1>1, <1>2, <1>3, <1>4, <1>5, <1>6, <1>7, <1>8, <1>9, <1>10 DEF Next, HeartbeatStep

-----------------------------------------------------------------------------
(***************************************************************************)
(* Steps in calm times: what a step may be that does not end the calm.     *)
(***************************************************************************)
QuietReport(e) ==
  /\ phase[e] = "due" /\ Reaches(e)
  /\ ids' = [ids EXCEPT ![e] = Bound(ClusterOf[e])]
  /\ Heartbeat(e, OwnKeys(Bound(ClusterOf[e])))
  /\ phase' = [phase EXCEPT ![e] = "rings"]
  /\ UNCHANGED <<owner, ring, localss, workers, pause, calm>>

QuietFail(e) ==
  /\ phase[e] = "due" /\ ~Reaches(e)
  /\ phase' = [phase EXCEPT ![e] = "done"]
  /\ UNCHANGED <<owner, clock, ids, ring, localss, workers, pause, calm>>

QuietRings(e) ==
  /\ phase[e] = "rings" /\ Reaches(e)
  /\ \/ ids[e] = {} /\ Clear(e)
     \/ ids[e] # {} /\ Rebuild(e, ids[e], ActiveServers)
  /\ phase' = [phase EXCEPT ![e] = IF e \in Centers THEN "host" ELSE "done"]
  /\ UNCHANGED <<owner, clock, ids, workers, pause, calm>>

QuietHost(e) ==
  /\ phase[e] = "host"
  /\ Heartbeat(e, {HostDatasource})
  /\ Rebuild(e, {HostDatasource}, ActiveServers')
  /\ phase' = [phase EXCEPT ![e] = "done"]
  /\ UNCHANGED <<owner, ids, workers, pause, calm>>

QuietNext ==
  \/ \E e \in Engines :
       \/ QuietReport(e) \/ QuietFail(e) \/ QuietRings(e) \/ QuietHost(e)
       \/ SyncAlertRules(e) \/ DeleteInactiveInstances(e)
  \/ Tick
  \/ UNCHANGED vars

LEMMA QuietSteps == ASSUME IInv, [Next]_vars, calm' # 0  PROVE QuietNext
<1>t. TypeOK /\ calm \in Nat  BY SettleType DEF IInv, Base, TypeOK
<1>1. ASSUME NEW e \in Engines, Report(e)  PROVE QuietNext
  <2> DEFINE own == Bound(ClusterOf[e])
  <2>1. PICK failed : Failing(e, OwnKeys(own), failed) /\ Heartbeat(e, OwnKeys(own) \ failed)
    BY <1>1 DEF Report
  <2>2. Reaches(e) /\ ids' = [ids EXCEPT ![e] = own]  BY <1>1 DEF Report
  <2>3. failed = {} /\ calm' = calm  BY <2>1, <2>2 DEF Failing, Trouble, NoTrouble
  <2>4. phase[e] = "due"  BY <1>1, <1>t, <2>3 DEF IInv, BootIsNew, Report
  <2>5. OwnKeys(own) \ failed = OwnKeys(own)  BY <2>3
  <2>6. Heartbeat(e, OwnKeys(own))  BY <2>1, <2>5
  <2>7. phase' = [phase EXCEPT ![e] = "rings"] /\ UNCHANGED <<owner, ring, localss, workers, pause>>
    BY <1>1 DEF Report
  <2> QED  BY <2>2, <2>3, <2>4, <2>6, <2>7 DEF QuietNext, QuietReport
<1>2. ASSUME NEW e \in Engines, FailReport(e)  PROVE QuietNext
  <2>1. ~Reaches(e) /\ calm' = calm  BY <1>2 DEF FailReport, Trouble, NoTrouble
  <2>2. phase[e] = "due"  BY <1>2, <1>t, <2>1 DEF IInv, BootIsNew, FailReport
  <2> QED  BY <1>2, <2>1, <2>2 DEF QuietNext, QuietFail, FailReport
<1>3. ASSUME NEW e \in Engines, UpdateRings(e)  PROVE QuietNext
  <2>1. calm' = calm  BY <1>3 DEF UpdateRings, Failing, Trouble, NoTrouble
  <2>2. Reaches(e)  BY <1>3, <1>t, <2>1 DEF IInv, HeartbeatReaches, UpdateRings
  <2>3. \/ ids[e] = {} /\ Clear(e)
        \/ ids[e] # {} /\ Rebuild(e, ids[e], ActiveServers)
    <3>1. SUFFICES ASSUME ids[e] # {}, NEW failed, Failing(e, ids[e], failed),
                          Rebuild(e, ids[e] \ failed, ActiveServers)
                   PROVE Rebuild(e, ids[e], ActiveServers)
      BY <1>3 DEF UpdateRings
    <3>2. failed = {}  BY <2>2, <3>1 DEF Failing, Trouble
    <3>3. ids[e] \ failed = ids[e]  BY <3>2
    <3> QED  BY <3>1, <3>3
  <2>4. /\ phase' = [phase EXCEPT ![e] = IF e \in Centers THEN "host" ELSE "done"]
        /\ phase[e] = "rings" /\ UNCHANGED <<owner, clock, ids, workers, pause>>
    BY <1>3 DEF UpdateRings
  <2> QED  BY <2>1, <2>2, <2>3, <2>4 DEF QuietNext, QuietRings
<1>4. ASSUME NEW e \in Engines, UpdateHostRing(e)  PROVE QuietNext
  <2>1. PICK written \in BOOLEAN, read \in BOOLEAN :
          /\ IF written /\ read THEN NoTrouble ELSE Trouble
          /\ Heartbeat(e, IF written THEN {HostDatasource} ELSE {})
          /\ Rebuild(e, IF read THEN {HostDatasource} ELSE {}, ActiveServers')
    BY <1>4 DEF UpdateHostRing
  <2>2. written /\ read /\ calm' = calm  BY <2>1 DEF Trouble, NoTrouble
  <2>3. Heartbeat(e, {HostDatasource}) /\ Rebuild(e, {HostDatasource}, ActiveServers')  BY <2>1, <2>2
  <2> QED  BY <1>4, <2>2, <2>3 DEF QuietNext, QuietHost, UpdateHostRing
<1>5. ASSUME NEW e \in Engines, Start(e) \/ Crash(e)  PROVE QuietNext
  BY <1>5 DEF Start, Crash, Trouble
<1>6. ASSUME NEW d \in Datasources, NEW c \in Clusters \cup {None}, Bind(d, c)  PROVE QuietNext
  BY <1>6 DEF Bind, Trouble
<1> QED  BY <1>1, <1>2, <1>3, <1>4, <1>5, <1>6 DEF Next, HeartbeatStep, QuietNext

(***************************************************************************)
(* They leave the bindings, and who serves, as they are.                   *)
(***************************************************************************)
LEMMA QuietShares ==
  ASSUME TypeOK, QuietNext
  PROVE  /\ owner' = owner
         /\ \A e \in Engines : (phase'[e] \in Mute <=> phase[e] \in Mute)
                            /\ (phase'[e] \in {"off", "boot"} <=> phase[e] \in {"off", "boot"})
         /\ \A e \in Engines : Reaches(e)' <=> Reaches(e)
         /\ Serving' = Serving
         /\ \A k : Sharing(k)' = Sharing(k)
         /\ \A c : Bound(c)' = Bound(c)
<1> USE EnginesAssumption
<1>1. owner' = owner
  BY DEF QuietNext, QuietReport, QuietFail, QuietRings, QuietHost, SyncAlertRules, DeleteInactiveInstances, Tick, vars
<1>2. \A e \in Engines : (phase'[e] \in Mute <=> phase[e] \in Mute)
                     /\ (phase'[e] \in {"off", "boot"} <=> phase[e] \in {"off", "boot"})
  BY DEF TypeOK, Mute, Running, QuietNext, QuietReport, QuietFail, QuietRings, QuietHost, SyncAlertRules,
         DeleteInactiveInstances, Tick, vars, engineVars
<1>3. \A e \in Engines : Reaches(e)' <=> Reaches(e)  BY <1>2 DEF Reaches
<1>4. Serving' = Serving  BY <1>2, <1>3 DEF Serving, Mute
<1>5. \A k : Sharing(k)' = Sharing(k)  BY <1>1, <1>4 DEF Sharing
<1>6. \A c : Bound(c)' = Bound(c)  BY <1>1 DEF Bound
<1> QED  BY <1>1, <1>2, <1>3, <1>4, <1>5, <1>6
-----------------------------------------------------------------------------
(***************************************************************************)
(* Heartbeats: ids, rows and rings, one part of the invariant at a time.   *)
(***************************************************************************)

\* What every one of these lemmas knows of a quiet step.
LEMMA QuietFacts ==
  ASSUME IInv, QuietNext
  PROVE  /\ TypeOK /\ RingIsLocal /\ calm \in Nat
         /\ calm' = calm \/ Tick
         /\ Tick => calm' \in Nat /\ (calm' = calm + 1 \/ (calm' = calm /\ calm = Settle))
<1>1. TypeOK /\ RingIsLocal /\ calm \in Nat  BY SettleType DEF IInv, Base, TypeOK
<1>2. calm' = calm \/ Tick
  BY DEF QuietNext, QuietReport, QuietFail, QuietRings, QuietHost, SyncAlertRules, DeleteInactiveInstances, vars
<1>3. calm \in 0..Settle  BY <1>1 DEF TypeOK
<1>4. Tick => calm' = IF calm < Settle THEN calm + 1 ELSE calm  BY DEF Tick
<1>5. Tick => calm' \in Nat /\ (calm' = calm + 1 \/ (calm' = calm /\ calm = Settle))
  BY <1>3, <1>4, SettleType
<1> QED  BY <1>1, <1>2, <1>5

LEMMA BootStep == ASSUME IInv, QuietNext  PROVE BootIsNew'
<1>1. TypeOK /\ calm \in Nat /\ (calm' = calm \/ Tick)  BY QuietFacts
<1>2. \A e \in Engines : phase'[e] = "boot" => phase[e] = "boot"
  BY <1>1 DEF TypeOK, QuietNext, QuietReport, QuietFail, QuietRings, QuietHost, SyncAlertRules,
     DeleteInactiveInstances, Tick, vars, engineVars
<1>3. Tick => \A e \in Engines : phase[e] # "boot"  BY DEF Tick, Running
<1> QED  BY <1>1, <1>2, <1>3 DEF IInv, BootIsNew

LEMMA ReachStep == ASSUME IInv, QuietNext  PROVE HeartbeatReaches'
<1>1. TypeOK /\ calm \in Nat /\ (calm' = calm \/ Tick)  BY QuietFacts
<1>2. \A e \in Engines : Reaches(e)' <=> Reaches(e)  BY <1>1, QuietShares
<1>3. \A e \in Engines : phase'[e] = "rings" /\ phase[e] # "rings" => Reaches(e)
  BY <1>1, EnginesAssumption DEF TypeOK, QuietNext, QuietReport, QuietFail, QuietRings, QuietHost,
     SyncAlertRules, DeleteInactiveInstances, Tick, vars, engineVars
<1>4. Tick => \A e \in Engines : phase'[e] # "rings"  BY <1>1 DEF TypeOK, Tick, Running
<1> QED  BY <1>1, <1>2, <1>3, <1>4 DEF IInv, HeartbeatReaches

LEMMA DelayStep == ASSUME IInv, QuietNext  PROVE DelayEnds'
<1>1. TypeOK /\ calm \in Nat /\ (calm' = calm \/ Tick)  BY QuietFacts
<1>2. Tick => calm' \in Nat /\ (calm' = calm + 1 \/ (calm' = calm /\ calm = Settle))  BY QuietFacts
<1>3. \A e \in Engines : pause[e] \in Nat  BY <1>1, TimesAssumption DEF TypeOK
<1>4. CASE Tick
  <2>1. \A e \in Engines : pause'[e] = IF pause[e] > 0 THEN pause[e] - 1 ELSE 0  BY <1>4 DEF Tick
  <2> QED  BY <1>1, <1>2, <1>3, <1>4, <2>1, SettleType, TimesAssumption DEF IInv, DelayEnds
<1>5. CASE ~Tick
  <2>1. \A e \in Engines : pause'[e] = pause[e] \/ pause'[e] = 1
    BY <1>1, <1>5 DEF TypeOK, QuietNext, QuietReport, QuietFail, QuietRings, QuietHost,
       SyncAlertRules, DeleteInactiveInstances, vars, engineVars
  <2> QED  BY <1>1, <1>5, <2>1 DEF IInv, DelayEnds
<1> QED  BY <1>4, <1>5

LEMMA FreshStep == ASSUME IInv, QuietNext  PROVE IdsFresh'
<1>1. TypeOK /\ calm \in Nat /\ (calm' = calm \/ Tick)  BY QuietFacts
<1>2. Tick => calm' \in Nat /\ (calm' = calm + 1 \/ (calm' = calm /\ calm = Settle))  BY QuietFacts
<1>3. Serving' = Serving /\ \A c : Bound(c)' = Bound(c)  BY <1>1, QuietShares
<1>4. SUFFICES ASSUME NEW e \in Engines, Reread(e)'  PROVE ids'[e] = Bound(ClusterOf[e])
  BY <1>3 DEF IdsFresh
<1>5. CASE Tick
  <2>1. UNCHANGED ids /\ (phase[e] = "done" \/ phase[e] = "silent" \/ phase[e] = "off")
    BY <1>5 DEF Tick, Running
  <2>2. phase[e] = "done" /\ phase'[e] = "due"  BY <1>3, <1>4, <1>5, <2>1 DEF Reread, Serving, Tick
  <2>3. calm >= 1  BY <1>1, <1>2, <1>4, <1>5, <2>2, SettleType, TimesAssumption DEF Reread
  <2>4. Reread(e)  BY <1>1, <1>3, <1>4, <2>2, <2>3 DEF Reread
  <2> QED  BY <2>1, <2>4 DEF IInv, IdsFresh
<1>6. ASSUME NEW f \in Engines, QuietReport(f)  PROVE ids'[e] = Bound(ClusterOf[e])
  <2>1. CASE f = e  BY <1>1, <1>6, <2>1 DEF TypeOK, QuietReport
  <2>2. CASE f # e
    <3>1. ids'[e] = ids[e] /\ phase'[e] = phase[e] /\ calm' = calm  BY <1>1, <1>6, <2>2 DEF TypeOK, QuietReport
    <3>2. Reread(e)  BY <1>3, <1>4, <3>1 DEF Reread
    <3> QED  BY <3>1, <3>2 DEF IInv, IdsFresh
  <2> QED  BY <2>1, <2>2
<1>7. CASE ~Tick /\ ~\E f \in Engines : QuietReport(f)
  <2>1. UNCHANGED ids /\ calm' = calm
    BY <1>7 DEF QuietNext, QuietFail, QuietRings, QuietHost, SyncAlertRules, DeleteInactiveInstances, vars, engineVars
  <2>2. phase'[e] = phase[e] \/ phase[e] # "due" \/ ~Reaches(e)
    BY <1>1, <1>7 DEF TypeOK, QuietNext, QuietFail, QuietRings, QuietHost, SyncAlertRules,
       DeleteInactiveInstances, vars, engineVars
  <2>3. Reread(e)  BY <1>3, <1>4, <2>1, <2>2 DEF Reread, Serving
  <2> QED  BY <2>1, <2>3 DEF IInv, IdsFresh
<1> QED  BY <1>5, <1>6, <1>7

LEMMA ForgottenStep == ASSUME IInv, QuietNext  PROVE Forgotten'
<1>1. TypeOK /\ RingIsLocal /\ calm \in Nat /\ (calm' = calm \/ Tick)  BY QuietFacts
<1>2. Tick => calm' \in Nat /\ (calm' = calm + 1 \/ (calm' = calm /\ calm = Settle))  BY QuietFacts
<1>3. Serving' = Serving /\ \A c : Bound(c)' = Bound(c)  BY <1>1, QuietShares
<1>4. SUFFICES ASSUME NEW e \in Engines, Cleared(e)', Bound(ClusterOf[e]) = {}, NEW k \in Keys \ {HostDatasource}
               PROVE ring'[e][k] = {}
  BY <1>3 DEF Forgotten
<1>k. ASSUME Cleared(e)  PROVE ring[e][k] = {}  BY <1>4, <1>k DEF IInv, Forgotten
<1>5. CASE Tick
  <2>1. UNCHANGED ring /\ (phase[e] = "done" \/ phase[e] = "silent" \/ phase[e] = "off")
    BY <1>5 DEF Tick, Running
  <2>2. phase[e] = "done" /\ phase'[e] = "due"  BY <1>3, <1>4, <1>5, <2>1 DEF Cleared, Serving, Tick
  <2>3. calm >= 1  BY <1>1, <1>2, <1>4, <1>5, <2>2, SettleType, TimesAssumption DEF Cleared
  <2>4. Cleared(e)  BY <1>1, <1>3, <1>4, <2>2, <2>3 DEF Cleared
  <2> QED  BY <1>k, <2>1, <2>4
<1>6. CASE QuietRings(e)
  <2>1. e \in Serving /\ calm >= 1  BY <1>1, <1>3, <1>4, <1>6 DEF Cleared, QuietRings
  <2>2. Reread(e)  BY <1>1, <1>6, <2>1 DEF Reread, QuietRings
  <2>3. ids[e] = {}  BY <1>4, <2>2 DEF IInv, IdsFresh
  <2>4. Clear(e)  BY <1>6, <2>3 DEF QuietRings
  <2> QED  BY <1>1, <2>4, ClearEffect
<1>7. CASE QuietHost(e)
  <2>1. e \in Serving /\ calm >= 1 /\ phase[e] = "host"  BY <1>1, <1>3, <1>4, <1>7 DEF Cleared, QuietHost
  <2>2. Cleared(e)  BY <1>1, <2>1 DEF Cleared
  <2>3. Rebuild(e, {HostDatasource}, ActiveServers') /\ ActiveServers' \in [Keys -> SUBSET Engines]
    BY <1>7 DEF QuietHost, ActiveServers
  <2>4. ring'[e][k] = ring[e][k]  BY <1>1, <2>3, RebuildEffect
  <2> QED  BY <1>k, <2>2, <2>4
<1>8. CASE ~Tick /\ ~QuietRings(e) /\ ~QuietHost(e)
  <2>1. ring'[e] = ring[e]
    BY <1>1, <1>8 DEF TypeOK, QuietNext, QuietReport, QuietFail, QuietRings, QuietHost, Clear, Rebuild,
       SyncAlertRules, DeleteInactiveInstances, vars, engineVars
  <2>2. phase'[e] = phase[e] \/ phase'[e] = "rings" \/ ~Reaches(e)
    BY <1>1, <1>8 DEF TypeOK, QuietNext, QuietReport, QuietFail, QuietRings, QuietHost, SyncAlertRules,
       DeleteInactiveInstances, vars, engineVars
  <2>3. Cleared(e)  BY <1>1, <1>3, <1>4, <1>8, <2>2 DEF Cleared, Serving
  <2> QED  BY <1>k, <2>1, <2>3
<1> QED  BY <1>5, <1>6, <1>7, <1>8

(***************************************************************************)
(* Which rows a quiet step writes.                                         *)
(***************************************************************************)
LEMMA QuietRows ==
  ASSUME IInv, QuietNext, NEW e \in Engines, NEW k \in RealKeys
  PROVE  \/ Tick /\ clock'[e][k] = Older(clock[e][k])
         \/ QuietReport(e) /\ k \in Bound(ClusterOf[e]) /\ e \in Sharing(k) /\ clock'[e][k] = 0
         \/ QuietHost(e) /\ k = HostDatasource /\ e \in Sharing(k) /\ clock'[e][k] = 0
         \/ ~Tick /\ clock[e][k] # None /\ clock[e][k] > Obsolete /\ clock'[e][k] = None /\ UNCHANGED phase
         \/ ~Tick /\ clock'[e][k] = clock[e][k]
<1>1. TypeOK /\ k \in Keys  BY QuietFacts DEF RealKeys, Keys
<1>2. CASE Tick  BY <1>1, <1>2 DEF Tick
<1>3. ASSUME NEW f \in Engines, QuietReport(f), ~Tick
      PROVE \/ f = e /\ k \in Bound(ClusterOf[e]) /\ e \in Sharing(k) /\ clock'[e][k] = 0
            \/ clock'[e][k] = clock[e][k]
  <2>1. clock'[e][k] = IF e = f /\ k \in OwnKeys(Bound(ClusterOf[f])) THEN 0 ELSE clock[e][k]
    BY <1>1, <1>3, HeartbeatEffect DEF QuietReport, TypeOK
  <2>2. k \in OwnKeys(Bound(ClusterOf[f])) => k \in Bound(ClusterOf[f])
    BY KeysAssumption DEF OwnKeys, RealKeys
  <2>3. e = f /\ k \in Bound(ClusterOf[f]) => e \in Sharing(k)
    BY <1>3, KeysAssumption DEF Sharing, Serving, Bound, QuietReport
  <2> QED  BY <2>1, <2>2, <2>3
<1>4. ASSUME NEW f \in Engines, QuietHost(f), ~Tick
      PROVE \/ f = e /\ k = HostDatasource /\ e \in Sharing(k) /\ clock'[e][k] = 0
            \/ clock'[e][k] = clock[e][k]
  <2>1. clock'[e][k] = IF e = f /\ k \in {HostDatasource} THEN 0 ELSE clock[e][k]
    BY <1>1, <1>4, HeartbeatEffect DEF QuietHost, TypeOK
  <2>2. f \in Centers  BY <1>4 DEF IInv, HostIsCenter, QuietHost
  <2>3. f \in Serving  BY <1>4, <2>2 DEF Serving, Reaches, QuietHost
  <2>4. f \in Sharing(HostDatasource)  BY <2>2, <2>3 DEF Sharing
  <2> QED  BY <2>1, <2>4
<1>5. ASSUME NEW f \in Engines, DeleteInactiveInstances(f), ~Tick
      PROVE \/ clock[e][k] # None /\ clock[e][k] > Obsolete /\ clock'[e][k] = None /\ UNCHANGED phase
            \/ clock'[e][k] = clock[e][k]
  BY <1>1, <1>5 DEF DeleteInactiveInstances, engineVars
<1>6. CASE ~Tick /\ UNCHANGED clock  BY <1>6
<1> QED
  BY <1>2, <1>3, <1>4, <1>5, <1>6 DEF QuietNext, QuietFail, QuietRings, SyncAlertRules, vars

LEMMA AgedStep == ASSUME IInv, QuietNext  PROVE Aged'
<1>1. TypeOK /\ calm \in Nat /\ (calm' = calm \/ Tick)  BY QuietFacts
<1>2. Tick => calm' \in Nat /\ (calm' = calm + 1 \/ (calm' = calm /\ calm = Settle))  BY QuietFacts
<1>3. \A k : Sharing(k)' = Sharing(k)  BY <1>1, QuietShares
<1>4. SUFFICES ASSUME NEW k \in RealKeys, NEW e \in Engines \ Sharing(k)
               PROVE clock'[e][k] = None \/ clock'[e][k] >= calm' \/ clock'[e][k] > Obsolete
  BY <1>3 DEF Aged
<1>5. clock[e][k] = None \/ clock[e][k] >= calm \/ clock[e][k] > Obsolete  BY DEF IInv, Aged
<1>6. clock[e][k] \in Nat \cup {None}  BY <1>1 DEF TypeOK, RealKeys, Keys
<1>7. CASE Tick /\ clock'[e][k] = Older(clock[e][k])
  BY <1>1, <1>2, <1>5, <1>6, <1>7, TimesAssumption, NoneAssumption DEF Older
<1>8. CASE ~Tick /\ (clock'[e][k] = None \/ clock'[e][k] = clock[e][k])  BY <1>1, <1>5, <1>8
<1> QED  BY <1>4, <1>7, <1>8, QuietRows

LEMMA YoungStep == ASSUME IInv, QuietNext  PROVE Young'
<1>1. TypeOK /\ calm \in Nat /\ (calm' = calm \/ Tick)  BY QuietFacts
<1>2. Tick => calm' \in Nat /\ (calm' = calm + 1 \/ (calm' = calm /\ calm = Settle))  BY QuietFacts
<1>3. \A k : Sharing(k)' = Sharing(k)  BY <1>1, QuietShares
<1> DEFINE YoungRow(k, e) ==
      /\ calm >= 2 => clock[e][k] \in {0, 1}
      /\ calm >= 1 /\ phase[e] \in {"rings", "host", "done"} /\ k # HostDatasource => clock[e][k] = 0
      /\ calm >= 1 /\ phase[e] = "done" => clock[e][k] = 0
<1>4. SUFFICES ASSUME NEW k \in RealKeys, NEW e \in Sharing(k)  PROVE YoungRow(k, e)'
  BY <1>3 DEF Young
<1>5. YoungRow(k, e) /\ e \in Engines /\ e \in Serving  BY DEF IInv, Young, Sharing, Serving
<1>6. clock[e][k] \in Nat \cup {None}  BY <1>1, <1>5 DEF TypeOK, RealKeys, Keys
<1>s. phase[e] \notin {"off", "boot", "silent"} /\ Reaches(e)  BY <1>5 DEF Serving
<1>7. CASE Tick /\ clock'[e][k] = Older(clock[e][k])
  <2>1. phase[e] = "done" /\ phase'[e] = "due"  BY <1>5, <1>7, <1>s DEF Tick, Running
  <2>2. calm >= 1 => clock[e][k] = 0  BY <1>5, <2>1
  <2>3. calm >= 1 => clock'[e][k] = 1  BY <1>7, <2>2, TimesAssumption, NoneAssumption DEF Older
  <2>4. calm' >= 2 => calm >= 1  BY <1>1, <1>2, <1>7, SettleType, TimesAssumption
  <2> QED  BY <2>1, <2>3, <2>4
<1>8. CASE QuietReport(e) /\ k \in Bound(ClusterOf[e]) /\ clock'[e][k] = 0  BY <1>8
<1>9. CASE QuietHost(e) /\ k = HostDatasource /\ clock'[e][k] = 0  BY <1>9
<1>10. CASE ~Tick /\ clock[e][k] # None /\ clock[e][k] > Obsolete /\ clock'[e][k] = None /\ UNCHANGED phase
  BY <1>1, <1>5, <1>10, TimesAssumption
<1>11. CASE ~Tick /\ clock'[e][k] = clock[e][k]
  <2>0. k \in Keys /\ calm' = calm /\ (k = HostDatasource \/ k \in Datasources)
    BY <1>1, <1>11 DEF RealKeys, Keys
  <2>1. CASE QuietReport(e)
    <3>1. k # HostDatasource => k \in OwnKeys(Bound(ClusterOf[e]))
      BY <1>4, <2>0 DEF Sharing, Bound, OwnKeys
    <3>2. k # HostDatasource => clock'[e][k] = 0
      BY <1>1, <1>5, <2>0, <2>1, <3>1, HeartbeatEffect DEF QuietReport, TypeOK
    <3>3. phase'[e] = "rings"  BY <1>1, <1>5, <2>1 DEF QuietReport, TypeOK
    <3> QED  BY <1>5, <1>11, <2>0, <3>2, <3>3
  <2>2. CASE QuietHost(e)
    <3>1. Heartbeat(e, {HostDatasource}) /\ clock \in [Engines -> [Keys -> Nat \cup {None}]]
      BY <1>1, <2>2 DEF QuietHost, TypeOK
    <3>2. HostDatasource \in Keys  BY DEF Keys
    <3>3. clock'[e][HostDatasource] = 0  BY <1>5, <3>1, <3>2, HeartbeatEffect
    <3> QED  BY <1>5, <1>11, <2>0, <2>2, <3>3 DEF QuietHost
  <2>3. CASE QuietRings(e)
    <3>1. k = HostDatasource => e \in Centers  BY <1>4 DEF Sharing
    <3>2. phase'[e] = IF e \in Centers THEN "host" ELSE "done"  BY <1>1, <1>5, <2>3 DEF QuietRings, TypeOK
    <3> QED  BY <1>5, <1>11, <2>0, <2>3, <3>1, <3>2 DEF QuietRings
  <2>4. CASE ~QuietReport(e) /\ ~QuietHost(e) /\ ~QuietRings(e)
    <3>1. phase'[e] = phase[e]
      BY <1>1, <1>5, <1>11, <1>s, <2>4 DEF TypeOK, QuietNext, QuietReport, QuietFail, QuietRings, QuietHost,
         SyncAlertRules, DeleteInactiveInstances, vars, engineVars
    <3> QED  BY <1>5, <1>11, <2>0, <3>1
  <2> QED  BY <2>1, <2>2, <2>3, <2>4
<1> QED  BY <1>4, <1>5, <1>7, <1>8, <1>9, <1>10, <1>11, QuietRows

(***************************************************************************)
(* In calm times the engines that are active are those that share.         *)
(***************************************************************************)
LEMMA ActiveAreSharing ==
  ASSUME NEW shares \in SUBSET Engines, NEW c \in Nat, c >= Window, NEW age,
         \A e \in Engines : age[e] \in Nat \cup {None},
         \A e \in shares : age[e] \in {0, 1},
         \A e \in Engines \ shares : age[e] = None \/ age[e] >= c \/ age[e] > Obsolete
  PROVE  {e \in Engines : age[e] # None /\ age[e] < Window} = shares
BY TimesAssumption, NoneAssumption

LEMMA ActiveNow ==
  ASSUME TypeOK, Young, Aged, calm >= Window, NEW k \in RealKeys
  PROVE  ActiveServers[k] = Sharing(k)
<1>1. calm \in Nat /\ calm >= 2 /\ k \in Keys  BY SettleType, TimesAssumption DEF TypeOK, RealKeys, Keys
<1>2. Sharing(k) \in SUBSET Engines  BY DEF Sharing, Serving
<1> DEFINE age == [e \in Engines |-> clock[e][k]]
<1>3. \A e \in Engines : age[e] = clock[e][k] /\ age[e] \in Nat \cup {None}  BY <1>1 DEF TypeOK
<1>4. \A e \in Sharing(k) : age[e] \in {0, 1}  BY <1>1, <1>2, <1>3 DEF Young
<1>5. \A e \in Engines \ Sharing(k) : age[e] = None \/ age[e] >= calm \/ age[e] > Obsolete
  BY <1>3 DEF Aged
<1> HIDE DEF age
<1>6. {e \in Engines : age[e] # None /\ age[e] < Window} = Sharing(k)
  BY <1>1, <1>2, <1>3, <1>4, <1>5, ActiveAreSharing
<1>7. ActiveServers[k] = {e \in Engines : clock[e][k] # None /\ clock[e][k] < Window}
  BY <1>1 DEF ActiveServers
<1> QED  BY <1>3, <1>6, <1>7

\* The same in the next state.
LEMMA ActiveNext ==
  ASSUME TypeOK', Young', Aged', calm' >= Window, NEW k \in RealKeys
  PROVE  (ActiveServers')[k] = Sharing(k)'
<1>1. calm' \in Nat /\ calm' >= 2 /\ k \in Keys  BY SettleType, TimesAssumption DEF TypeOK, RealKeys, Keys
<1>2. Sharing(k)' \in SUBSET Engines  BY DEF Sharing, Serving
<1> DEFINE age == [e \in Engines |-> clock'[e][k]]
<1>3. \A e \in Engines : age[e] = clock'[e][k] /\ age[e] \in Nat \cup {None}  BY <1>1 DEF TypeOK
<1>4. \A e \in Sharing(k)' : age[e] \in {0, 1}  BY <1>1, <1>2, <1>3 DEF Young
<1>5. \A e \in Engines \ Sharing(k)' : age[e] = None \/ age[e] >= calm' \/ age[e] > Obsolete
  BY <1>3 DEF Aged
<1> HIDE DEF age
<1>6. {e \in Engines : age[e] # None /\ age[e] < Window} = Sharing(k)'
  BY <1>1, <1>2, <1>3, <1>4, <1>5, ActiveAreSharing
<1>7. (ActiveServers')[k] = {e \in Engines : clock'[e][k] # None /\ clock'[e][k] < Window}
  BY <1>1 DEF ActiveServers
<1> QED  BY <1>3, <1>6, <1>7

(***************************************************************************)
(* What a quiet step makes of the rings of an engine.                      *)
(***************************************************************************)
LEMMA QuietRing ==
  ASSUME IInv, QuietNext, NEW e \in Engines
  PROVE  \/ QuietRings(e) /\ e \in Serving /\ ids[e] = {} /\ UNCHANGED <<clock, calm>>
            /\ \A k \in Keys : ring'[e][k] = IF k = HostDatasource THEN ring[e][k] ELSE {}
         \/ QuietRings(e) /\ e \in Serving /\ ids[e] # {} /\ UNCHANGED <<clock, calm>>
            /\ \A k \in Keys : ring'[e][k] = IF k \in ids[e] THEN ActiveServers[k] ELSE ring[e][k]
         \/ QuietHost(e) /\ e \in Serving /\ e \in Centers /\ UNCHANGED calm
            /\ \A k \in Keys : ring'[e][k] = IF k = HostDatasource THEN (ActiveServers')[k] ELSE ring[e][k]
         \/ ring'[e] = ring[e] /\ ~QuietRings(e) /\ ~QuietHost(e)
<1>1. TypeOK /\ RingIsLocal  BY QuietFacts
<1>2. CASE QuietRings(e)
  <2>1. e \in Serving /\ UNCHANGED <<clock, calm>>  BY <1>2 DEF Serving, QuietRings
  <2>2. CASE ids[e] = {} /\ Clear(e)  BY <1>1, <1>2, <2>1, <2>2, ClearEffect
  <2>3. CASE ids[e] # {} /\ Rebuild(e, ids[e], ActiveServers)
    BY <1>1, <1>2, <2>1, <2>3, RebuildEffect, ActiveType
  <2> QED  BY <1>2, <2>2, <2>3 DEF QuietRings
<1>3. CASE QuietHost(e)
  <2>1. e \in Centers /\ UNCHANGED calm  BY <1>3 DEF IInv, HostIsCenter, QuietHost
  <2>2. e \in Serving  BY <1>3, <2>1 DEF Serving, Reaches, QuietHost
  <2>3. Rebuild(e, {HostDatasource}, ActiveServers') /\ ActiveServers' \in [Keys -> SUBSET Engines]
    BY <1>3 DEF QuietHost, ActiveServers
  <2>4. \A k \in Keys : ring'[e][k] = IF k = HostDatasource THEN (ActiveServers')[k] ELSE ring[e][k]
    BY <1>1, <2>3, RebuildEffect
  <2> QED  BY <1>3, <2>1, <2>2, <2>4
<1>4. ASSUME ~QuietRings(e), ~QuietHost(e)  PROVE ring'[e] = ring[e]
  BY <1>1, <1>4 DEF TypeOK, QuietNext, QuietReport, QuietFail, QuietRings, QuietHost, Clear, Rebuild,
     SyncAlertRules, DeleteInactiveInstances, Tick, vars, engineVars
<1> QED  BY <1>2, <1>3, <1>4

LEMMA RingsStep == ASSUME IInv, QuietNext, TypeOK', Young', Aged'  PROVE RingsRight'
<1>1. TypeOK /\ calm \in Nat /\ (calm' = calm \/ Tick)  BY QuietFacts
<1>2. Tick => calm' \in Nat /\ (calm' = calm + 1 \/ (calm' = calm /\ calm = Settle))  BY QuietFacts
<1>3. \A k : Sharing(k)' = Sharing(k)  BY <1>1, QuietShares
<1>4. SUFFICES ASSUME NEW k \in RealKeys, NEW e \in Sharing(k), Rebuilt(e, k)'
               PROVE ring'[e][k] = Sharing(k)
  BY <1>3 DEF RingsRight
<1>5. e \in Engines /\ e \in Serving /\ phase[e] \notin {"off", "boot", "silent"} /\ Reaches(e) /\ k \in Keys
  BY <1>4 DEF Sharing, Serving, RealKeys, Keys
<1>6. ASSUME Rebuilt(e, k)  PROVE ring[e][k] = Sharing(k)  BY <1>4, <1>6 DEF IInv, RingsRight
<1>w. Window \in Nat /\ Window >= 2 /\ Settle \in Nat /\ Settle > Window  BY SettleType, TimesAssumption
<1>7. CASE QuietRings(e) /\ ids[e] = {} /\ UNCHANGED calm
           /\ ring'[e][k] = IF k = HostDatasource THEN ring[e][k] ELSE {}
  <2>1. calm >= Window /\ phase[e] = "rings"  BY <1>1, <1>4, <1>7, <1>w DEF Rebuilt, QuietRings
  <2>2. Bound(ClusterOf[e]) = {}  BY <1>1, <1>5, <1>7, <1>w, <2>1 DEF IInv, IdsFresh, Reread
  <2>3. k = HostDatasource  BY <1>4, <2>2 DEF Sharing, Bound, RealKeys
  <2>4. e \in Centers  BY <1>4, <2>3 DEF Sharing
  <2>5. phase'[e] = "host"  BY <1>1, <1>5, <1>7, <2>4 DEF QuietRings, TypeOK
  <2>6. Rebuilt(e, k)  BY <1>1, <1>4, <1>7, <1>w, <2>3, <2>5 DEF Rebuilt
  <2> QED  BY <1>6, <1>7, <2>3, <2>6
<1>8. CASE QuietRings(e) /\ ids[e] # {} /\ UNCHANGED calm
           /\ ring'[e][k] = IF k \in ids[e] THEN ActiveServers[k] ELSE ring[e][k]
  <2>1. calm >= Window /\ phase[e] = "rings"  BY <1>1, <1>4, <1>8, <1>w DEF Rebuilt, QuietRings
  <2>2. ids[e] = Bound(ClusterOf[e])  BY <1>1, <1>5, <1>8, <1>w, <2>1 DEF IInv, IdsFresh, Reread
  <2>3. ActiveServers[k] = Sharing(k)  BY <1>1, <1>4, <2>1, ActiveNow DEF IInv
  <2>4. CASE k = HostDatasource
    <3>1. e \in Centers /\ k \notin ids[e]  BY <1>4, <2>2, <2>4, KeysAssumption DEF Sharing, Bound
    <3>2. phase'[e] = "host"  BY <1>1, <1>5, <1>8, <3>1 DEF QuietRings, TypeOK
    <3>3. Rebuilt(e, k)  BY <1>1, <1>4, <1>8, <1>w, <2>4, <3>2 DEF Rebuilt
    <3> QED  BY <1>6, <1>8, <3>1, <3>3
  <2>5. CASE k # HostDatasource
    <3>1. k \in ids[e]  BY <1>4, <2>2, <2>5 DEF Sharing, Bound, RealKeys
    <3> QED  BY <1>8, <2>3, <3>1
  <2> QED  BY <2>4, <2>5
<1>9. CASE QuietHost(e) /\ UNCHANGED calm
           /\ ring'[e][k] = IF k = HostDatasource THEN (ActiveServers')[k] ELSE ring[e][k]
  <2>1. calm >= Window /\ phase[e] = "host"  BY <1>1, <1>4, <1>9, <1>w DEF Rebuilt, QuietHost
  <2>2. (ActiveServers')[k] = Sharing(k)  BY <1>3, <1>4, <1>9, <2>1, ActiveNext
  <2>3. k # HostDatasource => Rebuilt(e, k)  BY <1>1, <1>w, <2>1 DEF Rebuilt
  <2> QED  BY <1>6, <1>9, <2>2, <2>3
<1>10. CASE ring'[e] = ring[e] /\ ~QuietRings(e) /\ ~QuietHost(e)
  <2>1. CASE Tick
    <3>1. phase[e] = "done" /\ phase'[e] = "due"  BY <1>5, <2>1 DEF Tick, Running
    <3>2. calm >= Window  BY <1>1, <1>2, <1>4, <1>w, <2>1, <3>1 DEF Rebuilt
    <3>3. Rebuilt(e, k)  BY <1>1, <1>w, <3>1, <3>2 DEF Rebuilt
    <3> QED  BY <1>6, <1>10, <3>3
  <2>2. CASE ~Tick
    <3>1. phase'[e] = phase[e] \/ phase'[e] = "rings"
      BY <1>1, <1>5, <1>10, <2>2 DEF TypeOK, QuietNext, QuietReport, QuietFail, QuietRings, QuietHost,
         SyncAlertRules, DeleteInactiveInstances, vars, engineVars
    <3>2. Rebuilt(e, k)  BY <1>1, <1>4, <2>2, <3>1 DEF Rebuilt
    <3> QED  BY <1>6, <1>10, <3>2
  <2> QED  BY <2>1, <2>2
<1> QED  BY <1>5, <1>7, <1>8, <1>9, <1>10, QuietRing

\* Once stale rows have expired no heartbeat changes a ring, whether its engine
\* serves a datasource, has none, or is cut off.
LEMMA RingsRest ==
  ASSUME IInv, QuietNext, TypeOK', Young', Aged', calm > Window, NEW e \in Engines, NEW k \in Keys
  PROVE  ring'[e][k] = ring[e][k]
<1>1. TypeOK /\ calm \in Nat /\ (calm' = calm \/ Tick)  BY QuietFacts
<1>2. \A j : Sharing(j)' = Sharing(j)  BY <1>1, QuietShares
<1>w. Window \in Nat /\ Window >= 2  BY TimesAssumption
<1>3. \A j \in RealKeys : e \in Sharing(j) => ring[e][j] = Sharing(j)
  BY <1>1, <1>w DEF IInv, RingsRight, Rebuilt
<1>4. CASE QuietRings(e) /\ e \in Serving /\ ids[e] = {}
           /\ ring'[e][k] = IF k = HostDatasource THEN ring[e][k] ELSE {}
  <2>1. Bound(ClusterOf[e]) = {}  BY <1>1, <1>4, <1>w DEF IInv, IdsFresh, Reread
  <2>2. Cleared(e)  BY <1>1, <1>4, <1>w DEF Cleared
  <2> QED  BY <1>4, <2>1, <2>2 DEF IInv, Forgotten
<1>5. CASE QuietRings(e) /\ e \in Serving /\ ids[e] # {}
           /\ ring'[e][k] = IF k \in ids[e] THEN ActiveServers[k] ELSE ring[e][k]
  <2>1. ids[e] = Bound(ClusterOf[e])  BY <1>1, <1>5, <1>w DEF IInv, IdsFresh, Reread
  <2>2. SUFFICES ASSUME k \in ids[e]  PROVE ActiveServers[k] = ring[e][k]
    BY <1>5
  <2>3. k \in RealKeys /\ e \in Sharing(k)
    BY <1>5, <2>1, <2>2, KeysAssumption DEF RealKeys, Sharing, Bound
  <2>4. ActiveServers[k] = Sharing(k)  BY <1>1, <1>w, <2>3, ActiveNow DEF IInv
  <2> QED  BY <1>3, <2>3, <2>4
<1>6. CASE QuietHost(e) /\ e \in Serving /\ e \in Centers /\ UNCHANGED calm
           /\ ring'[e][k] = IF k = HostDatasource THEN (ActiveServers')[k] ELSE ring[e][k]
  <2>1. SUFFICES ASSUME k = HostDatasource  PROVE (ActiveServers')[k] = ring[e][k]
    BY <1>6
  <2>2. k \in RealKeys /\ e \in Sharing(k)  BY <1>6, <2>1 DEF RealKeys, Sharing
  <2>3. (ActiveServers')[k] = Sharing(k)  BY <1>1, <1>2, <1>6, <1>w, <2>2, ActiveNext
  <2> QED  BY <1>3, <2>2, <2>3
<1> QED  BY <1>4, <1>5, <1>6, QuietRing

LEMMA SyncedStep == ASSUME IInv, QuietNext, TypeOK', Young', Aged'  PROVE Synced'
<1>1. TypeOK /\ calm \in Nat /\ (calm' = calm \/ Tick)  BY QuietFacts
<1>2. Tick => calm' \in Nat /\ (calm' = calm + 1 \/ (calm' = calm /\ calm = Settle))  BY QuietFacts
<1> DEFINE Due(e) == (calm = Slow + 1 /\ pause[e] > 0) \/ calm > Slow + 1
<1>3. SUFFICES ASSUME NEW e \in Engines, phase'[e] \notin {"off", "boot"}, Due(e)'
               PROVE workers'[e] = OwnPairs(e)'
  BY DEF Synced
<1>w. /\ Slow \in Nat /\ Slow >= Window /\ Slow >= EngineDelay
      /\ Settle = Slow + 2 /\ EngineDelay \in Nat /\ Window \in Nat
  BY TimesAssumption DEF Slow, Settle
<1>4. phase[e] \notin {"off", "boot"}  BY <1>1, <1>3, QuietShares
<1>5. Due(e) => workers[e] = OwnPairs(e)  BY <1>4 DEF IInv, Synced
<1>6. pause[e] \in Nat  BY <1>1, <1>w DEF TypeOK
<1>7. ASSUME calm > Window  PROVE OwnPairs(e)' = OwnPairs(e)
  <2>1. \A k \in Keys : ring'[e][k] = ring[e][k]  BY <1>7, RingsRest
  <2>2. \A p \in Pairs : p.ds \in Keys  BY PairsAssumption DEF Keys
  <2> QED  BY <2>1, <2>2 DEF OwnPairs, IsHit
<1>8. CASE Tick
  <2>1. pause[e] > 0 /\ UNCHANGED workers /\ pause'[e] = pause[e] - 1  BY <1>4, <1>6, <1>8 DEF Tick, Running
  <2>2. pause[e] <= 1 \/ pause[e] + calm <= EngineDelay + 1  BY DEF IInv, DelayEnds
  <2>3. calm >= Slow + 1  BY <1>1, <1>2, <1>3, <1>6, <1>8, <1>w, <2>1, <2>2
  <2>4. Due(e) /\ calm > Window  BY <1>1, <1>w, <2>1, <2>3
  <2> QED  BY <1>5, <1>7, <2>1, <2>4
<1>9. CASE ~Tick
  <2>1. calm' = calm /\ calm > Window  BY <1>1, <1>3, <1>9, <1>w
  <2>2. \/ SyncAlertRules(e) /\ workers'[e] = OwnPairs(e)
        \/ workers'[e] = workers[e] /\ pause'[e] = pause[e]
    BY <1>1, <1>9 DEF TypeOK, QuietNext, QuietReport, QuietFail, QuietRings, QuietHost,
       SyncAlertRules, DeleteInactiveInstances, vars, engineVars
  <2> QED  BY <1>3, <1>5, <1>7, <2>1, <2>2
<1> QED  BY <1>8, <1>9

-----------------------------------------------------------------------------
(***************************************************************************)
(* The invariant is inductive.                                             *)
(***************************************************************************)
LEMMA InvInit == Init => IInv
<1> SUFFICES ASSUME Init  PROVE IInv
  OBVIOUS
<1>1. Base  BY BaseInit
<1>2. calm = 0 /\ \A e \in Engines : phase[e] = "off" /\ pause[e] = 0  BY DEF Init
<1>3. MuteIsEmpty  BY DEF Init, MuteIsEmpty
<1>4. BootIsNew /\ HostIsCenter /\ HeartbeatReaches  BY <1>2 DEF BootIsNew, HostIsCenter, HeartbeatReaches
<1>5. DelayEnds  BY <1>2, TimesAssumption DEF DelayEnds
<1>6. IdsFresh /\ Forgotten  BY <1>2 DEF IdsFresh, Forgotten, Reread, Cleared
<1>7. Young  BY <1>2 DEF Young
<1>8. Aged  BY DEF Aged, Init, RealKeys, Keys
<1>9. RingsRight  BY <1>2, TimesAssumption DEF RingsRight, Rebuilt
<1>10. Synced  BY <1>2 DEF Synced
<1> QED  BY <1>1, <1>3, <1>4, <1>5, <1>6, <1>7, <1>8, <1>9, <1>10 DEF IInv

LEMMA InvStep == IInv /\ [Next]_vars => IInv'
<1> SUFFICES ASSUME IInv, [Next]_vars  PROVE IInv'
  OBVIOUS
<1>1. Base' /\ MuteIsEmpty' /\ HostIsCenter'  BY BaseStep, MuteStep DEF IInv
<1>2. TypeOK' /\ calm' \in Nat  BY <1>1, SettleType DEF Base, TypeOK
<1>3. CASE calm' = 0
  <2>1. BootIsNew' /\ HeartbeatReaches'  BY <1>3 DEF BootIsNew, HeartbeatReaches
  <2>2. DelayEnds'  BY <1>2, <1>3, TimesAssumption DEF DelayEnds, TypeOK
  <2>3. IdsFresh' /\ Forgotten'  BY <1>3 DEF IdsFresh, Forgotten, Reread, Cleared
  <2>4. Young'  BY <1>3 DEF Young
  <2>5. Aged'
    <3>1. \A k \in RealKeys, e \in Engines : clock'[e][k] \in Nat \cup {None}
      BY <1>2 DEF TypeOK, RealKeys, Keys
    <3> QED  BY <1>3, <3>1 DEF Aged
  <2>6. RingsRight'  BY <1>3, TimesAssumption DEF RingsRight, Rebuilt
  <2>7. Synced'  BY <1>3, TimesAssumption DEF Synced, Slow
  <2> QED  BY <1>1, <2>1, <2>2, <2>3, <2>4, <2>5, <2>6, <2>7 DEF IInv
<1>4. CASE calm' # 0
  <2>1. QuietNext  BY <1>4, QuietSteps
  <2>2. Young' /\ Aged'  BY <2>1, YoungStep, AgedStep
  <2>3. RingsRight' /\ Synced'  BY <1>2, <2>1, <2>2, RingsStep, SyncedStep
  <2> QED  BY <1>1, <2>1, <2>2, <2>3, BootStep, ReachStep, DelayStep, FreshStep, ForgottenStep DEF IInv
<1> QED  BY <1>3, <1>4

\* The inductive invariant holds: from InvInit and InvStep by induction on the steps.
THEOREM Invariant == Spec => []IInv
BY InvInit, InvStep, PTL DEF Spec

-----------------------------------------------------------------------------
(***************************************************************************)
(* The rules of every datasource have exactly one owner among the engines  *)
(* that share it, once nothing has gone wrong for Settle ticks.            *)
(***************************************************************************)
THEOREM RulesAreOwnedOnce == Spec => []OwnedOnce
<1>1. IInv => OwnedOnce
  <2>1. SUFFICES ASSUME IInv, calm = Settle, NEW p \in Pairs, Sharing(p.ds) # {}
                 PROVE \E e \in Sharing(p.ds) : {f \in Sharing(p.ds) : p \in workers[f]} = {e}
    BY DEF OwnedOnce, OneOwnerEach
  <2>2. p.ds \in RealKeys /\ p.rule \in Rules  BY PairsAssumption DEF RealKeys
  <2>3. Sharing(p.ds) \in SUBSET Engines  BY DEF Sharing, Serving
  <2>4. calm > Window /\ calm > Slow + 1
    BY <2>1, TimesAssumption DEF Settle, Slow
  <2>5. \A f \in Sharing(p.ds) : ring[f][p.ds] = Sharing(p.ds)
    BY <2>1, <2>2, <2>4 DEF IInv, RingsRight, Rebuilt
  <2>6. \A f \in Sharing(p.ds) : workers[f] = OwnPairs(f)
    BY <2>1, <2>3, <2>4 DEF IInv, Synced, Sharing, Serving
  <2>7. \A f \in Sharing(p.ds) : p.ds = HostDatasource => f \in Centers  BY DEF Sharing
  <2> DEFINE node == GetNode(Sharing(p.ds), p.rule)
  <2>8. \A f \in Sharing(p.ds) : p \in workers[f] <=> node = f
    BY <2>1, <2>5, <2>6, <2>7 DEF OwnPairs, IsHit
  <2>9. node \in Sharing(p.ds)
    BY <2>1, <2>2, <2>3, RankAssumption DEF GetNode
  <2> QED  BY <2>8, <2>9
<1> QED  BY <1>1, Invariant, PTL

(***************************************************************************)
(* What an engine evaluates on a datasource of others, it does because its *)
(* cluster has a datasource still.                                         *)
(***************************************************************************)
THEOREM StrangersHaveOne == Spec => []StrangersKeepOne
<1>1. IInv => StrangersKeepOne
  <2>1. SUFFICES ASSUME IInv, calm = Settle, NEW e \in Serving, NEW p \in workers[e], Bound(ClusterOf[e]) = {}
                 PROVE e \in Sharing(p.ds)
    BY DEF StrangersKeepOne
  <2>2. calm >= 2 /\ calm > Slow + 1 /\ e \in Engines  BY <2>1, TimesAssumption DEF Settle, Slow, Serving
  <2>3. workers[e] = OwnPairs(e)  BY <2>1, <2>2 DEF IInv, Synced, Serving
  <2>4. p \in Pairs /\ ring[e][p.ds] # {} /\ (p.ds = HostDatasource => e \in Centers)
    BY <2>1, <2>3 DEF OwnPairs, IsHit
  <2>5. p.ds \in Keys  BY <2>4, PairsAssumption DEF Keys
  <2>6. p.ds = HostDatasource  BY <2>1, <2>2, <2>4, <2>5 DEF IInv, Forgotten, Cleared
  <2> QED  BY <2>1, <2>4, <2>6 DEF Sharing
<1> QED  BY <1>1, Invariant, PTL

(***************************************************************************)
(* In quiet times no rule changes hands.                                   *)
(***************************************************************************)
THEOREM RulesStay == Spec => Steady
<1>1. IInv /\ [Next]_vars => [calm = Settle /\ calm' = Settle => workers' = workers]_vars
  <2>1. SUFFICES ASSUME IInv, [Next]_vars, calm = Settle, calm' = Settle  PROVE workers' = workers
    OBVIOUS
  <2>2. Settle > 0 /\ calm > Slow + 1  BY <2>1, TimesAssumption DEF Settle, Slow
  <2>3. QuietNext  BY <2>1, <2>2, QuietSteps
  <2>4. TypeOK  BY <2>1 DEF IInv, Base
  <2>5. ASSUME NEW e \in Engines, SyncAlertRules(e)  PROVE workers' = workers
    <3>1. workers[e] = OwnPairs(e)  BY <2>1, <2>2, <2>5 DEF IInv, Synced, SyncAlertRules
    <3> QED  BY <2>4, <2>5, <3>1 DEF TypeOK, SyncAlertRules
  <2> QED
    BY <2>3, <2>5 DEF QuietNext, QuietReport, QuietFail, QuietRings, QuietHost, DeleteInactiveInstances, Tick,
       vars, engineVars
<1> QED  BY <1>1, Invariant, PTL DEF Spec, Steady
==============================================================================
