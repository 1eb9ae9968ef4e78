------------------------- MODULE AlertProcessorProofs -------------------------
(***************************************************************************)
(* The safety of AlertProcessor, for every set of label sets, every set of *)
(* versions of the rule and every clock.  Inv strengthens the properties   *)
(* to an inductive invariant: it ties what the processor stores (fires,    *)
(* pendings, db) to what happened (hist).                                  *)
(***************************************************************************)
EXTENDS AlertProcessor, TLAPS

\* The parts of the inductive invariant beyond TypeOK and FiresBackedByRows.

\* An episode has at most the number of notifications its row says, and none
\* that the processor knows of when it holds no fired event.
CountsBacked ==
  /\ \A h \in Hashes \ DOMAIN fires : hist[h].count = 0
  /\ \A h \in DOMAIN db : hist[h].count <= db[h].curNumber

\* The LastSentTime of an event this processor sent is the time of that event.
SentTimesKnown ==
  \A h \in DOMAIN fires :
    hist[h].sentHere # Never => /\ fires[h].lastSentTime = hist[h].sentHere
                                /\ hist[h].sent = hist[h].sentHere

\* A pending event is as old as the evaluations that report it without a gap.
\* The stamps of an external caller need not grow, so this is for workers.
TriggerTimesKnown ==
  /\ \A h \in DOMAIN pendings : hist[h].since # Never
  /\ ~External => \A h \in DOMAIN pendings : hist[h].since <= pendings[h]
  /\ ~External => \A h \in Hashes : hist[h].since <= now /\ hist[h].handled <= now

\* LastEvalTime is no older than the last evaluation fireEvent saw.
EvalTimesKnown ==
  ~External => \A h \in DOMAIN fires : hist[h].handled <= fires[h].lastEvalTime

Inv ==
  /\ TypeOK
  /\ FiresBackedByRows
  /\ CountsBacked
  /\ SentTimesKnown
  /\ TriggerTimesKnown
  /\ EvalTimesKnown

-------------------------------------------------------------------------------
\* The stamps are times, and the points of a worker are stamped with the clock.
LEMMA StampsNat ==
  ASSUME TypeOK, NEW stamp \in Stamps
  PROVE  /\ stamp \in Nat
         /\ EvalTime(stamp) \in Nat
         /\ ~External => stamp = now /\ EvalTime(stamp) = now
BY TimeAssumption, ExternalAssumption DEF TypeOK, Stamps, EvalTime

\* The invariant holds of the maps an evaluation computes.
LEMMA HandleTyped ==
  ASSUME TypeOK, FiresBackedByRows, NEW points \in SUBSET Hashes, NEW muted \in SUBSET points,
         NEW inhibit \in BOOLEAN, NEW stamp \in Stamps, Handle(points, muted, inhibit, stamp)
  PROVE  TypeOK'
<1> DEFINE live   == points \ muted
           firing == NotInhibited(FireEvents(cachedRule, live, stamp), inhibit)
           sent   == Sent(cachedRule, firing, stamp)
           gone   == Recovered(cachedRule, points)
           touched == firing \cup SharedUpdate(cachedRule, live)
<1>1. /\ firing \in SUBSET live /\ sent \in SUBSET firing /\ live \in SUBSET points
      /\ gone \in SUBSET DOMAIN fires /\ sent \cap gone = {}
  BY DEF NotInhibited, FireEvents, Sent, Recovered
<1>2. /\ stamp \in Nat /\ EvalTime(stamp) \in Nat
  BY StampsNat
<1>3. /\ DOMAIN fires \subseteq Hashes /\ \A h \in DOMAIN fires : fires[h] \in Fired
      /\ DOMAIN pendings \subseteq Hashes /\ \A h \in DOMAIN pendings : pendings[h] \in Nat
      /\ DOMAIN db \subseteq Hashes /\ \A h \in DOMAIN db : db[h] \in Row
  BY DEF IsMap, TypeOK
<1>4. \A h \in sent : SentEvent(h, stamp) \in Fired
  BY <1>2, <1>3 DEF SentEvent, Fired
<1>5. IsMap(fires', Fired)
  <2>1. \A h \in (DOMAIN fires \cup sent) \ gone :
          (IF h \in sent THEN SentEvent(h, stamp)
           ELSE IF h \in touched THEN [fires[h] EXCEPT !.lastEvalTime = EvalTime(stamp)]
           ELSE fires[h]) \in Fired
    BY <1>2, <1>3, <1>4 DEF Fired
  <2>2. fires' = FiresAfter(sent, touched, gone, stamp)
    BY DEF Handle
  <2> QED
    BY <1>1, <1>3, <2>1, <2>2 DEF FiresAfter, IsMap
<1>6. IsMap(pendings', Nat) /\ shared' \subseteq Hashes
  <2>1. Waiting(cachedRule, points, live) \subseteq Hashes
    BY <1>1, <1>3 DEF Waiting
  <2>2. \A h \in Waiting(cachedRule, points, live) : PreTriggerTime(h, stamp) \in Nat
    BY <1>2, <1>3 DEF PreTriggerTime
  <2>3. /\ pendings' = PendingsAfter(cachedRule, points, live, stamp)
        /\ shared' = SharedAfter(cachedRule, points, live, sent)
    BY DEF Handle
  <2> QED
    BY <2>1, <2>2, <2>3 DEF PendingsAfter, SharedAfter, IsMap
<1>7. IsMap(db', Row)
  <2>1. db' = RowsAfter(sent, gone, stamp)
    BY DEF Handle
  <2>2. \A h \in (DOMAIN db \cup sent) \ gone :
          (IF h \in sent THEN [ firstTriggerTime |-> SentEvent(h, stamp).firstTriggerTime,
                                curNumber        |-> SentEvent(h, stamp).curNumber ]
           ELSE db[h]) \in Row
    BY <1>3, <1>4 DEF Row, Fired
  <2> QED
    BY <1>1, <1>3, <2>1, <2>2 DEF RowsAfter, IsMap
<1>8. hist' \in [Hashes -> Trail]
  <2>1. hist' = HistoryAfter(points, firing, sent, gone, stamp)
    BY DEF Handle
  <2> QED
    BY <2>1, <1>2 DEF HistoryAfter, Trail, Stamp, Never, TypeOK
<1>9. pushed' \subseteq [hash : Hashes, recovered : BOOLEAN]
  BY DEF Handle, Pushes
<1> QED
  BY <1>5, <1>6, <1>7, <1>8, <1>9, RulesAssumption DEF Handle, TypeOK

\* One evaluation keeps what the processor stores in step with what happened.
LEMMA HandleInv ==
  ASSUME Inv, NEW points \in SUBSET Hashes, NEW muted \in SUBSET points,
         NEW inhibit \in BOOLEAN, NEW stamp \in Stamps, Handle(points, muted, inhibit, stamp)
  PROVE  Inv'
<1> DEFINE live   == points \ muted
           firing == NotInhibited(FireEvents(cachedRule, live, stamp), inhibit)
           sent   == Sent(cachedRule, firing, stamp)
           gone   == Recovered(cachedRule, points)
           touched == firing \cup SharedUpdate(cachedRule, live)
<1>1. /\ firing \in SUBSET live /\ sent \in SUBSET firing /\ live \in SUBSET points
      /\ gone \in SUBSET (DOMAIN fires \ points) /\ firing \in SUBSET points
      /\ \A h \in firing : h \in touched /\ (h \in DOMAIN fires \/ h \in sent)
  BY DEF NotInhibited, FireEvents, Sent, Recovered
<1>2. /\ stamp \in Nat /\ EvalTime(stamp) \in Nat
      /\ ~External => stamp = now /\ EvalTime(stamp) = now
  BY StampsNat DEF Inv
<1>3. /\ DOMAIN fires \subseteq Hashes /\ \A h \in DOMAIN fires : fires[h] \in Fired
      /\ DOMAIN pendings \subseteq Hashes /\ \A h \in DOMAIN pendings : pendings[h] \in Nat
      /\ DOMAIN db \subseteq Hashes /\ \A h \in DOMAIN db : db[h] \in Row
      /\ \A h \in Hashes : hist[h] \in Trail
      /\ now \in Nat
  BY DEF Inv, TypeOK, IsMap
<1>4. /\ DOMAIN fires' = (DOMAIN fires \cup sent) \ gone
      /\ \A h \in DOMAIN fires' :
           /\ fires'[h].firstTriggerTime = IF h \in sent \ DOMAIN fires THEN stamp
                                           ELSE fires[h].firstTriggerTime
           /\ fires'[h].curNumber = IF h \notin sent THEN fires[h].curNumber
                                    ELSE IF h \in DOMAIN fires THEN fires[h].curNumber + 1 ELSE 1
           /\ fires'[h].lastEvalTime = IF h \in sent \cup touched THEN EvalTime(stamp)
                                       ELSE fires[h].lastEvalTime
           /\ fires'[h].lastSentTime = IF h \in sent THEN EvalTime(stamp) ELSE fires[h].lastSentTime
  <2>1. /\ DOMAIN fires' = (DOMAIN fires \cup sent) \ gone
        /\ \A h \in DOMAIN fires' :
             fires'[h] = IF h \in sent THEN SentEvent(h, stamp)
                         ELSE IF h \in touched THEN [fires[h] EXCEPT !.lastEvalTime = EvalTime(stamp)]
                         ELSE fires[h]
    BY DEF Handle, FiresAfter
  <2> HIDE DEF live, firing, sent, gone, touched
  <2>2. ASSUME NEW h \in DOMAIN fires'
        PROVE  /\ fires'[h].firstTriggerTime = IF h \in sent \ DOMAIN fires THEN stamp
                                               ELSE fires[h].firstTriggerTime
               /\ fires'[h].curNumber = IF h \notin sent THEN fires[h].curNumber
                                        ELSE IF h \in DOMAIN fires THEN fires[h].curNumber + 1 ELSE 1
               /\ fires'[h].lastEvalTime = IF h \in sent \cup touched THEN EvalTime(stamp)
                                           ELSE fires[h].lastEvalTime
               /\ fires'[h].lastSentTime = IF h \in sent THEN EvalTime(stamp)
                                           ELSE fires[h].lastSentTime
    <3>1. CASE h \in sent
      <4>1. fires'[h] = SentEvent(h, stamp)
        BY <2>1, <2>2, <3>1
      <4> QED
        BY <3>1, <4>1 DEF SentEvent
    <3>2. CASE h \in touched \ sent
      <4>1. fires'[h] = [fires[h] EXCEPT !.lastEvalTime = EvalTime(stamp)] /\ fires[h] \in Fired
        BY <1>3, <2>1, <2>2, <3>2
      <4> QED
        BY <3>2, <4>1 DEF Fired
    <3>3. CASE h \notin touched \cup sent
      <4>1. fires'[h] = fires[h]
        BY <2>1, <2>2, <3>3
      <4> QED
        BY <3>3, <4>1
    <3> QED
      BY <3>1, <3>2, <3>3
  <2> QED
    BY <2>1, <2>2
<1>5. /\ DOMAIN db' = (DOMAIN db \cup sent) \ gone
      /\ \A h \in DOMAIN db' :
           /\ db'[h].firstTriggerTime = IF h \in sent \ DOMAIN fires THEN stamp
                                        ELSE IF h \in sent THEN fires[h].firstTriggerTime
                                        ELSE db[h].firstTriggerTime
           /\ db'[h].curNumber = IF h \notin sent THEN db[h].curNumber
                                 ELSE IF h \in DOMAIN fires THEN fires[h].curNumber + 1 ELSE 1
  <2>1. /\ DOMAIN db' = (DOMAIN db \cup sent) \ gone
        /\ \A h \in DOMAIN db' :
             db'[h] = IF h \in sent THEN [ firstTriggerTime |-> SentEvent(h, stamp).firstTriggerTime,
                                           curNumber        |-> SentEvent(h, stamp).curNumber ]
                      ELSE db[h]
    BY DEF Handle, RowsAfter
  <2> HIDE DEF live, firing, sent, gone, touched
  <2>2. \A h : /\ SentEvent(h, stamp).firstTriggerTime
                    = IF h \in DOMAIN fires THEN fires[h].firstTriggerTime ELSE stamp
               /\ SentEvent(h, stamp).curNumber
                    = IF h \in DOMAIN fires THEN fires[h].curNumber + 1 ELSE 1
    BY DEF SentEvent
  <2>3. ASSUME NEW h \in DOMAIN db'
        PROVE  /\ db'[h].firstTriggerTime = IF h \in sent \ DOMAIN fires THEN stamp
                                            ELSE IF h \in sent THEN fires[h].firstTriggerTime
                                            ELSE db[h].firstTriggerTime
               /\ db'[h].curNumber = IF h \notin sent THEN db[h].curNumber
                                     ELSE IF h \in DOMAIN fires THEN fires[h].curNumber + 1 ELSE 1
    <3>1. CASE h \in sent
      <4>1. db'[h] = [ firstTriggerTime |-> SentEvent(h, stamp).firstTriggerTime,
                       curNumber        |-> SentEvent(h, stamp).curNumber ]
        BY <2>1, <2>3, <3>1
      <4> QED
        BY <2>2, <3>1, <4>1
    <3>2. CASE h \notin sent
      BY <2>1, <2>3, <3>2
    <3> QED
      BY <3>1, <3>2
  <2> QED
    BY <2>1, <2>3
<1>6. /\ DOMAIN pendings' = Waiting(cachedRule, points, live)
      /\ DOMAIN pendings' \subseteq points
      /\ \A h \in DOMAIN pendings' :
           pendings'[h] = IF h \in DOMAIN pendings THEN pendings[h] ELSE stamp
  BY DEF Handle, PendingsAfter, PreTriggerTime, Waiting
<1>7. \A h \in Hashes :
        /\ hist'[h].since = IF h \notin points THEN Never
                            ELSE IF hist[h].since = Never THEN stamp ELSE hist[h].since
        /\ hist'[h].handled = IF h \in firing THEN EvalTime(stamp) ELSE hist[h].handled
        /\ hist'[h].sent = IF h \in sent THEN EvalTime(stamp)
                           ELSE IF h \in gone THEN Never ELSE hist[h].sent
        /\ hist'[h].sentHere = IF h \in sent THEN EvalTime(stamp)
                               ELSE IF h \in gone THEN Never ELSE hist[h].sentHere
        /\ hist'[h].count = IF h \in sent THEN hist[h].count + 1
                            ELSE IF h \in gone THEN 0 ELSE hist[h].count
  BY DEF Handle, HistoryAfter
<1>8. TypeOK'
  BY HandleTyped DEF Inv
<1> HIDE DEF live, firing, sent, gone, touched
<1>9. FiresBackedByRows'
  BY <1>1, <1>3, <1>4, <1>5 DEF Inv, FiresBackedByRows
<1>10. CountsBacked'
  BY <1>1, <1>3, <1>4, <1>5, <1>7
     DEF Inv, CountsBacked, FiresBackedByRows, Fired, Row, Trail
<1>11. SentTimesKnown'
  BY <1>1, <1>2, <1>3, <1>4, <1>7 DEF Inv, SentTimesKnown, Fired, Trail, Never
<1>12. TriggerTimesKnown'
  <2>1. now' = now
    BY DEF Handle
  <2> QED
    BY <1>1, <1>2, <1>3, <1>6, <1>7, <2>1 DEF Inv, TriggerTimesKnown, Trail, Stamp, Never
<1>13. EvalTimesKnown'
  BY <1>1, <1>2, <1>3, <1>4, <1>7
     DEF Inv, EvalTimesKnown, TriggerTimesKnown, Fired, Trail, Stamp, Never
<1> QED
  BY <1>8, <1>9, <1>10, <1>11, <1>12, <1>13 DEF Inv

\* The initial processor holds nothing, and nothing has happened.
LEMMA InitInv == Init => Inv
<1> SUFFICES ASSUME Init PROVE Inv
  OBVIOUS
<1>1. IsMap(EmptyMap, Nat) /\ IsMap(EmptyMap, Fired) /\ IsMap(EmptyMap, Row)
  BY DEF IsMap, EmptyMap
<1>2. DOMAIN EmptyMap = {}
  BY DEF EmptyMap
<1>3. hist \in [Hashes -> Trail] /\ \A h \in Hashes : hist[h] = NoTrail
  BY DEF Init, NoTrail, Trail, Stamp, Never
<1>4. TypeOK
  BY <1>1, <1>3, TimeAssumption DEF Init, TypeOK
<1>5. FiresBackedByRows /\ CountsBacked /\ SentTimesKnown
  BY <1>2, <1>3 DEF Init, FiresBackedByRows, CountsBacked, SentTimesKnown, NoTrail
<1>6. TriggerTimesKnown /\ EvalTimesKnown
  <2>1. now \in Nat
    BY <1>4 DEF TypeOK
  <2> QED
    BY <1>2, <1>3, <2>1 DEF Init, TriggerTimesKnown, EvalTimesKnown, NoTrail, Never
<1> QED
  BY <1>4, <1>5, <1>6 DEF Inv

\* A recovery from the HTTP interface removes the event from every map.
LEMMA RecoverSingleInv ==
  ASSUME Inv, NEW h \in Hashes, NEW stamp \in Stamps, RecoverSingle(h, stamp)
  PROVE  Inv'
<1>1. /\ DOMAIN fires' = DOMAIN fires \ {h} /\ \A g \in DOMAIN fires' : fires'[g] = fires[g]
      /\ DOMAIN pendings' = DOMAIN pendings \ {h}
      /\ \A g \in DOMAIN pendings' : pendings'[g] = pendings[g]
      /\ DOMAIN db' = DOMAIN db \ {h} /\ \A g \in DOMAIN db' : db'[g] = db[g]
      /\ External
  BY DEF RecoverSingle
<1>2. /\ \A g \in Hashes : hist[g] \in Trail
      /\ hist' \in [Hashes -> Trail]
      /\ \A g \in Hashes \ {h} : hist'[g] = hist[g]
      /\ hist'[h].count = 0
  <2>1. \A g \in Hashes : hist[g] \in Trail
    BY DEF Inv, TypeOK
  <2>2. hist' = [hist EXCEPT ![h] =
                  [hist[h] EXCEPT !.since = Never, !.sent = Never, !.sentHere = Never, !.count = 0]]
    BY DEF RecoverSingle
  <2>3. [hist[h] EXCEPT !.since = Never, !.sent = Never, !.sentHere = Never, !.count = 0] \in Trail
    BY <2>1 DEF Trail, Stamp, Never
  <2>4. hist'[h] = [hist[h] EXCEPT !.since = Never, !.sent = Never, !.sentHere = Never, !.count = 0]
    BY <2>2 DEF Inv, TypeOK
  <2> QED
    BY <2>1, <2>2, <2>3, <2>4 DEF Inv, TypeOK, Trail
<1>3. TypeOK'
  <2>1. IsMap(fires', Fired) /\ IsMap(pendings', Nat) /\ IsMap(db', Row)
    BY DEF RecoverSingle, Inv, TypeOK, IsMap
  <2> QED
    BY <1>2, <2>1 DEF RecoverSingle, Inv, TypeOK, Pushes
<1>4. DOMAIN fires \subseteq Hashes /\ DOMAIN pendings \subseteq Hashes /\ DOMAIN db \subseteq Hashes
  BY DEF Inv, TypeOK, IsMap
<1>5. FiresBackedByRows' /\ CountsBacked' /\ SentTimesKnown'
  BY <1>1, <1>2, <1>4 DEF Inv, FiresBackedByRows, CountsBacked, SentTimesKnown
<1>6. TriggerTimesKnown' /\ EvalTimesKnown'
  BY <1>1, <1>2, <1>4 DEF Inv, TriggerTimesKnown, EvalTimesKnown
<1> QED
  BY <1>3, <1>5, <1>6 DEF Inv

\* A processor loaded from the table knows every row; one whose query failed
\* knows nothing.
LEMMA ReloadInv ==
  ASSUME Inv, Reload \/ ReloadFailed
  PROVE  Inv'
<1>1. DOMAIN pendings' = {} /\ IsMap(pendings', Nat) /\ shared' = {}
  BY DEF Reload, ReloadFailed, EmptyMap, IsMap
<1>2. /\ DOMAIN db \subseteq Hashes /\ DOMAIN fires \subseteq Hashes
      /\ \A h \in DOMAIN db : db[h] \in Row
      /\ \A h \in Hashes : hist[h] \in Trail
      /\ now \in Nat /\ db' = db /\ now' = now
  BY DEF Inv, TypeOK, IsMap, Reload, ReloadFailed
<1>3. /\ hist' \in [Hashes -> Trail]
      /\ \A h \in Hashes : /\ hist'[h].handled = Never /\ hist'[h].sentHere = Never
                           /\ hist'[h].since = hist[h].since
                           /\ hist'[h].count = IF Reload THEN hist[h].count ELSE 0
  <2>1. CASE Reload
    <3>1. hist' = [h \in Hashes |-> [hist[h] EXCEPT !.handled = Never, !.sentHere = Never]]
      BY <2>1 DEF Reload
    <3>2. \A h \in Hashes :
             [hist[h] EXCEPT !.handled = Never, !.sentHere = Never] \in Trail
      BY <1>2 DEF Trail, Stamp, Never
    <3>3. \A h \in Hashes : hist'[h] = [hist[h] EXCEPT !.handled = Never, !.sentHere = Never]
      BY <3>1
    <3> QED
      BY <1>2, <2>1, <3>1, <3>2, <3>3 DEF Trail
  <2>2. CASE ReloadFailed /\ ~Reload
    <3>1. hist' = [h \in Hashes |->
                     [hist[h] EXCEPT !.handled = Never, !.sentHere = Never, !.count = 0]]
      BY <2>2 DEF ReloadFailed
    <3>2. \A h \in Hashes :
             [hist[h] EXCEPT !.handled = Never, !.sentHere = Never, !.count = 0] \in Trail
      BY <1>2 DEF Trail, Stamp, Never
    <3>3. \A h \in Hashes :
             hist'[h] = [hist[h] EXCEPT !.handled = Never, !.sentHere = Never, !.count = 0]
      BY <3>1
    <3> QED
      BY <1>2, <2>2, <3>1, <3>2, <3>3 DEF Trail
  <2> QED
    BY <2>1, <2>2
<1>4. /\ IsMap(fires', Fired)
      /\ DOMAIN fires' = IF Reload THEN DOMAIN db ELSE {}
      /\ \A h \in DOMAIN fires' : /\ fires'[h].curNumber = db[h].curNumber
                                  /\ fires'[h].firstTriggerTime = db[h].firstTriggerTime
  <2>1. CASE Reload
    BY <1>2, <2>1 DEF Reload, Reloaded, IsMap, Fired, Row
  <2>2. CASE ReloadFailed /\ ~Reload
    BY <2>2 DEF ReloadFailed, IsMap, EmptyMap
  <2> QED
    BY <2>1, <2>2
<1>5. TypeOK'
  <2>1. rule' \in Rules /\ cachedRule' = cachedRule /\ pushed' = {}
    BY DEF Reload, ReloadFailed, Inv, TypeOK
  <2> QED
    BY <1>1, <1>2, <1>3, <1>4, <2>1 DEF Inv, TypeOK
<1>6. FiresBackedByRows' /\ SentTimesKnown'
  BY <1>2, <1>3, <1>4 DEF FiresBackedByRows, SentTimesKnown
<1>7. CountsBacked'
  BY <1>2, <1>3, <1>4 DEF Inv, CountsBacked, FiresBackedByRows, Row
<1>8. TriggerTimesKnown' /\ EvalTimesKnown'
  <2>1. \A h \in DOMAIN fires' : fires'[h].lastEvalTime \in Nat /\ h \in Hashes
    BY <1>4 DEF IsMap, Fired
  <2> QED
    BY <1>1, <1>2, <1>3, <2>1 DEF Inv, TriggerTimesKnown, EvalTimesKnown, Never
<1> QED
  BY <1>5, <1>6, <1>7, <1>8 DEF Inv

\* A step of the environment or of the clock leaves the maps alone.
LEMMA OtherInv ==
  ASSUME Inv, HandleWithoutRule \/ EditRule \/ Tick \/ UNCHANGED vars
  PROVE  Inv'
<1>1. /\ pendings' = pendings /\ shared' = shared /\ fires' = fires /\ db' = db /\ hist' = hist
      /\ rule' = rule /\ cachedRule' \in Rules \cup {NoRule}
      /\ now' \in Nat /\ now <= now' /\ (pushed' = {} \/ pushed' = pushed)
  BY DEF HandleWithoutRule, EditRule, Tick, vars, Inv, TypeOK
<1>2. TypeOK' /\ FiresBackedByRows' /\ CountsBacked' /\ SentTimesKnown' /\ EvalTimesKnown'
  BY <1>1 DEF Inv, TypeOK, FiresBackedByRows, CountsBacked, SentTimesKnown, EvalTimesKnown
<1>3. TriggerTimesKnown'
  BY <1>1 DEF Inv, TypeOK, TriggerTimesKnown, Trail, Stamp, Never
<1> QED
  BY <1>2, <1>3 DEF Inv

LEMMA NextInv == Inv /\ [Next]_vars => Inv'
BY HandleInv, RecoverSingleInv, ReloadInv, OtherInv DEF Next

LEMMA InvHolds == Spec => []Inv
BY InitInv, NextInv, PTL DEF Spec

\* Every variable of the processor keeps its type.
THEOREM TypeCorrect == Spec => []TypeOK
<1>1. Inv => TypeOK
  BY DEF Inv
<1> QED
  BY <1>1, InvHolds, PTL

\* A restart loses no fired event: every one has its row, with its numbers.
THEOREM FiresAreBacked == Spec => []FiresBackedByRows
<1>1. Inv => FiresBackedByRows
  BY DEF Inv
<1> QED
  BY <1>1, InvHolds, PTL

\* A pending event was reported by every evaluation since its trigger time.
THEOREM PendingsAreUninterrupted == Spec => []PendingsUninterrupted
<1>1. Inv => PendingsUninterrupted
  BY DEF Inv, TypeOK, TriggerTimesKnown, PendingsUninterrupted
<1> QED
  BY <1>1, InvHolds, PTL

-------------------------------------------------------------------------------
\* What a pushed notification tells of the evaluation that pushed it.

LEMMA PushedKinds ==
  ASSUME NEW S, NEW G, NEW h
  PROVE  /\ Fire(h) \in Pushes(S, G) => h \in S
         /\ Recovery(h) \in Pushes(S, G) => h \in G
BY DEF Fire, Recovery, Pushes

\* A fire event comes from an evaluation that reports it, after the "for"
\* duration and, if the event had fired before, when it may be repeated.
LEMMA FireStep ==
  ASSUME Inv, Next, NEW h \in Hashes, Fire(h) \in pushed'
  PROVE  \E stamp \in Stamps :
           /\ rule' \in RuleType
           /\ h \in DOMAIN fires => MayRepeat(rule', h, stamp)
           /\ \/ rule'.forDuration = 0
              \/ EvalTime(stamp) - PreTriggerTime(h, stamp) + rule'.evalInterval
                   >= rule'.forDuration
           /\ hist'[h].since = IF hist[h].since = Never THEN stamp ELSE hist[h].since
           /\ hist'[h].sent = EvalTime(stamp)
           /\ hist'[h].count = hist[h].count + 1
<1>1. PICK points \in SUBSET Hashes, muted \in SUBSET Hashes,
           inhibit \in BOOLEAN, stamp \in Stamps : Handle(points, muted, inhibit, stamp)
  <2>1. ~(HandleWithoutRule \/ Reload \/ ReloadFailed \/ EditRule \/ Tick)
    BY DEF HandleWithoutRule, Reload, ReloadFailed, EditRule, Tick
  <2>2. ~(\E g \in Hashes, stamp \in Stamps : RecoverSingle(g, stamp))
    <3> SUFFICES ASSUME NEW g \in Hashes, NEW stamp \in Stamps, RecoverSingle(g, stamp)
                 PROVE  FALSE
      OBVIOUS
    <3>1. pushed' = Pushes({}, {g})
      BY DEF RecoverSingle
    <3> QED
      BY <3>1, PushedKinds
  <2> QED
    BY <2>1, <2>2 DEF Next
<1> DEFINE live   == points \ muted
           firing == NotInhibited(FireEvents(cachedRule, live, stamp), inhibit)
           sent   == Sent(cachedRule, firing, stamp)
           gone   == Recovered(cachedRule, points)
<1>2. h \in sent
  BY <1>1, PushedKinds DEF Handle
<1>3. /\ rule' = cachedRule /\ rule' \in RuleType
  BY <1>1, RulesAssumption DEF Handle, Inv, TypeOK
<1>4. /\ h \in points
      /\ h \in DOMAIN fires => MayRepeat(cachedRule, h, stamp)
      /\ \/ cachedRule.forDuration = 0
         \/ EvalTime(stamp) - PreTriggerTime(h, stamp) + cachedRule.evalInterval
              >= cachedRule.forDuration
  BY <1>2 DEF Sent, NotInhibited, FireEvents
<1>5. hist' = HistoryAfter(points, firing, sent, gone, stamp)
  BY <1>1 DEF Handle
<1> HIDE DEF live, firing, sent, gone
<1>6. /\ hist'[h].since = IF hist[h].since = Never THEN stamp ELSE hist[h].since
      /\ hist'[h].sent = EvalTime(stamp)
      /\ hist'[h].count = hist[h].count + 1
  BY <1>2, <1>4, <1>5 DEF HistoryAfter
<1> QED
  BY <1>3, <1>4, <1>6

\* A worker's recovery comes from an evaluation that does not report the event,
\* the recover duration after its last evaluation.
LEMMA RecoveryStep ==
  ASSUME Inv, Next, NEW h \in Hashes, Recovery(h) \in pushed'
  PROVE  /\ rule' \in RuleType
         /\ h \in DOMAIN fires
         /\ hist'[h].since = Never
         /\ ~External => MayRecover(rule', h, now)
<1>1. CASE \E points \in SUBSET Hashes : \E muted \in SUBSET points :
             \E inhibit \in BOOLEAN, stamp \in Stamps : Handle(points, muted, inhibit, stamp)
  <2>1. PICK points \in SUBSET Hashes, muted \in SUBSET Hashes,
             inhibit \in BOOLEAN, stamp \in Stamps : Handle(points, muted, inhibit, stamp)
    BY <1>1
  <2>2. h \in Recovered(cachedRule, points)
    BY <2>1, PushedKinds DEF Handle
  <2>3. rule' = cachedRule /\ rule' \in RuleType
    BY <2>1, RulesAssumption DEF Handle, Inv, TypeOK
  <2>4. hist'[h].since = Never
    BY <2>1, <2>2 DEF Handle, HistoryAfter, Recovered
  <2> QED
    BY <2>2, <2>3, <2>4 DEF Recovered
<1>2. CASE \E g \in Hashes, stamp \in Stamps : RecoverSingle(g, stamp)
  <2>1. PICK stamp \in Stamps : RecoverSingle(h, stamp)
    <3>1. PICK g \in Hashes, stamp \in Stamps : RecoverSingle(g, stamp)
      BY <1>2
    <3>2. pushed' = Pushes({}, {g})
      BY <3>1 DEF RecoverSingle
    <3>3. g = h
      BY <3>2, PushedKinds
    <3> QED
      BY <3>1, <3>3
  <2>2. hist'[h].since = Never
    BY <2>1 DEF RecoverSingle, Inv, TypeOK, Trail
  <2> QED
    BY <2>1, <2>2, RulesAssumption DEF RecoverSingle, Inv, TypeOK
<1> QED
  BY <1>1, <1>2 DEF Next, Recovery, HandleWithoutRule, Reload, ReloadFailed, EditRule, Tick

\* What the invariant says of the history of one hash.
LEMMA TrailTyped ==
  ASSUME Inv, NEW h \in Hashes
  PROVE  /\ hist[h] \in Trail
         /\ now \in Nat
         /\ h \in DOMAIN fires => fires[h] \in Fired
         /\ h \in DOMAIN pendings => pendings[h] \in Nat
BY DEF Inv, TypeOK, IsMap

\* A new episode starts only when evaluations have reported the alert without a
\* gap for the "for" duration of the rule that fires it.
THEOREM ForDurationHolds == Spec => ForDurationRespected
<1>1. ASSUME Inv, [Next]_vars
      PROVE  [\A h \in Hashes :
                Fire(h) \in pushed' /\ h \notin DOMAIN fires /\ ~External =>
                  /\ hist'[h].since # Never
                  /\ now - hist'[h].since + rule'.evalInterval >= rule'.forDuration]_vars
  <2> SUFFICES ASSUME Next, NEW h \in Hashes, Fire(h) \in pushed', ~External
               PROVE  /\ hist'[h].since # Never
                      /\ now - hist'[h].since + rule'.evalInterval >= rule'.forDuration
    BY <1>1
  <2>1. PICK stamp \in Stamps :
           /\ rule' \in RuleType
           /\ \/ rule'.forDuration = 0
              \/ EvalTime(stamp) - PreTriggerTime(h, stamp) + rule'.evalInterval
                   >= rule'.forDuration
           /\ hist'[h].since = IF hist[h].since = Never THEN stamp ELSE hist[h].since
    BY <1>1, FireStep
  <2>2. stamp = now /\ EvalTime(stamp) = now
    BY <1>1, StampsNat DEF Inv
  <2>3. /\ h \in DOMAIN pendings => hist[h].since # Never /\ hist[h].since <= pendings[h]
        /\ hist[h].since <= now
    BY <1>1 DEF Inv, TriggerTimesKnown
  <2> QED
    BY <1>1, <2>1, <2>2, <2>3, TrailTyped
       DEF PreTriggerTime, Trail, Stamp, Never, RuleType
<1> QED
  BY <1>1, InvHolds, PTL DEF Spec, ForDurationRespected

\* Repeated fire events are the repeat step of the current rule apart.
THEOREM RepeatStepHolds == Spec => RepeatStepRespected
<1>1. ASSUME Inv, [Next]_vars
      PROVE  [\A h \in DOMAIN fires :
                Fire(h) \in pushed' /\ hist[h].sentHere # Never =>
                  /\ rule'.repeatStep # 0
                  /\ hist'[h].sent - hist[h].sentHere >= rule'.repeatStep * Minute]_vars
  <2> SUFFICES ASSUME Next, NEW h \in DOMAIN fires, Fire(h) \in pushed',
                      hist[h].sentHere # Never
               PROVE  /\ rule'.repeatStep # 0
                      /\ hist'[h].sent - hist[h].sentHere >= rule'.repeatStep * Minute
    BY <1>1
  <2>1. h \in Hashes
    BY <1>1 DEF Inv, TypeOK, IsMap
  <2>2. PICK stamp \in Stamps :
           /\ rule' \in RuleType
           /\ MayRepeat(rule', h, stamp)
           /\ hist'[h].sent = EvalTime(stamp)
    BY <1>1, <2>1, FireStep
  <2>3. fires[h].lastSentTime = hist[h].sentHere /\ hist[h].sentHere \in Nat
    BY <1>1, <2>1, TrailTyped DEF Inv, SentTimesKnown, Trail, Stamp
  <2>4. EvalTime(stamp) \in Nat
    BY <1>1, StampsNat DEF Inv
  <2>5. rule'.repeatStep * Minute \in Nat
    BY <2>2, TimeAssumption DEF RuleType
  <2> QED
    BY <2>2, <2>3, <2>4, <2>5 DEF MayRepeat
<1> QED
  BY <1>1, InvHolds, PTL DEF Spec, RepeatStepRespected

\* An episode is never repeated beyond the maximum of the rule that repeats it.
THEOREM MaxNumberHolds == Spec => MaxNumberRespected
<1>1. ASSUME Inv, [Next]_vars
      PROVE  [\A h \in DOMAIN fires :
                Fire(h) \in pushed' /\ rule'.maxNumber > 0 =>
                  hist'[h].count <= rule'.maxNumber]_vars
  <2> SUFFICES ASSUME Next, NEW h \in DOMAIN fires, Fire(h) \in pushed', rule'.maxNumber > 0
               PROVE  hist'[h].count <= rule'.maxNumber
    BY <1>1
  <2>1. h \in Hashes
    BY <1>1 DEF Inv, TypeOK, IsMap
  <2>2. PICK stamp \in Stamps :
           /\ rule' \in RuleType
           /\ MayRepeat(rule', h, stamp)
           /\ hist'[h].count = hist[h].count + 1
    BY <1>1, <2>1, FireStep
  <2>3. hist[h].count <= fires[h].curNumber
    BY <1>1 DEF Inv, CountsBacked, FiresBackedByRows
  <2> QED
    BY <1>1, <2>1, <2>2, <2>3, TrailTyped DEF MayRepeat, RuleType, Trail, Fired
<1> QED
  BY <1>1, InvHolds, PTL DEF Spec, MaxNumberRespected

\* What an evaluation reports does not recover in it.
THEOREM ReportedDoesNotRecover == Spec => ReportedNeverRecovers
<1>1. ASSUME Inv, [Next]_vars
      PROVE  [\A h \in Hashes : Recovery(h) \in pushed' => hist'[h].since = Never]_vars
  BY <1>1, RecoveryStep
<1> QED
  BY <1>1, InvHolds, PTL DEF Spec, ReportedNeverRecovers

\* A worker's recovery waits for the recover duration after the last evaluation
\* that fireEvent saw.
THEOREM RecoverDurationHolds == Spec => RecoverDurationFromFire
<1>1. ASSUME Inv, [Next]_vars
      PROVE  [\A h \in Hashes : Recovery(h) \in pushed' /\ hist[h].handled # Never /\ ~External
                => now - hist[h].handled >= rule'.recoverDuration]_vars
  <2> SUFFICES ASSUME Next, NEW h \in Hashes, Recovery(h) \in pushed', ~External
               PROVE  now - hist[h].handled >= rule'.recoverDuration
    BY <1>1
  <2>1. rule' \in RuleType /\ h \in DOMAIN fires /\ MayRecover(rule', h, now)
    BY <1>1, RecoveryStep
  <2>2. hist[h].handled <= fires[h].lastEvalTime /\ hist[h].handled <= now
    BY <1>1, <2>1 DEF Inv, EvalTimesKnown, TriggerTimesKnown
  <2> QED
    BY <1>1, <2>1, <2>2, TrailTyped DEF MayRecover, RuleType, Fired, Trail, Stamp, Never
<1> QED
  BY <1>1, InvHolds, PTL DEF Spec, RecoverDurationFromFire

\* The rows of alert_cur_event are the open alerts of the life cycle: the
\* processor implements AlertLifecycle.
THEOREM ImplementsLifecycle == Spec => LifecycleSpec
<1>1. Init => Lifecycle!Init
  BY DEF Init, Lifecycle!Init, EmptyMap
<1>2. ASSUME Inv, [Next]_vars
      PROVE  [Lifecycle!Next]_(Lifecycle!vars)
  <2>1. CASE \E points \in SUBSET Hashes : \E muted \in SUBSET points :
               \E inhibit \in BOOLEAN, stamp \in Stamps : Handle(points, muted, inhibit, stamp)
    <3>1. PICK points \in SUBSET Hashes, muted \in SUBSET Hashes,
               inhibit \in BOOLEAN, stamp \in Stamps : Handle(points, muted, inhibit, stamp)
      BY <2>1
    <3> DEFINE firing == NotInhibited(FireEvents(cachedRule, points \ muted, stamp), inhibit)
               sent   == Sent(cachedRule, firing, stamp)
               gone   == Recovered(cachedRule, points)
    <3>2. /\ sent \in SUBSET Hashes /\ gone \in SUBSET DOMAIN db /\ sent \cap gone = {}
      BY <1>2 DEF NotInhibited, FireEvents, Sent, Recovered, Inv, FiresBackedByRows
    <3>3. DOMAIN db' = (DOMAIN db \cup sent) \ gone /\ pushed' = Pushes(sent, gone)
      BY <3>1 DEF Handle, RowsAfter
    <3> HIDE DEF firing, sent, gone
    <3>4. Lifecycle!Notify(sent, gone)
      BY <3>2, <3>3 DEF Lifecycle!Notify, Lifecycle!Notifications, Lifecycle!Notification, Pushes
    <3> QED
      BY <3>2, <3>4 DEF Lifecycle!Next
  <2>2. CASE \E h \in Hashes, stamp \in Stamps : RecoverSingle(h, stamp)
    <3>1. PICK h \in Hashes, stamp \in Stamps : RecoverSingle(h, stamp)
      BY <2>2
    <3>2. {h} \in SUBSET DOMAIN db
      BY <1>2, <3>1 DEF RecoverSingle, Inv, FiresBackedByRows
    <3>3. Lifecycle!Notify({}, {h})
      BY <3>1, <3>2 DEF RecoverSingle, Lifecycle!Notify, Lifecycle!Notifications,
                        Lifecycle!Notification, Pushes
    <3> QED
      BY <3>2, <3>3 DEF Lifecycle!Next
  <2>3. CASE HandleWithoutRule \/ Reload \/ ReloadFailed \/ EditRule \/ Tick
    <3>1. db' = db /\ pushed' = {}
      BY <2>3 DEF HandleWithoutRule, Reload, ReloadFailed, EditRule, Tick
    <3>2. Lifecycle!Notify({}, {})
      BY <3>1 DEF Lifecycle!Notify, Lifecycle!Notifications
    <3> QED
      BY <3>2 DEF Lifecycle!Next
  <2>4. CASE UNCHANGED vars
    BY <2>4 DEF vars, Lifecycle!vars
  <2> QED
    BY <1>2, <2>1, <2>2, <2>3, <2>4 DEF Next
<1> QED
  BY <1>1, <1>2, InvHolds, PTL DEF Spec, LifecycleSpec, Lifecycle!Spec
===============================================================================
