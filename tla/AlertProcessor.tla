---------------------------- MODULE AlertProcessor ----------------------------
(***************************************************************************)
(* One Processor (alert/process/process.go): what a rule worker does with  *)
(* the anomaly points of an evaluation.  A point becomes an event; an      *)
(* event waits in `pendings` for the rule's "for" duration, then fires,    *)
(* is repeated every NotifyRepeatStep minutes up to NotifyMaxNumber times, *)
(* and recovers when an evaluation no longer reports it.                   *)
(*                                                                         *)
(* A worker calls Handle from one goroutine, so Handle is one action here. *)
(* The queue has room and its consumer keeps up: a pushed event is in the  *)
(* table alert_cur_event (the variable db) at once.  AlertPipeline lifts   *)
(* both restrictions.                                                      *)
(***************************************************************************)
EXTENDS Integers, FiniteSets

CONSTANTS
  Labels,        \* the label sets of the series the rule's queries return
  Severities,    \* severities the queries assign, 1 the most severe
  Rules,         \* the versions of the rule that AlertRuleCache may hold
  NoRule,        \* AlertRuleCache.Get returns nil
  External,      \* TRUE: events come from HTTP (from /= "inner")
  Minute,        \* seconds in a minute, scaled down in the models
  StartTime,     \* the clock when the processor is created
  MaxTime,       \* bound: the clock stops here
  MaxCount       \* bound: no reload once an event was sent this many times

RuleType ==
  [forDuration : Nat, evalInterval : Nat, recoverDuration : Nat,
   repeatStep : Nat, maxNumber : Nat]

ASSUME SeveritiesAssumption == Severities \subseteq 1..3
ASSUME RulesAssumption == Rules # {} /\ Rules \subseteq RuleType /\ NoRule \notin Rules
ASSUME TimeAssumption == Minute \in Nat /\ StartTime \in Nat /\ MaxTime \in Nat
                          /\ MaxCount \in Nat
ASSUME ExternalAssumption == External \in BOOLEAN

\* An event's hash identifies its series and its severity; the ids of the rule
\* and of the datasource are the same for all events of one processor.
Hashes == Labels \X Severities
LabelsOf(h) == h[1]
SeverityOf(h) == h[2]

VARIABLES
  now,           \* time.Now().Unix()
  cachedRule,    \* what AlertRuleCache holds for the rule's id
  rule,          \* p.rule
  pendings,      \* p.pendings: hash -> TriggerTime of the event that waits
  shared,        \* the hashes whose pending and fired events are one object
  fires,         \* p.fires: hash -> event that has fired
  db,            \* the rule's rows of alert_cur_event, by hash
  pushed,        \* the events the last step pushed to the queue
  hist           \* history, not in the code: what really happened to each hash

vars == <<now, cachedRule, rule, pendings, shared, fires, db, pushed, hist>>

\* The fields of an AlertCurEvent that decide what happens to it.
Fired == [firstTriggerTime : Nat, curNumber : Nat, lastEvalTime : Nat, lastSentTime : Nat]
Row == [firstTriggerTime : Nat, curNumber : Nat]

EmptyMap == [h \in {} |-> 0]
IsMap(f, S) == /\ DOMAIN f \subseteq Hashes
               /\ f = [h \in DOMAIN f |-> f[h]]
               /\ \A h \in DOMAIN f : f[h] \in S

-------------------------------------------------------------------------------
(***************************************************************************)
(* History.  since: the stamp of the first of the uninterrupted evaluations*)
(* that report the hash.  reported: the clock at the last of them.         *)
(* handled: the last evaluation time fireEvent saw since the processor was *)
(* loaded, Never if there is none.  sent: the evaluation time of the last  *)
(* fire event pushed in the current episode, count the number of them;     *)
(* sentHere is sent, or Never if an earlier processor pushed it.           *)
(***************************************************************************)
Never == -1
Stamp == Nat \cup {Never}
Trail == [since : Stamp, reported : Stamp, handled : Stamp, sent : Stamp,
          sentHere : Stamp, count : Nat]
NoTrail == [since |-> Never, reported |-> Never, handled |-> Never, sent |-> Never,
            sentHere |-> Never, count |-> 0]

TypeOK ==
  /\ now \in Nat
  /\ cachedRule \in Rules \cup {NoRule}
  /\ rule \in Rules
  /\ IsMap(pendings, Nat)
  /\ shared \subseteq Hashes
  /\ IsMap(fires, Fired)
  /\ IsMap(db, Row)
  /\ pushed \subseteq [hash : Hashes, recovered : BOOLEAN]
  /\ hist \in [Hashes -> Trail]

Init ==
  /\ now = StartTime
  /\ rule \in Rules
  /\ cachedRule = rule
  /\ pendings = EmptyMap
  /\ shared = {}
  /\ fires = EmptyMap
  /\ db = EmptyMap
  /\ pushed = {}
  /\ hist = [h \in Hashes |-> NoTrail]

-------------------------------------------------------------------------------
(***************************************************************************)
(* Handle.  r is the rule read from the cache, points the hashes the       *)
(* evaluation reports, muted those of them the mute strategies drop, stamp *)
(* the Timestamp of the points.                                            *)
(***************************************************************************)

\* BuildEvent: event.LastEvalTime
EvalTime(stamp) == IF External THEN stamp ELSE now

\* handleEvent: the TriggerTime the "for" duration is counted from
PreTriggerTime(h, stamp) ==
  IF h \in DOMAIN pendings THEN pendings[h] ELSE stamp

\* handleEvent: fireEvents, over all the label sets
FireEvents(r, live, stamp) ==
  { h \in live :
      \/ r.forDuration = 0
      \/ EvalTime(stamp) - PreTriggerTime(h, stamp) + r.evalInterval >= r.forDuration }

\* inhibitEvent: only the highest severity of each label set is left
NotInhibited(due, inhibit) ==
  { h \in due : inhibit => \A g \in due : LabelsOf(g) = LabelsOf(h)
                                            => SeverityOf(h) <= SeverityOf(g) }

\* Mutants of MayRepeat: the step taken for seconds; one repetition too many.
MayRepeatInSeconds(r, h, stamp) ==
  /\ r.repeatStep # 0
  /\ EvalTime(stamp) >= fires[h].lastSentTime + r.repeatStep
  /\ r.maxNumber = 0 \/ fires[h].curNumber < r.maxNumber
MayRepeatOnceMore(r, h, stamp) ==
  /\ r.repeatStep # 0
  /\ EvalTime(stamp) >= fires[h].lastSentTime + r.repeatStep * Minute
  /\ r.maxNumber = 0 \/ fires[h].curNumber <= r.maxNumber

\* fireEvent: an event that has fired is sent again only after the repeat step,
\* and at most NotifyMaxNumber times
MayRepeat(r, h, stamp) ==
  /\ r.repeatStep # 0
  /\ EvalTime(stamp) >= fires[h].lastSentTime + r.repeatStep * Minute
  /\ \/ r.maxNumber = 0
     \/ fires[h].curNumber < r.maxNumber

\* fireEvent: the events pushed to the queue
Sent(r, firing, stamp) ==
  { h \in firing : h \in DOMAIN fires => MayRepeat(r, h, stamp) }

\* Mutant of MayRecover: the recovery comes one second early.
MayRecoverEarly(r, h, time) ==
  ~(r.recoverDuration > 0 /\ time - fires[h].lastEvalTime + 1 < r.recoverDuration)

\* HandleRecover and RecoverSingle: the guard of the recover duration
MayRecover(r, h, time) ==
  ~(r.recoverDuration > 0 /\ time - fires[h].lastEvalTime < r.recoverDuration)

\* Mutant of Recovered: the alerting keys are not looked at.
RecoveredAnyway(r, points) == { h \in DOMAIN fires : MayRecover(r, h, now) }

\* HandleRecover: the events that recover because nothing reports them
Recovered(r, points) ==
  { h \in DOMAIN fires \ points : MayRecover(r, h, now) }

\* pushEventToQueue: the event that replaces fires[h] when h is sent
SentEvent(h, stamp) ==
  [ firstTriggerTime |-> IF h \in DOMAIN fires THEN fires[h].firstTriggerTime ELSE stamp,
    curNumber        |-> IF h \in DOMAIN fires THEN fires[h].curNumber + 1 ELSE 1,
    lastEvalTime     |-> EvalTime(stamp),
    lastSentTime     |-> EvalTime(stamp) ]

\* handleEvent updates the LastEvalTime of a pending event, and with it that of
\* the fired event when both are one object, even if the event is inhibited
SharedUpdate(r, live) ==
  { h \in live \cap shared : r.forDuration # 0 }

FiresAfter(sent, touched, gone, stamp) ==
  [ h \in (DOMAIN fires \cup sent) \ gone |->
      IF h \in sent THEN SentEvent(h, stamp)
      ELSE IF h \in touched THEN [fires[h] EXCEPT !.lastEvalTime = EvalTime(stamp)]
      ELSE fires[h] ]

\* Mutant of Waiting: HandleRecover keeps the pending events nobody reports.
WaitingForGood(r, points, live) ==
  DOMAIN pendings \cup (IF r.forDuration = 0 THEN {} ELSE live)

Waiting(r, points, live) ==
  (DOMAIN pendings \cap points) \cup (IF r.forDuration = 0 THEN {} ELSE live)

PendingsAfter(r, points, live, stamp) ==
  [ h \in Waiting(r, points, live) |-> PreTriggerTime(h, stamp) ]

\* A first event that fires at once is in both maps; sending it again puts a new
\* object into p.fires.
SharedAfter(r, points, live, sent) ==
  { h \in Waiting(r, points, live) :
      IF h \in DOMAIN pendings THEN h \in shared \ sent ELSE h \in sent }

\* Mutants of RowsAfter: LastEvalTime and LastSentTime become columns; a repeated
\* event does not replace its row.
RowsAfterWithTimes(sent, gone, stamp) ==
  [ h \in (DOMAIN db \cup sent) \ gone |-> IF h \in sent THEN SentEvent(h, stamp) ELSE db[h] ]
RowsAfterFirst(sent, gone, stamp) ==
  [ h \in (DOMAIN db \cup sent) \ gone |->
      IF h \in DOMAIN db THEN db[h]
      ELSE [firstTriggerTime |-> SentEvent(h, stamp).firstTriggerTime, curNumber |-> 1] ]

\* The consumer stores what was pushed: EventPersist, with no failure or delay.
RowsAfter(sent, gone, stamp) ==
  [ h \in (DOMAIN db \cup sent) \ gone |->
      IF h \in sent THEN [ firstTriggerTime |-> SentEvent(h, stamp).firstTriggerTime,
                           curNumber        |-> SentEvent(h, stamp).curNumber ]
      ELSE db[h] ]

Pushes(sent, gone) ==
  { n \in [hash : Hashes, recovered : BOOLEAN] :
      \/ n.hash \in sent /\ ~n.recovered
      \/ n.hash \in gone /\ n.recovered }

HistoryAfter(points, firing, sent, gone, stamp) ==
  [ h \in Hashes |->
      [ since    |-> IF h \notin points THEN Never
                     ELSE IF hist[h].since = Never THEN stamp ELSE hist[h].since,
        reported |-> IF h \in points THEN now ELSE hist[h].reported,
        handled  |-> IF h \in firing THEN EvalTime(stamp) ELSE hist[h].handled,
        sent     |-> IF h \in sent THEN EvalTime(stamp)
                     ELSE IF h \in gone THEN Never ELSE hist[h].sent,
        sentHere |-> IF h \in sent THEN EvalTime(stamp)
                     ELSE IF h \in gone THEN Never ELSE hist[h].sentHere,
        count    |-> IF h \in sent
                       THEN hist[h].count + 1
                     ELSE IF h \in gone THEN 0 ELSE hist[h].count ] ]

Handle(points, muted, inhibit, stamp) ==
  LET live   == points \ muted
      firing == NotInhibited(FireEvents(cachedRule, live, stamp), inhibit)
      sent   == Sent(cachedRule, firing, stamp)
      gone   == Recovered(cachedRule, points)
  IN  /\ cachedRule # NoRule
      /\ rule' = cachedRule
      /\ fires' = FiresAfter(sent, firing \cup SharedUpdate(cachedRule, live), gone, stamp)
      /\ pendings' = PendingsAfter(cachedRule, points, live, stamp)
      /\ shared' = SharedAfter(cachedRule, points, live, sent)
      /\ db' = RowsAfter(sent, gone, stamp)
      /\ pushed' = Pushes(sent, gone)
      /\ hist' = HistoryAfter(points, firing, sent, gone, stamp)
      /\ UNCHANGED <<now, cachedRule>>

\* The rule has left the cache: Handle returns before it looks at the points.
HandleWithoutRule ==
  /\ cachedRule = NoRule
  /\ pushed' = {}
  /\ UNCHANGED <<now, cachedRule, rule, pendings, shared, fires, db, hist>>

\* RecoverSingle from the HTTP interface: its `now` is the stamp of the point,
\* and p.rule is the rule of the last Handle.
RecoverSingle(h, stamp) ==
  /\ External
  /\ h \in DOMAIN fires
  /\ MayRecover(rule, h, stamp)
  /\ fires' = [g \in DOMAIN fires \ {h} |-> fires[g]]
  /\ pendings' = [g \in DOMAIN pendings \ {h} |-> pendings[g]]
  /\ shared' = shared \ {h}
  /\ db' = [g \in DOMAIN db \ {h} |-> db[g]]
  /\ pushed' = Pushes({}, {h})
  /\ hist' = [hist EXCEPT ![h] = 
              [@ EXCEPT !.since = Never, !.sent = Never, !.sentHere = Never, !.count = 0]]
  /\ UNCHANGED <<now, cachedRule, rule>>

-------------------------------------------------------------------------------
(***************************************************************************)
(* The processor is replaced: the scheduler restarts the worker when the   *)
(* rule's interval or query changes, and the engine itself may restart.    *)
(* RecoverAlertCurEventFromDb keeps the columns of the table; LastEvalTime *)
(* and LastSentTime are not columns (gorm:"-") and come back as 0.         *)
(***************************************************************************)
Reloaded(row) ==
  [ firstTriggerTime |-> row.firstTriggerTime, curNumber |-> row.curNumber,
    lastEvalTime |-> 0, lastSentTime |-> 0 ]

Reload ==
  /\ \A h \in DOMAIN db : db[h].curNumber < MaxCount
  /\ cachedRule # NoRule
  /\ rule' = cachedRule
  /\ pendings' = EmptyMap
  /\ shared' = {}
  /\ fires' = [h \in DOMAIN db |-> Reloaded(db[h])]
  /\ pushed' = {}
  /\ hist' = [h \in Hashes |-> [hist[h] EXCEPT !.handled = Never, !.sentHere = Never]]
  /\ UNCHANGED <<now, cachedRule, db>>

\* The query of the table fails: the processor starts with no fired event.
ReloadFailed ==
  /\ cachedRule # NoRule
  /\ rule' = cachedRule
  /\ pendings' = EmptyMap
  /\ shared' = {}
  /\ fires' = EmptyMap
  /\ pushed' = {}
  /\ hist' = [h \in Hashes |-> 
               [hist[h] EXCEPT !.handled = Never, !.sentHere = Never, !.count = 0]]
  /\ UNCHANGED <<now, cachedRule, db>>

-------------------------------------------------------------------------------
\* Environment: a user edits, disables or enables the rule.
EditRule ==
  /\ cachedRule' \in (Rules \cup {NoRule}) \ {cachedRule}
  /\ pushed' = {}
  /\ UNCHANGED <<now, rule, pendings, shared, fires, db, hist>>

Tick ==
  /\ now < MaxTime
  /\ now' = now + 1
  /\ pushed' = {}
  /\ UNCHANGED <<cachedRule, rule, pendings, shared, fires, db, hist>>

\* The points of a query are stamped when it runs; those of an external caller
\* carry any earlier time.
Stamps == IF External THEN StartTime..now ELSE {now}

Next ==
  \/ \E points \in SUBSET Hashes : \E muted \in SUBSET points :
       \E inhibit \in BOOLEAN, stamp \in Stamps : Handle(points, muted, inhibit, stamp)
  \/ HandleWithoutRule
  \/ \E h \in Hashes, stamp \in Stamps : RecoverSingle(h, stamp)
  \/ Reload
  \/ ReloadFailed
  \/ EditRule
  \/ Tick

Spec == Init /\ [][Next]_vars

-------------------------------------------------------------------------------
\* Properties

Fire(h) == [hash |-> h, recovered |-> FALSE]
Recovery(h) == [hash |-> h, recovered |-> TRUE]

\* Every event the processor believes fired has its row in alert_cur_event, with
\* the notification count and the first trigger time of that row: a restart
\* (RecoverAlertCurEventFromDb) loses no episode and renumbers none.
FiresBackedByRows ==
  \A h \in DOMAIN fires :
    /\ h \in DOMAIN db
    /\ db[h].curNumber = fires[h].curNumber
    /\ db[h].firstTriggerTime = fires[h].firstTriggerTime

\* An event still pending was reported by every evaluation since its trigger
\* time: HandleRecover drops a pending event at the first evaluation without it.
PendingsUninterrupted ==
  \A h \in DOMAIN pendings :
    /\ hist[h].since # Never
    /\ ~External => hist[h].since <= pendings[h]

\* A new episode starts only when evaluations have reported the alert without a
\* gap for the "for" duration (the last evaluation interval counts): a mute, an
\* edit of the rule or a restart in between does not shorten the wait.
ForDurationRespected ==
  [][ \A h \in Hashes :
        Fire(h) \in pushed' /\ h \notin DOMAIN fires /\ ~External =>
          /\ hist'[h].since # Never
          /\ now - hist'[h].since + rule'.evalInterval >= rule'.forDuration ]_vars

\* Since the processor was loaded, the fire events of one episode are at least
\* the repeat step of the current rule apart, and none is repeated when the rule
\* has no repeat step.
RepeatStepRespected ==
  [][ \A h \in DOMAIN fires :
        Fire(h) \in pushed' /\ hist[h].sentHere # Never =>
          /\ rule'.repeatStep # 0
          /\ hist'[h].sent - hist[h].sentHere >= rule'.repeatStep * Minute ]_vars

\* An episode never has more repeated fire events than the rule that sends them
\* allows, over restarts too: NotifyCurNumber is kept in the table.
MaxNumberRespected ==
  [][ \A h \in DOMAIN fires :
        Fire(h) \in pushed' /\ rule'.maxNumber > 0 =>
          hist'[h].count <= rule'.maxNumber ]_vars

\* An evaluation that reports an alert does not recover it, not even when the
\* event is muted or inhibited.
ReportedNeverRecovers ==
  [][ \A h \in Hashes : Recovery(h) \in pushed' => hist'[h].since = Never ]_vars

\* A recovery comes no sooner than the recover duration after the last time
\* fireEvent saw the event since the processor was loaded.
RecoverDurationFromFire ==
  [][ \A h \in Hashes : Recovery(h) \in pushed' /\ hist[h].handled # Never /\ ~External
        => now - hist[h].handled >= rule'.recoverDuration ]_vars

\* A recovery comes no sooner than the recover duration after the last
\* evaluation that reported the alert, for a muted event "is in essence still
\* firing" (process.go:141).  The code counts from the last unmuted one.
RecoverDurationFromReport ==
  [][ \A h \in Hashes : Recovery(h) \in pushed'
        => now - hist[h].reported >= rule'.recoverDuration ]_vars

\* The processor implements the life cycle its readers rely on: the open alerts
\* are the rows of alert_cur_event.
Lifecycle == INSTANCE AlertLifecycle WITH firing <- DOMAIN db
LifecycleSpec == Lifecycle!Spec
===============================================================================
