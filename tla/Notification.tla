----------------------------- MODULE Notification -----------------------------
(***************************************************************************)
(* Who is told of an alert (alert/dispatch).  AlertPipeline brings the     *)
(* events of a processor to HandleEventNotify; this module says what that  *)
(* does: a goroutine per event sends it to the receivers of the rule, and  *)
(* another one to the receivers of each subscription the event matches.    *)
(*                                                                         *)
(* The goroutine of the rule's receivers is given the event itself, which  *)
(* the processor still holds and marks when the alert recovers; the        *)
(* goroutines of subscriptions are given copies.                           *)
(***************************************************************************)
EXTENDS Naturals, FiniteSets, Bags

CONSTANTS
  Hashes, Goroutines, QueueSize, BatchSize,                          \* as in AlertPipeline
  MaxPushes, MaxReloads, MaxCrashes, MaxDeletes, MaxFailures,
  Subs,          \* the subscriptions
  Members,       \* user groups -> users
  Channels,      \* NotifyChannels
  BuiltIn,       \* the channels relaodTpls makes senders for
  Rules,         \* versions of the rule: [groups, channels, notifyRecovered]
  SubVersions,   \* versions of a subscription: [alerts, forDuration, groups, channels]
  None,
  Main,          \* names the receivers of the rule among those of subscriptions
  MaxAge,        \* bound: TriggerTime - FirstTriggerTime
  MaxTroubles    \* bound: edits, deletions of rows, crashes, reloads and failures together

Groups == DOMAIN Members
Users == UNION { Members[g] : g \in Groups }

ASSUME PipelineAssumption ==
  /\ IsFiniteSet(Goroutines) /\ Goroutines # {}
  /\ QueueSize \in Nat \ {0} /\ BatchSize \in Nat \ {0}
  /\ {MaxPushes, MaxReloads, MaxCrashes, MaxDeletes, MaxFailures} \subseteq Nat
ASSUME RulesAssumption ==
  Rules \subseteq [groups : SUBSET Groups, channels : SUBSET Channels, notifyRecovered : BOOLEAN]
\* `alerts` are the alerts whose datasource, tags and severity the subscription
\* matches, none for a disabled one; `channels` is None unless it redefines them.
ASSUME SubVersionsAssumption ==
  SubVersions \subseteq [alerts : SUBSET Hashes, forDuration : 0..MaxAge, groups : SUBSET Groups,
                         channels : {None} \cup SUBSET Channels]
ASSUME NoneAssumption ==
  None \notin Rules /\ \A T \in SUBSET [sub : Subs, version : SubVersions] : T # None
ASSUME NotificationBounds == MaxAge \in Nat /\ MaxTroubles \in Nat /\ Main \notin Subs

VARIABLES
  fires, recovered, queue, batch, running, cur, his, pushed, raced, harmed,
  pushes, reloads, crashes, deletes, failures,                        \* those of AlertPipeline
  rule,          \* AlertRuleCache: the rule, None when it is deleted
  subs,          \* AlertSubscribeCache
  senders,       \* Dispatch.Senders: the channels with a sender
  detail,        \* event -> its fields the routing reads
  rowAge,        \* hash -> age of the event in its row
  todo,          \* goroutine -> subscriptions handleSubs has not come to
  sends,         \* the goroutines of Send, a bag
  alerted,       \* history: subscription -> alerts it was told of and not of their end
  unheard,       \* history: [sub, hash] told of the end of an alert and not of its start
  unasked,       \* history: [sub, hash] sent a recovery although NotifyRecovered is 0
  disturbed,     \* history: [sub, hash] that an edit or a crash got between
  loaded,        \* history: relaodTpls has succeeded since the engine started
  missed,        \* history: alerts with a message skipped since then
  troubles       \* counter of the bounded steps

Pipeline == INSTANCE AlertPipeline

pipelineVars == <<fires, recovered, queue, batch, running, cur, his, pushed, raced, harmed,
                  pushes, reloads, crashes, deletes, failures>>
configVars == <<rule, subs>>
sentVars == <<unasked, missed>>
historyVars == <<alerted, unheard, disturbed, loaded, sentVars>>
notifyVars == <<senders, todo, sends>>
vars == <<pipelineVars, configVars, notifyVars, historyVars, detail, rowAge, troubles>>

Trouble == troubles < MaxTroubles /\ troubles' = troubles + 1

Detail == [groups : SUBSET Groups, channels : SUBSET Channels, notifyRecovered : BOOLEAN, age : 0..MaxAge]
Address == [user : Users, channel : Channels]

Init ==
  /\ Pipeline!Init
  /\ rule \in Rules
  /\ subs \in [Subs -> SubVersions]
  /\ senders = {}
  /\ detail = [e \in {} |-> None]
  /\ rowAge = [h \in Hashes |-> 0]
  /\ todo = [g \in Goroutines |-> None]
  /\ sends = EmptyBag
  /\ alerted = [s \in Subs |-> {}]
  /\ unheard = {} /\ unasked = {} /\ disturbed = {} /\ missed = {}
  /\ loaded = FALSE /\ troubles = 0

-------------------------------------------------------------------------------
\* The processor.

DetailOf(r, age) ==
  [groups |-> r.groups, channels |-> r.channels, notifyRecovered |-> r.notifyRecovered, age |-> age]

\* BuildEvent and fireEvent: the fields of the event are those of the rule, and a
\* repetition is triggered no earlier than the event it repeats.
Fire(h) ==
  /\ rule # None
  /\ Pipeline!Fire(h)
  /\ \E age \in 0..MaxAge :
       /\ IF h \in DOMAIN fires THEN age >= detail[fires[h]].age ELSE age = 0
       /\ detail' = [e \in DOMAIN detail \cup {fires'[h]} |->
                      IF e = fires'[h] THEN DetailOf(rule, age) ELSE detail[e]]
  /\ UNCHANGED <<configVars, notifyVars, historyVars, rowAge, troubles>>

\* Mutant of Recover: the trigger time of the recovery is that of its evaluation.
RecoverAtEvaluation(h) ==
  /\ rule # None
  /\ Pipeline!Recover(h)
  /\ detail' = [detail EXCEPT ![fires[h]] = DetailOf(rule, MaxAge)]
  /\ UNCHANGED <<configVars, notifyVars, historyVars, rowAge, troubles>>

\* Mutant of Recover: a recovery that is not to be notified is not pushed.
RecoverUnasked(h) ==
  /\ rule # None
  /\ IF rule.notifyRecovered THEN Pipeline!Recover(h)
     ELSE /\ h \in DOMAIN fires /\ pushes < MaxPushes
          /\ fires' = [g \in DOMAIN fires \ {h} |-> fires[g]]
          /\ recovered' = recovered \cup {fires[h]}
          /\ pushes' = pushes + 1
          /\ UNCHANGED <<queue, batch, running, cur, his, pushed, raced, harmed, reloads, crashes,
                         deletes, failures>>
  /\ detail' = [detail EXCEPT ![fires[h]] = DetailOf(rule, @.age)]
  /\ UNCHANGED <<configVars, notifyVars, historyVars, rowAge, troubles>>

\* RecoverSingle: UpdateEvent takes the receivers from the rule as it is now, and
\* leaves the times of the event alone.
Recover(h) ==
  /\ rule # None
  /\ Pipeline!Recover(h)
  /\ detail' = [detail EXCEPT ![fires[h]] = DetailOf(rule, @.age)]
  /\ UNCHANGED <<configVars, notifyVars, historyVars, rowAge, troubles>>

-------------------------------------------------------------------------------
\* The consumer, up to HandleEventNotify.

Event(g) == running[g].event
IsRecovered(g) == Event(g) \in recovered

AddCur(g) ==
  /\ Pipeline!AddCur(g)
  /\ rowAge' = [rowAge EXCEPT ![Event(g).hash] = detail[Event(g)].age]
  /\ UNCHANGED <<configVars, notifyVars, historyVars, detail, troubles>>

Consume ==
  /\ \/ Pipeline!Pop
     \/ \E g \in Goroutines :
          \/ Pipeline!Start(g) \/ Pipeline!CheckExists(g) \/ Pipeline!AddHis(g)
          \/ Pipeline!DeleteCur(g) \/ Pipeline!Decide(g)
  /\ UNCHANGED <<configVars, notifyVars, historyVars, detail, rowAge, troubles>>

StatementFails(g) ==
  /\ Pipeline!StatementFails(g)
  /\ Trouble
  /\ UNCHANGED <<configVars, notifyVars, historyVars, detail, rowAge>>

-------------------------------------------------------------------------------
\* HandleEventNotify.

\* NotifyGroupDispatch: every user of the groups, once, on every channel
Targets(groups, channels) ==
  [user : UNION { Members[g] : g \in groups }, channel : channels]

\* A goroutine of Send, which has nothing to do when nobody is to be told.  The
\* event of a subscription is a copy: it says now whether it has recovered.
Spawn(e, sub, to, isRecovered) ==
  sends' = IF to = {} THEN sends
           ELSE sends (+) SetToBag({[event |-> e, sub |-> sub, to |-> to, recovered |-> isRecovered]})

\* consumeOne returns without a word of a recovery that is not to be notified, and
\* HandleEventNotify of an event whose rule is deleted.
Unnoticed(g) ==
  /\ todo[g] = None
  /\ \/ IsRecovered(g) /\ ~detail[Event(g)].notifyRecovered
     \/ rule = None
  /\ Pipeline!Notify(g)
  /\ alerted' = IF rule = None THEN alerted
                ELSE [s \in Subs |-> alerted[s] \ {Event(g).hash}]
  /\ UNCHANGED <<configVars, notifyVars, unheard, disturbed, loaded, sentVars, detail, rowAge, troubles>>

\* The rule's receivers; handleSubs then reads the subscriptions from the cache.
HandleEventNotify(g) ==
  /\ Pipeline!At(g, "notify") /\ todo[g] = None
  /\ ~IsRecovered(g) \/ detail[Event(g)].notifyRecovered
  /\ rule # None
  /\ Spawn(Event(g), Main, Targets(detail[Event(g)].groups, detail[Event(g)].channels), FALSE)
  /\ todo' = [todo EXCEPT ![g] = {[sub |-> s, version |-> subs[s]] : s \in Subs}]
  /\ UNCHANGED <<pipelineVars, configVars, senders, historyVars, detail, rowAge, troubles>>

\* handleSub: the datasource, the tags and the severity, and how long the alert
\* has been repeated
Match(e, version) ==
  e.hash \in version.alerts /\ version.forDuration <= detail[e].age

\* History: the receivers of s are told that h fires, or that it has recovered.
Told(s, h, isRecovered) ==
  /\ alerted' = [alerted EXCEPT ![s] = IF isRecovered THEN @ \ {h} ELSE @ \cup {h}]
  /\ unheard' = IF isRecovered /\ h \notin alerted[s]
                  THEN unheard \cup {[sub |-> s, hash |-> h]} ELSE unheard

\* ModifyEvent: the groups of the subscription, and its channels if it has any
SubTargets(e, version) ==
  Targets(version.groups, IF version.channels = None THEN detail[e].channels ELSE version.channels)

\* handleSub, with HandleEventNotify of the copy
HandleSub(g) ==
  todo[g] # None /\ \E t \in todo[g] :
    LET e == Event(g)
    IN  /\ todo' = [todo EXCEPT ![g] = @ \ {t}]
        /\ IF Match(e, t.version) /\ rule # None
             THEN /\ Spawn(e, t.sub, SubTargets(e, t.version), IsRecovered(g))
                  /\ Told(t.sub, e.hash, IsRecovered(g))
             ELSE UNCHANGED <<sends, alerted, unheard>>
        /\ UNCHANGED <<pipelineVars, configVars, senders, disturbed, loaded, sentVars, detail, rowAge, troubles>>

\* HandleEventNotify returns; sema.Release
Release(g) ==
  /\ todo[g] = {}
  /\ Pipeline!Notify(g)
  /\ todo' = [todo EXCEPT ![g] = None]
  /\ UNCHANGED <<configVars, senders, sends, historyVars, detail, rowAge, troubles>>

-------------------------------------------------------------------------------
\* Send.

\* Mutant of SaysRecovered: the copies of subscriptions are the event itself.
SaysRecoveredLive(m) == m.event \in recovered

\* What the message says is read when it is written.
SaysRecovered(m) == IF m.sub = Main THEN m.event \in recovered ELSE m.recovered

\* Mutants of Send: the goroutine stays when it has told everybody; it waits for a
\* sender of the channel.
SendNeverEnds(m, c) ==
  LET here == {a \in m.to : a.channel = c}
  IN  /\ here # {}
      /\ sends' = (sends (-) SetToBag({m})) (+) SetToBag({[m EXCEPT !.to = @ \ here]})
      /\ UNCHANGED <<pipelineVars, configVars, senders, todo, historyVars, detail, rowAge, troubles>>
SendWaits(m, c) ==
  LET here == {a \in m.to : a.channel = c}
      left == m.to \ here
      rest == sends (-) SetToBag({m})
  IN  /\ here # {} /\ c \in senders
      /\ sends' = IF left = {} THEN rest ELSE rest (+) SetToBag({[m EXCEPT !.to = left]})
      /\ UNCHANGED <<pipelineVars, configVars, senders, todo, historyVars, detail, rowAge, troubles>>

\* Send: one channel, to all its users; a channel without a sender is skipped
Send(m, c) ==
  LET here == {a \in m.to : a.channel = c}
      left == m.to \ here
      rest == sends (-) SetToBag({m})
  IN  /\ here # {}
      /\ sends' = IF left = {} THEN rest ELSE rest (+) SetToBag({[m EXCEPT !.to = left]})
      /\ unasked' = IF c \in senders /\ SaysRecovered(m) /\ ~detail[m.event].notifyRecovered
                      THEN unasked \cup {[sub |-> m.sub, hash |-> m.event.hash]} ELSE unasked
      /\ missed' = IF loaded /\ c \in BuiltIn \ senders THEN missed \cup {m.event.hash} ELSE missed
      /\ UNCHANGED <<pipelineVars, configVars, senders, todo, alerted, unheard, disturbed, loaded,
                     detail, rowAge, troubles>>

\* Mutant of ReloadTpls: the senders are removed before they are made anew.
ReloadTplsInPlace ==
  /\ senders' = IF senders = {} THEN BuiltIn ELSE {}
  /\ loaded' = TRUE
  /\ UNCHANGED <<pipelineVars, configVars, todo, sends, alerted, unheard, disturbed, sentVars, detail, rowAge, troubles>>

\* relaodTpls: new senders take the place of the old under the lock, unless the
\* templates cannot be read
ReloadTpls ==
  /\ senders' = BuiltIn
  /\ loaded' = TRUE
  /\ UNCHANGED <<pipelineVars, configVars, todo, sends, alerted, unheard, disturbed, sentVars, detail, rowAge, troubles>>

-------------------------------------------------------------------------------
\* Users edit what is in the caches.

\* the subscriptions and alerts that something gets between
Disturb(ss, hs) == disturbed' = disturbed \cup [sub : ss, hash : hs]
Open == DOMAIN fires \cup Pipeline!OnTheirWay

EditRule(r) ==
  /\ rule # None /\ r # rule
  /\ Trouble
  /\ rule' = r
  /\ Disturb(Subs, IF r = None THEN Open ELSE {})
  /\ UNCHANGED <<pipelineVars, subs, notifyVars, alerted, unheard, loaded, sentVars, detail, rowAge>>

EditSub(s, version) ==
  /\ version # subs[s]
  /\ Trouble
  /\ subs' = [subs EXCEPT ![s] = version]
  /\ Disturb({s}, Open)
  /\ UNCHANGED <<pipelineVars, rule, notifyVars, alerted, unheard, loaded, sentVars, detail, rowAge>>

\* Mutant of Reread: the row does not keep the first trigger time.
RereadAsNew ==
  detail' = [e \in DOMAIN detail \cup { fires'[h] : h \in DOMAIN fires' } |->
              IF \E h \in DOMAIN fires' : fires'[h] = e
                THEN DetailOf([groups |-> {}, channels |-> {}, notifyRecovered |-> FALSE], 0)
                ELSE detail[e]]

\* What the processor reads from a row: RecoverAlertCurEventFromDb
Reread ==
  detail' = [e \in DOMAIN detail \cup { fires'[h] : h \in DOMAIN fires' } |->
              IF \E h \in DOMAIN fires' : fires'[h] = e
                THEN DetailOf([groups |-> {}, channels |-> {}, notifyRecovered |-> FALSE], rowAge[e.hash])
                ELSE detail[e]]

Crash ==
  /\ Pipeline!Crash
  /\ Trouble
  /\ Reread
  /\ senders' = {} /\ loaded' = FALSE /\ sends' = EmptyBag
  /\ todo' = [g \in Goroutines |-> None]
  /\ Disturb(Subs, Pipeline!OnTheirWay)
  /\ UNCHANGED <<configVars, alerted, unheard, sentVars, rowAge>>

Reload ==
  /\ Pipeline!Reload
  /\ Trouble
  /\ Reread
  /\ UNCHANGED <<configVars, notifyVars, historyVars, rowAge>>

UserDelete(h) ==
  /\ Pipeline!UserDelete(h)
  /\ Trouble
  /\ UNCHANGED <<configVars, notifyVars, historyVars, detail, rowAge>>

SendStep == \E m \in BagToSet(sends), c \in Channels : Send(m, c)
NotifyStep(g) == Unnoticed(g) \/ HandleEventNotify(g) \/ HandleSub(g) \/ Release(g)

Next ==
  \/ \E h \in Hashes : Fire(h) \/ Recover(h) \/ UserDelete(h)
  \/ Consume
  \/ \E g \in Goroutines : AddCur(g) \/ StatementFails(g) \/ NotifyStep(g)
  \/ SendStep
  \/ ReloadTpls
  \/ \E r \in Rules \cup {None} : EditRule(r)
  \/ \E s \in Subs, v \in SubVersions : EditSub(s, v)
  \/ Crash \/ Reload

Spec == Init /\ [][Next]_vars

\* As in AlertPipeline; every goroutine of Send, whose calls time out, comes to its
\* end.  Nothing is assumed of ReloadTpls: the templates may never be read.
Fairness ==
  /\ WF_vars(Consume) /\ WF_vars(\E g \in Goroutines : AddCur(g) \/ StatementFails(g) \/ NotifyStep(g))
  /\ WF_vars(SendStep)

FairSpec == Spec /\ Fairness

-------------------------------------------------------------------------------
\* Properties

TypeOK ==
  /\ rule \in {None} \cup Rules
  /\ subs \in [Subs -> SubVersions]
  /\ senders \subseteq BuiltIn
  /\ \A e \in DOMAIN detail : e \in Pipeline!Event /\ detail[e] \in Detail
  /\ \A h \in DOMAIN fires : fires[h] \in DOMAIN detail
  /\ Pipeline!InFlight \subseteq DOMAIN detail
  /\ rowAge \in [Hashes -> 0..MaxAge]
  /\ \A g \in Goroutines : todo[g] = None \/ todo[g] \subseteq [sub : Subs, version : SubVersions]
  /\ \A m \in BagToSet(sends) :
       /\ m.event \in DOMAIN detail /\ m.sub \in Subs \cup {Main}
       /\ m.to # {} /\ m.to \subseteq Address /\ m.recovered \in BOOLEAN
  /\ alerted \in [Subs -> SUBSET Hashes]
  /\ unheard \subseteq [sub : Subs, hash : Hashes] /\ disturbed \subseteq [sub : Subs, hash : Hashes]
  /\ unasked \subseteq [sub : Subs \cup {Main}, hash : Hashes]
  /\ loaded \in BOOLEAN /\ missed \subseteq Hashes /\ troubles \in 0..MaxTroubles

Undisturbed(s) == { h \in Pipeline!Calm : [sub |-> s, hash |-> h] \notin disturbed }

\* With nothing on its way, the receivers of a subscription believe of every alert
\* what the processor does: told of those that fire and last long enough for them,
\* and of the end of all others they were told of.
SubscribersInformed ==
  Pipeline!Drained =>
    \A s \in Subs : \A h \in Undisturbed(s) :
      h \in alerted[s] <=>
        h \in DOMAIN fires /\ h \in subs[s].alerts /\ detail[fires[h]].age >= subs[s].forDuration

\* No subscription is told of the end of an alert it has not been told of, although
\* handleSub knows nothing of what it has sent before.
NoRecoveryUnheard == \A s \in Subs : \A h \in Undisturbed(s) : [sub |-> s, hash |-> h] \notin unheard

\* No subscription is sent a recovery when the rule's NotifyRecovered is 0, however
\* late its goroutine runs: its copy does not follow the processor's event.
SubscribersAsked ==
  \A s \in Subs : \A h \in Pipeline!Calm : [sub |-> s, hash |-> h] \notin unasked

\* The same of the rule's receivers ("whether notify when recovery",
\* models/alert_rule.go:57).  It fails: Send reads IsRecovered of the event that the
\* processor has marked since, and tells a fire event as a recovery.
RecoveryOnlyIfAsked == unasked = {}

\* Since the senders were first made, no message finds its channel without one, in
\* spite of the two critical sections of relaodTpls.
NothingMissed == missed = {}

\* Every event is consumed and every goroutine of Send comes to its end.
EventuallySent == <>[](Pipeline!Drained /\ sends = EmptyBag)

\* The detailed consumer is the one of AlertPipeline: whatever the routing does, the
\* processor and the tables see one step, in which the event is notified.
ImplementsPipeline == Pipeline!Spec
===============================================================================
