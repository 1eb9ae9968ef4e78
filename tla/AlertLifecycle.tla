---------------------------- MODULE AlertLifecycle ----------------------------
(***************************************************************************)
(* What the alert processor promises to whoever reads the event queue: the *)
(* notifications about one alert form episodes, each of them one or more   *)
(* fire events followed by at most one recovery.  A recovery never comes   *)
(* for an alert that no fire event has opened, and one evaluation never    *)
(* both fires and recovers the same alert.                                 *)
(***************************************************************************)

CONSTANT Hashes   \* the identities (AlertCurEvent.Hash) of the alerts of a rule

VARIABLES
  firing,         \* the alerts whose last notification was a fire event
  pushed          \* the notifications of the last step

vars == <<firing, pushed>>

Notification == [hash : Hashes, recovered : BOOLEAN]

Init ==
  /\ firing = {}
  /\ pushed = {}

\* The notifications that open or repeat the alerts F and close the alerts R.
Notifications(F, R) ==
  { n \in Notification : \/ n.hash \in F /\ ~n.recovered
                         \/ n.hash \in R /\ n.recovered }

\* One evaluation opens or repeats the alerts F and closes the alerts R.
Notify(F, R) ==
  /\ F \cap R = {}
  /\ firing' = (firing \ R) \cup F
  /\ pushed' = Notifications(F, R)

Next == \E F \in SUBSET Hashes, R \in SUBSET firing : Notify(F, R)

Spec == Init /\ [][Next]_vars
===============================================================================
