--------------------------- MODULE MCNotification ---------------------------
(***************************************************************************)
(* One alert of a rule with a team on call, and a subscription of a        *)
(* manager that may ask for alerts that last; the versions of the rule     *)
(* differ in whether recoveries are notified.                              *)
(***************************************************************************)
EXTENDS Notification

MCMembers == [g \in {"team", "boss"} |-> IF g = "team" THEN {"ann"} ELSE {"bob"}]

RuleVersion(asked) == [groups |-> {"team"}, channels |-> {"email"}, notifyRecovered |-> asked]
MCRules == {RuleVersion(asked) : asked \in BOOLEAN}

SubVersion(alerts, duration, channels) ==
  [alerts |-> alerts, forDuration |-> duration, groups |-> {"boss"}, channels |-> channels]
MCSubVersions == {SubVersion({}, 0, None), SubVersion(Hashes, 0, {"other"}), SubVersion(Hashes, 1, None)}
=============================================================================
