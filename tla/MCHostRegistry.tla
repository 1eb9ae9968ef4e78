---------------------------- MODULE MCHostRegistry ----------------------------
(***************************************************************************)
(* Instances of HostRegistry for TLC: two hosts, one of them named by the  *)
(* label ident and the other by agent_hostname or host; a tag that meets   *)
(* a label of the series, and a group with a label.                        *)
(***************************************************************************)
EXTENDS HostRegistry, TLC

Pair(name, value) == [name |-> name, value |-> value]

TwoSeries == { <<Pair("ident", "web1"), Pair("zone", "own")>>,
               <<Pair("agent_hostname", "web2"), Pair("host", "vm"), Pair("busigroup", "own")>> }

Untagged == [tags |-> [name \in {} |-> ""], group |-> NoGroup]
Tagged == [tags |-> "zone" :> "east" @@ "rack" :> "r1", group |-> 1]
TwoContents == {Untagged, Tagged}

OneGroup == 1 :> "team"
===============================================================================
