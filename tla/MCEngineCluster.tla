--------------------------- MODULE MCEngineCluster ---------------------------
(***************************************************************************)
(* Two centers of one cluster and an edge of another, two datasources,     *)
(* two rules on each of them and one for hosts; their rings order the      *)
(* engines differently, so that each engine owns rules when all are alive. *)
(***************************************************************************)
EXTENDS EngineCluster

CONSTANTS c1, c2, e1

MCClusterOf == [e \in Engines |-> IF e = e1 THEN "edge" ELSE "default"]

MCPairs == [rule : {1, 2}, ds : {1, 2}] \cup [rule : {1, 2}, ds : {HostDatasource}]

MCRank == [r \in Rules |-> [e \in Engines |->
  CASE e = c1 -> IF r = 1 THEN 1 ELSE 3 [] e = c2 -> 2 [] e = e1 -> IF r = 1 THEN 3 ELSE 1]]
==============================================================================
