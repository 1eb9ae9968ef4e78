----------------------------- MODULE SampleLabels -----------------------------
(***************************************************************************)
(* What the remote write route does with the labels of a series before it  *)
(* forwards it (pushgw/router): extractIdentFromTimeSeries names the host, *)
(* AppendLabels adds the tags of the host and the label of its business    *)
(* group.  A series is a sequence of labels [name, value], as it is in the *)
(* request: nothing but duplicateLabelKey keeps a name from coming twice.  *)
(***************************************************************************)
EXTENDS Naturals, Sequences, SequencesExt, FiniteSets

CONSTANTS
  LabelRewrite,        \* Pushgw.LabelRewrite: the host's tags win
  BusiGroupLabelKey,   \* Pushgw.BusiGroupLabelKey
  GroupLabels          \* group -> LabelValue, for the groups with LabelEnable

NoGroup == 0           \* Target.GroupId of a host in no group

Label == [name : STRING, value : STRING]

Names(series) == { series[i].name : i \in DOMAIN series }
ValueOf(series, name) ==
  series[CHOOSE i \in DOMAIN series : series[i].name = name].value

\* duplicateLabelKey: the route skips the series
Duplicate(series) == \E i, j \in DOMAIN series : i # j /\ series[i].name = series[j].name

\* extractIdentFromTimeSeries: the label that names the host, tried in this order
IdentNames(ignoreIdent) == <<"ident", "agent_hostname">> \o (IF ignoreIdent THEN <<>> ELSE <<"host">>)
IdentName(series, ignoreIdent) ==
  LET names   == IdentNames(ignoreIdent)
      present == { i \in DOMAIN names : names[i] \in Names(series) }
  IN  IF present = {} THEN "" ELSE names[Min(present)]
Ident(series, ignoreIdent) == ValueOf(series, IdentName(series, ignoreIdent))
HasIdent(series, ignoreIdent) ==
  IdentName(series, ignoreIdent) # "" /\ Ident(series, ignoreIdent) # ""

\* The label that names the host is renamed to ident.
WithIdent(series, ignoreIdent) ==
  [ i \in DOMAIN series |->
      IF series[i].name = IdentName(series, ignoreIdent)
        THEN [series[i] EXCEPT !.name = "ident"] ELSE series[i] ]

\* The tags of a host are a function from names to values.
NewLabels(tags, names) ==
  SetToSeq({ [name |-> name, value |-> tags[name]] : name \in names })

\* Mutant of AppendTags: a tag the series has is appended all the same.
AppendEveryTag(series, tags) == series \o NewLabels(tags, DOMAIN tags)

\* AppendLabels: the tags of the host
AppendTags(series, tags) ==
  [ i \in DOMAIN series |->
      IF LabelRewrite /\ series[i].name \in DOMAIN tags
        THEN [series[i] EXCEPT !.value = tags[series[i].name]] ELSE series[i] ]
  \o NewLabels(tags, DOMAIN tags \ Names(series))

\* AppendLabels: the label of the group, unless the series came with one
AppendLabels(series, tags, group) ==
  IF BusiGroupLabelKey \notin Names(series) /\ group \in DOMAIN GroupLabels
    THEN AppendTags(series, tags)
           \o <<[name |-> BusiGroupLabelKey, value |-> GroupLabels[group]]>>
    ELSE AppendTags(series, tags)
===============================================================================
