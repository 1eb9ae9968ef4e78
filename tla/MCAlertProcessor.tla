--------------------------- MODULE MCAlertProcessor ---------------------------
(***************************************************************************)
(* Instances of AlertProcessor for TLC.  The clock starts at 10, after     *)
(* every duration, as the Unix clock does; a minute has two seconds.       *)
(***************************************************************************)
EXTENDS AlertProcessor

Version(forD, recD, step, max) ==
  [forDuration |-> forD, evalInterval |-> 1, recoverDuration |-> recD,
   repeatStep |-> step, maxNumber |-> max]

\* One version that waits, repeats at most twice and observes before it recovers.
WaitingRule == { Version(2, 2, 1, 2) }

\* Versions a user may switch between: the waiting one, and one that fires at once
\* and repeats with no limit.
EditedRules == { Version(2, 2, 1, 2), Version(0, 1, 1, 0) }

OneSeries == {"web"}
===============================================================================
