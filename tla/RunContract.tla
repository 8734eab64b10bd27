---------------------------- MODULE RunContract ----------------------------
(***************************************************************************)
(* What the reporting of a run relies on (execute_repository_plan returns  *)
(* RepositoryExecutionResult): one observation per planned Check, in plan  *)
(* order, none of them ever withdrawn, and a result only when all are in.  *)
(***************************************************************************)
EXTENDS Naturals, Sequences

VARIABLES
  planned,    \* names of the planned Checks, fixed by the plan
  reported,   \* names of the Checks observed so far
  status      \* "running", "report" or "raised"

vars == <<planned, reported, status>>

Init ==
  /\ reported = << >>
  /\ status = "running"

(* One Check is observed, or a whole suffix at once.                       *)
Observe ==
  /\ status = "running"
  /\ \E n \in Len(reported) + 1 .. Len(planned) : reported' = SubSeq(planned, 1, n)
  /\ UNCHANGED <<planned, status>>

Report ==
  /\ status = "running"
  /\ reported = planned
  /\ status' = "report"
  /\ UNCHANGED <<planned, reported>>

(* An exception of the program itself or an interrupt: there is no report. *)
Raise ==
  /\ status = "running"
  /\ status' = "raised"
  /\ UNCHANGED <<planned, reported>>

Next == Observe \/ Report \/ Raise

Spec == Init /\ [][Next]_vars
=============================================================================
