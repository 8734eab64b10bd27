-------------------------- MODULE CaptureContract --------------------------
(***************************************************************************)
(* What the callers of execute_process (execution.py) rely on, without any *)
(* thread, pipe or signal: one call produces one ExecutedProcess.  Its     *)
(* return code is set only together with an account of every unit the      *)
(* child and its descendants ever wrote to the two streams; a call that    *)
(* fails hands over no output at all.                                      *)
(***************************************************************************)
EXTENDS Naturals

CONSTANT Stream

VARIABLES
  status,     \* "running", "complete" or "failed"
  produced,   \* units written so far to each stream
  delivered   \* units the returned observation accounts for, per stream

vars == <<status, produced, delivered>>

Nothing == [s \in Stream |-> 0]

Init ==
  /\ status = "running"
  /\ produced = Nothing
  /\ delivered = Nothing

(* A process of the child's family writes; after "complete" none is left.  *)
Produce(s) ==
  /\ status # "complete"
  /\ produced' = [produced EXCEPT ![s] = @ + 1]
  /\ UNCHANGED <<status, delivered>>

Complete ==
  /\ status = "running"
  /\ status' = "complete"
  /\ delivered' = produced
  /\ UNCHANGED produced

Fail ==
  /\ status = "running"
  /\ status' = "failed"
  /\ UNCHANGED <<produced, delivered>>

Next ==
  \/ \E s \in Stream : Produce(s)
  \/ Complete
  \/ Fail

Spec == Init /\ [][Next]_vars
=============================================================================
