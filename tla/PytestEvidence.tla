--------------------------- MODULE PytestEvidence ---------------------------
(***************************************************************************)
(* pytest_evidence.py: what pyrepo-check concludes from the artifact of    *)
(* the reporter plugin, the inventory of writer markers and the exit code  *)
(* of the primary process.  It keeps no state.                             *)
(*                                                                         *)
(* A report is one phase of one test.  Its outcome and its expected-failure*)
(* metadata are one value: "xfailed" is skipped with wasxfail, "xpassed"   *)
(* is passed with wasxfail, "strict" is failed with a longrepr that begins *)
(* with [XPASS(strict)], and "rerun" is anything pytest itself never says. *)
(* Parsing and the types of the fields are left out: the plugin writes     *)
(* every field with its type.                                              *)
(***************************************************************************)
EXTENDS Integers, Sequences, FiniteSets

CONSTANT Node   \* node IDs of tests

Phase == {"setup", "call", "teardown"}
Outcome == {"passed", "failed", "skipped", "xfailed", "xpassed", "strict", "rerun"}
Report == [node : Node, when : Phase, outcome : Outcome]

(* returncode of a process that a signal terminated.                       *)
Signalled == -1
ExitCode == 0 .. 5

NoDocument == [state |-> "missing"]

ReportsOf(reports, n) == {i \in 1 .. Len(reports) : reports[i].node = n}

-----------------------------------------------------------------------------
(* The artifact.                                                           *)

(* Mutant: tests that a plugin removed silently are not accounted for.     *)
AccountsWithoutRemoved(c) ==
  c.final \cup c.deselected = c.initial /\ c.final \cap c.deselected = {}

(* Every initial node is final, deselected or known to be removed.         *)
CollectionAccounts(c) ==
  /\ c.final \cup c.deselected \cup c.uncovered = c.initial
  /\ c.final \cap c.deselected = {}
  /\ c.final \cap c.uncovered = {}
  /\ c.deselected \cap c.uncovered = {}

(* One phase of a node came twice, or its outcome is not one of pytest's.  *)
Repeated(reports) ==
  \/ \E i, j \in 1 .. Len(reports) :
       i # j /\ reports[i].node = reports[j].node /\ reports[i].when = reports[j].when
  \/ \E i \in 1 .. Len(reports) : reports[i].outcome = "rerun"

(* Without repeats: setup comes first, then call and teardown in order.    *)
PossiblePhases(reports) ==
  \A i \in 1 .. Len(reports) :
    /\ reports[i].when # "setup" =>
         \E j \in 1 .. i - 1 : reports[j].node = reports[i].node /\ reports[j].when = "setup"
    /\ reports[i].when = "call" =>
         \A j \in 1 .. i - 1 : reports[j].node = reports[i].node => reports[j].when = "setup"

Expected(r) == r.outcome \in {"xfailed", "xpassed", "strict"}

(* At most one report of a node has expected-failure metadata, where       *)
(* pytest puts it.                                                         *)
ExpectedFailuresAgree(reports) ==
  /\ \A i \in 1 .. Len(reports) :
       reports[i].outcome \in {"strict", "xpassed"} => reports[i].when = "call"
  /\ \A i, j \in 1 .. Len(reports) :
       /\ i # j /\ reports[i].node = reports[j].node
       => ~(Expected(reports[i]) /\ Expected(reports[j]))

ReportsAreSound(c) ==
  /\ \A i \in 1 .. Len(c.reports) : c.reports[i].node \in c.final
  /\ ~Repeated(c.reports) => PossiblePhases(c.reports)
  /\ ExpectedFailuresAgree(c.reports)

(* Mutant: the marker of a second writer is not taken into account.        *)
TrustedAmongWriters(document, writers) == document.writer \in writers

Trusted(document, writers) == writers = {document.writer}

(* _validate_artifact                                                      *)
Sound(document, writers) ==
  LET c == document.content
  IN  /\ Trusted(document, writers)
      /\ c.starts = 1 /\ c.finishes = 1
      /\ CollectionAccounts(c)
      /\ ReportsAreSound(c)

(* Mutant: the exit code of the artifact is not compared.                  *)
ExitIgnored(document, writers, returncode) ==
  IF returncode < 0 THEN "terminated_by_signal"
  ELSE IF document = NoDocument THEN "artifact_missing"
  ELSE IF document.state # "finalized" THEN "artifact_not_finalized"
  ELSE IF ~Sound(document, writers) THEN "artifact_invalid"
  ELSE IF document.content.parallel THEN "unsupported_parallelism"
  ELSE IF document.content.retries \/ Repeated(document.content.reports)
       THEN "unsupported_retries"
  ELSE "valid"

(* validate_pytest_execution, once the preflight succeeded and the process *)
(* was spawned: the first defect in this order names the failure.          *)
Verdict(document, writers, returncode) ==
  IF returncode < 0 THEN "terminated_by_signal"
  ELSE IF document = NoDocument THEN "artifact_missing"
  ELSE IF document.state # "finalized" THEN "artifact_not_finalized"
  ELSE IF ~Sound(document, writers) THEN "artifact_invalid"
  ELSE IF document.content.parallel THEN "unsupported_parallelism"
  ELSE IF document.content.retries \/ Repeated(document.content.reports)
       THEN "unsupported_retries"
  ELSE IF document.content.exit # returncode THEN "exit_code_mismatch"
  ELSE "valid"

-----------------------------------------------------------------------------
(* The result.                                                             *)

Saw(c, n, whens, outcomes) ==
  \E i \in ReportsOf(c.reports, n) :
    c.reports[i].when \in whens /\ c.reports[i].outcome \in outcomes

(* _has_terminal_phase, of reports that all passed (no setup-only run).    *)
HasTerminalPhase(c, n) == Saw(c, n, {"call"}, Outcome)

(* _consolidate_node: one outcome per test, by precedence.                 *)
Consolidated(c, n) ==
  IF ReportsOf(c.reports, n) = {} THEN "none"
  ELSE IF Saw(c, n, {"setup", "teardown"}, {"failed"}) THEN "errors"
  ELSE IF Saw(c, n, Phase, {"strict"}) THEN "xpassed"
  ELSE IF Saw(c, n, {"call"}, {"failed"}) THEN "failed"
  ELSE IF Saw(c, n, Phase, {"xfailed"}) THEN "xfailed"
  ELSE IF Saw(c, n, Phase, {"xpassed"}) THEN "xpassed"
  ELSE IF Saw(c, n, Phase, {"skipped"}) THEN "skipped"
  ELSE IF HasTerminalPhase(c, n) THEN "passed"
  ELSE "none"

(* Mutant: a session is complete when pytest says that tests were run.     *)
CompleteByExit(c) == c.collected /\ ~c.errors /\ c.exit \in {0, 1, 5}

(* complete, in build_pytest_result: every selected test has an outcome    *)
(* and was torn down.                                                      *)
Complete(c) ==
  /\ c.collected
  /\ ~c.errors
  /\ ~c.stopped
  /\ \A n \in c.final : Consolidated(c, n) # "none" /\ Saw(c, n, {"teardown"}, Outcome)
  /\ c.exit \in {0, 1, 5}
  /\ c.exit = 5 => c.final = {}

(* _scope_reasons finds none: no narrowing option, no test removed.  All   *)
(* arguments of the model narrow the scope.                                *)
FullScope(c) ==
  /\ c.args = << >> /\ c.keyword = ""
  /\ c.deselected = {} /\ c.uncovered = {}
  /\ Complete(c)
=============================================================================
