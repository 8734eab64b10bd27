--------------------------- MODULE ReportBuilder ----------------------------
(***************************************************************************)
(* From the observations of a run to its public report: pytest_evidence.py *)
(* and coverage_evidence.py finish what was observed of the two, and       *)
(* build_run_report (reporting.py) puts the report together.               *)
(***************************************************************************)
EXTENDS RunEvidence

NoPytest == [classification |-> "none"]
NoCoverage == [classification |-> "none"]

\* RepositoryCheckObservation.  start: the module of the validated start
\* marker, which also attributes the Check to the Repository Environment.
Observation(name, processes, start, authority, error) ==
    [name |-> name, processes |-> processes, start |-> start, authority |-> authority,
     error |-> error, pytest |-> NoPytest, coverage |-> NoCoverage]

\* _check_failure: nothing was started.
CheckFailure(name, error) == Observation(name, <<>>, "none", FALSE, error)

\* PytestExecutionObservation and CoverageExecutionObservation.  An artifact
\* is named by what its validation finds, and a valid one by its session.
PytestObservation(classification, version, artifact, session) ==
    [classification |-> classification, version |-> version,
     artifact |-> artifact, session |-> session]
CoverageObservation(classification, artifact) ==
    [classification |-> classification, artifact |-> artifact,
     jsonExit |-> NoCode, wellFormed |-> TRUE]

\* A pytest session: every selected test has a terminal outcome and no
\* collection error; it was stopped early; no test remained; it was narrowed
\* by an option, a deselection or a removal.
Session == [accounted: BOOLEAN, stopped: BOOLEAN, empty: BOOLEAN, narrowed: BOOLEAN]
NoSession == [accounted |-> FALSE, stopped |-> FALSE, empty |-> TRUE, narrowed |-> FALSE]
WholeSession == [NoSession EXCEPT !.accounted = TRUE, !.empty = FALSE]

Primary(observation) ==
    IF observation.processes = <<>> THEN NoProcess ELSE Head(observation.processes)

-----------------------------------------------------------------------------
(* pytest *)

PytestResult(status, complete, reasons, version, exitCode, evidence, empty, error) ==
    [status |-> status, complete |-> complete, reasons |-> reasons, version |-> version,
     exitCode |-> exitCode, evidence |-> evidence, empty |-> empty, error |-> error]
NoPytestResult == PytestResult("none", FALSE, {}, "none", NoCode, FALSE, TRUE, "none")
Scope(result) == IF result.reasons = {} THEN "complete" ELSE "partial"

PlannedReasons(plan) == IF plan.testScope = "partial" THEN {"planned_selector"} ELSE {}

\* _result_from_validation_failure: no evidence survives a failed validation.
PytestFailure(plan, error, version, exitCode) ==
    PytestResult("error", FALSE, PlannedReasons(plan) \cup {"incomplete_session"},
                 version, exitCode, FALSE, TRUE, error)

\* The artifacts that validate_pytest_execution refuses, and their errors.
ArtifactError(artifact) ==
    CASE artifact = "missing" -> "artifact_missing"
      [] artifact = "unfinished" -> "artifact_not_finalized"
      [] artifact = "parallel" -> "unsupported_parallelism"
      [] artifact = "retried" -> "unsupported_retries"
      [] artifact = "other_exit" -> "exit_code_mismatch"
      [] artifact = "valid" -> "none"
      [] OTHER -> "artifact_invalid"

\* validate_pytest_execution: the first thing that is wrong.
ValidationError(observation) ==
    LET pytest == observation.pytest
        primary == Primary(observation)
    IN IF pytest.classification # "supported" THEN pytest.classification
       ELSE IF primary = NoProcess THEN "not_started"
       ELSE IF primary.outcome = "spawn_failed" THEN "spawn_failed"
       ELSE IF primary.outcome = "signaled" THEN "terminated_by_signal"
       ELSE ArtifactError(pytest.artifact)

\* The version that accompanies the error: of the preflight, or of the dependency.
ReportedVersion(pytest, dependencyVersion) ==
    IF pytest.classification = "supported" THEN dependencyVersion ELSE pytest.version

SessionComplete(session, code) ==
    /\ session.accounted /\ ~session.stopped
    /\ code \in {0, 1, 5}
    /\ code = 5 => session.empty

\* _exit_result.
ExitError(code, complete, stopped) ==
    CASE code = 1 /\ ~complete /\ stopped -> "session_incomplete"
      [] code = 2 -> "interrupted"
      [] code = 3 -> "internal_error"
      [] code = 4 -> "usage_error"
      [] code \notin 0 .. 5 -> "unknown_exit_code"
      [] OTHER -> "none"
ExitStatus(code) == CASE code = 0 -> "passed" [] code \in {1, 5} -> "failed" [] OTHER -> "error"

SessionResult(plan, session, version, code) ==
    LET complete == SessionComplete(session, code)
    IN PytestResult(ExitStatus(code), complete,
                    PlannedReasons(plan)
                      \cup (IF session.narrowed THEN {"narrowed"} ELSE {})
                      \cup (IF complete THEN {} ELSE {"incomplete_session"}),
                    version, code, TRUE, session.empty,
                    ExitError(code, complete, session.stopped))

\* build_pytest_result.
BuildPytestResult(plan, observation, dependencyVersion) ==
    LET error == ValidationError(observation)
        primary == Primary(observation)
    IN IF error = "none"
       THEN SessionResult(plan, observation.pytest.session, dependencyVersion, primary.code)
       ELSE PytestFailure(plan, error, ReportedVersion(observation.pytest, dependencyVersion),
                          IF observation.pytest.classification = "supported" THEN primary.code
                          ELSE NoCode)

EnvironmentFailed(env) == env.error \notin {"none", "repository_state_changed"}

\* _build_pytest_result_v2: a Check that was given up has no pytest observation.
ReportedPytest(plan, env, observation, dependency) ==
    IF observation.pytest # NoPytest
    THEN BuildPytestResult(plan, observation, dependency.version)
    ELSE PytestFailure(plan, IF EnvironmentFailed(env) THEN "preflight_invalid" ELSE "not_started",
                       "none", NoCode)

-----------------------------------------------------------------------------
(* Coverage *)

\* coverage_gate_policy_for_context.
GateEligible(plan, pytest, evidenceComplete) ==
    /\ evidenceComplete /\ pytest.evidence
    /\ pytest.exitCode = 0 /\ pytest.complete /\ pytest.reasons = {}
    /\ ~plan.targets /\ ~plan.shortcut
    /\ plan.mode = "strict_aggregate"

SkippedReason(plan, pytest, evidenceComplete, configured) ==
    IF ~evidenceComplete \/ ~pytest.evidence THEN "evidence_error"
    ELSE IF ~configured THEN "not_configured"
    ELSE IF pytest.exitCode = 5 THEN "no_tests_collected"
    ELSE IF ~pytest.complete THEN "pytest_incomplete"
    ELSE IF pytest.exitCode # 0 THEN "pytest_failed"
    ELSE IF pytest.reasons # {} \/ plan.targets \/ plan.shortcut THEN "partial_run"
    ELSE IF plan.mode # "strict_aggregate" THEN "focused_run"
    ELSE "none"

CoverageResult(status, complete, version, eligible, configured, passed, skipped, error, scope) ==
    [status |-> status, complete |-> complete, version |-> version, eligible |-> eligible,
     configured |-> configured, passed |-> passed, skipped |-> skipped, error |-> error,
     scope |-> scope]
NoCoverageResult ==
    CoverageResult("none", FALSE, "none", FALSE, FALSE, "none", "none", "none", "none")
Evaluated(coverage) == coverage.passed # "none"

CoverageErrorResult(plan, version, error) ==
    CoverageResult("error", FALSE, version, FALSE, plan.configured, "none", "evidence_error",
                   error, "partial")

StableVersion(version) == version \in {"supported", "three_numbers", "other_length"}

\* _trusted_coverage_version.
TrustedCoverageVersion(observation, dependencyVersion) ==
    IF /\ observation.classification \in {"supported", "unsupported_version"}
       /\ StableVersion(dependencyVersion)
    THEN dependencyVersion ELSE "none"

\* _coverage_observation_error.
CoverageObservationError(observation) ==
    IF observation = NoCoverage THEN "preflight_invalid"
    ELSE IF observation.classification # "supported" THEN observation.classification
    ELSE IF observation.artifact = "not_attempted" THEN "data_missing"
    ELSE IF observation.artifact = "snapshot" THEN "none"
    ELSE observation.artifact

\* _coverage_error_version.
CoverageErrorVersion(version, error) ==
    CASE error \in {"module_unavailable", "preflight_invalid"} -> "none"
      [] error = "unsupported_version" -> IF VersionSupported(version) THEN "none" ELSE version
      [] OTHER -> IF VersionSupported(version) THEN version ELSE "none"

\* build_coverage_result once the JSON document is there.
MeasuredCoverage(plan, pytest, observation, version) ==
    LET eligible == GateEligible(plan, pytest, TRUE)
        skipped == SkippedReason(plan, pytest, TRUE, plan.configured)
        evaluated == plan.configured /\ eligible
        passed == IF ~evaluated THEN "none" ELSE IF observation.jsonExit = 0 THEN "yes" ELSE "no"
    IN IF observation.jsonExit # 0 /\ ~(observation.jsonExit = 2 /\ evaluated)
       THEN CoverageErrorResult(plan, version, "generation_failed")
       ELSE IF ~observation.wellFormed \/ skipped = "evidence_error"
       THEN CoverageErrorResult(plan, version, "artifact_invalid")
       ELSE CoverageResult(IF ~eligible THEN "guidance" ELSE IF passed = "no" THEN "failed" ELSE "passed",
                           TRUE, version, eligible, plan.configured, passed,
                           IF evaluated THEN "none" ELSE skipped, "none",
                           IF plan.coverageScope = "complete" /\ Scope(pytest) = "complete"
                           THEN "complete" ELSE "partial")

\* build_coverage_result.
BuildCoverageResult(plan, pytest, observation, dependencyVersion) ==
    LET version == TrustedCoverageVersion(observation, dependencyVersion)
        error == CoverageObservationError(observation)
    IN IF error # "none"
       THEN CoverageErrorResult(plan, CoverageErrorVersion(version, error), error)
       ELSE MeasuredCoverage(plan, pytest, observation, version)

-----------------------------------------------------------------------------
(* The report *)

(* Mutant: a failed validation of the pytest evidence is not an error.  *)
ObservedResult(observation, pytest) ==
    [name |-> observation.name,
     status |-> IF observation.error # "none" THEN "error"
                ELSE IF Primary(observation).code = 0 THEN "passed" ELSE "failed",
     processes |-> observation.processes, start |-> observation.start,
     authority |-> observation.authority, error |-> observation.error]

\* _build_check_result_v2.
CheckResult(observation, pytest) ==
    LET primary == Primary(observation)
        nested == pytest.status = "error" /\ pytest.error # "session_incomplete"
        error == IF observation.error = "none" /\ observation.name = "pytest" /\ nested
                 THEN "pytest_evidence_error" ELSE observation.error
        status == IF observation.error # "none" THEN "error"
                  ELSE IF observation.name = "pytest" THEN pytest.status
                  ELSE IF primary.code = 0 THEN "passed" ELSE "failed"
    IN [name |-> observation.name, status |-> status, processes |-> observation.processes,
        start |-> observation.start, authority |-> observation.authority, error |-> error]

DependencyOf(deps, name) ==
    CHOOSE dependency \in Range(deps) : dependency.name = name

(* Mutant: an error of the environment does not make the run incomplete. *)
ChecksComplete(report) ==
    /\ \A check \in Range(report.checks) : check.status # "error"
    /\ report.pytest = NoPytestResult \/ report.pytest.complete
    /\ report.coverage = NoCoverageResult \/ report.coverage.complete

\* _run_complete_v2.
RunComplete(report) ==
    /\ report.env.error = "none" /\ report.env.lock = "current"
    /\ \A dependency \in Range(report.deps) :
          dependency.status = "available" /\ Successful(dependency.process)
    /\ \A check \in Range(report.checks) : check.status # "error"
    /\ report.pytest = NoPytestResult \/ report.pytest.complete
    /\ report.coverage = NoCoverageResult \/ report.coverage.complete

OverallStatus(report) ==
    IF ~RunComplete(report) THEN "error"
    ELSE IF \/ \E check \in Range(report.checks) : check.status = "failed"
            \/ "failed" \in {report.pytest.status, report.coverage.status}
    THEN "failed" ELSE "passed"

\* build_run_report.
BuildRunReport(plan, env, deps, observations) ==
    LET at == SelectInSeq(observations, LAMBDA o : o.name = "pytest")
        pytest == IF at = 0 THEN NoPytestResult
                  ELSE ReportedPytest(plan, env, observations[at], DependencyOf(deps, "pytest"))
        coverage == IF ~CoverageRequested(plan) THEN NoCoverageResult
                    ELSE BuildCoverageResult(plan, pytest, observations[at].coverage,
                                             DependencyOf(deps, "coverage").version)
    IN [plan |-> plan, env |-> env, deps |-> deps, pytest |-> pytest, coverage |-> coverage,
        checks |-> [i \in DOMAIN observations |-> CheckResult(observations[i], pytest)]]

\* select_exit_code.
SelectExitCode(report) ==
    CASE OverallStatus(report) = "error" -> 2
      [] OverallStatus(report) = "failed" -> 1
      [] OverallStatus(report) = "passed" -> 0
=============================================================================
