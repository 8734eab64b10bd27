---------------------------- MODULE ReportRules -----------------------------
(***************************************************************************)
(* _validate_run_report_v2 (reporting.py): the rules a report must obey    *)
(* before it is shown.  They state what the evidence of a run may look     *)
(* like, independently of the code that produces it; a report that breaks  *)
(* one is not shown at all.                                                *)
(***************************************************************************)
EXTENDS ReportBuilder

CoreProcesses(env) ==
    Picked(env.processes, {i \in DOMAIN env.processes : env.processes[i].role # "repository_safety"})
CoreRoles(env) == [i \in DOMAIN CoreProcesses(env) |-> CoreProcesses(env)[i].role]
FirstOf(env, role) ==
    LET at == SelectInSeq(env.processes, LAMBDA p : p.role = role)
    IN IF at = 0 THEN NoProcess ELSE env.processes[at]
UvVersion(env) == FirstOf(env, "uv_version")
Probe(env) == FirstOf(env, "environment_probe")

Observed(env) == env.python # "none"
NothingObserved(env) == env.lock = "unverified" /\ ~Observed(env)
UvOnly(env) == CoreRoles(env) = <<"uv_version">>
UvAndProbe(env) == CoreRoles(env) = <<"uv_version", "environment_probe">>

\* _unsafe_after_preparation_v2.
UnsafeAfterPreparation(env) ==
    /\ env.error = "unsafe_repository_environment"
    /\ UvAndProbe(env) /\ env.lock = "current" /\ env.manager /\ Observed(env)

-----------------------------------------------------------------------------
(* The Repository Environment *)

\* _validate_environment_process_order_v2: git first, then uv --version, the
\* probe, and at most one git command at the very end.
OrderedProcesses(env) ==
    LET core == SelectInSeq(env.processes, LAMBDA p : p.role # "repository_safety")
    IN /\ CoreRoles(env) \in {<<>>, <<"uv_version">>, <<"uv_version", "environment_probe">>}
       /\ core # 0 =>
            \A i \in core .. Len(env.processes) - 1 : env.processes[i].role # "repository_safety"

\* _validate_pre_execution_stage_v2: what each error claims to have seen.
StageAgrees(env) ==
    CASE env.error = "repository_lock_missing" ->
           /\ env.lock = "missing" /\ env.processes = <<>>
           /\ ~env.manager /\ ~Observed(env) /\ env.protection = "unobserved"
      [] env.error = "uv_unavailable" ->
           UvOnly(env) /\ FailedProcess(UvVersion(env)) /\ NothingObserved(env) /\ ~env.manager
      [] env.error = "repository_environment_failed" ->
           UvAndProbe(env) /\ FailedProcess(Probe(env)) /\ NothingObserved(env) /\ env.manager
      [] env.error = "repository_python_unsupported" ->
           UvAndProbe(env) /\ env.lock = "current" /\ env.manager /\ Observed(env)
      [] env.error = "environment_evidence_invalid" ->
           \/ UvOnly(env) /\ ZeroExit(UvVersion(env)) /\ NothingObserved(env) /\ ~env.manager
           \/ /\ UvAndProbe(env) /\ env.manager /\ ZeroExit(Probe(env))
              /\ NothingObserved(env) \/ (env.lock = "current" /\ Observed(env))
      [] env.error = "unsafe_repository_environment" ->
           \/ CoreRoles(env) = <<>> /\ NothingObserved(env) /\ ~env.manager
           \/ UnsafeAfterPreparation(env)
      [] OTHER -> TRUE

NothingProbed(env, deps) ==
    EnvironmentFailed(env) /\ ~UnsafeAfterPreparation(env) =>
        \A dependency \in Range(deps) : dependency = Unattempted(dependency.name)

\* _validate_environment_state_v2.
EnvironmentAgrees(env) ==
    /\ env.manager => Successful(UvVersion(env))
    /\ Observed(env) => Successful(Probe(env))
    /\ Observed(env) => ((env.error = "repository_python_unsupported") <=> (env.python = "unsupported"))
    /\ env.lock = "current" => Observed(env)
    /\ env.lock = "missing" => /\ ~Observed(env) /\ Probe(env) = NoProcess
                               /\ env.error = "repository_lock_missing"
    /\ env.error = "none" => /\ env.lock = "current" /\ env.manager
                             /\ env.protection # "unobserved"
    /\ env.lock = "current" => env.error # "repository_lock_missing"
    /\ env.protection = "tracked_files" =>
         /\ env.processes # <<>>
         /\ Last(env.processes).role = "repository_safety" /\ ZeroExit(Last(env.processes))

-----------------------------------------------------------------------------
(* Dependencies *)

TypedError(status) ==
    CASE status = "missing" -> "check_dependency_missing"
      [] status = "incompatible" -> "check_dependency_incompatible"
      [] status = "shadowed" -> "check_dependency_shadowed"
      [] status = "unusable" -> "check_dependency_unusable"

\* _validate_dependency_evidence_v2.
DependencyAgrees(dependency, environmentFailed) ==
    LET process == dependency.process
    IN CASE dependency.status = "available" ->
              /\ VersionSupported(dependency.version)
              /\ Successful(process) /\ dependency.error = "none"
         [] dependency.status = "unobserved" ->
              /\ dependency.version = "none"
              /\ process = NoProcess => dependency.error = "none" /\ environmentFailed
              /\ process # NoProcess => dependency.error = "check_dependency_unusable"
         [] OTHER ->
              /\ Successful(process) /\ dependency.error = TypedError(dependency.status)
              /\ dependency.status = "incompatible" => dependency.version # "none"

GivenUp(check) ==
    check.error = "repository_environment_unavailable" /\ check.processes = <<>> /\ check.start = "none"

\* After the loss of a helper nothing that was not attempted precedes
\* something that was.
OnlyASuffix(seq, Test(_)) ==
    \A i, j \in DOMAIN seq : i < j /\ Test(seq[i]) => Test(seq[j])
LossLeavesSuffixes(report) ==
    UnsafeAfterPreparation(report.env) =>
        /\ OnlyASuffix(report.deps, LAMBDA d : d.status = "unobserved" /\ d.process = NoProcess)
        /\ OnlyASuffix(report.checks, GivenUp)

-----------------------------------------------------------------------------
(* Coverage *)

\* validate_coverage_result.
CoverageIsSound(coverage) ==
    IF coverage.status = "error"
    THEN /\ coverage.scope = "partial" /\ ~coverage.complete /\ ~coverage.eligible
         /\ ~Evaluated(coverage) /\ coverage.skipped = "evidence_error"
         /\ CASE coverage.error = "unsupported_version" -> ~VersionSupported(coverage.version)
              [] coverage.error \in {"module_unavailable", "preflight_invalid"} ->
                   coverage.version = "none"
              [] coverage.error \in {"spawn_failed", "terminated_by_signal"} ->
                   coverage.version = "none" \/ VersionSupported(coverage.version)
              [] OTHER -> VersionSupported(coverage.version)
    ELSE /\ coverage.complete /\ coverage.error = "none" /\ VersionSupported(coverage.version)
         /\ coverage.status = "guidance" =>
              ~coverage.eligible /\ ~Evaluated(coverage) /\ coverage.skipped \notin {"none", "evidence_error"}
         /\ coverage.status # "guidance" => coverage.scope = "complete" /\ coverage.eligible
         /\ coverage.status = "failed" => coverage.configured /\ coverage.passed = "no"
         /\ coverage.status = "passed" =>
              \/ coverage.configured /\ coverage.passed = "yes"
              \/ ~coverage.configured /\ coverage.passed = "none" /\ coverage.skipped = "not_configured"

\* _validate_coverage_context_v2.
CoverageFitsContext(report) ==
    LET coverage == report.coverage
        pytest == report.pytest
        plan == report.plan
        eligible == GateEligible(plan, pytest, coverage.complete)
        skipped == SkippedReason(plan, pytest, coverage.complete, coverage.configured)
    IN /\ (coverage.scope = "complete") <=>
            (plan.coverageScope = "complete" /\ Scope(pytest) = "complete" /\ coverage.complete)
       /\ coverage.eligible = eligible
       /\ coverage.status = "error" => skipped = "evidence_error"
       /\ coverage.status # "error" =>
            /\ coverage.skipped = skipped
            /\ coverage.status = (IF ~eligible THEN "guidance"
                                  ELSE IF coverage.passed = "no" THEN "failed" ELSE "passed")

PreflightError(status) ==
    CASE status = "missing" -> "module_unavailable"
      [] status = "incompatible" -> "unsupported_version"
      [] OTHER -> "preflight_invalid"
IncompatibleVersion(dependency) ==
    IF dependency.status = "incompatible" THEN dependency.version ELSE "none"

CoverageJson(check) ==
    IF check.processes # <<>> /\ Last(check.processes).role = "coverage_json"
    THEN Last(check.processes) ELSE NoProcess

\* _validate_unstarted_coverage_v2.
UnstartedCoverageAgrees(check, pytest, coverage, dependency, pytestAvailable) ==
    LET setupOwns == \/ ~pytestAvailable
                     \/ check.error = "pytest_evidence_error"
                     \/ /\ check.error \in {"cleanup_failed", "platform_safety_unavailable"}
                        /\ pytest.version = "none"
        error == IF setupOwns THEN "preflight_invalid"
                 ELSE IF dependency.status = "available" THEN "data_missing"
                 ELSE PreflightError(dependency.status)
        version == IF setupOwns THEN "none"
                   ELSE IF dependency.status = "available" THEN dependency.version
                   ELSE IncompatibleVersion(dependency)
    IN /\ coverage.status = "error" /\ coverage.error = error /\ coverage.version = version
       /\ CoverageJson(check) = NoProcess

\* The error of a coverage_json process that was attempted.
JsonErrorAgrees(error, json) ==
    CASE error = "spawn_failed" -> json.outcome = "spawn_failed"
      [] error = "terminated_by_signal" -> json.outcome = "signaled"
      [] error = "generation_failed" -> json.outcome = "exited" /\ json.code > 0
      [] OTHER -> /\ json.outcome = "exited"
                  /\ error \in {"artifact_missing", "artifact_invalid", "unexpected_parallel_data"}

\* _validate_coverage_correlation_v2, for pytest that ended with a known code.
MeasurementAgrees(check, pytest, coverage, helperLost) ==
    LET json == CoverageJson(check)
        reserved == Head(check.processes).code \in {2, 3, 4}
    IN /\ reserved => check.error = "check_execution_failed"
       /\ ~pytest.complete /\ pytest.error # "session_incomplete" /\ ~reserved => json = NoProcess
       /\ coverage.status # "error" =>
            json # NoProcess /\ json.outcome = "exited"
            /\ json.code = (IF coverage.status = "failed" THEN 2 ELSE 0)
       /\ coverage.status = "error" /\ json = NoProcess =>
            \/ helperLost /\ coverage.error = "generation_failed"
            \/ coverage.error \in {"data_missing", "unexpected_parallel_data", "unsupported_parallelism"}
       /\ coverage.status = "error" /\ json # NoProcess => JsonErrorAgrees(coverage.error, json)

\* _validate_coverage_correlation_v2.
CoverageCorrelates(check, pytest, coverage, dependency, helperLost) ==
    LET primary == Head(check.processes)
    IN /\ coverage.version \in {"none", dependency.version}
       /\ IF dependency.status # "available"
          THEN /\ coverage.status = "error" /\ CoverageJson(check) = NoProcess
               /\ coverage.error = PreflightError(dependency.status)
          ELSE IF primary.outcome # "exited" \/ primary.code \notin 0 .. 5
          THEN /\ CoverageJson(check) = NoProcess
               /\ coverage.status = "error" /\ coverage.error = "data_missing"
          ELSE MeasurementAgrees(check, pytest, coverage, helperLost)

-----------------------------------------------------------------------------
(* pytest *)

ArtifactErrors == {"artifact_missing", "artifact_invalid", "artifact_not_finalized",
                   "unsupported_parallelism", "unsupported_retries", "exit_code_mismatch"}

\* _validate_pytest_result.
PytestIsSound(pytest, plan) ==
    /\ pytest.status = "error" => pytest.error # "none"
    /\ pytest.status # "error" => pytest.error \in {"none", "session_incomplete"}
    /\ pytest.complete => pytest.status # "error" /\ pytest.error = "none" /\ pytest.evidence
    /\ ("planned_selector" \in pytest.reasons) <=> (plan.testScope = "partial")
    /\ ("incomplete_session" \in pytest.reasons) <=> ~pytest.complete
    /\ pytest.error = "session_incomplete" =>
         pytest.status = "failed" /\ ~pytest.complete /\ pytest.evidence
    /\ ~pytest.evidence => /\ pytest.status = "error" /\ ~pytest.complete
                           /\ "narrowed" \notin pytest.reasons

\* _validate_pytest_primary_outcome.
PytestFitsExit(pytest, code) ==
    CASE pytest.error = "none" ->
           /\ code \in {0, 1, 5} /\ pytest.status = (IF code = 0 THEN "passed" ELSE "failed")
           /\ code = 5 /\ pytest.complete => pytest.evidence /\ pytest.empty
      [] pytest.error = "session_incomplete" -> code = 1
      [] pytest.error \in ArtifactErrors -> pytest.status = "error" /\ ~pytest.evidence
      [] OTHER -> /\ pytest.status = "error" /\ ~pytest.complete /\ pytest.evidence
                  /\ pytest.error = ExitError(code, FALSE, FALSE)

NotRun(pytest) == pytest.status = "error" /\ ~pytest.complete /\ pytest.exitCode = NoCode /\ ~pytest.evidence

\* _validate_synthesized_pytest_v2.
SynthesizedPytestAgrees(pytest, coverage, dependency, environmentFailure) ==
    /\ NotRun(pytest)
    /\ pytest.error = (IF environmentFailure THEN "preflight_invalid" ELSE PreflightError(dependency.status))
    /\ pytest.version = (IF environmentFailure THEN "none" ELSE IncompatibleVersion(dependency))
    /\ coverage # NoCoverageResult => coverage.status = "error" /\ coverage.error = "preflight_invalid"

\* _validate_unavailable_pytest_cleanup_v2.
UnavailableCleanupAgrees(pytest, dependency) ==
    /\ pytest.status = "error"
    /\ \/ pytest.version = "none" /\ pytest.error = "not_started"
       \/ /\ pytest.version = IncompatibleVersion(dependency)
          /\ pytest.error = PreflightError(dependency.status)

\* _validate_pytest_check_v2, for a Check without a process.
UnstartedPytestAgrees(check, pytest, dependency, coverage, coverageDependency) ==
    LET markerPreparation == pytest.version = dependency.version
    IN /\ check.status = "error" /\ check.start = "none"
       /\ check.error \in {"platform_safety_unavailable", "cleanup_failed",
                           "check_start_evidence_invalid", "pytest_evidence_error"}
       /\ NotRun(pytest)
       /\ dependency.status # "available" => UnavailableCleanupAgrees(pytest, dependency)
       /\ dependency.status = "available" =>
            /\ pytest.error = "not_started"
            /\ markerPreparation => check.error \in {"check_start_evidence_invalid", "cleanup_failed"}
            /\ ~markerPreparation => pytest.version = "none" /\ check.error # "check_start_evidence_invalid"
       /\ coverage # NoCoverageResult =>
            UnstartedCoverageAgrees(check, pytest, coverage, coverageDependency,
                                    dependency.status = "available")

\* The error a pytest Check must have, and its status without one.
PytestCheckAgrees(check, pytest, primary) ==
    LET cleanup == check.error = "cleanup_failed"
    IN CASE cleanup -> check.status = "error"
         [] ~cleanup /\ primary.outcome = "spawn_failed" -> check.error = "spawn_failed"
         [] ~cleanup /\ primary.outcome # "spawn_failed" /\ check.start = "none" ->
              check.error = "check_start_evidence_invalid"
         [] ~cleanup /\ primary.outcome = "signaled" /\ check.start # "none" ->
              check.error = "terminated_by_signal"
         [] ~cleanup /\ primary.outcome = "exited" /\ check.start # "none" ->
              IF primary.code \notin {0, 1, 5} THEN check.error = "check_execution_failed"
              ELSE IF pytest.error \in {"none", "session_incomplete"}
              THEN check.status = pytest.status /\ check.error = "none"
              ELSE check.error = "pytest_evidence_error"

\* _validate_pytest_check_v2, for a Check with a process.
StartedPytestAgrees(check, pytest, dependency, coverage, coverageDependency, helperLost) ==
    LET primary == Head(check.processes)
    IN /\ pytest.version = dependency.version
       /\ primary.outcome = "spawn_failed" =>
            check.start = "none" /\ NotRun(pytest) /\ pytest.error = "spawn_failed"
       /\ primary.outcome = "signaled" => NotRun(pytest) /\ pytest.error = "terminated_by_signal"
       /\ primary.outcome = "exited" =>
            pytest.exitCode = primary.code /\ PytestFitsExit(pytest, primary.code)
       /\ PytestCheckAgrees(check, pytest, primary)
       /\ coverage # NoCoverageResult =>
            CoverageCorrelates(check, pytest, coverage, coverageDependency, helperLost)

PytestAgrees(check, pytest, dependency, coverage, coverageDependency, helperLost) ==
    /\ ~check.authority
    /\ pytest.version \in {"none", dependency.version}
    /\ CoverageJson(check) # NoProcess => coverageDependency.status = "available"
    /\ IF check.processes = <<>>
       THEN UnstartedPytestAgrees(check, pytest, dependency, coverage, coverageDependency)
       ELSE StartedPytestAgrees(check, pytest, dependency, coverage, coverageDependency, helperLost)

-----------------------------------------------------------------------------
(* Checks *)

\* _validate_ordinary_check_v2.
OrdinaryCheckAgrees(check) ==
    LET primary == Primary(check)
        cleanup == check.error = "cleanup_failed"
        failed(error) == check.status = "error" /\ check.error = (IF cleanup THEN "cleanup_failed" ELSE error)
    IN CASE primary = NoProcess ->
              /\ check.status = "error" /\ check.start = "none" /\ ~check.authority
              /\ check.error \in {"platform_safety_unavailable", "cleanup_failed",
                                  "check_start_evidence_invalid"}
         [] primary.outcome = "spawn_failed" ->
              failed("spawn_failed") /\ check.start = "none" /\ ~check.authority
         [] primary # NoProcess /\ primary.outcome # "spawn_failed" /\ check.start = "none" ->
              failed("check_start_evidence_invalid") /\ ~check.authority
         [] primary # NoProcess /\ primary.outcome # "spawn_failed" /\ check.start # "none" ->
              /\ check.authority <=> /\ DependencyNameForCheck(check.name) \in {"ruff", "ty"}
                                     /\ primary.outcome = "exited" /\ primary.code \in {0, 1}
              /\ IF cleanup THEN check.status = "error"
                 ELSE IF primary.outcome = "signaled" THEN failed("terminated_by_signal")
                 ELSE CASE primary.code = 0 -> check.status = "passed" /\ check.error = "none"
                        [] primary.code = 1 -> check.status = "failed" /\ check.error = "none"
                        [] OTHER -> failed("check_execution_failed")

Synthesized(check) ==
    check.processes = <<>> /\ check.start = "none" /\ ~check.authority

\* _expected_check_module_v2.
ExpectedModule(report, check) ==
    IF /\ check.name = "pytest" /\ CoverageRequested(report.plan)
       /\ DependencyOf(report.deps, "coverage").status = "available"
    THEN "coverage" ELSE DependencyNameForCheck(check.name)

\* _validate_check_result_v2.
CheckAgrees(report, check) ==
    LET env == report.env
        dependency == DependencyOf(report.deps, DependencyNameForCheck(check.name))
        isPytest == check.name = "pytest"
        coverageDependency == IF isPytest /\ CoverageRequested(report.plan)
                              THEN DependencyOf(report.deps, "coverage")
                              ELSE Unattempted("coverage")
        helperLost == UnsafeAfterPreparation(env)
        unavailable == check.error = "repository_environment_unavailable"
        synthesizedPytest(environmentFailure) ==
            isPytest => SynthesizedPytestAgrees(report.pytest, report.coverage, dependency, environmentFailure)
        pytestAgrees == PytestAgrees(check, report.pytest, dependency, report.coverage,
                                     coverageDependency, helperLost)
    IN /\ check.start # "none" =>
            /\ check.processes # <<>> /\ check.start = ExpectedModule(report, check)
            /\ Observed(env)
       /\ IF EnvironmentFailed(env) /\ ~helperLost
          THEN unavailable /\ Synthesized(check) /\ synthesizedPytest(TRUE)
          ELSE IF helperLost /\ unavailable /\ Synthesized(check)
          THEN synthesizedPytest(TRUE)
          ELSE IF env.error = "repository_state_changed" /\ unavailable
          THEN FALSE
          ELSE IF /\ isPytest /\ dependency.status # "available" /\ check.processes = <<>>
                  /\ check.error \in {"cleanup_failed", "platform_safety_unavailable"}
          THEN pytestAgrees
          ELSE IF dependency.status # "available"
          THEN /\ dependency.error # "none" /\ check.error = dependency.error
               /\ Synthesized(check) /\ synthesizedPytest(FALSE)
          ELSE IF isPytest THEN pytestAgrees ELSE OrdinaryCheckAgrees(check)

-----------------------------------------------------------------------------
\* _validate_run_report_v2.
ValidReport(report) ==
    LET env == report.env
        plan == report.plan
        names == [i \in DOMAIN report.checks |-> report.checks[i].name]
        required == [i \in DOMAIN report.deps |-> report.deps[i].name]
    IN /\ (plan.mode = "focused") => plan.coverageScope # "unavailable"
       /\ (plan.mode = "strict_aggregate") => plan.coverageScope # "not_requested"
       /\ names = plan.checks
       /\ ("pytest" \in Range(plan.checks)) <=> (report.pytest # NoPytestResult)
       /\ report.pytest # NoPytestResult => PytestIsSound(report.pytest, plan)
       /\ CoverageRequested(plan) <=> (report.coverage # NoCoverageResult)
       /\ report.coverage # NoCoverageResult =>
            /\ CoverageIsSound(report.coverage) /\ report.pytest # NoPytestResult
            /\ CoverageFitsContext(report)
       /\ OrderedProcesses(env) /\ StageAgrees(env) /\ NothingProbed(env, report.deps)
       /\ EnvironmentAgrees(env)
       /\ required = RequiredDependencies(plan)
       /\ LossLeavesSuffixes(report)
       /\ \A dependency \in Range(report.deps) : DependencyAgrees(dependency, EnvironmentFailed(env))
       /\ \A check \in Range(report.checks) : CheckAgrees(report, check)
=============================================================================
