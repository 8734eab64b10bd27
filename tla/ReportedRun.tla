---------------------------- MODULE ReportedRun -----------------------------
(***************************************************************************)
(* A whole invocation of pyrepo-check with --format json, from the request *)
(* to the exit code: the planner refuses or plans, the controller prepares *)
(* the Repository Environment, probes its dependencies, runs every Check   *)
(* and verifies the repository, and the report is built and validated.     *)
(* Where RepositoryRun has the interleavings of these steps with the rest  *)
(* of the world, this module has the evidence every step leaves and all    *)
(* the ways a step may end, and asks what becomes of it.                   *)
(*                                                                         *)
(* A step of a run departs if it does not end as in a git worktree where   *)
(* all is well; DeviationBound is the number of departures of a run.       *)
(***************************************************************************)
EXTENDS ReportRules, FiniteSetsExt

CONSTANTS Invocations,     \* the [request, config] pairs pyrepo-check is invoked with
          Followed,        \* those whose runs are followed beyond the plan
          DeviationBound

ASSUME DeviationAssumption == DeviationBound \in Nat
ASSUME InvocationsAssumption ==
    /\ \A i \in Invocations : i.request \in Request /\ i.config \in ProjectConfig
    /\ Followed \subseteq Invocations

VARIABLES
    pc,           \* the step that comes next
    invocation,   \* the request and the configuration, forgotten once planned
    plan,
    baseline,     \* what was captured: "none", "git" or "plain"
    env, deps,    \* the observations of the Repository Environment
    checks,       \* and of the Checks that ended
    current,      \* the observation of the Check in its workspace
    forced,       \* the conversion of coverage data has its threshold set to 0
    report,       \* "none", "planning_error", "shown" or "refused"
    exit,         \* the exit code, NoCode before the end
    deviations

vars == <<pc, invocation, plan, baseline, env, deps, checks, current, forced,
          report, exit, deviations>>

Forgotten == [planned |-> TRUE]
NoPlan == [checks |-> <<>>]
Idle == Observation("none", <<>>, "none", FALSE, "none")

Init ==
    /\ pc = "plan" /\ invocation \in Invocations /\ plan = NoPlan
    /\ baseline = "none" /\ env = FailedPreparation("none", FALSE, <<>>) /\ deps = <<>>
    /\ checks = <<>> /\ current = Idle /\ forced = FALSE
    /\ report = "none" /\ exit = NoCode /\ deviations = 0

\* A step that ends as usual, or one that departs.
Usual(usual) ==
    /\ deviations' = IF usual THEN deviations ELSE deviations + 1
    /\ deviations' <= DeviationBound
Departs == Usual(FALSE)

-----------------------------------------------------------------------------
(* Planning: main and plan_run *)

Refuse ==
    /\ pc = "plan" /\ PlanningError(invocation.request, invocation.config) # "none"
    /\ pc' = "done" /\ report' = "planning_error" /\ exit' = 2
    /\ UNCHANGED <<invocation, plan, baseline, env, deps, checks, current, forced, deviations>>

Plan ==
    /\ pc = "plan" /\ PlanningError(invocation.request, invocation.config) = "none"
    /\ plan' = PlanRun(invocation.request, invocation.config) /\ pc' = "planned"
    /\ UNCHANGED <<invocation, baseline, env, deps, checks, current, forced, report, exit, deviations>>

-----------------------------------------------------------------------------
(* Preparation: prepare_safe_repository *)

GivenUpFrom(i) ==
    [k \in 1 .. Len(plan.checks) - i + 1 |->
        CheckFailure(plan.checks[i + k - 1], "repository_environment_unavailable")]
(* Mutant: the Checks that were given up precede those that ended.      *)
GiveUpFromFirst(i, done) == checks' = GivenUpFrom(i) \o done
GiveUpFrom(i, done) == checks' = done \o GivenUpFrom(i)

UnattemptedFrom(i) ==
    LET required == RequiredDependencies(plan)
    IN [k \in 1 .. Len(required) - i + 1 |-> Unattempted(required[i + k - 1])]

\* Preparation failed: no dependency is probed and no Check is run.
NothingPrepared(observed) ==
    env' = observed /\ deps' = UnattemptedFrom(1) /\ GiveUpFrom(1, <<>>)

LockPresent ==
    /\ pc = "planned" /\ invocation \in Followed /\ pc' = "baseline" /\ invocation' = Forgotten
    /\ UNCHANGED <<plan, baseline, env, deps, checks, current, forced, report, exit, deviations>>

\* Without a lock that can be trusted nothing is captured, nor verified later.
LockRejected ==
    /\ pc = "planned" /\ invocation \in Followed /\ Departs
    /\ pc' = "report" /\ invocation' = Forgotten
    /\ NothingPrepared([env EXCEPT !.error = "repository_lock_missing", !.lock = "missing"])
         \/ NothingPrepared([env EXCEPT !.error = "unsafe_repository_environment"])
    /\ UNCHANGED <<plan, baseline, current, forced, report, exit>>

SafetyProcesses(n) == [k \in 1 .. n |-> Safety(0)]

\* Four git commands, or none or a failing one outside of a git worktree.
CaptureBaseline ==
    /\ pc = "baseline" /\ pc' = "uv"
    /\ \E kind \in {"git", "plain"}, n \in {0, 1, 4} :
          /\ (kind = "git") <=> (n = 4)
          /\ Usual(kind = "git") /\ baseline' = kind
          /\ env' = [env EXCEPT !.processes = SafetyProcesses(n)]
    /\ UNCHANGED <<invocation, plan, deps, checks, current, forced, report, exit>>

BaselineFails ==
    /\ pc = "baseline" /\ Departs /\ pc' = "report"
    /\ \E n \in {0, 1, 4} :
          NothingPrepared(FailedPreparation("unsafe_repository_environment", FALSE, SafetyProcesses(n)))
    /\ UNCHANGED <<invocation, plan, baseline, current, forced, report, exit>>

PreparationFails(observed) ==
    NothingPrepared(observed) /\ pc' = "verify"
        /\ UNCHANGED <<invocation, plan, baseline, current, forced, report, exit>>

\* An unsafe storage boundary, no safe uv, or one that changed.
UvRejected ==
    /\ pc = "uv" /\ Departs
    /\ \E error \in {"unsafe_repository_environment", "uv_unavailable"} :
          PreparationFails(FailedPreparation(error, FALSE, env.processes))

\* How a command of the preparation may end.
PreparationEnds(role) ==
    {Exited(role, 0), Exited(role, 1), NotSpawned(role), Signaled(role),
     Process(role, "exited", 0, "stdout_cut"), Process(role, "exited", 0, "stderr_cut")}

RunUvVersion ==
    /\ pc = "uv"
    /\ \E process \in PreparationEnds("uv_version"), wellFormed \in BOOLEAN :
         LET error == UvVersionError(process, wellFormed)
             processes == Append(env.processes, process)
         IN /\ Usual(Successful(process) /\ wellFormed)
            /\ \/ /\ error # "none" /\ PreparationFails(FailedPreparation(error, FALSE, processes))
               \/ /\ error = "none" /\ pc' = "probe"
                  /\ env' = FailedPreparation("none", TRUE, processes)
                  /\ UNCHANGED <<invocation, plan, baseline, deps, checks, current, forced, report, exit>>

UvChangesBeforeProbe ==
    /\ pc = "probe" /\ Departs
    /\ PreparationFails([env EXCEPT !.error = "unsafe_repository_environment"])

RunProbe ==
    /\ pc = "probe"
    /\ \E process \in PreparationEnds("environment_probe"), finding \in ProbeFinding \cup {"malformed"} :
         LET observed == ProbedEnvironment(process, finding, Append(env.processes, process))
         IN /\ Usual(Successful(process) /\ finding = "sound")
            /\ \/ observed.error # "none" /\ PreparationFails(observed)
               \/ /\ observed.error = "none" /\ pc' = "dependencies" /\ env' = observed
                  /\ UNCHANGED <<invocation, plan, baseline, deps, checks, current, forced, report, exit>>

\* What a probe may claim of a dependency, and its version.
Claims == ({"available"} \X ({"supported"} \cup OutOfRange))
          \cup ({"shadowed", "unusable"} \X {"none", "supported"})
          \cup {<<"missing", "none">>, <<"malformed", "none">>}

ProbeDependency ==
    LET name == RequiredDependencies(plan)[Len(deps) + 1]
    IN /\ pc = "dependencies"
       /\ \E process \in PreparationEnds("dependency_probe"), claim \in Claims :
             /\ Usual(Successful(process) /\ claim = <<"available", "supported">>)
             /\ deps' = Append(deps, DependencyObservation(name, process, claim[1], claim[2]))
       /\ pc' = IF Len(deps') = Len(RequiredDependencies(plan)) THEN "check" ELSE pc
       /\ UNCHANGED <<invocation, plan, baseline, env, checks, current, forced, report, exit>>

ProbingLosesUv ==
    /\ pc = "dependencies" /\ Departs /\ pc' = "verify"
    /\ deps' = deps \o UnattemptedFrom(Len(deps) + 1)
    /\ env' = [env EXCEPT !.error = "unsafe_repository_environment"] /\ GiveUpFrom(1, <<>>)
    /\ UNCHANGED <<invocation, plan, baseline, current, forced, report, exit>>

-----------------------------------------------------------------------------
(* A Check: execute_repository_plan and _execute_in_workspace *)

Index == Len(checks) + 1
Name == plan.checks[Index]
IsPytest == Name = "pytest"
Owner == DependencyOf(deps, DependencyNameForCheck(Name))
CoverageOwner == DependencyOf(deps, "coverage")
Instrumented == IsPytest /\ CoverageRequested(plan) /\ CoverageOwner.status = "available"

\* _prepared_pytest_preflight and _prepared_coverage_observation.
PytestPreflight ==
    CASE Owner.status = "available" ->
           PytestObservation("supported", NumericVersion(Owner.version), "missing", NoSession)
      [] Owner.status = "missing" ->
           PytestObservation("module_unavailable", "none", "missing", NoSession)
      [] Owner.status = "incompatible" /\ NumericVersion(Owner.version) # "none" ->
           PytestObservation("unsupported_version", NumericVersion(Owner.version), "missing", NoSession)
      [] OTHER -> PytestObservation("preflight_invalid", "none", "missing", NoSession)
CoveragePreflight ==
    IF ~CoverageRequested(plan) THEN NoCoverage
    ELSE CoverageObservation(CASE CoverageOwner.status = "available" -> "supported"
                               [] OTHER -> PreflightError(CoverageOwner.status),
                             "not_attempted")
InvalidCoverage ==
    IF CoverageRequested(plan) THEN CoverageObservation("preflight_invalid", "not_attempted")
    ELSE NoCoverage

\* The Check has its observation; the cleanup of its workspace is next.
Leaves(observation) ==
    /\ current' = observation /\ pc' = "close"
    /\ UNCHANGED <<invocation, plan, baseline, deps, checks, report, exit>>

Ends(observation) ==
    /\ checks' = Append(checks, observation)
    /\ pc' = IF Index = Len(plan.checks) THEN "verify" ELSE "check"
    /\ UNCHANGED <<invocation, plan, baseline, env, deps, forced, report, exit>>

\* An ordinary Check without its dependency needs no workspace.
DependencyUnavailable ==
    /\ pc = "check" /\ ~IsPytest /\ Owner.status # "available"
    /\ Ends(CheckFailure(Name, Owner.error)) /\ UNCHANGED <<current, deviations>>

NeedsWorkspace == pc = "check" /\ (IsPytest \/ Owner.status = "available")

CreateFails ==
    /\ NeedsWorkspace /\ Departs
    /\ \E error \in {"platform_safety_unavailable", "cleanup_failed"} : Ends(CheckFailure(Name, error))
    /\ UNCHANGED current

\* The workspace is not what it should be, or the launcher cannot be staged.
SetupFails ==
    /\ NeedsWorkspace /\ Departs
    /\ \E error \in {"platform_safety_unavailable", "cleanup_failed"} : Leaves(CheckFailure(Name, error))
    /\ UNCHANGED <<env, forced>>

EnterWorkspace ==
    /\ NeedsWorkspace /\ pc' = "launch"
    /\ current' = IF IsPytest
                  THEN [Observation(Name, <<>>, "none", FALSE, "none") EXCEPT
                          !.pytest = PytestPreflight, !.coverage = CoveragePreflight]
                  ELSE Observation(Name, <<>>, "none", FALSE, "none")
    /\ UNCHANGED <<invocation, plan, baseline, env, deps, checks, forced, report, exit, deviations>>

PytestUnavailable ==
    /\ pc = "launch" /\ IsPytest /\ Owner.status # "available"
    /\ Leaves([current EXCEPT !.error = Owner.error, !.coverage = InvalidCoverage])
    /\ UNCHANGED <<env, forced, deviations>>

Launches == pc = "launch" /\ Owner.status = "available"

\* The reporter plugin or Coverage.py could not be staged.
StagingFails ==
    /\ Launches /\ IsPytest /\ Departs
    /\ Leaves([current EXCEPT !.error = "pytest_evidence_error", !.coverage = InvalidCoverage,
                              !.pytest = PytestObservation("not_started", "none", "missing", NoSession)])
    /\ UNCHANGED <<env, forced>>

MarkerUnprepared ==
    /\ Launches /\ Departs
    /\ Leaves([current EXCEPT !.error = "check_start_evidence_invalid"])
    /\ UNCHANGED <<env, forced>>

\* ControllerHelperIdentityError leaves the workspace, and its observation, behind.
LaunchLosesUv ==
    /\ Launches /\ Departs /\ GiveUpFrom(Index, checks) /\ pc' = "verify" /\ current' = Idle
    /\ env' = [env EXCEPT !.error = "unsafe_repository_environment"]
    /\ UNCHANGED <<invocation, plan, baseline, deps, forced, report, exit>>

StartModule == IF Instrumented THEN "coverage" ELSE DependencyNameForCheck(Name)

\* _classify_primary_error and its counterpart in _run_prepared_primary.
PrimaryError(process, started, findings) ==
    CASE process.outcome = "spawn_failed" -> "spawn_failed"
      [] process.outcome # "spawn_failed" /\ ~started -> "check_start_evidence_invalid"
      [] process.outcome = "signaled" /\ started -> "terminated_by_signal"
      [] process.outcome = "exited" /\ started ->
           IF process.code \in findings THEN "none" ELSE "check_execution_failed"

PrimaryEnds(codes) ==
    {NotSpawned("primary"), Signaled("primary")} \cup {Exited("primary", code) : code \in codes}

\* execute_invocation.
RunOrdinary ==
    /\ Launches /\ ~IsPytest
    /\ \E process \in PrimaryEnds({0, 1, 2}), started \in BOOLEAN :
          /\ process.outcome = "spawn_failed" => ~started
          /\ Usual(ZeroExit(process) /\ started)
          /\ Leaves([current EXCEPT
                       !.processes = <<process>>,
                       !.start = IF started THEN StartModule ELSE "none",
                       !.authority = /\ started /\ process.code \in {0, 1}
                                     /\ DependencyNameForCheck(Name) \in {"ruff", "ty"},
                       !.error = PrimaryError(process, started, {0, 1})])
    /\ UNCHANGED <<env, forced>>

\* What a session may come to, and the artifacts that are refused.
Sessions == {WholeSession, [WholeSession EXCEPT !.stopped = TRUE],
             [WholeSession EXCEPT !.accounted = FALSE], [WholeSession EXCEPT !.narrowed = TRUE],
             [WholeSession EXCEPT !.empty = TRUE],
             [WholeSession EXCEPT !.empty = TRUE, !.narrowed = TRUE]}
RefusedArtifacts == {"missing", "unreadable", "unfinished", "parallel", "retried", "other_exit"}
Artifacts == ({"valid"} \X Sessions) \cup (RefusedArtifacts \X {NoSession})

\* The exit codes after which Coverage.py's data are still converted.
Reserved(observation) == observation.start # "none" /\ Primary(observation).code \in {2, 3, 4}

CurrentPytest(observation) == BuildPytestResult(plan, observation, Owner.version)

\* execute_prepared_pytest up to the conversion of coverage data.
RunPytest ==
    /\ Launches /\ IsPytest
    /\ \E process \in PrimaryEnds({0, 1, 2, 5, 6}), started \in BOOLEAN, artifact \in Artifacts :
         LET observation ==
               [current EXCEPT
                  !.processes = <<process>>,
                  !.start = IF started THEN StartModule ELSE "none",
                  !.error = PrimaryError(process, started, {0, 1, 5}),
                  !.pytest.artifact = artifact[1], !.pytest.session = artifact[2]]
             untrusted == observation.error # "none" /\ ~Reserved(observation)
             parallel == CurrentPytest(observation).error = "unsupported_parallelism"
         IN /\ process.outcome = "spawn_failed" => ~started
            /\ process.outcome # "exited" => artifact[1] = "missing"
            /\ Usual(ZeroExit(process) /\ started /\ artifact = <<"valid", WholeSession>>)
            /\ \/ ~Instrumented /\ Leaves(observation)
               \/ Instrumented /\ untrusted
                    /\ Leaves([observation EXCEPT !.coverage.artifact = "data_missing"])
               \/ Instrumented /\ ~untrusted /\ parallel
                    /\ Leaves([observation EXCEPT !.coverage.artifact = "unsupported_parallelism"])
               \/ /\ Instrumented /\ ~untrusted /\ ~parallel
                  /\ current' = observation /\ pc' = "coverage"
                  /\ UNCHANGED <<invocation, plan, baseline, deps, checks, report, exit>>
    /\ UNCHANGED <<env, forced>>

-----------------------------------------------------------------------------
(* Coverage: _generate_coverage_json *)

ConversionLosesUv ==
    /\ pc = "coverage" /\ Departs
    /\ Leaves([current EXCEPT !.coverage.artifact = "generation_failed"])
    /\ env' = [env EXCEPT !.error = "unsafe_repository_environment"] /\ UNCHANGED forced

\* The data cannot be trusted, or what was staged to read them changed.
DataRejected ==
    /\ pc = "coverage" /\ Departs
    /\ \E artifact \in {"data_missing", "unexpected_parallel_data", "generation_failed"} :
          Leaves([current EXCEPT !.coverage.artifact = artifact])
    /\ UNCHANGED <<env, forced>>

\* The threshold that Coverage.py is left to judge.
(* Mutant: any session that passed is eligible.                         *)
EligibleIfPassed == plan.mode = "strict_aggregate" /\ CurrentPytest(current).exitCode = 0
Eligible == GateEligible(plan, CurrentPytest(current), TRUE)
RetainsThreshold ==
    /\ ~Reserved(current) /\ Eligible
    /\ SkippedReason(plan, CurrentPytest(current), TRUE, plan.configured) = "none"

\* sound: what the process was given is unchanged when it has ended.
ConvertedArtifact(process, sound, document) ==
    CASE process.outcome = "spawn_failed" -> "spawn_failed"
      [] process.outcome = "signaled" -> "terminated_by_signal"
      [] process.outcome = "exited" /\ ~sound -> "unexpected_parallel_data"
      [] process.outcome = "exited" /\ sound ->
           IF process.code = 0 \/ (process.code = 2 /\ RetainsThreshold)
           THEN document ELSE "generation_failed"

Convert ==
    /\ pc = "coverage" /\ forced' = (~Eligible \/ Reserved(current))
    /\ \E process \in {NotSpawned("coverage_json"), Signaled("coverage_json")}
                        \cup {Exited("coverage_json", code) : code \in {0, 1, 2}},
          sound, wellFormed \in BOOLEAN, document \in {"snapshot", "artifact_missing", "artifact_invalid"} :
          /\ process.outcome # "exited" \/ document # "snapshot" => wellFormed
          /\ Usual(ZeroExit(process) /\ sound /\ wellFormed /\ document = "snapshot")
          /\ Leaves([current EXCEPT
                       !.processes = Append(@, process),
                       !.coverage.artifact = ConvertedArtifact(process, sound, document),
                       !.coverage.jsonExit = process.code, !.coverage.wellFormed = wellFormed])
    /\ UNCHANGED env

-----------------------------------------------------------------------------
(* The cleanup of a Check, the verification and the report *)

\* The Check joins those that ended; without uv the others are given up.
Joins(observation) ==
    IF env.error # "none"
    THEN /\ GiveUpFrom(Index + 1, Append(checks, observation)) /\ pc' = "verify"
         /\ UNCHANGED <<invocation, plan, baseline, env, deps, forced, report, exit>>
    ELSE Ends(observation)

CloseWorkspace ==
    /\ pc = "close" /\ Joins(current) /\ current' = Idle /\ UNCHANGED deviations

CloseFails ==
    /\ pc = "close" /\ Departs /\ current' = Idle
    /\ Joins([current EXCEPT !.error = "cleanup_failed"])

\* What the verification finds: its process, its protection and its error.
Verifications ==
    LET git(process, protection, error) == [processes |-> <<process>>, protection |-> protection, error |-> error]
        plain(protection, error) == [processes |-> <<>>, protection |-> protection, error |-> error]
    IN IF baseline = "git"
       THEN {git(Safety(0), "tracked_files", "none"),
             git(Safety(0), "tracked_files", "repository_state_changed"),
             plain("unobserved", "repository_state_changed")}
              \cup {git(process, "unobserved", "repository_state_changed") :
                      process \in {Safety(0), Safety(1), NotSpawned("repository_safety")}}
       ELSE {plain("protected_files", "none"), plain("protected_files", "repository_state_changed"),
             plain("unobserved", "repository_state_changed")}

(* Mutant: what is found last is all that is reported.                  *)
LastError(found, helperLost) ==
    IF helperLost THEN "unsafe_repository_environment" ELSE found.error

\* The finally block of execute_repository_plan: a lost helper outranks a
\* changed repository, which outranks what was found before.
FinalError(found, helperLost) ==
    CASE helperLost -> "unsafe_repository_environment"
      [] ~helperLost /\ found.error # "none" -> found.error
      [] OTHER -> env.error

Verify ==
    /\ pc = "verify" /\ pc' = "report"
    /\ \E found \in Verifications, helperLost \in BOOLEAN :
          /\ deviations' = deviations + (IF found.error = "none" THEN 0 ELSE 1)
                                      + (IF helperLost THEN 1 ELSE 0)
          /\ deviations' <= DeviationBound
          /\ env' = [env EXCEPT
                       !.processes = @ \o found.processes, !.protection = found.protection,
                       !.error = FinalError(found, helperLost)]
    /\ UNCHANGED <<invocation, plan, baseline, deps, checks, current, forced, report, exit>>

Built == BuildRunReport(plan, env, deps, checks)

\* main: a report that its own validation refuses is not shown.
Report ==
    /\ pc = "report" /\ pc' = "done"
    /\ report' = IF ValidReport(Built) THEN "shown" ELSE "refused"
    /\ exit' = IF ValidReport(Built) THEN SelectExitCode(Built) ELSE 2
    /\ UNCHANGED <<invocation, plan, baseline, env, deps, checks, current, forced, deviations>>

Next ==
    \/ Refuse \/ Plan
    \/ LockPresent \/ LockRejected \/ CaptureBaseline \/ BaselineFails
    \/ UvRejected \/ RunUvVersion \/ UvChangesBeforeProbe \/ RunProbe
    \/ ProbeDependency \/ ProbingLosesUv
    \/ DependencyUnavailable \/ CreateFails \/ SetupFails \/ EnterWorkspace
    \/ PytestUnavailable \/ StagingFails \/ MarkerUnprepared \/ LaunchLosesUv
    \/ RunOrdinary \/ RunPytest
    \/ ConversionLosesUv \/ DataRejected \/ Convert
    \/ CloseWorkspace \/ CloseFails \/ Verify \/ Report

Spec == Init /\ [][Next]_vars

-----------------------------------------------------------------------------
(* Where the rules of the report disagree with what a run may observe *)

PytestObserved(Test(_)) == \E i \in DOMAIN checks : checks[i].name = "pytest" /\ Test(checks[i])
PytestOwner == DependencyOf(deps, "pytest")
Cut(process) == process.output # "complete"

\* A diagnostic on standard error was cut, where the code reads standard output only.
CutDiagnostics ==
    \/ env.manager /\ Cut(UvVersion(env))
    \/ Observed(env) /\ Cut(Probe(env))
    \/ \E i \in DOMAIN deps : deps[i].status # "unobserved" /\ Cut(deps[i].process)

\* No uv was found, so that none was run.
NoUvToRun == env.error = "uv_unavailable" /\ UvVersion(env) = NoProcess

\* A helper was lost when commands had run without a usable environment.
LostHalfway ==
    /\ env.error = "unsafe_repository_environment"
    /\ UvOnly(env) \/ (UvAndProbe(env) /\ env.python # "supported")

\* The verification's error took the place of the one that ended the Checks.
ReasonReplaced ==
    env.error = "repository_state_changed" /\ \E i \in DOMAIN checks : GivenUp(checks[i])

\* pytest exits with 2, 3 or 4 under coverage, and its Check has another error.
ReservedExitHidden ==
    PytestObserved(LAMBDA check :
        /\ CoverageRequested(plan) /\ CoverageOwner.status = "available"
        /\ Primary(check).code \in {2, 3, 4} /\ check.error # "check_execution_failed")

\* Data were converted although the session is no complete evidence.
ConvertedTooMuch ==
    PytestObserved(LAMBDA check :
        /\ Len(check.processes) = 2 /\ Primary(check).code \notin {2, 3, 4}
        /\ ~Built.pytest.complete /\ Built.pytest.error # "session_incomplete")

\* What Coverage.py is run from changed before the conversion.
UnstagedCoverage ==
    /\ PytestObserved(LAMBDA check :
          check.coverage # NoCoverage /\ check.coverage.artifact = "generation_failed"
          /\ Len(check.processes) = 1)
    /\ ~UnsafeAfterPreparation(env)

\* The version of an unsupported dependency is no three numbers.
OddVersion ==
    \/ /\ PytestObserved(LAMBDA check : check.pytest # NoPytest)
       /\ PytestOwner.status = "incompatible" /\ PytestOwner.version # "three_numbers"
    \/ /\ PytestObserved(LAMBDA check :
             check.processes = <<>> /\ check.pytest.classification = "supported")
       /\ CoverageRequested(plan) /\ CoverageOwner.status = "incompatible"
       /\ CoverageOwner.version = "prerelease"

\* pytest's workspace failed, and a helper was lost as well.
SetupAndHelperLost ==
    /\ env.error = "unsafe_repository_environment"
    /\ PytestObserved(LAMBDA check : check.pytest = NoPytest /\ ~GivenUp(check))
    /\ PytestOwner.status \notin {"shadowed", "unusable", "unobserved"}

Disagreement ==
    \/ CutDiagnostics \/ NoUvToRun \/ LostHalfway \/ ReasonReplaced \/ ReservedExitHidden
    \/ ConvertedTooMuch \/ UnstagedCoverage \/ OddVersion \/ SetupAndHelperLost

-----------------------------------------------------------------------------
(* Properties *)

BaselineProtection == CASE baseline = "none" -> "unobserved" [] baseline = "git" -> "tracked_files"
                        [] baseline = "plain" -> "protected_files"

\* The shape of what the controller has observed so far.
TypeOK ==
    /\ pc \in {"plan", "planned", "baseline", "uv", "probe", "dependencies", "check", "launch",
               "coverage", "close", "verify", "report", "done"}
    /\ invocation = Forgotten \/ (invocation.request \in Request /\ invocation.config \in ProjectConfig)
    /\ plan = NoPlan \/ Range(plan.checks) \subseteq CheckName
    /\ baseline \in {"none", "git", "plain"} /\ forced \in BOOLEAN
    /\ env.protection \in {"unobserved", BaselineProtection}
    /\ pc \notin {"plan", "planned", "done"} =>
         [i \in DOMAIN deps |-> deps[i].name] = SubSeq(RequiredDependencies(plan), 1, Len(deps))
    /\ [i \in DOMAIN checks |-> checks[i].name] = SubSeq(plan.checks, 1, Len(checks))
    /\ (pc = "done") <=> (exit # NoCode)
    /\ (pc = "done") <=> (report # "none")
    /\ deviations \in 0 .. DeviationBound

\* plan_run: the plan does what was asked for and nothing else.  Without
\* --all the Checks that are named are planned and no other; with --all they
\* are the five of CheckOrder, whatever is named besides; the one that
\* rewrites files is planned for a request that names it and nothing else;
\* coverage that was asked for is measured by a pytest that is planned, and
\* the strict run is everything.
PlanAnswersRequest ==
    pc = "planned" =>
        LET asked == invocation.request
            planned == Range(plan.checks)
        IN /\ asked.all => plan.checks = CheckOrder
           /\ ~asked.all /\ asked.requested # {} => planned = asked.requested
           /\ "annotations-fix" \in planned =>
                planned = {"annotations-fix"} /\ asked.requested = {"annotations-fix"} /\ ~asked.all
           /\ Cardinality(planned) = Len(plan.checks)
           /\ asked.coverage => CoverageRequested(plan)
           /\ CoverageRequested(plan) => "pytest" \in planned /\ invocation.config.coverage # "none"
           /\ plan.mode = "strict_aggregate" => plan.checks = CheckOrder /\ ~plan.targets
           /\ plan.testScope = "complete" => ~plan.targets /\ ~plan.shortcut

\* README.md:116 of the repository: annotations-fix "must be explicitly
\* authorized and selected alone"; the planner's own hint is to run it
\* "without --all or another check name".  A request that names it is refused
\* or plans it alone.  plan_run looks for it among the Checks that are
\* selected, and --all selects five Checks without it: the fix that is named
\* is dropped without a word.
FixIsSelectedAlone ==
    pc = "planned" /\ "annotations-fix" \in invocation.request.requested =>
        plan.checks = <<"annotations-fix">>

\* README.md:149 of the repository: --format json "emits exactly one schema
\* version 2 document": an invocation that ends has emitted the report of
\* its run, or of the planning error.  If validate_run_report refuses the
\* report main emits none, a line on standard error apart.
OneDocumentIsEmitted == pc = "done" => report \in {"shown", "planning_error"}

\* How far OneDocumentIsEmitted holds.  The run that refutes it finds one
\* counterexample; this is the extent of all of them: a planned run that
\* ends emits its document unless one of nine circumstances is observed in
\* which the rules of reporting.py disagree with the code that makes the
\* observations, and in each of these it always emits none.
RefusalIsExplained ==
    report \in {"shown", "refused"} => ((report = "refused") <=> Disagreement)

EvidenceIsWhole ==
    /\ report = "shown" /\ baseline # "none"
    /\ env.error = "none" /\ env.lock = "current" /\ env.python = "supported"
    /\ env.protection = BaselineProtection
    /\ \A i \in DOMAIN deps : deps[i].status = "available" /\ Successful(deps[i].process)
    /\ DOMAIN checks = DOMAIN plan.checks
    /\ \A i \in DOMAIN checks :
          LET check == checks[i]
          IN /\ check.name = plan.checks[i] /\ check.error = "none" /\ check.start # "none"
             /\ check.name = "pytest" =>
                  LET session == check.pytest.session
                  IN check.pytest.artifact = "valid" /\ session.accounted /\ ~session.stopped
             /\ check.coverage # NoCoverage =>
                  /\ check.coverage.artifact = "snapshot" /\ check.coverage.wellFormed
                  /\ Last(check.processes).role = "coverage_json"

\* Exit code 0 or 1 (select_exit_code) is only given on whole evidence: the
\* environment and the unchanged repository were verified, every Check was
\* seen to start and ended with a code for findings, the pytest session is
\* accounted for and the coverage data were read; and it is 1 exactly if
\* there is a finding.
VerdictNeedsEvidence ==
    exit \in {0, 1} =>
        /\ EvidenceIsWhole
        /\ (exit = 1) <=> \E i \in DOMAIN checks : \E k \in DOMAIN checks[i].processes :
                              checks[i].processes[k].code # 0

\* The threshold that Coverage.py was told (fail_under of the JSON command,
\* set to 0 unless the interim pytest result is eligible) is the one that the
\* final report says was evaluated, and it is evaluated for whole passing
\* sessions of a strict run only.
ThresholdIsTheOneApplied ==
    report = "shown" /\ CoverageRequested(plan) =>
        LET coverage == Built.coverage
            check == checks[Len(checks)]
            session == check.pytest.session
        IN /\ Evaluated(coverage) =>
                /\ ~forced /\ plan.configured /\ plan.mode = "strict_aggregate"
                /\ session.accounted /\ ~session.stopped /\ ~session.narrowed
                /\ Head(check.processes).code = 0
                /\ (coverage.passed = "no") <=> (Last(check.processes).code = 2)
           /\ coverage.status # "error" /\ plan.configured /\ ~forced => Evaluated(coverage)

\* What was observed is not taken back: an error of the environment is at
\* most replaced by one found later, never forgotten, and the observations
\* of processes, dependencies and Checks are only added to.
NothingIsForgotten ==
    [][/\ env.error # "none" => env'.error # "none"
       /\ IsPrefix(env.processes, env'.processes)
       /\ IsPrefix(deps, deps') /\ IsPrefix(checks, checks')]_vars
=============================================================================
