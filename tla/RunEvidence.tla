---------------------------- MODULE RunEvidence -----------------------------
(***************************************************************************)
(* The vocabulary of the evidence of a run: processes, the observation of  *)
(* the Repository Environment, dependencies, and what the controller reads *)
(* out of the processes it ran (repository_environment.py).  A process     *)
(* keeps its outcome, its exit code and whether its output was cut.        *)
(***************************************************************************)
EXTENDS Integers, Sequences, SequencesExt, Planning

NoCode == -1        \* a process that was not spawned, or ended by a signal

Process(role, outcome, code, output) ==
    [role |-> role, outcome |-> outcome, code |-> code, output |-> output]
NoProcess == Process("none", "none", NoCode, "complete")
Exited(role, code) == Process(role, "exited", code, "complete")
NotSpawned(role) == Process(role, "spawn_failed", NoCode, "complete")
Signaled(role) == Process(role, "signaled", NoCode, "complete")

\* _successful_process, _zero_exit_process and _failed_process.
ZeroExit(p) == p.outcome = "exited" /\ p.code = 0
Successful(p) == ZeroExit(p) /\ p.output = "complete"
FailedProcess(p) == \/ p.outcome \in {"spawn_failed", "signaled"}
                    \/ p.outcome = "exited" /\ p.code # 0

\* The parsers of the controller read standard output only.
CompleteStdout(p) == p.output # "stdout_cut"

\* _report_process_role: the four git commands have one public role.
Safety(code) == Exited("repository_safety", code)

-----------------------------------------------------------------------------
(* Dependencies *)

DependencyNameForCheck(check) ==
    CASE check \in {"ruff", "annotations", "annotations-fix"} -> "ruff"
      [] OTHER -> check

\* In first-required order, Coverage.py last.
RequiredDependencies(plan) ==
    LET names == [i \in 1 .. Len(plan.checks) |-> DependencyNameForCheck(plan.checks[i])]
        new == {i \in 1 .. Len(names) : \A j \in 1 .. i - 1 : names[j] # names[i]}
    IN Picked(names, new) \o (IF CoverageRequested(plan) THEN <<"coverage">> ELSE <<>>)

\* A version is supported, or out of the range: with three numbers, with
\* fewer or more parts, or with a part that is no number (9.0.0rc1).
OutOfRange == {"three_numbers", "other_length", "prerelease"}
VersionSupported(version) == version = "supported"

\* _dependency_numeric_version, joined again by dots: padded or cut to three.
NumericVersion(version) ==
    CASE version = "other_length" -> "padded"
      [] version = "prerelease" -> "none"
      [] OTHER -> version

Dependency(name, status, version, process, error) ==
    [name |-> name, status |-> status, version |-> version, process |-> process, error |-> error]

Unattempted(name) == Dependency(name, "unobserved", "none", NoProcess, "none")
UnobservedDependency(name, process) ==
    Dependency(name, "unobserved", "none", process, "check_dependency_unusable")

(* Mutant: the exit code of a dependency probe is not looked at.        *)
ClaimedDependency(name, process, claim, version) ==
    IF ~CompleteStdout(process) \/ claim = "malformed" THEN UnobservedDependency(name, process)
    ELSE Dependency(name, claim, version, process,
                    IF claim = "available" THEN "none" ELSE "check_dependency_unusable")

\* _dependency_observation, for a probe that claims a status and a version.
DependencyObservation(name, process, claim, version) ==
    IF ~ZeroExit(process) \/ ~CompleteStdout(process) \/ claim = "malformed"
    THEN UnobservedDependency(name, process)
    ELSE IF claim = "available" /\ VersionSupported(version)
    THEN Dependency(name, "available", version, process, "none")
    ELSE IF claim = "available"
    THEN Dependency(name, "incompatible", version, process, "check_dependency_incompatible")
    ELSE Dependency(name, claim, version, process,
                    CASE claim = "missing" -> "check_dependency_missing"
                      [] claim = "shadowed" -> "check_dependency_shadowed"
                      [] claim = "unusable" -> "check_dependency_unusable")

-----------------------------------------------------------------------------
(* The Repository Environment *)

\* python: the interpreter of the environment, observed together with its path.
Environment(error, lock, manager, python, processes) ==
    [error |-> error, lock |-> lock, manager |-> manager, python |-> python,
     protection |-> "unobserved", processes |-> processes]

\* _failed_preparation before anything of the environment was observed.
FailedPreparation(error, manager, processes) ==
    Environment(error, "unverified", manager, "none", processes)

\* _parse_uv_version: the error of a uv --version.
UvVersionError(process, wellFormed) ==
    IF ~ZeroExit(process) THEN "uv_unavailable"
    ELSE IF ~CompleteStdout(process) \/ ~wellFormed THEN "environment_evidence_invalid"
    ELSE "none"

\* What a well-formed environment probe may show, in the order in which
\* _validate_environment_probe looks at it.
ProbeFinding == {"sound", "unsupported_python", "contradicts_request", "nested_root",
                 "foreign_root", "unsafe_venv", "foreign_executable"}

ProbeError(finding) ==
    CASE finding = "sound" -> "none"
      [] finding = "unsupported_python" -> "repository_python_unsupported"
      [] finding \in {"contradicts_request", "nested_root", "foreign_executable"} ->
           "environment_evidence_invalid"
      [] finding \in {"foreign_root", "unsafe_venv"} -> "unsafe_repository_environment"

\* prepare_repository_environment from the end of the probe on.
ProbedEnvironment(process, finding, processes) ==
    IF ~ZeroExit(process)
    THEN FailedPreparation("repository_environment_failed", TRUE, processes)
    ELSE IF ~CompleteStdout(process) \/ finding = "malformed"
    THEN FailedPreparation("environment_evidence_invalid", TRUE, processes)
    ELSE Environment(ProbeError(finding), "current", TRUE,
                     IF finding = "unsupported_python" THEN "unsupported" ELSE "supported",
                     processes)
=============================================================================
