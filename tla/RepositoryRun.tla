---------------------------- MODULE RepositoryRun ----------------------------
(***************************************************************************)
(* repository_executor.py: execute_repository_plan.  One run resolves the  *)
(* controller's helpers (uv and git), captures a baseline of the           *)
(* repository, prepares the Repository Environment, probes the             *)
(* dependencies, runs each planned Check in a private workspace and, in a  *)
(* finally block, verifies the repository against the baseline.            *)
(*                                                                         *)
(* Concurrently anyone may replace a helper or put it back, and change or  *)
(* restore a part of the repository: the Checks themselves, or a user.     *)
(***************************************************************************)
EXTENDS Integers, Sequences, FiniteSets

CONSTANTS
  Plans,            \* set of [checks : Seq(CheckName), coverage : BOOLEAN], see plan_run
  DisturbanceBound  \* bound: helpers replaced or restored, parts changed or restored

CheckName == {"ruff", "annotations", "ty", "bandit", "pytest", "annotations-fix"}

(* No Check is planned twice, annotations-fix is planned alone, and        *)
(* coverage is part of a pytest Check.                                     *)
ASSUME DisturbanceAssumption == DisturbanceBound \in Nat

ASSUME PlansAssumption ==
  \A p \in Plans :
    /\ p.checks \in Seq(CheckName)
    /\ p.checks # << >>
    /\ \A i, j \in 1 .. Len(p.checks) : p.checks[i] = p.checks[j] => i = j
    /\ (\E i \in 1 .. Len(p.checks) : p.checks[i] = "annotations-fix") => Len(p.checks) = 1
    /\ p.coverage \in BOOLEAN
    /\ p.coverage => \E i \in 1 .. Len(p.checks) : p.checks[i] = "pytest"

Helper == {"uv", "git"}

(* What the baseline records separately: pyproject.toml and uv.lock, the   *)
(* tracked files annotations-fix may rewrite, and everything else tracked. *)
Part == {"protected", "target", "elsewhere"}

VARIABLES
  plan,        \* the RunPlan
  worktree,    \* is the project inside a Git worktree?
  resolved,    \* helpers that resolve_controller_tools found and pinned
  intact,      \* pinned helpers that still have their identity
  captured,    \* parts of the repository read into the baseline
  differs,     \* captured parts that now differ from the baseline
  pc,          \* the controller's position
  baseline,    \* is there a RepositoryStateSnapshot?
  prepared,    \* is there a PreparedRepositoryEnvironment?
  dependency,  \* what was observed of each probed dependency
  index,       \* the Check at hand
  verified,    \* is the workspace's descriptor open?
  workspace,   \* does the run directory of the Check at hand exist?
  observation, \* what is known of the Check at hand
  diagnostics, \* did setting up, closing or removing its workspace fail?
  unwinding,   \* the exception on its way out: "none", "identity" or "other"
  checks,      \* the observations of the result
  repoError,   \* repository_observation.error
  protection,  \* mutation_protection
  seen,        \* parts the verification found changed
  \* history, for the properties only
  spawned,     \* Checks whose primary process was started
  inner,       \* Checks whose inner process ran past its start marker
  retained,    \* Checks whose run directory could not be removed
  disturbances,\* what the rest of the world did so far, within its bound
  standing     \* parts that have differed ever since the verification began

repoVars == <<worktree, resolved, intact, captured, differs, standing,
              disturbances>>
setupVars == <<plan, baseline, prepared, dependency>>
checkVars == <<verified, workspace, observation, diagnostics, unwinding>>
resultVars == <<index, checks, repoError, protection, seen>>
historyVars == <<spawned, inner, retained>>
vars == <<pc, repoVars, setupVars, checkVars, resultVars, historyVars>>

DependencyName == {"ruff", "ty", "bandit", "pytest", "coverage"}
DependencyOf(c) ==
  CASE c \in {"ruff", "annotations", "annotations-fix"} -> "ruff"
    [] OTHER -> c

(* required_dependencies: no dependency is probed twice.                   *)
Required ==
  {DependencyOf(plan.checks[i]) : i \in 1 .. Len(plan.checks)}
    \cup (IF plan.coverage THEN {"coverage"} ELSE {})

Name(i) == plan.checks[i]
Last == Len(plan.checks)

CheckError ==
  {"none", "dependency", "repository_environment_unavailable", "platform_safety_unavailable",
   "cleanup_failed", "check_start_evidence_invalid", "pytest_evidence_error", "spawn_failed",
   "terminated_by_signal", "check_execution_failed"}

Observation ==
  [name : CheckName, environment : {"none", "repository"}, processes : 0 .. 2,
   error : CheckError, environmentError : BOOLEAN]

NoObservation == [name |-> "none"]

(* _check_failure: an observation without process or environment.          *)
CheckFailure(c, e) ==
  [name |-> c, environment |-> "none", processes |-> 0, error |-> e,
   environmentError |-> FALSE]

Unavailable(i) == CheckFailure(Name(i), "repository_environment_unavailable")

TypeOK ==
  /\ plan \in Plans
  /\ worktree \in BOOLEAN
  /\ resolved \in SUBSET Helper
  /\ intact \in SUBSET resolved
  /\ captured \in SUBSET Part
  /\ differs \in SUBSET captured
  /\ pc \in {"lock", "protected", "tracked", "prepare", "probe", "unavailable",
             "dispatch", "create", "open", "stage", "launch", "running", "coverage",
             "close", "remove", "conclude", "verify", "verifyTarget", "verifyElsewhere",
             "compare", "final", "returned"}
  /\ baseline \in BOOLEAN
  /\ prepared \in BOOLEAN
  /\ dependency \in [DependencyName -> {"none", "available", "unusable", "unattempted"}]
  /\ index \in 1 .. Last + 1
  /\ verified \in BOOLEAN
  /\ workspace \in BOOLEAN
  /\ observation \in Observation \cup {NoObservation}
  /\ diagnostics \in BOOLEAN
  /\ unwinding \in {"none", "identity", "other"}
  /\ checks \in Seq(Observation)
  /\ repoError \in {"none", "environment", "changed", "helper"}
  /\ protection \in {"unobserved", "protected_files", "tracked_files"}
  /\ seen \in SUBSET Part
  /\ spawned \in SUBSET (1 .. Last)
  /\ inner \in SUBSET spawned
  /\ retained \in SUBSET (1 .. Last)
  /\ disturbances \in Nat
  /\ standing \in SUBSET differs

Init ==
  /\ plan \in Plans
  /\ worktree \in BOOLEAN
  /\ resolved \in SUBSET Helper
  /\ intact = resolved
  /\ captured = {}
  /\ differs = {}
  /\ pc = "lock"
  /\ baseline = FALSE
  /\ prepared = FALSE
  /\ dependency = [d \in DependencyName |-> "none"]
  /\ index = 1
  /\ verified = FALSE
  /\ workspace = FALSE
  /\ observation = NoObservation
  /\ diagnostics = FALSE
  /\ unwinding = "none"
  /\ checks = << >>
  /\ repoError = "none"
  /\ protection = "unobserved"
  /\ seen = {}
  /\ spawned = {}
  /\ inner = {}
  /\ retained = {}
  /\ disturbances = 0
  /\ standing = {}

-----------------------------------------------------------------------------
(* The rest of the world.                                                  *)

Disturb ==
  /\ pc # "returned"
  /\ disturbances < DisturbanceBound
  /\ disturbances' = disturbances + 1

HelperReplaced(h) ==
  /\ Disturb
  /\ h \in intact
  /\ intact' = intact \ {h}
  /\ UNCHANGED <<pc, worktree, resolved, captured, differs, standing, setupVars, checkVars,
                 resultVars, historyVars>>

HelperRestored(h) ==
  /\ Disturb
  /\ h \in resolved \ intact
  /\ intact' = intact \cup {h}
  /\ UNCHANGED <<pc, worktree, resolved, captured, differs, standing, setupVars, checkVars,
                 resultVars, historyVars>>

Mutate(p) ==
  /\ Disturb
  /\ p \in captured \ differs
  /\ differs' = differs \cup {p}
  /\ UNCHANGED <<pc, worktree, resolved, intact, captured, standing, setupVars, checkVars,
                 resultVars, historyVars>>

Restore(p) ==
  /\ Disturb
  /\ p \in differs
  /\ differs' = differs \ {p}
  /\ standing' = standing \ {p}
  /\ UNCHANGED <<pc, worktree, resolved, intact, captured, setupVars, checkVars, resultVars,
                 historyVars>>

-----------------------------------------------------------------------------
(* prepare_safe_repository.                                                *)

(* Nothing is prepared: no Check is run.                                   *)
GiveUpPreparation ==
  /\ repoError' = "environment"
  /\ pc' = "unavailable"

(* The finally block, which does nothing without a baseline.               *)
EnterFinally == pc' = IF baseline THEN "verify" ELSE "final"

LockPresent ==
  /\ pc = "lock"
  /\ pc' = "protected"
  /\ UNCHANGED <<repoVars, setupVars, checkVars, resultVars, historyVars>>

(* uv.lock is missing or unsafe: no baseline is captured.                  *)
LockAbsent ==
  /\ pc = "lock"
  /\ GiveUpPreparation
  /\ UNCHANGED <<repoVars, setupVars, checkVars, index, checks, protection, seen, historyVars>>

(* capture_repository_baseline reads the protected files first.            *)
CaptureProtected ==
  /\ pc = "protected"
  /\ captured' = {"protected"}
  /\ pc' = "tracked"
  /\ UNCHANGED <<worktree, resolved, intact, differs, standing, disturbances, setupVars,
                 checkVars, resultVars, historyVars>>

(* In a worktree Git lists the tracked files, which are then read.         *)
CaptureTracked ==
  /\ pc = "tracked"
  /\ worktree => "git" \in intact
  /\ captured' = IF worktree THEN Part ELSE captured
  /\ baseline' = TRUE
  /\ pc' = "prepare"
  /\ UNCHANGED <<worktree, resolved, intact, differs, standing, disturbances, plan,
                 prepared, dependency, checkVars, resultVars, historyVars>>

BaselineFails ==
  /\ pc \in {"protected", "tracked"}
  /\ GiveUpPreparation
  /\ UNCHANGED <<repoVars, setupVars, checkVars, index, checks, protection, seen, historyVars>>

(* prepare_repository_environment runs uv twice.                           *)
Prepare ==
  /\ pc = "prepare"
  /\ "uv" \in intact
  /\ prepared' = TRUE
  /\ pc' = "probe"
  /\ UNCHANGED <<repoVars, plan, baseline, dependency, checkVars, resultVars, historyVars>>

PreparationFails ==
  /\ pc = "prepare"
  /\ GiveUpPreparation
  /\ UNCHANGED <<repoVars, setupVars, checkVars, index, checks, protection, seen, historyVars>>

Unprobed == {d \in Required : dependency[d] = "none"}

(* probe_repository_dependencies goes through all of them whatever it      *)
(* finds, as long as uv keeps its identity.                                *)
ProbeDependency(d) ==
  /\ pc = "probe"
  /\ d \in Unprobed
  /\ "uv" \in intact
  /\ \E status \in {"available", "unusable"} : dependency' = [dependency EXCEPT ![d] = status]
  /\ UNCHANGED <<pc, repoVars, plan, baseline, prepared, checkVars, resultVars, historyVars>>

(* helper_identity_lost: the environment is not used at all.               *)
ProbeLosesHelper ==
  /\ pc = "probe"
  /\ Unprobed # {}
  /\ "uv" \notin intact
  /\ dependency' = [d \in DependencyName |->
                      IF d \in Unprobed THEN "unattempted" ELSE dependency[d]]
  /\ prepared' = FALSE
  /\ GiveUpPreparation
  /\ UNCHANGED <<repoVars, plan, baseline, checkVars, index, checks, protection, seen,
                 historyVars>>

NothingPrepared ==
  /\ pc = "unavailable"
  /\ checks' = [i \in 1 .. Last |-> Unavailable(i)]
  /\ EnterFinally
  /\ UNCHANGED <<repoVars, setupVars, checkVars, index, repoError, protection, seen,
                 historyVars>>

Probed ==
  /\ pc = "probe"
  /\ Unprobed = {}
  /\ pc' = "dispatch"
  /\ UNCHANGED <<repoVars, setupVars, checkVars, resultVars, historyVars>>

-----------------------------------------------------------------------------
(* The loop over the planned Checks, and _execute_in_workspace.            *)

Available(c) == dependency[DependencyOf(c)] = "available"

(* Mutant: the first unusable dependency ends the loop.                    *)
DependencyEndsRun ==
  /\ pc = "dispatch"
  /\ index <= Last
  /\ Name(index) # "pytest" /\ ~Available(Name(index))
  /\ checks' = checks \o [k \in 1 .. Last - index + 1 |->
                            CheckFailure(Name(index + k - 1), "dependency")]
  /\ index' = Last + 1
  /\ UNCHANGED <<pc, repoVars, setupVars, checkVars, repoError, protection, seen, historyVars>>

(* An unusable dependency ends its Check before a workspace is created;    *)
(* pytest reports it from inside its own execution.                        *)
DependencyUnavailable ==
  /\ pc = "dispatch"
  /\ index <= Last
  /\ Name(index) # "pytest" /\ ~Available(Name(index))
  /\ checks' = Append(checks, CheckFailure(Name(index), "dependency"))
  /\ index' = index + 1
  /\ UNCHANGED <<pc, repoVars, setupVars, checkVars, repoError, protection, seen, historyVars>>

BeginCheck ==
  /\ pc = "dispatch"
  /\ index <= Last
  /\ Name(index) = "pytest" \/ Available(Name(index))
  /\ observation' = NoObservation
  /\ diagnostics' = FALSE
  /\ pc' = "create"
  /\ UNCHANGED <<repoVars, setupVars, verified, workspace, unwinding, resultVars, historyVars>>

ChecksDone ==
  /\ pc = "dispatch"
  /\ index > Last
  /\ EnterFinally
  /\ UNCHANGED <<repoVars, setupVars, checkVars, resultVars, historyVars>>

CreateWorkspace ==
  /\ pc = "create"
  /\ workspace' = TRUE
  /\ pc' = "open"
  /\ UNCHANGED <<repoVars, setupVars, verified, observation, diagnostics, unwinding,
                 resultVars, historyVars>>

(* Mutant: a workspace that cannot be created is tried again.              *)
CreateTriesAgain ==
  /\ pc = "create"
  /\ pc' = "dispatch"
  /\ UNCHANGED <<repoVars, setupVars, checkVars, resultVars, historyVars>>

CreateFails ==
  /\ pc = "create"
  /\ \E e \in {"platform_safety_unavailable", "cleanup_failed"} :
       checks' = Append(checks, CheckFailure(Name(index), e))
  /\ index' = index + 1
  /\ pc' = "dispatch"
  /\ UNCHANGED <<repoVars, setupVars, checkVars, repoError, protection, seen, historyVars>>

OpenWorkspace ==
  /\ pc = "open"
  /\ verified' = TRUE
  /\ pc' = "stage"
  /\ UNCHANGED <<repoVars, setupVars, workspace, observation, diagnostics, unwinding,
                 resultVars, historyVars>>

StageLauncher ==
  /\ pc = "stage"
  /\ pc' = "launch"
  /\ UNCHANGED <<repoVars, setupVars, checkVars, resultVars, historyVars>>

(* PlatformSafetyError is an observation, OSError is a diagnostic.         *)
SetupFails ==
  /\ pc \in {"open", "stage"}
  /\ \/ /\ observation' = CheckFailure(Name(index), "platform_safety_unavailable")
        /\ UNCHANGED diagnostics
     \/ diagnostics' = TRUE /\ UNCHANGED observation
  /\ pc' = "close"
  /\ UNCHANGED <<repoVars, setupVars, verified, workspace, unwinding, resultVars, historyVars>>

(* No process is started: pytest is not usable, or its reporter or the     *)
(* start evidence cannot be prepared.                                      *)
NotStarted ==
  /\ pc = "launch"
  /\ \/ /\ Name(index) = "pytest" /\ ~Available("pytest")
        /\ observation' = CheckFailure("pytest", "dependency")
     \/ /\ Name(index) = "pytest" /\ Available("pytest")
        /\ observation' = CheckFailure("pytest", "pytest_evidence_error")
     \/ /\ Available(Name(index))
        /\ observation' = CheckFailure(Name(index), "check_start_evidence_invalid")
  /\ pc' = "close"
  /\ UNCHANGED <<repoVars, setupVars, verified, workspace, diagnostics, unwinding, resultVars,
                 historyVars>>

(* Mutant: the lost helper is raised past the cleanup of the workspace.    *)
LaunchAborts ==
  /\ pc = "launch"
  /\ Available(Name(index))
  /\ "uv" \notin intact
  /\ unwinding' = "identity"
  /\ pc' = "conclude"
  /\ UNCHANGED <<repoVars, setupVars, verified, workspace, observation, diagnostics,
                 resultVars, historyVars>>

(* build_launcher_command finds that uv lost its identity.                 *)
LaunchLosesHelper ==
  /\ pc = "launch"
  /\ Available(Name(index))
  /\ "uv" \notin intact
  /\ unwinding' = "identity"
  /\ pc' = "close"
  /\ UNCHANGED <<repoVars, setupVars, verified, workspace, observation, diagnostics,
                 resultVars, historyVars>>

Launch ==
  /\ pc = "launch"
  /\ Available(Name(index))
  /\ "uv" \in intact
  /\ spawned' = spawned \cup {index}
  /\ pc' = "running"
  /\ UNCHANGED <<repoVars, setupVars, checkVars, resultVars, inner, retained>>

(* The inner process publishes its start marker and runs the Check; before *)
(* that, uv may fail with any exit status of its own.                      *)
InnerStarts ==
  /\ pc = "running"
  /\ index \notin inner
  /\ inner' = inner \cup {index}
  /\ UNCHANGED <<pc, repoVars, setupVars, checkVars, resultVars, spawned, retained>>

Findings == IF Name(index) = "pytest" THEN {0, 1, 5} ELSE {0, 1}

Classify(returncode) ==
  IF returncode < 0 THEN "terminated_by_signal"
  ELSE IF returncode \in Findings THEN "none" ELSE "check_execution_failed"

Instrumented == Name(index) = "pytest" /\ plan.coverage /\ Available("coverage")

(* A Check that did not go as pytest planned has no coverage data to       *)
(* convert, except after pytest's own exit statuses 2, 3 and 4.            *)
WantsCoverage(started, error, returncode) ==
  Instrumented /\ (error = "none" \/ (started /\ returncode \in 2 .. 4))

Observed(started, e) ==
  [name |-> Name(index), environment |-> IF started THEN "repository" ELSE "none",
   processes |-> 1, error |-> e, environmentError |-> FALSE]

(* Mutant: the start of a process that ended is not validated.             *)
StartAssumed == TRUE

(* validate_start_marker accepts only a marker of this very process.       *)
StartValidated == index \in inner

ProcessEnds ==
  /\ pc = "running"
  /\ \/ /\ observation' = Observed(FALSE, "spawn_failed")
        /\ pc' = "close"
     \/ /\ observation' = Observed(FALSE, "check_start_evidence_invalid")
        /\ pc' = "close"
     \/ /\ StartValidated
        /\ \E rc \in {-9, 0, 1, 2, 5} :
             /\ observation' = Observed(TRUE, Classify(rc))
             /\ pc' = IF WantsCoverage(TRUE, Classify(rc), rc) THEN "coverage" ELSE "close"
  /\ UNCHANGED <<repoVars, setupVars, verified, workspace, diagnostics, unwinding, resultVars,
                 historyVars>>

(* The user interrupts the run while it waits for a Check.                 *)
Interrupt ==
  /\ pc = "running"
  /\ unwinding' = "other"
  /\ pc' = "close"
  /\ UNCHANGED <<repoVars, setupVars, verified, workspace, observation, diagnostics,
                 resultVars, historyVars>>

(* Mutant: the conversion is tried until it succeeds.                      *)
CoverageJsonRetried ==
  /\ pc = "coverage"
  /\ "uv" \in intact
  /\ observation' = [observation EXCEPT !.processes = @ + 1]
  /\ pc' \in {"coverage", "close"}
  /\ UNCHANGED <<repoVars, setupVars, verified, workspace, diagnostics, unwinding, resultVars,
                 historyVars>>

(* The coverage data is converted to JSON by one more process, unless an   *)
(* unsupported execution or a failed preparation leaves nothing to do.     *)
CoverageJson ==
  /\ pc = "coverage"
  /\ \/ "uv" \in intact /\ observation' = [observation EXCEPT !.processes = 2]
     \/ UNCHANGED observation
  /\ pc' = "close"
  /\ UNCHANGED <<repoVars, setupVars, verified, workspace, diagnostics, unwinding, resultVars,
                 historyVars>>

CoverageLosesHelper ==
  /\ pc = "coverage"
  /\ "uv" \notin intact
  /\ observation' = [observation EXCEPT !.environmentError = TRUE]
  /\ pc' = "close"
  /\ UNCHANGED <<repoVars, setupVars, verified, workspace, diagnostics, unwinding, resultVars,
                 historyVars>>

(* finally: the descriptor is closed, ...                                  *)
CloseWorkspace ==
  /\ pc = "close"
  /\ verified' = FALSE
  /\ \/ UNCHANGED diagnostics
     \/ verified /\ diagnostics' = TRUE
  /\ pc' = "remove"
  /\ UNCHANGED <<repoVars, setupVars, workspace, observation, unwinding, resultVars,
                 historyVars>>

(* ... and the run directory removed, or retained with a diagnostic.       *)
RemoveWorkspace ==
  /\ pc = "remove"
  /\ \/ /\ workspace' = FALSE
        /\ UNCHANGED <<diagnostics, retained>>
     \/ /\ diagnostics' = TRUE
        /\ retained' = retained \cup {index}
        /\ UNCHANGED workspace
  /\ pc' = "conclude"
  /\ UNCHANGED <<repoVars, setupVars, verified, observation, unwinding, resultVars, spawned,
                 inner>>

(* Mutant: the first error of a Check hides the later ones.                *)
ConcludedFirstError ==
  IF observation = NoObservation THEN CheckFailure(Name(index), "cleanup_failed")
  ELSE IF diagnostics /\ observation.error = "none"
       THEN [observation EXCEPT !.error = "cleanup_failed"]
  ELSE observation

(* Diagnostics replace the error of the Check and keep its evidence.       *)
Concluded ==
  IF observation = NoObservation THEN CheckFailure(Name(index), "cleanup_failed")
  ELSE IF diagnostics THEN [observation EXCEPT !.error = "cleanup_failed"]
  ELSE observation

(* Mutant: the suffix of unavailable Checks is one too short.              *)
UnavailableAfter(i) == [k \in 1 .. Last - i |-> Unavailable(i + k)]

UnavailableFrom(i) == [k \in 1 .. Last - i + 1 |-> Unavailable(i + k - 1)]

ConcludeCheck ==
  /\ pc = "conclude"
  /\ unwinding = "none"
  /\ ~Concluded.environmentError
  /\ checks' = Append(checks, Concluded)
  /\ index' = index + 1
  /\ workspace' = FALSE
  /\ pc' = "dispatch"
  /\ UNCHANGED <<repoVars, setupVars, verified, observation, diagnostics, unwinding, repoError,
                 protection, seen, historyVars>>

(* Mutant: the Check that lost uv is reported unavailable with the rest.   *)
ConcludeDropsEvidence ==
  /\ pc = "conclude"
  /\ unwinding = "none"
  /\ Concluded.environmentError
  /\ checks' = checks \o UnavailableFrom(index)
  /\ repoError' = "environment"
  /\ EnterFinally
  /\ UNCHANGED <<repoVars, setupVars, checkVars, index, protection, seen, historyVars>>

(* pytest lost uv after its primary process: its own evidence is kept.     *)
ConcludeWithoutEnvironment ==
  /\ pc = "conclude"
  /\ unwinding = "none"
  /\ Concluded.environmentError
  /\ checks' = Append(checks, Concluded) \o UnavailableFrom(index + 1)
  /\ repoError' = "environment"
  /\ EnterFinally
  /\ UNCHANGED <<repoVars, setupVars, checkVars, index, protection, seen, historyVars>>

(* ControllerHelperIdentityError leaves _execute_in_workspace: this Check  *)
(* and the rest are unavailable.                                           *)
ConcludeIdentityLost ==
  /\ pc = "conclude"
  /\ unwinding = "identity"
  /\ checks' = checks \o UnavailableFrom(index)
  /\ repoError' = "environment"
  /\ EnterFinally
  /\ UNCHANGED <<repoVars, setupVars, checkVars, index, protection, seen, historyVars>>

(* Mutant: an exception skips the verification.                            *)
ConcludeUnverified ==
  /\ pc = "conclude"
  /\ unwinding = "other"
  /\ pc' = "final"
  /\ UNCHANGED <<repoVars, setupVars, checkVars, resultVars, historyVars>>

ConcludeRaised ==
  /\ pc = "conclude"
  /\ unwinding = "other"
  /\ EnterFinally
  /\ UNCHANGED <<repoVars, setupVars, checkVars, resultVars, historyVars>>

-----------------------------------------------------------------------------
(* verify_repository_state and the end of the run.                         *)

(* A change that was there when the verification began, and stays.         *)
VerifyProtected ==
  /\ pc = "verify"
  /\ standing' = differs
  /\ seen' = differs \cap {"protected"}
  /\ pc' = IF captured = Part THEN "verifyTarget" ELSE "compare"
  /\ UNCHANGED <<worktree, resolved, intact, captured, differs, disturbances, setupVars,
                 checkVars, index, checks, repoError, protection, historyVars>>

(* git ls-files, run with the pinned git, then the tracked files in turn.  *)
VerifyTarget ==
  /\ pc = "verifyTarget"
  /\ "git" \in intact
  /\ seen' = seen \cup (differs \cap {"target"})
  /\ pc' = "verifyElsewhere"
  /\ UNCHANGED <<repoVars, setupVars, checkVars, index, checks, repoError, protection,
                 historyVars>>

VerifyElsewhere ==
  /\ pc = "verifyElsewhere"
  /\ seen' = seen \cup (differs \cap {"elsewhere"})
  /\ pc' = "compare"
  /\ UNCHANGED <<repoVars, setupVars, checkVars, index, checks, repoError, protection,
                 historyVars>>

(* Mutant: the verification is skipped when it cannot be made.             *)
VerificationSkipped ==
  /\ pc \in {"verify", "verifyTarget", "verifyElsewhere"}
  /\ pc' = "final"
  /\ UNCHANGED <<repoVars, setupVars, checkVars, resultVars, historyVars>>

(* A file or the index cannot be read: nothing is known of the repository. *)
VerificationFails ==
  /\ pc \in {"verify", "verifyTarget", "verifyElsewhere"}
  /\ repoError' = "changed"
  /\ pc' = "final"
  /\ UNCHANGED <<repoVars, setupVars, checkVars, index, checks, protection, seen, historyVars>>

Allowed == IF \E i \in 1 .. Last : Name(i) = "annotations-fix" THEN {"target"} ELSE {}

(* Mutant: outside a worktree nothing is compared.                        *)
CompareWorktreeOnly ==
  /\ pc = "compare"
  /\ protection' = IF captured = Part THEN "tracked_files" ELSE "protected_files"
  /\ repoError' = IF captured # Part \/ seen \subseteq Allowed THEN repoError ELSE "changed"
  /\ pc' = "final"
  /\ UNCHANGED <<repoVars, setupVars, checkVars, index, checks, seen, historyVars>>

Compare ==
  /\ pc = "compare"
  /\ protection' = IF captured = Part THEN "tracked_files" ELSE "protected_files"
  /\ repoError' = IF seen \subseteq Allowed THEN repoError ELSE "changed"
  /\ pc' = "final"
  /\ UNCHANGED <<repoVars, setupVars, checkVars, index, checks, seen, historyVars>>

(* With a baseline both helpers are looked at once more; an error there    *)
(* goes first.                                                             *)
Finish ==
  /\ pc = "final"
  /\ repoError' = IF baseline /\ resolved # intact THEN "helper" ELSE repoError
  /\ pc' = "returned"
  /\ UNCHANGED <<repoVars, setupVars, checkVars, index, checks, protection, seen, historyVars>>

-----------------------------------------------------------------------------
World ==
  \/ \E h \in Helper : HelperReplaced(h) \/ HelperRestored(h)
  \/ \E p \in Part : Mutate(p) \/ Restore(p)
  \/ InnerStarts
  \/ Interrupt

Controller ==
  \/ LockPresent
  \/ LockAbsent
  \/ CaptureProtected
  \/ CaptureTracked
  \/ BaselineFails
  \/ Prepare
  \/ PreparationFails
  \/ \E d \in DependencyName : ProbeDependency(d)
  \/ ProbeLosesHelper
  \/ NothingPrepared
  \/ Probed
  \/ DependencyUnavailable
  \/ BeginCheck
  \/ ChecksDone
  \/ CreateWorkspace
  \/ CreateFails
  \/ OpenWorkspace
  \/ StageLauncher
  \/ SetupFails
  \/ NotStarted
  \/ LaunchLosesHelper
  \/ Launch
  \/ ProcessEnds
  \/ CoverageJson
  \/ CoverageLosesHelper
  \/ CloseWorkspace
  \/ RemoveWorkspace
  \/ ConcludeCheck
  \/ ConcludeWithoutEnvironment
  \/ ConcludeIdentityLost
  \/ ConcludeRaised
  \/ VerifyProtected
  \/ VerifyTarget
  \/ VerifyElsewhere
  \/ VerificationFails
  \/ Compare
  \/ Finish

Next == Controller \/ World

Spec == Init /\ [][Next]_vars

(* The controller goes on, and every process it started ends.              *)
FairSpec == Spec /\ WF_vars(Controller)

-----------------------------------------------------------------------------
Returned == pc = "returned" /\ unwinding # "other"

(* The failure of an outer uv is never taken for the findings of a Check:  *)
(* an observation without error comes from an inner process that started.  *)
FindingsHaveStarted ==
  \A i \in 1 .. Len(checks) : checks[i].error = "none" => i \in inner

(* Whatever is lost later, a Check whose process was started keeps it in   *)
(* its observation, and only a suffix of Checks that were never started is *)
(* reported unavailable.                                                   *)
AttemptedEvidenceIsKept ==
  Returned =>
    \A i \in 1 .. Last :
      /\ i \in spawned => checks[i].processes > 0
      /\ checks[i].error = "repository_environment_unavailable" =>
           \A j \in i .. Last :
             j \notin spawned /\ checks[j].error = "repository_environment_unavailable"

(* While the environment is usable, what happens to one Check leaves the   *)
(* others alone: none is skipped as unavailable, none is held back by the  *)
(* dependency of another, and none runs without its own.                   *)
ChecksAreIndependent ==
  Returned /\ prepared /\ repoError = "none" =>
    \A i \in 1 .. Last :
      /\ checks[i].error # "repository_environment_unavailable"
      /\ checks[i].error = "dependency" => ~Available(Name(i))
      /\ i \in spawned => Available(Name(i))

(* A change of the repository made before the verification began and never *)
(* undone is reported, if the baseline covers it and no one allowed it.    *)
LastingChangeIsReported ==
  Returned /\ baseline /\ ~(standing \subseteq Allowed) => repoError # "none"

(* A run without any error ended with its repository verified, by helpers  *)
(* that were the pinned ones.                                              *)
CleanRunIsVerified ==
  Returned /\ repoError = "none" =>
    /\ baseline
    /\ protection = IF worktree THEN "tracked_files" ELSE "protected_files"
    /\ prepared

(* Every way out of a Check closes its descriptor and tries to remove its  *)
(* run directory before another Check or the verification begins.          *)
WorkspaceIsReleased ==
  pc \in {"dispatch", "verify", "compare", "final", "returned"} =>
    /\ ~verified
    /\ workspace => index \in retained

(* A run directory that stays behind is mentioned in the report: its Check *)
(* has the error cleanup_failed.                                           *)
RetainedDirectoryIsReported ==
  Returned => \A i \in retained : checks[i].error = "cleanup_failed"

(* The same for the Checks whose process was started.                      *)
RetainedAfterProcessIsReported ==
  Returned => \A i \in retained \cap spawned : checks[i].error = "cleanup_failed"

Contract == INSTANCE RunContract WITH
  planned <- plan.checks,
  reported <- [i \in 1 .. Len(checks) |-> checks[i].name],
  status <- IF pc # "returned" THEN "running"
            ELSE IF unwinding = "other" THEN "raised" ELSE "report"

ContractSpec == Contract!Spec

(* Every run ends.                                                         *)
RunReturns == <>(pc = "returned")

(* A captured baseline is compared with the repository before the run      *)
(* ends, or the comparison is reported to have failed, also when an        *)
(* exception ends the run.                                                 *)
BaselineIsVerified ==
  baseline /\ pc = "final" => protection # "unobserved" \/ repoError = "changed"

(* The evidence of a Check: findings come from processes that started, and *)
(* what was started is not lost.                                           *)
EvidenceIsKept == FindingsHaveStarted /\ AttemptedEvidenceIsKept

(* No way out of a Check leaves its workspace open or behind unmentioned   *)
(* when its process was started.                                           *)
WorkspaceIsAccountedFor == WorkspaceIsReleased /\ RetainedAfterProcessIsReported

(* The repository: a captured baseline is compared, a lasting change is    *)
(* reported and a run without an error was verified.                       *)
RepositoryIsVerified == BaselineIsVerified /\ LastingChangeIsReported /\ CleanRunIsVerified
=============================================================================
