------------------------------ MODULE Planning ------------------------------
(***************************************************************************)
(* plan_run (planning.py): what a request asks for, and the first reason   *)
(* to refuse it.  The command line is kept as the set of Check names and   *)
(* the set of direct targets it mentions: the code selects Checks in a     *)
(* fixed order, whatever the order and the repetitions of the request.     *)
(***************************************************************************)
EXTENDS Integers, Sequences, SequencesExt

CheckOrder == <<"ruff", "annotations", "ty", "bandit", "pytest">>
SelectableCheckOrder == Append(CheckOrder, "annotations-fix")
TargetDefaultChecks == <<"ruff", "annotations", "ty", "bandit">>
CheckName == Range(SelectableCheckOrder)

\* What the planner can tell of a direct target: it exists, it looks like a
\* path or like a word and does not exist, or it is no relative path at all.
Target == {"present", "missing_path", "missing_word", "bad_syntax"}

Request == [noFrozen: BOOLEAN, python: {"default", "supported", "unsupported"},
            requested: SUBSET CheckName, targets: SUBSET Target, all: BOOLEAN,
            shortcut: {"none", "known", "unknown"}, coverage: BOOLEAN]

\* The facts planning needs of pyproject.toml, and its coverage settings.
ProjectConfig == [pyproject: BOOLEAN, coverage: {"none", "no_threshold", "threshold"}]

-----------------------------------------------------------------------------
\* Every check of the repository, for a run that names no target.
StrictAll(r) == r.targets = {} /\ (r.all \/ r.requested = {})

\* The elements of a sequence at some of its positions, in their order.
Picked(s, positions) ==
    LET kept[n \in 0 .. Len(s)] ==
          IF n = 0 THEN <<>> ELSE kept[n - 1] \o (IF n \in positions THEN <<s[n]>> ELSE <<>>)
    IN kept[Len(s)]

\* The Checks a request selects: all of them, those it names, or those that
\* are about files when it names targets only.
SelectCheckNames(r) ==
    IF r.all \/ (r.requested = {} /\ r.targets = {}) THEN CheckOrder
    ELSE IF r.requested = {} THEN TargetDefaultChecks
    ELSE Picked(SelectableCheckOrder, {i \in DOMAIN SelectableCheckOrder : SelectableCheckOrder[i] \in r.requested})

SelectsPytest(r) == "pytest" \in Range(SelectCheckNames(r))

MisusedShortcut(r) ==
    r.shortcut # "none" /\ (r.all \/ r.targets # {} \/ r.requested # {"pytest"})

TargetErrors(r) == r.targets \ {"present"}

(* Mutant: the fix is selected alone, or for one target.                *)
SelectedAloneOrTargeted(r) ==
    "annotations-fix" \in r.requested => r.requested = {"annotations-fix"} \/ r.targets # {}

SelectedAlone(r) == "annotations-fix" \in Range(SelectCheckNames(r)) => Len(SelectCheckNames(r)) = 1

\* The refusals, in the order in which the planner finds them.
Refusals(r, config) ==
    << [holds |-> r.noFrozen, code |-> "unsafe_unlocked_execution"],
       [holds |-> ~config.pyproject, code |-> "uv_project_required"],
       [holds |-> r.python = "unsupported", code |-> "invalid_arguments"],
       [holds |-> MisusedShortcut(r), code |-> "invalid_arguments"],
       [holds |-> r.shortcut = "unknown", code |-> "unknown_test_shortcut"],
       [holds |-> "missing_word" \in TargetErrors(r), code |-> "unknown_check"],
       [holds |-> TargetErrors(r) # {}, code |-> "unknown_target"],
       [holds |-> ~SelectedAlone(r), code |-> "invalid_arguments"],
       [holds |-> r.coverage /\ ~SelectsPytest(r), code |-> "invalid_arguments"],
       [holds |-> r.coverage /\ config.coverage = "none", code |-> "coverage_configuration_required"] >>

PlanningError(r, config) ==
    LET first == SelectInSeq(Refusals(r, config), LAMBDA refusal : refusal.holds)
    IN IF first = 0 THEN "none" ELSE Refusals(r, config)[first].code

(* Mutant: coverage is measured in strict runs only.                    *)
StrictCoverageScope(r, config) ==
    IF ~StrictAll(r) THEN "not_requested"
    ELSE IF config.coverage = "none" THEN "unavailable" ELSE "complete"

PlannedCoverageScope(r, config) ==
    IF StrictAll(r) /\ config.coverage = "none" THEN "unavailable"
    ELSE IF r.coverage \/ StrictAll(r)
         THEN IF r.targets # {} \/ r.shortcut = "known" THEN "partial" ELSE "complete"
         ELSE "not_requested"

PlannedTestScope(r) ==
    IF ~SelectsPytest(r) THEN "not_selected"
    ELSE IF r.shortcut = "known" \/ r.targets # {} THEN "partial" ELSE "complete"

\* The plan of a request that is not refused.  configured: the coverage plan
\* of the pytest Check has a fail_under.
PlanRun(r, config) ==
    [checks |-> SelectCheckNames(r),
     mode |-> IF StrictAll(r) THEN "strict_aggregate" ELSE "focused",
     targets |-> r.targets # {},
     shortcut |-> r.shortcut = "known",
     testScope |-> PlannedTestScope(r),
     coverageScope |-> PlannedCoverageScope(r, config),
     configured |-> /\ config.coverage = "threshold"
                    /\ PlannedCoverageScope(r, config) \in {"partial", "complete"}]

CoverageRequested(plan) == plan.coverageScope \in {"partial", "complete"}
=============================================================================
