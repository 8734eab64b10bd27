------------------------ MODULE RepositoryRunProofs ------------------------
(***************************************************************************)
(* For every set of plans: what a run reports of the repository is right,  *)
(* no way out of a Check leaves its workspace open, and the evidence of    *)
(* the processes that were started is not lost.                            *)
(***************************************************************************)
EXTENDS RepositoryRun, SequenceTheorems, TLAPS

-----------------------------------------------------------------------------
(* The repository: no sequence is needed, only sets and the control state. *)

BeforeBaseline == {"lock", "protected", "tracked"}
Verification == {"verify", "verifyTarget", "verifyElsewhere", "compare"}
Ending == {"final", "returned"}

RepoTypes ==
  /\ worktree \in BOOLEAN /\ baseline \in BOOLEAN /\ prepared \in BOOLEAN
  /\ captured \subseteq Part /\ differs \subseteq captured /\ standing \subseteq differs

(* A baseline has everything there is to compare, and is what the          *)
(* verification needs.                                                     *)
BaselineInv ==
  /\ baseline => captured = IF worktree THEN Part ELSE {"protected"}
  /\ pc \in {"lock", "protected"} => captured = {}
  /\ pc = "tracked" => captured = {"protected"}
  /\ pc \in BeforeBaseline => ~baseline
  /\ pc \in Verification => baseline
  /\ ~baseline => pc \in BeforeBaseline \/ repoError # "none"
  /\ ~prepared => pc \in BeforeBaseline \cup {"prepare"} \/ repoError # "none"

(* What the verification has yet to see of the changes that stand.         *)
SeenInv ==
  /\ pc \in {"verifyTarget", "verifyElsewhere", "compare"} => standing \cap {"protected"} \subseteq seen
  /\ pc \in {"verifyElsewhere", "compare"} => standing \cap {"target"} \subseteq seen
  /\ pc = "compare" => standing \cap {"elsewhere"} \subseteq seen

(* The end of a run that had a baseline.                                   *)
VerifiedInv ==
  /\ pc = "final" /\ baseline /\ repoError # "changed" =>
       protection = IF worktree THEN "tracked_files" ELSE "protected_files"
  /\ pc = "returned" /\ repoError = "none" =>
       protection = IF worktree THEN "tracked_files" ELSE "protected_files"
  /\ pc \in Ending /\ baseline /\ repoError = "none" => standing \subseteq Allowed

RepoInv == RepoTypes /\ BaselineInv /\ SeenInv /\ VerifiedInv

LEMMA InitRepoInv == Init => RepoInv
BY DEF Init, RepoInv, RepoTypes, BaselineInv, SeenInv, VerifiedInv, BeforeBaseline,
   Verification, Ending, Part

(* Most steps of the controller concern the Checks.                        *)
LEMMA ChecksLeaveRepository ==
  ASSUME RepoInv, UNCHANGED <<repoVars, setupVars, protection, seen>>,
         pc \notin BeforeBaseline \cup Verification \cup Ending \cup {"prepare"},
         pc' = pc \/ pc' \notin BeforeBaseline \cup Verification \cup Ending \cup {"prepare"}
           \/ EnterFinally,
         repoError' = repoError \/ repoError' = "environment"
  PROVE  RepoInv'
<1>1. RepoTypes' /\ Allowed' = Allowed
  BY DEF RepoInv, RepoTypes, repoVars, setupVars, Allowed, Name, Last
<1>2. CASE pc' = pc \/ pc' \notin BeforeBaseline \cup Verification \cup Ending \cup {"prepare"}
  BY <1>1, <1>2 DEF RepoInv, BaselineInv, SeenInv, VerifiedInv, BeforeBaseline, Verification,
     Ending, repoVars, setupVars
<1>3. CASE EnterFinally /\ baseline
  BY <1>1, <1>3 DEF EnterFinally, RepoInv, BaselineInv, SeenInv, VerifiedInv, BeforeBaseline,
     Verification, Ending, repoVars, setupVars
<1>4. CASE EnterFinally /\ ~baseline
  BY <1>1, <1>4 DEF EnterFinally, RepoInv, BaselineInv, SeenInv, VerifiedInv, BeforeBaseline,
     Verification, Ending, repoVars, setupVars
<1>5. QED
  BY <1>2, <1>3, <1>4

LEMMA StepRepoInv == RepoInv /\ [Next]_vars => RepoInv'
<1> SUFFICES ASSUME RepoInv, [Next]_vars
             PROVE  RepoInv'
  OBVIOUS
<1> USE DEF repoVars, setupVars, checkVars, resultVars, historyVars
<1>1. ASSUME NEW h \in Helper, HelperReplaced(h) \/ HelperRestored(h)
      PROVE  RepoInv'
  BY <1>1 DEF HelperReplaced, HelperRestored, RepoInv, RepoTypes, BaselineInv, SeenInv,
     VerifiedInv, Allowed, Name, Last
<1>2. ASSUME NEW p \in Part, Mutate(p)
      PROVE  RepoInv'
  BY <1>2 DEF Mutate, RepoInv, RepoTypes, BaselineInv, SeenInv, VerifiedInv, Allowed, Name, Last
<1>3. ASSUME NEW p \in Part, Restore(p)
      PROVE  RepoInv'
  BY <1>3 DEF Restore, RepoInv, RepoTypes, BaselineInv, SeenInv, VerifiedInv, Allowed, Name, Last
<1>4. CASE LockPresent \/ LockAbsent \/ BaselineFails \/ Prepare \/ PreparationFails
  <2>1. RepoTypes' /\ Allowed' = Allowed
    BY <1>4 DEF LockPresent, LockAbsent, BaselineFails, Prepare, PreparationFails, Allowed, Name,
       Last, RepoInv, RepoTypes
  <2>2. SeenInv' /\ VerifiedInv'
    BY <1>4 DEF LockPresent, LockAbsent, BaselineFails, Prepare, PreparationFails,
       GiveUpPreparation, SeenInv, VerifiedInv, Ending
  <2>3. BaselineInv'
    BY <1>4 DEF LockPresent, LockAbsent, BaselineFails, Prepare, PreparationFails,
       GiveUpPreparation, RepoInv, BaselineInv, BeforeBaseline, Verification
  <2>4. QED
    BY <2>1, <2>2, <2>3 DEF RepoInv
<1>5. CASE CaptureProtected \/ CaptureTracked
  <2>1. differs = {} \/ captured = {"protected"}
    BY <1>5 DEF CaptureProtected, CaptureTracked, RepoInv, RepoTypes, BaselineInv
  <2>2. RepoTypes'
    BY <1>5, <2>1 DEF CaptureProtected, CaptureTracked, RepoInv, RepoTypes, Part
  <2>3. QED
    BY <1>5, <2>2 DEF CaptureProtected, CaptureTracked, RepoInv, BaselineInv, SeenInv,
       VerifiedInv, BeforeBaseline, Verification, Ending
<1>6. CASE ProbeLosesHelper
  BY <1>6 DEF ProbeLosesHelper, GiveUpPreparation, RepoInv, RepoTypes, BaselineInv, SeenInv,
     VerifiedInv, BeforeBaseline, Verification, Ending
<1>7. ASSUME NEW d \in DependencyName, ProbeDependency(d)
      PROVE  RepoInv'
  BY <1>7 DEF ProbeDependency, RepoInv, RepoTypes, BaselineInv, SeenInv, VerifiedInv,
     BeforeBaseline, Verification, Ending
<1>8. CASE NothingPrepared \/ Probed \/ DependencyUnavailable \/ BeginCheck \/ ChecksDone
             \/ CreateWorkspace \/ CreateFails \/ OpenWorkspace \/ StageLauncher \/ SetupFails
             \/ NotStarted \/ LaunchLosesHelper \/ Launch \/ InnerStarts \/ Interrupt
  BY <1>8, ChecksLeaveRepository DEF NothingPrepared, Probed, DependencyUnavailable, BeginCheck,
     ChecksDone, CreateWorkspace, CreateFails, OpenWorkspace, StageLauncher, SetupFails,
     NotStarted, LaunchLosesHelper, Launch, InnerStarts, Interrupt,
     BeforeBaseline, Verification, Ending
<1>9. CASE ProcessEnds \/ CoverageJson \/ CoverageLosesHelper \/ CloseWorkspace
             \/ RemoveWorkspace \/ ConcludeCheck \/ ConcludeWithoutEnvironment
             \/ ConcludeIdentityLost \/ ConcludeRaised
  BY <1>9, ChecksLeaveRepository DEF ProcessEnds, CoverageJson, CoverageLosesHelper,
     CloseWorkspace, RemoveWorkspace, ConcludeCheck, ConcludeWithoutEnvironment,
     ConcludeIdentityLost, ConcludeRaised, BeforeBaseline, Verification, Ending
<1>10. CASE VerifyProtected \/ VerifyTarget \/ VerifyElsewhere
  <2>1. RepoTypes'
    BY <1>10 DEF VerifyProtected, VerifyTarget, VerifyElsewhere, RepoInv, RepoTypes
  <2>2. BaselineInv' /\ VerifiedInv'
    BY <1>10 DEF VerifyProtected, VerifyTarget, VerifyElsewhere, RepoInv, BaselineInv,
       VerifiedInv, BeforeBaseline, Verification, Ending
  <2>3. pc = "verify" /\ captured # Part => captured = {"protected"}
    BY DEF RepoInv, BaselineInv, Verification
  <2>4. SeenInv'
    BY <1>10, <2>3 DEF VerifyProtected, VerifyTarget, VerifyElsewhere, RepoInv, RepoTypes,
       SeenInv
  <2>5. QED
    BY <2>1, <2>2, <2>4 DEF RepoInv
<1>11. CASE VerificationFails \/ Compare \/ Finish
  <2>1. Allowed' = Allowed /\ RepoTypes'
    BY <1>11 DEF VerificationFails, Compare, Finish, Allowed, Name, Last, RepoInv, RepoTypes
  <2>2. BaselineInv' /\ SeenInv'
    BY <1>11 DEF VerificationFails, Compare, Finish, RepoInv, BaselineInv, SeenInv,
       BeforeBaseline, Verification
  <2>3. pc = "compare" => standing \subseteq seen
    BY DEF RepoInv, RepoTypes, SeenInv, Part
  <2>4. CASE VerificationFails
    BY <2>1, <2>2, <2>4 DEF VerificationFails, RepoInv, VerifiedInv, Ending
  <2>5. CASE Compare
    <3>1. baseline /\ (captured = Part <=> worktree)
      BY <2>5 DEF Compare, RepoInv, RepoTypes, BaselineInv, Verification, Part
    <3>2. VerifiedInv'
      BY <2>1, <2>3, <2>5, <3>1 DEF Compare, VerifiedInv, Ending
    <3>3. QED
      BY <2>1, <2>2, <3>2 DEF RepoInv
  <2>6. CASE Finish
    BY <2>1, <2>2, <2>6 DEF Finish, RepoInv, BaselineInv, VerifiedInv, Ending, BeforeBaseline
  <2>7. QED
    BY <1>11, <2>4, <2>5, <2>6
<1>12. CASE UNCHANGED vars
  BY <1>12 DEF vars, RepoInv, RepoTypes, BaselineInv, SeenInv, VerifiedInv, Allowed, Name, Last
<1>13. QED
  BY <1>1, <1>2, <1>3, <1>4, <1>5, <1>6, <1>7, <1>8, <1>9, <1>10, <1>11, <1>12
     DEF Next, Controller, World

LEMMA AlwaysRepoInv == Spec => []RepoInv
BY InitRepoInv, StepRepoInv, PTL DEF Spec

(* Whatever happens during a run, a captured baseline is compared with the *)
(* repository, a change that stands is reported, and a run without any     *)
(* error was verified.                                                     *)
THEOREM RepositoryVerification == Spec => []RepositoryIsVerified
<1>1. RepoInv => RepositoryIsVerified
  BY DEF RepoInv, RepoTypes, BaselineInv, VerifiedInv, RepositoryIsVerified, BaselineIsVerified,
     LastingChangeIsReported, CleanRunIsVerified, Returned, Ending, BeforeBaseline
<1>2. QED
  BY <1>1, AlwaysRepoInv, PTL

-----------------------------------------------------------------------------
(* Types: of the sequence of observations, and of what is set up for the   *)
(* Check at hand.                                                          *)

Early == {"lock", "protected", "tracked", "prepare", "probe", "unavailable"}
InCheck == {"create", "open", "stage", "launch", "running", "coverage", "close", "remove",
            "conclude"}

Shape ==
  /\ pc \in Early => index = 1 /\ checks = << >>
  /\ pc \in InCheck => index \in 1 .. Last
  /\ pc = "coverage" => observation \in Observation

LEMMA PlanIsSequence ==
  ASSUME plan \in Plans
  PROVE  /\ Last \in Nat \ {0}
         /\ \A i \in 1 .. Last : Name(i) \in CheckName
<1>1. plan.checks \in Seq(CheckName) /\ plan.checks # << >>
  BY PlansAssumption
<1>2. Len(plan.checks) \in Nat /\ Len(plan.checks) # 0
  BY <1>1, EmptySeq, LenProperties
<1>3. QED
  BY <1>1, <1>2, ElementOfSeq DEF Last, Name

LEMMA FailureIsObservation ==
  ASSUME NEW c \in CheckName, NEW e \in CheckError
  PROVE  CheckFailure(c, e) \in Observation
BY DEF CheckFailure, Observation

(* A function on an initial segment of the naturals is a sequence.         *)
LEMMA SegmentIsSequence ==
  ASSUME NEW S, NEW n \in Int, NEW s \in [1 .. n -> S]
  PROVE  s \in Seq(S) /\ Len(s) = (IF n > 0 THEN n ELSE 0)
<1>1. CASE n > 0
  BY <1>1, IsASeq, LenProperties
<1>2. CASE ~(n > 0)
  <2>1. 1 .. n = 1 .. 0
    BY <1>2
  <2>2. s \in Seq(S) /\ Len(s) = 0
    BY <2>1, IsASeq, LenProperties
  <2>3. QED
    BY <1>2, <2>2
<1>3. QED
  BY <1>1, <1>2

(* The Checks from i on, all of them unavailable.                          *)
LEMMA UnavailableIsSequence ==
  ASSUME plan \in Plans, NEW i \in 1 .. Last + 1
  PROVE  /\ UnavailableFrom(i) \in Seq(Observation)
         /\ Len(UnavailableFrom(i)) = Last - i + 1
         /\ \A k \in 1 .. Last - i + 1 : UnavailableFrom(i)[k] = Unavailable(i + k - 1)
<1>1. PICK n \in Nat : n = Last - i + 1
  BY PlanIsSequence
<1>2. \A k \in 1 .. n : i + k - 1 \in 1 .. Last
  BY <1>1, PlanIsSequence
<1>3. \A k \in 1 .. n : Unavailable(i + k - 1) \in Observation
  BY <1>2, PlanIsSequence, FailureIsObservation DEF Unavailable, CheckError
<1>4. UnavailableFrom(i) \in [1 .. n -> Observation]
  BY <1>1, <1>3 DEF UnavailableFrom
<1>5. UnavailableFrom(i) \in Seq(Observation) /\ Len(UnavailableFrom(i)) = n
  BY <1>4, SegmentIsSequence
<1>6. QED
  BY <1>1, <1>5 DEF UnavailableFrom

(* TypeOK and Shape in parts that different steps disturb.                 *)
HelperPart ==
  resolved \in SUBSET Helper /\ intact \in SUBSET resolved /\ disturbances \in Nat
FlagPart == verified \in BOOLEAN /\ workspace \in BOOLEAN /\ diagnostics \in BOOLEAN
ValuePart ==
  /\ unwinding \in {"none", "identity", "other"}
  /\ repoError \in {"none", "environment", "changed", "helper"}
  /\ protection \in {"unobserved", "protected_files", "tracked_files"}
  /\ seen \in SUBSET Part
DependencyPart ==
  dependency \in [DependencyName -> {"none", "available", "unusable", "unattempted"}]
ControlPart ==
  pc \in Early \cup InCheck \cup Verification \cup Ending \cup {"dispatch"}
IndexPart ==
  /\ index \in 1 .. Last + 1
  /\ pc \in Early => index = 1
  /\ pc \in InCheck => index \in 1 .. Last
HistoryPart ==
  /\ spawned \in SUBSET (1 .. Last) /\ inner \in SUBSET spawned /\ retained \in SUBSET (1 .. Last)
  /\ pc = "running" => index \in spawned
ObservationPart ==
  /\ observation \in Observation \cup {NoObservation}
  /\ pc = "coverage" => observation \in Observation
ChecksPart ==
  /\ checks \in Seq(Observation)
  /\ pc \in Early => checks = << >>

TypeParts ==
  /\ plan \in Plans
  /\ RepoTypes /\ HelperPart /\ FlagPart /\ ValuePart /\ DependencyPart
  /\ ControlPart /\ IndexPart /\ HistoryPart /\ ObservationPart /\ ChecksPart

LEMMA TypePartsAreTypeOK == TypeParts => TypeOK
BY DEF TypeOK, TypeParts, RepoTypes, HelperPart, FlagPart, ValuePart, DependencyPart, ControlPart,
   IndexPart, HistoryPart, ObservationPart, ChecksPart, Early, InCheck, Verification, Ending

(* What a step does to the observations.                                   *)
ChecksKept ==
  checks' = checks \/ NothingPrepared \/ DependencyUnavailable \/ CreateFails \/ ConcludeCheck
    \/ ConcludeWithoutEnvironment \/ ConcludeIdentityLost

LEMMA ChecksFrame ==
  ASSUME [Next]_vars
  PROVE  ChecksKept
<1> USE DEF repoVars, setupVars, checkVars, resultVars, historyVars
<1>1. ASSUME NEW h \in Helper, HelperReplaced(h) \/ HelperRestored(h)
      PROVE  ChecksKept
  BY <1>1 DEF ChecksKept, HelperReplaced, HelperRestored, Disturb, Part
<1>2. ASSUME NEW p \in Part, Mutate(p) \/ Restore(p)
      PROVE  ChecksKept
  BY <1>2 DEF ChecksKept, Mutate, Restore, Disturb, Part
<1>3. CASE LockPresent \/ LockAbsent \/ BaselineFails \/ CaptureProtected \/ CaptureTracked \/
              Prepare \/ PreparationFails \/ Probed \/ ProbeLosesHelper \/ NothingPrepared
  BY <1>3 DEF ChecksKept, LockPresent, LockAbsent, BaselineFails, CaptureProtected,
     CaptureTracked, Prepare, PreparationFails, Probed, ProbeLosesHelper, NothingPrepared,
     GiveUpPreparation, EnterFinally, Part
<1>4. ASSUME NEW d \in DependencyName, ProbeDependency(d)
      PROVE  ChecksKept
  BY <1>4 DEF ChecksKept, ProbeDependency, Part
<1>5. CASE DependencyUnavailable \/ CreateFails \/ BeginCheck \/ ChecksDone \/ CreateWorkspace \/
              OpenWorkspace \/ StageLauncher \/ SetupFails \/ NotStarted \/ LaunchLosesHelper \/
              Launch \/ InnerStarts
  BY <1>5 DEF ChecksKept, DependencyUnavailable, CreateFails, BeginCheck, ChecksDone,
     CreateWorkspace, OpenWorkspace, StageLauncher, SetupFails, NotStarted, LaunchLosesHelper,
     Launch, InnerStarts, EnterFinally, Part
<1>6. CASE Interrupt \/ ProcessEnds \/ CoverageJson \/ CoverageLosesHelper \/ CloseWorkspace \/
              RemoveWorkspace \/ ConcludeCheck \/ ConcludeWithoutEnvironment \/
              ConcludeIdentityLost \/ ConcludeRaised
  BY <1>6 DEF ChecksKept, Interrupt, ProcessEnds, CoverageJson, CoverageLosesHelper,
     CloseWorkspace, RemoveWorkspace, ConcludeCheck, ConcludeWithoutEnvironment,
     ConcludeIdentityLost, ConcludeRaised, EnterFinally, Part
<1>7. CASE VerifyProtected \/ VerifyTarget \/ VerifyElsewhere \/ VerificationFails \/ Compare \/
              Finish
  BY <1>7 DEF ChecksKept, VerifyProtected, VerifyTarget, VerifyElsewhere, VerificationFails,
     Compare, Finish, Part
<1>8. CASE UNCHANGED vars
  BY <1>8 DEF ChecksKept, vars, Part
<1>9. QED
  BY <1>1, <1>2, <1>3, <1>4, <1>5, <1>6, <1>7, <1>8 DEF Next, Controller, World

LEMMA EarlyFrame ==
  ASSUME [Next]_vars
  PROVE  pc' \in Early => pc \in Early
<1> USE DEF repoVars, setupVars, checkVars, resultVars, historyVars
<1>1. ASSUME NEW h \in Helper, HelperReplaced(h) \/ HelperRestored(h)
      PROVE  pc' \in Early => pc \in Early
  BY <1>1 DEF HelperReplaced, HelperRestored, Disturb, Early
<1>2. ASSUME NEW p \in Part, Mutate(p) \/ Restore(p)
      PROVE  pc' \in Early => pc \in Early
  BY <1>2 DEF Mutate, Restore, Disturb, Early
<1>3. CASE LockPresent \/ LockAbsent \/ BaselineFails \/ CaptureProtected \/ CaptureTracked \/
              Prepare \/ PreparationFails \/ Probed \/ ProbeLosesHelper \/ NothingPrepared
  BY <1>3 DEF LockPresent, LockAbsent, BaselineFails, CaptureProtected, CaptureTracked, Prepare,
     PreparationFails, Probed, ProbeLosesHelper, NothingPrepared, GiveUpPreparation,
     EnterFinally, Early
<1>4. ASSUME NEW d \in DependencyName, ProbeDependency(d)
      PROVE  pc' \in Early => pc \in Early
  BY <1>4 DEF ProbeDependency, Early
<1>5. CASE DependencyUnavailable \/ CreateFails \/ BeginCheck \/ ChecksDone \/ CreateWorkspace \/
              OpenWorkspace \/ StageLauncher \/ SetupFails \/ NotStarted \/ LaunchLosesHelper \/
              Launch \/ InnerStarts
  BY <1>5 DEF DependencyUnavailable, CreateFails, BeginCheck, ChecksDone, CreateWorkspace,
     OpenWorkspace, StageLauncher, SetupFails, NotStarted, LaunchLosesHelper, Launch,
     InnerStarts, EnterFinally, Early
<1>6. CASE Interrupt \/ ProcessEnds \/ CoverageJson \/ CoverageLosesHelper \/ CloseWorkspace \/
              RemoveWorkspace \/ ConcludeCheck \/ ConcludeWithoutEnvironment \/
              ConcludeIdentityLost \/ ConcludeRaised
  BY <1>6 DEF Interrupt, ProcessEnds, CoverageJson, CoverageLosesHelper, CloseWorkspace,
     RemoveWorkspace, ConcludeCheck, ConcludeWithoutEnvironment, ConcludeIdentityLost,
     ConcludeRaised, EnterFinally, Early
<1>7. CASE VerifyProtected \/ VerifyTarget \/ VerifyElsewhere \/ VerificationFails \/ Compare \/
              Finish
  BY <1>7 DEF VerifyProtected, VerifyTarget, VerifyElsewhere, VerificationFails, Compare, Finish,
     Early
<1>8. CASE UNCHANGED vars
  BY <1>8 DEF vars, Early
<1>9. QED
  BY <1>1, <1>2, <1>3, <1>4, <1>5, <1>6, <1>7, <1>8 DEF Next, Controller, World

LEMMA StepPlan ==
  ASSUME [Next]_vars
  PROVE  plan' = plan /\ Last' = Last
<1> USE DEF repoVars, setupVars, checkVars, resultVars, historyVars
<1>1. ASSUME NEW h \in Helper, HelperReplaced(h) \/ HelperRestored(h)
      PROVE  plan' = plan /\ Last' = Last
  BY <1>1 DEF HelperReplaced, HelperRestored, Disturb, Last
<1>2. ASSUME NEW p \in Part, Mutate(p) \/ Restore(p)
      PROVE  plan' = plan /\ Last' = Last
  BY <1>2 DEF Mutate, Restore, Disturb, Last
<1>3. CASE LockPresent \/ LockAbsent \/ BaselineFails \/ CaptureProtected \/ CaptureTracked \/
              Prepare \/ PreparationFails \/ Probed \/ ProbeLosesHelper \/ NothingPrepared
  BY <1>3 DEF LockPresent, LockAbsent, BaselineFails, CaptureProtected, CaptureTracked, Prepare,
     PreparationFails, Probed, ProbeLosesHelper, NothingPrepared, GiveUpPreparation,
     EnterFinally, Last
<1>4. ASSUME NEW d \in DependencyName, ProbeDependency(d)
      PROVE  plan' = plan /\ Last' = Last
  BY <1>4 DEF ProbeDependency, Last
<1>5. CASE DependencyUnavailable \/ CreateFails \/ BeginCheck \/ ChecksDone \/ CreateWorkspace \/
              OpenWorkspace \/ StageLauncher \/ SetupFails \/ NotStarted \/ LaunchLosesHelper \/
              Launch \/ InnerStarts
  BY <1>5 DEF DependencyUnavailable, CreateFails, BeginCheck, ChecksDone, CreateWorkspace,
     OpenWorkspace, StageLauncher, SetupFails, NotStarted, LaunchLosesHelper, Launch,
     InnerStarts, EnterFinally, Last
<1>6. CASE Interrupt \/ ProcessEnds \/ CoverageJson \/ CoverageLosesHelper \/ CloseWorkspace \/
              RemoveWorkspace \/ ConcludeCheck \/ ConcludeWithoutEnvironment \/
              ConcludeIdentityLost \/ ConcludeRaised
  BY <1>6 DEF Interrupt, ProcessEnds, CoverageJson, CoverageLosesHelper, CloseWorkspace,
     RemoveWorkspace, ConcludeCheck, ConcludeWithoutEnvironment, ConcludeIdentityLost,
     ConcludeRaised, EnterFinally, Last
<1>7. CASE VerifyProtected \/ VerifyTarget \/ VerifyElsewhere \/ VerificationFails \/ Compare \/
              Finish
  BY <1>7 DEF VerifyProtected, VerifyTarget, VerifyElsewhere, VerificationFails, Compare, Finish,
     Last
<1>8. CASE UNCHANGED vars
  BY <1>8 DEF vars, Last
<1>9. QED
  BY <1>1, <1>2, <1>3, <1>4, <1>5, <1>6, <1>7, <1>8 DEF Next, Controller, World

LEMMA StepHelpers ==
  ASSUME HelperPart, [Next]_vars
  PROVE  HelperPart'
<1> USE DEF repoVars, setupVars, checkVars, resultVars, historyVars
<1>1. ASSUME NEW h \in Helper, HelperReplaced(h) \/ HelperRestored(h)
      PROVE  HelperPart'
  BY <1>1 DEF HelperReplaced, HelperRestored, Disturb, HelperPart
<1>2. ASSUME NEW p \in Part, Mutate(p) \/ Restore(p)
      PROVE  HelperPart'
  BY <1>2 DEF Mutate, Restore, Disturb, HelperPart
<1>3. CASE LockPresent \/ LockAbsent \/ BaselineFails \/ CaptureProtected \/ CaptureTracked \/
              Prepare \/ PreparationFails \/ Probed \/ ProbeLosesHelper \/ NothingPrepared
  BY <1>3 DEF LockPresent, LockAbsent, BaselineFails, CaptureProtected, CaptureTracked, Prepare,
     PreparationFails, Probed, ProbeLosesHelper, NothingPrepared, GiveUpPreparation,
     EnterFinally, HelperPart
<1>4. ASSUME NEW d \in DependencyName, ProbeDependency(d)
      PROVE  HelperPart'
  BY <1>4 DEF ProbeDependency, HelperPart
<1>5. CASE DependencyUnavailable \/ CreateFails \/ BeginCheck \/ ChecksDone \/ CreateWorkspace \/
              OpenWorkspace \/ StageLauncher \/ SetupFails \/ NotStarted \/ LaunchLosesHelper \/
              Launch \/ InnerStarts
  BY <1>5 DEF DependencyUnavailable, CreateFails, BeginCheck, ChecksDone, CreateWorkspace,
     OpenWorkspace, StageLauncher, SetupFails, NotStarted, LaunchLosesHelper, Launch,
     InnerStarts, EnterFinally, HelperPart
<1>6. CASE Interrupt \/ ProcessEnds \/ CoverageJson \/ CoverageLosesHelper \/ CloseWorkspace \/
              RemoveWorkspace \/ ConcludeCheck \/ ConcludeWithoutEnvironment \/
              ConcludeIdentityLost \/ ConcludeRaised
  BY <1>6 DEF Interrupt, ProcessEnds, CoverageJson, CoverageLosesHelper, CloseWorkspace,
     RemoveWorkspace, ConcludeCheck, ConcludeWithoutEnvironment, ConcludeIdentityLost,
     ConcludeRaised, EnterFinally, HelperPart
<1>7. CASE VerifyProtected \/ VerifyTarget \/ VerifyElsewhere \/ VerificationFails \/ Compare \/
              Finish
  BY <1>7 DEF VerifyProtected, VerifyTarget, VerifyElsewhere, VerificationFails, Compare, Finish,
     HelperPart
<1>8. CASE UNCHANGED vars
  BY <1>8 DEF vars, HelperPart
<1>9. QED
  BY <1>1, <1>2, <1>3, <1>4, <1>5, <1>6, <1>7, <1>8 DEF Next, Controller, World

LEMMA StepFlags ==
  ASSUME FlagPart, [Next]_vars
  PROVE  FlagPart'
<1> USE DEF repoVars, setupVars, checkVars, resultVars, historyVars
<1>1. ASSUME NEW h \in Helper, HelperReplaced(h) \/ HelperRestored(h)
      PROVE  FlagPart'
  BY <1>1 DEF HelperReplaced, HelperRestored, Disturb, FlagPart
<1>2. ASSUME NEW p \in Part, Mutate(p) \/ Restore(p)
      PROVE  FlagPart'
  BY <1>2 DEF Mutate, Restore, Disturb, FlagPart
<1>3. CASE LockPresent \/ LockAbsent \/ BaselineFails \/ CaptureProtected \/ CaptureTracked \/
              Prepare \/ PreparationFails \/ Probed \/ ProbeLosesHelper \/ NothingPrepared
  BY <1>3 DEF LockPresent, LockAbsent, BaselineFails, CaptureProtected, CaptureTracked, Prepare,
     PreparationFails, Probed, ProbeLosesHelper, NothingPrepared, GiveUpPreparation,
     EnterFinally, FlagPart
<1>4. ASSUME NEW d \in DependencyName, ProbeDependency(d)
      PROVE  FlagPart'
  BY <1>4 DEF ProbeDependency, FlagPart
<1>5. CASE DependencyUnavailable \/ CreateFails \/ BeginCheck \/ ChecksDone \/ CreateWorkspace \/
              OpenWorkspace \/ StageLauncher \/ SetupFails \/ NotStarted \/ LaunchLosesHelper \/
              Launch \/ InnerStarts
  BY <1>5 DEF DependencyUnavailable, CreateFails, BeginCheck, ChecksDone, CreateWorkspace,
     OpenWorkspace, StageLauncher, SetupFails, NotStarted, LaunchLosesHelper, Launch,
     InnerStarts, EnterFinally, FlagPart
<1>6. CASE Interrupt \/ ProcessEnds \/ CoverageJson \/ CoverageLosesHelper \/ CloseWorkspace \/
              RemoveWorkspace \/ ConcludeCheck \/ ConcludeWithoutEnvironment \/
              ConcludeIdentityLost \/ ConcludeRaised
  BY <1>6 DEF Interrupt, ProcessEnds, CoverageJson, CoverageLosesHelper, CloseWorkspace,
     RemoveWorkspace, ConcludeCheck, ConcludeWithoutEnvironment, ConcludeIdentityLost,
     ConcludeRaised, EnterFinally, FlagPart
<1>7. CASE VerifyProtected \/ VerifyTarget \/ VerifyElsewhere \/ VerificationFails \/ Compare \/
              Finish
  BY <1>7 DEF VerifyProtected, VerifyTarget, VerifyElsewhere, VerificationFails, Compare, Finish,
     FlagPart
<1>8. CASE UNCHANGED vars
  BY <1>8 DEF vars, FlagPart
<1>9. QED
  BY <1>1, <1>2, <1>3, <1>4, <1>5, <1>6, <1>7, <1>8 DEF Next, Controller, World

LEMMA StepValues ==
  ASSUME ValuePart, [Next]_vars
  PROVE  ValuePart'
<1> USE DEF repoVars, setupVars, checkVars, resultVars, historyVars
<1>1. ASSUME NEW h \in Helper, HelperReplaced(h) \/ HelperRestored(h)
      PROVE  ValuePart'
  BY <1>1 DEF HelperReplaced, HelperRestored, Disturb, ValuePart, Part
<1>2. ASSUME NEW p \in Part, Mutate(p) \/ Restore(p)
      PROVE  ValuePart'
  BY <1>2 DEF Mutate, Restore, Disturb, ValuePart, Part
<1>3. CASE LockPresent \/ LockAbsent \/ BaselineFails \/ CaptureProtected \/ CaptureTracked \/
              Prepare \/ PreparationFails \/ Probed \/ ProbeLosesHelper \/ NothingPrepared
  BY <1>3 DEF LockPresent, LockAbsent, BaselineFails, CaptureProtected, CaptureTracked, Prepare,
     PreparationFails, Probed, ProbeLosesHelper, NothingPrepared, GiveUpPreparation,
     EnterFinally, ValuePart, Part
<1>4. ASSUME NEW d \in DependencyName, ProbeDependency(d)
      PROVE  ValuePart'
  BY <1>4 DEF ProbeDependency, ValuePart, Part
<1>5. CASE DependencyUnavailable \/ CreateFails \/ BeginCheck \/ ChecksDone \/ CreateWorkspace \/
              OpenWorkspace \/ StageLauncher \/ SetupFails \/ NotStarted \/ LaunchLosesHelper \/
              Launch \/ InnerStarts
  BY <1>5 DEF DependencyUnavailable, CreateFails, BeginCheck, ChecksDone, CreateWorkspace,
     OpenWorkspace, StageLauncher, SetupFails, NotStarted, LaunchLosesHelper, Launch,
     InnerStarts, EnterFinally, ValuePart, Part
<1>6. CASE Interrupt \/ ProcessEnds \/ CoverageJson \/ CoverageLosesHelper \/ CloseWorkspace \/
              RemoveWorkspace \/ ConcludeCheck \/ ConcludeWithoutEnvironment \/
              ConcludeIdentityLost \/ ConcludeRaised
  BY <1>6 DEF Interrupt, ProcessEnds, CoverageJson, CoverageLosesHelper, CloseWorkspace,
     RemoveWorkspace, ConcludeCheck, ConcludeWithoutEnvironment, ConcludeIdentityLost,
     ConcludeRaised, EnterFinally, ValuePart, Part
<1>7. CASE VerifyProtected \/ VerifyTarget \/ VerifyElsewhere \/ VerificationFails \/ Compare \/
              Finish
  BY <1>7 DEF VerifyProtected, VerifyTarget, VerifyElsewhere, VerificationFails, Compare, Finish,
     ValuePart, Part
<1>8. CASE UNCHANGED vars
  BY <1>8 DEF vars, ValuePart, Part
<1>9. QED
  BY <1>1, <1>2, <1>3, <1>4, <1>5, <1>6, <1>7, <1>8 DEF Next, Controller, World

LEMMA StepDependency ==
  ASSUME DependencyPart, [Next]_vars
  PROVE  DependencyPart'
<1> USE DEF repoVars, setupVars, checkVars, resultVars, historyVars
<1>1. ASSUME NEW h \in Helper, HelperReplaced(h) \/ HelperRestored(h)
      PROVE  DependencyPart'
  BY <1>1 DEF HelperReplaced, HelperRestored, Disturb, DependencyPart
<1>2. ASSUME NEW p \in Part, Mutate(p) \/ Restore(p)
      PROVE  DependencyPart'
  BY <1>2 DEF Mutate, Restore, Disturb, DependencyPart
<1>3. CASE LockPresent \/ LockAbsent \/ BaselineFails \/ CaptureProtected \/ CaptureTracked \/
              Prepare \/ PreparationFails \/ Probed \/ ProbeLosesHelper \/ NothingPrepared
  BY <1>3 DEF LockPresent, LockAbsent, BaselineFails, CaptureProtected, CaptureTracked, Prepare,
     PreparationFails, Probed, ProbeLosesHelper, NothingPrepared, GiveUpPreparation,
     EnterFinally, DependencyPart
<1>4. ASSUME NEW d \in DependencyName, ProbeDependency(d)
      PROVE  DependencyPart'
  BY <1>4 DEF ProbeDependency, DependencyPart
<1>5. CASE DependencyUnavailable \/ CreateFails \/ BeginCheck \/ ChecksDone \/ CreateWorkspace \/
              OpenWorkspace \/ StageLauncher \/ SetupFails \/ NotStarted \/ LaunchLosesHelper \/
              Launch \/ InnerStarts
  BY <1>5 DEF DependencyUnavailable, CreateFails, BeginCheck, ChecksDone, CreateWorkspace,
     OpenWorkspace, StageLauncher, SetupFails, NotStarted, LaunchLosesHelper, Launch,
     InnerStarts, EnterFinally, DependencyPart
<1>6. CASE Interrupt \/ ProcessEnds \/ CoverageJson \/ CoverageLosesHelper \/ CloseWorkspace \/
              RemoveWorkspace \/ ConcludeCheck \/ ConcludeWithoutEnvironment \/
              ConcludeIdentityLost \/ ConcludeRaised
  BY <1>6 DEF Interrupt, ProcessEnds, CoverageJson, CoverageLosesHelper, CloseWorkspace,
     RemoveWorkspace, ConcludeCheck, ConcludeWithoutEnvironment, ConcludeIdentityLost,
     ConcludeRaised, EnterFinally, DependencyPart
<1>7. CASE VerifyProtected \/ VerifyTarget \/ VerifyElsewhere \/ VerificationFails \/ Compare \/
              Finish
  BY <1>7 DEF VerifyProtected, VerifyTarget, VerifyElsewhere, VerificationFails, Compare, Finish,
     DependencyPart
<1>8. CASE UNCHANGED vars
  BY <1>8 DEF vars, DependencyPart
<1>9. QED
  BY <1>1, <1>2, <1>3, <1>4, <1>5, <1>6, <1>7, <1>8 DEF Next, Controller, World

LEMMA StepControl ==
  ASSUME ControlPart, [Next]_vars
  PROVE  ControlPart'
<1> USE DEF repoVars, setupVars, checkVars, resultVars, historyVars
<1>1. ASSUME NEW h \in Helper, HelperReplaced(h) \/ HelperRestored(h)
      PROVE  ControlPart'
  BY <1>1 DEF HelperReplaced, HelperRestored, Disturb, ControlPart, Early, InCheck, Verification,
     Ending
<1>2. ASSUME NEW p \in Part, Mutate(p) \/ Restore(p)
      PROVE  ControlPart'
  BY <1>2 DEF Mutate, Restore, Disturb, ControlPart, Early, InCheck, Verification, Ending
<1>3. CASE LockPresent \/ LockAbsent \/ BaselineFails \/ CaptureProtected \/ CaptureTracked \/
              Prepare \/ PreparationFails \/ Probed \/ ProbeLosesHelper \/ NothingPrepared
  BY <1>3 DEF LockPresent, LockAbsent, BaselineFails, CaptureProtected, CaptureTracked, Prepare,
     PreparationFails, Probed, ProbeLosesHelper, NothingPrepared, GiveUpPreparation,
     EnterFinally, ControlPart, Early, InCheck, Verification, Ending
<1>4. ASSUME NEW d \in DependencyName, ProbeDependency(d)
      PROVE  ControlPart'
  BY <1>4 DEF ProbeDependency, ControlPart, Early, InCheck, Verification, Ending
<1>5. CASE DependencyUnavailable \/ CreateFails \/ BeginCheck \/ ChecksDone \/ CreateWorkspace \/
              OpenWorkspace \/ StageLauncher \/ SetupFails \/ NotStarted \/ LaunchLosesHelper \/
              Launch \/ InnerStarts
  BY <1>5 DEF DependencyUnavailable, CreateFails, BeginCheck, ChecksDone, CreateWorkspace,
     OpenWorkspace, StageLauncher, SetupFails, NotStarted, LaunchLosesHelper, Launch,
     InnerStarts, EnterFinally, ControlPart, Early, InCheck, Verification, Ending
<1>6. CASE Interrupt \/ ProcessEnds \/ CoverageJson \/ CoverageLosesHelper \/ CloseWorkspace \/
              RemoveWorkspace \/ ConcludeCheck \/ ConcludeWithoutEnvironment \/
              ConcludeIdentityLost \/ ConcludeRaised
  BY <1>6 DEF Interrupt, ProcessEnds, CoverageJson, CoverageLosesHelper, CloseWorkspace,
     RemoveWorkspace, ConcludeCheck, ConcludeWithoutEnvironment, ConcludeIdentityLost,
     ConcludeRaised, EnterFinally, ControlPart, Early, InCheck, Verification, Ending
<1>7. CASE VerifyProtected \/ VerifyTarget \/ VerifyElsewhere \/ VerificationFails \/ Compare \/
              Finish
  BY <1>7 DEF VerifyProtected, VerifyTarget, VerifyElsewhere, VerificationFails, Compare, Finish,
     ControlPart, Early, InCheck, Verification, Ending
<1>8. CASE UNCHANGED vars
  BY <1>8 DEF vars, ControlPart, Early, InCheck, Verification, Ending
<1>9. QED
  BY <1>1, <1>2, <1>3, <1>4, <1>5, <1>6, <1>7, <1>8 DEF Next, Controller, World

LEMMA StepIndex ==
  ASSUME plan \in Plans, IndexPart, [Next]_vars
  PROVE  IndexPart'
<1> USE DEF repoVars, setupVars, checkVars, resultVars, historyVars
<1>a. Last \in Nat \ {0} /\ Last' = Last
  BY PlanIsSequence, StepPlan
<1>1. ASSUME NEW h \in Helper, HelperReplaced(h) \/ HelperRestored(h)
      PROVE  IndexPart'
  BY <1>a, <1>1 DEF HelperReplaced, HelperRestored, Disturb, IndexPart, Early, InCheck
<1>2. ASSUME NEW p \in Part, Mutate(p) \/ Restore(p)
      PROVE  IndexPart'
  BY <1>a, <1>2 DEF Mutate, Restore, Disturb, IndexPart, Early, InCheck
<1>3. CASE LockPresent \/ LockAbsent \/ BaselineFails \/ CaptureProtected \/ CaptureTracked \/
              Prepare \/ PreparationFails \/ Probed \/ ProbeLosesHelper \/ NothingPrepared
  BY <1>a, <1>3 DEF LockPresent, LockAbsent, BaselineFails, CaptureProtected, CaptureTracked,
     Prepare, PreparationFails, Probed, ProbeLosesHelper, NothingPrepared, GiveUpPreparation,
     EnterFinally, IndexPart, Early, InCheck
<1>4. ASSUME NEW d \in DependencyName, ProbeDependency(d)
      PROVE  IndexPart'
  BY <1>a, <1>4 DEF ProbeDependency, IndexPart, Early, InCheck
<1>5. CASE DependencyUnavailable \/ CreateFails \/ BeginCheck \/ ChecksDone \/ CreateWorkspace \/
              OpenWorkspace \/ StageLauncher \/ SetupFails \/ NotStarted \/ LaunchLosesHelper \/
              Launch \/ InnerStarts
  BY <1>a, <1>5 DEF DependencyUnavailable, CreateFails, BeginCheck, ChecksDone, CreateWorkspace,
     OpenWorkspace, StageLauncher, SetupFails, NotStarted, LaunchLosesHelper, Launch,
     InnerStarts, EnterFinally, IndexPart, Early, InCheck
<1>6. CASE Interrupt \/ ProcessEnds \/ CoverageJson \/ CoverageLosesHelper \/ CloseWorkspace \/
              RemoveWorkspace \/ ConcludeCheck \/ ConcludeWithoutEnvironment \/
              ConcludeIdentityLost \/ ConcludeRaised
  <2>1. CASE ConcludeCheck
    BY <1>a, <2>1 DEF ConcludeCheck, IndexPart, Early, InCheck
  <2>2. index' = index \/ ConcludeCheck
    BY <1>6 DEF Interrupt, ProcessEnds, CoverageJson, CoverageLosesHelper, CloseWorkspace,
       RemoveWorkspace, ConcludeWithoutEnvironment, ConcludeIdentityLost, ConcludeRaised
  <2>3. pc' \notin Early /\ (pc' \in InCheck => pc \in InCheck)
    BY <1>6 DEF Interrupt, ProcessEnds, CoverageJson, CoverageLosesHelper, CloseWorkspace,
       RemoveWorkspace, ConcludeCheck, ConcludeWithoutEnvironment, ConcludeIdentityLost,
       ConcludeRaised, EnterFinally, Early, InCheck
  <2>4. QED
    BY <1>a, <2>1, <2>2, <2>3 DEF IndexPart
<1>7. CASE VerifyProtected \/ VerifyTarget \/ VerifyElsewhere \/ VerificationFails \/ Compare \/
              Finish
  BY <1>a, <1>7 DEF VerifyProtected, VerifyTarget, VerifyElsewhere, VerificationFails, Compare,
     Finish, IndexPart, Early, InCheck
<1>8. CASE UNCHANGED vars
  BY <1>a, <1>8 DEF vars, IndexPart, Early, InCheck
<1>9. QED
  BY <1>1, <1>2, <1>3, <1>4, <1>5, <1>6, <1>7, <1>8 DEF Next, Controller, World

LEMMA StepHistory ==
  ASSUME IndexPart, HistoryPart, [Next]_vars
  PROVE  HistoryPart'
<1> USE DEF repoVars, setupVars, checkVars, resultVars, historyVars
<1>a. Last' = Last
  BY StepPlan
<1>b. pc \in InCheck => index \in 1 .. Last
  BY DEF IndexPart
<1>1. ASSUME NEW h \in Helper, HelperReplaced(h) \/ HelperRestored(h)
      PROVE  HistoryPart'
  BY <1>a, <1>b, <1>1 DEF HelperReplaced, HelperRestored, Disturb, HistoryPart, InCheck
<1>2. ASSUME NEW p \in Part, Mutate(p) \/ Restore(p)
      PROVE  HistoryPart'
  BY <1>a, <1>b, <1>2 DEF Mutate, Restore, Disturb, HistoryPart, InCheck
<1>3. CASE LockPresent \/ LockAbsent \/ BaselineFails \/ CaptureProtected \/ CaptureTracked \/
              Prepare \/ PreparationFails \/ Probed \/ ProbeLosesHelper \/ NothingPrepared
  BY <1>a, <1>b, <1>3 DEF LockPresent, LockAbsent, BaselineFails, CaptureProtected,
     CaptureTracked, Prepare, PreparationFails, Probed, ProbeLosesHelper, NothingPrepared,
     GiveUpPreparation, EnterFinally, HistoryPart, InCheck
<1>4. ASSUME NEW d \in DependencyName, ProbeDependency(d)
      PROVE  HistoryPart'
  BY <1>a, <1>b, <1>4 DEF ProbeDependency, HistoryPart, InCheck
<1>5. CASE DependencyUnavailable \/ CreateFails \/ BeginCheck \/ ChecksDone \/ CreateWorkspace \/
              OpenWorkspace \/ StageLauncher \/ SetupFails \/ NotStarted \/ LaunchLosesHelper \/
              Launch \/ InnerStarts
  BY <1>a, <1>b, <1>5 DEF DependencyUnavailable, CreateFails, BeginCheck, ChecksDone,
     CreateWorkspace, OpenWorkspace, StageLauncher, SetupFails, NotStarted, LaunchLosesHelper,
     Launch, InnerStarts, EnterFinally, HistoryPart, InCheck
<1>6. CASE Interrupt \/ ProcessEnds \/ CoverageJson \/ CoverageLosesHelper \/ CloseWorkspace \/
              RemoveWorkspace \/ ConcludeCheck \/ ConcludeWithoutEnvironment \/
              ConcludeIdentityLost \/ ConcludeRaised
  BY <1>a, <1>b, <1>6 DEF Interrupt, ProcessEnds, CoverageJson, CoverageLosesHelper,
     CloseWorkspace, RemoveWorkspace, ConcludeCheck, ConcludeWithoutEnvironment,
     ConcludeIdentityLost, ConcludeRaised, EnterFinally, HistoryPart, InCheck
<1>7. CASE VerifyProtected \/ VerifyTarget \/ VerifyElsewhere \/ VerificationFails \/ Compare \/
              Finish
  BY <1>a, <1>b, <1>7 DEF VerifyProtected, VerifyTarget, VerifyElsewhere, VerificationFails,
     Compare, Finish, HistoryPart, InCheck
<1>8. CASE UNCHANGED vars
  BY <1>a, <1>b, <1>8 DEF vars, HistoryPart, InCheck
<1>9. QED
  BY <1>1, <1>2, <1>3, <1>4, <1>5, <1>6, <1>7, <1>8 DEF Next, Controller, World

LEMMA StepObservation ==
  ASSUME plan \in Plans, IndexPart, ObservationPart, [Next]_vars
  PROVE  ObservationPart'
<1> USE DEF repoVars, setupVars, checkVars, resultVars, historyVars
<1>a. index \in 1 .. Last => Name(index) \in CheckName
  BY PlanIsSequence
<1>1. ASSUME NEW h \in Helper, HelperReplaced(h) \/ HelperRestored(h)
      PROVE  ObservationPart'
  BY <1>1 DEF HelperReplaced, HelperRestored, Disturb, ObservationPart, Early, InCheck
<1>2. ASSUME NEW p \in Part, Mutate(p) \/ Restore(p)
      PROVE  ObservationPart'
  BY <1>2 DEF Mutate, Restore, Disturb, ObservationPart, Early, InCheck
<1>3. CASE LockPresent \/ LockAbsent \/ BaselineFails \/ CaptureProtected \/ CaptureTracked \/
              Prepare \/ PreparationFails \/ Probed \/ ProbeLosesHelper \/ NothingPrepared
  BY <1>3 DEF LockPresent, LockAbsent, BaselineFails, CaptureProtected, CaptureTracked, Prepare,
     PreparationFails, Probed, ProbeLosesHelper, NothingPrepared, GiveUpPreparation,
     EnterFinally, ObservationPart, Early, InCheck
<1>4. ASSUME NEW d \in DependencyName, ProbeDependency(d)
      PROVE  ObservationPart'
  BY <1>4 DEF ProbeDependency, ObservationPart, Early, InCheck
<1>5. CASE DependencyUnavailable \/ CreateFails \/ BeginCheck \/ ChecksDone \/ CreateWorkspace \/
              OpenWorkspace \/ StageLauncher \/ SetupFails \/ NotStarted \/ LaunchLosesHelper \/
              Launch \/ InnerStarts
  <2>1. CASE SetupFails \/ NotStarted
    <3>1. Name(index) \in CheckName /\ "pytest" \in CheckName
      BY <1>a, <2>1 DEF SetupFails, NotStarted, IndexPart, InCheck, CheckName
    <3>2. observation' = observation \/ observation' \in Observation
      BY <2>1, <3>1, FailureIsObservation DEF SetupFails, NotStarted, CheckError
    <3>3. QED
      BY <2>1, <3>2 DEF SetupFails, NotStarted, ObservationPart
  <2>2. QED
    BY <1>5, <2>1 DEF DependencyUnavailable, CreateFails, BeginCheck, ChecksDone,
       CreateWorkspace, OpenWorkspace, StageLauncher, LaunchLosesHelper, Launch, InnerStarts,
       EnterFinally, ObservationPart
<1>6. CASE Interrupt \/ ProcessEnds \/ CoverageJson \/ CoverageLosesHelper \/ CloseWorkspace \/
              RemoveWorkspace \/ ConcludeCheck \/ ConcludeWithoutEnvironment \/
              ConcludeIdentityLost \/ ConcludeRaised
  <2>1. CASE ProcessEnds
    <3>1. Name(index) \in CheckName
      BY <1>a, <2>1 DEF ProcessEnds, IndexPart, InCheck
    <3>2. \A started \in BOOLEAN, e \in CheckError : Observed(started, e) \in Observation
      BY <3>1 DEF Observed, Observation
    <3>3. \A rc : Classify(rc) \in CheckError
      BY DEF Classify, CheckError
    <3>4. observation' \in Observation
      BY <2>1, <3>2, <3>3 DEF ProcessEnds, CheckError
    <3>5. QED
      BY <3>4 DEF ObservationPart
  <2>2. CASE CoverageJson \/ CoverageLosesHelper
    <3>1. observation \in Observation
      BY <2>2 DEF CoverageJson, CoverageLosesHelper, ObservationPart
    <3>2. observation' \in Observation
      <4>1. [observation EXCEPT !.processes = 2] \in Observation
        BY <3>1 DEF Observation
      <4>2. [observation EXCEPT !.environmentError = TRUE] \in Observation
        BY <3>1 DEF Observation
      <4>3. QED
        BY <2>2, <3>1, <4>1, <4>2 DEF CoverageJson, CoverageLosesHelper
    <3>3. QED
      BY <3>2 DEF ObservationPart
  <2>3. QED
    BY <1>6, <2>1, <2>2 DEF Interrupt, CloseWorkspace, RemoveWorkspace, ConcludeCheck,
       ConcludeWithoutEnvironment, ConcludeIdentityLost, ConcludeRaised, EnterFinally,
       ObservationPart
<1>7. CASE VerifyProtected \/ VerifyTarget \/ VerifyElsewhere \/ VerificationFails \/ Compare \/
              Finish
  BY <1>7 DEF VerifyProtected, VerifyTarget, VerifyElsewhere, VerificationFails, Compare, Finish,
     ObservationPart, Early, InCheck
<1>8. CASE UNCHANGED vars
  BY <1>8 DEF vars, ObservationPart, Early, InCheck
<1>9. QED
  BY <1>1, <1>2, <1>3, <1>4, <1>5, <1>6, <1>7, <1>8 DEF Next, Controller, World

LEMMA ConcludedIsObservation ==
  ASSUME plan \in Plans, ObservationPart, index \in 1 .. Last
  PROVE  /\ Concluded \in Observation
         /\ diagnostics \/ observation = NoObservation => Concluded.error = "cleanup_failed"
         /\ ~diagnostics /\ observation # NoObservation => Concluded = observation
         /\ observation # NoObservation => /\ Concluded.processes = observation.processes
                                           /\ Concluded.environmentError = observation.environmentError
         /\ observation = NoObservation => ~Concluded.environmentError
<1>1. CheckFailure(Name(index), "cleanup_failed") \in Observation
  BY PlanIsSequence, FailureIsObservation DEF CheckError
<1>2. CASE observation = NoObservation
  BY <1>1, <1>2 DEF Concluded, CheckFailure
<1>3. CASE observation # NoObservation
  <2>1. observation \in Observation
    BY <1>3 DEF ObservationPart
  <2>2. [observation EXCEPT !.error = "cleanup_failed"] \in Observation
    BY <2>1 DEF Observation, CheckError
  <2>3. QED
    BY <1>3, <2>1, <2>2 DEF Concluded, Observation
<1>4. QED
  BY <1>2, <1>3

LEMMA StepChecks ==
  ASSUME plan \in Plans, IndexPart, ObservationPart, ChecksPart, [Next]_vars
  PROVE  ChecksPart'
<1> USE DEF repoVars, setupVars, checkVars, resultVars, historyVars
<1>1. \A o \in Observation : Append(checks, o) \in Seq(Observation)
  BY AppendProperties DEF ChecksPart
<1>2. \A s, t \in Seq(Observation) : s \o t \in Seq(Observation)
  BY ConcatProperties
<1>3. CASE NothingPrepared
  <2>1. checks' \in [1 .. Last -> Observation]
    <3>1. \A i \in 1 .. Last : Unavailable(i) \in Observation
      BY PlanIsSequence, FailureIsObservation DEF Unavailable, CheckError
    <3>2. QED
      BY <1>3, <3>1 DEF NothingPrepared
  <2>2. checks' \in Seq(Observation)
    BY <2>1, SegmentIsSequence, PlanIsSequence
  <2>3. QED
    BY <1>3, <2>2 DEF NothingPrepared, EnterFinally, ChecksPart, Early
<1>4. CASE DependencyUnavailable \/ CreateFails
  <2>1. Name(index) \in CheckName
    BY <1>4, PlanIsSequence DEF DependencyUnavailable, CreateFails, IndexPart, InCheck
  <2>2. \A e \in CheckError : Append(checks, CheckFailure(Name(index), e)) \in Seq(Observation)
    BY <1>1, <2>1, FailureIsObservation
  <2>3. QED
    BY <1>4, <2>2 DEF DependencyUnavailable, CreateFails, ChecksPart, CheckError, Early
<1>5. CASE ConcludeCheck \/ ConcludeWithoutEnvironment \/ ConcludeIdentityLost
  <2>1. pc = "conclude" /\ index \in 1 .. Last
    BY <1>5 DEF ConcludeCheck, ConcludeWithoutEnvironment, ConcludeIdentityLost, IndexPart,
       InCheck
  <2>2. Append(checks, Concluded) \in Seq(Observation)
    BY <1>1, <2>1, ConcludedIsObservation
  <2>3. index \in 1 .. Last + 1 /\ index + 1 \in 1 .. Last + 1
    BY <2>1, PlanIsSequence
  <2>4. UnavailableFrom(index) \in Seq(Observation) /\ UnavailableFrom(index + 1) \in Seq(Observation)
    BY <2>3, UnavailableIsSequence
  <2>5. /\ checks \o UnavailableFrom(index) \in Seq(Observation)
        /\ Append(checks, Concluded) \o UnavailableFrom(index + 1) \in Seq(Observation)
    BY <1>2, <2>2, <2>4 DEF ChecksPart
  <2>6. QED
    BY <1>5, <2>2, <2>5 DEF ConcludeCheck, ConcludeWithoutEnvironment, ConcludeIdentityLost,
       EnterFinally, ChecksPart, Early
<1>6. checks' = checks \/ NothingPrepared \/ DependencyUnavailable \/ CreateFails \/ ConcludeCheck
        \/ ConcludeWithoutEnvironment \/ ConcludeIdentityLost
  BY ChecksFrame DEF ChecksKept
<1>7. pc' \in Early => pc \in Early
  BY EarlyFrame
<1>8. QED
  BY <1>3, <1>4, <1>5, <1>6, <1>7 DEF ChecksPart

LEMMA InitTypeParts == Init => TypeParts
<1> SUFFICES ASSUME Init
             PROVE  TypeParts
  OBVIOUS
<1>1. plan \in Plans /\ 1 \in 1 .. Last + 1
  BY PlanIsSequence DEF Init
<1>2. checks \in Seq(Observation)
  BY EmptySeq DEF Init
<1>3. RepoTypes
  BY InitRepoInv DEF RepoInv
<1>4. HelperPart /\ FlagPart /\ ValuePart /\ DependencyPart /\ ControlPart
  BY DEF Init, HelperPart, FlagPart, ValuePart, DependencyPart, ControlPart, Early
<1>5. IndexPart /\ HistoryPart /\ ObservationPart /\ ChecksPart
  BY <1>1, <1>2 DEF Init, IndexPart, HistoryPart, ObservationPart, ChecksPart, Early, InCheck
<1>6. QED
  BY <1>1, <1>3, <1>4, <1>5 DEF TypeParts

LEMMA StepTypeParts == TypeParts /\ RepoTypes' /\ [Next]_vars => TypeParts'
BY StepPlan, StepHelpers, StepFlags, StepValues, StepDependency, StepControl, StepIndex,
   StepHistory, StepObservation, StepChecks DEF TypeParts

LEMMA AlwaysTypeParts == Spec => []TypeParts
<1>1. RepoInv => RepoTypes
  BY DEF RepoInv
<1>2. QED
  BY <1>1, AlwaysRepoInv, InitTypeParts, StepTypeParts, PTL DEF Spec

(* The types, whatever the plans are.                                      *)
THEOREM TypeCorrect == Spec => []TypeOK
BY AlwaysTypeParts, TypePartsAreTypeOK, PTL

-----------------------------------------------------------------------------
(* The workspace of the Check at hand.                                     *)

WorkspaceInv ==
  /\ verified => pc \in {"stage", "launch", "running", "coverage", "close"}
  /\ workspace => \/ pc \in InCheck \ {"create", "conclude"}
                  \/ pc \in {"conclude"} \cup Verification \cup Ending /\ index \in retained

LEMMA StepWorkspace ==
  ASSUME WorkspaceInv, [Next]_vars
  PROVE  WorkspaceInv'
<1> USE DEF repoVars, setupVars, checkVars, resultVars, historyVars
<1>1. ASSUME NEW h \in Helper, HelperReplaced(h) \/ HelperRestored(h)
      PROVE  WorkspaceInv'
  BY <1>1 DEF HelperReplaced, HelperRestored, Disturb, WorkspaceInv, InCheck, Verification,
     Ending
<1>2. ASSUME NEW p \in Part, Mutate(p) \/ Restore(p)
      PROVE  WorkspaceInv'
  BY <1>2 DEF Mutate, Restore, Disturb, WorkspaceInv, InCheck, Verification, Ending
<1>3. CASE LockPresent \/ LockAbsent \/ BaselineFails \/ CaptureProtected \/ CaptureTracked \/
              Prepare \/ PreparationFails \/ Probed \/ ProbeLosesHelper \/ NothingPrepared
  BY <1>3 DEF LockPresent, LockAbsent, BaselineFails, CaptureProtected, CaptureTracked, Prepare,
     PreparationFails, Probed, ProbeLosesHelper, NothingPrepared, GiveUpPreparation,
     EnterFinally, WorkspaceInv, InCheck, Verification, Ending
<1>4. ASSUME NEW d \in DependencyName, ProbeDependency(d)
      PROVE  WorkspaceInv'
  BY <1>4 DEF ProbeDependency, WorkspaceInv, InCheck, Verification, Ending
<1>5. CASE DependencyUnavailable \/ CreateFails \/ BeginCheck \/ ChecksDone
  BY <1>5 DEF DependencyUnavailable, CreateFails, BeginCheck, ChecksDone, EnterFinally,
     WorkspaceInv, InCheck, Verification, Ending
<1>6. CASE CreateWorkspace \/ OpenWorkspace \/ StageLauncher \/ SetupFails \/ NotStarted
  BY <1>6 DEF CreateWorkspace, OpenWorkspace, StageLauncher, SetupFails, NotStarted,
     WorkspaceInv, InCheck, Verification, Ending
<1>7. CASE LaunchLosesHelper \/ Launch \/ InnerStarts \/ Interrupt
  BY <1>7 DEF LaunchLosesHelper, Launch, InnerStarts, Interrupt, WorkspaceInv, InCheck,
     Verification, Ending
<1>8. CASE ProcessEnds \/ CoverageJson \/ CoverageLosesHelper
  BY <1>8 DEF ProcessEnds, CoverageJson, CoverageLosesHelper, WorkspaceInv, InCheck,
     Verification, Ending
<1>9. CASE CloseWorkspace \/ RemoveWorkspace
  BY <1>9 DEF CloseWorkspace, RemoveWorkspace, WorkspaceInv, InCheck, Verification, Ending
<1>10. CASE ConcludeCheck \/ ConcludeWithoutEnvironment \/ ConcludeIdentityLost \/ ConcludeRaised
  BY <1>10 DEF ConcludeCheck, ConcludeWithoutEnvironment, ConcludeIdentityLost, ConcludeRaised,
     EnterFinally, WorkspaceInv, InCheck, Verification, Ending
<1>11. CASE VerifyProtected \/ VerifyTarget \/ VerifyElsewhere \/ VerificationFails \/ Compare \/
              Finish
  BY <1>11 DEF VerifyProtected, VerifyTarget, VerifyElsewhere, VerificationFails, Compare,
     Finish, WorkspaceInv, InCheck, Verification, Ending
<1>12. CASE UNCHANGED vars
  BY <1>12 DEF vars, WorkspaceInv, InCheck, Verification, Ending
<1>13. QED
  BY <1>1, <1>2, <1>3, <1>4, <1>5, <1>6, <1>7, <1>8, <1>9, <1>10, <1>11, <1>12 DEF Next,
     Controller, World

LEMMA AlwaysWorkspaceInv == Spec => []WorkspaceInv
<1>1. Init => WorkspaceInv
  BY DEF Init, WorkspaceInv
<1>2. QED
  BY <1>1, StepWorkspace, PTL DEF Spec

-----------------------------------------------------------------------------
(* The evidence of the Checks.                                             *)

Loop == {"dispatch"} \cup InCheck
Unstarted == {"dispatch", "create", "open", "stage", "launch"}
Over == Verification \cup Ending
NotRun == "repository_environment_unavailable"

(* Of the Check at hand.                                                   *)
ObservedInv ==
  /\ pc \in InCheck \cap (Unstarted \cup {"running"}) => observation = NoObservation
  /\ pc \in InCheck /\ observation # NoObservation =>
       observation.error # NotRun /\ (observation.error = "none" => index \in inner)
UnwindingInv == unwinding # "none" => pc \in {"close", "remove", "conclude"} \cup Over
StartedInv ==
  /\ pc \in Early \cup Unstarted => index \notin spawned
  /\ pc \in {"coverage", "close", "remove", "conclude"} /\ index \in spawned =>
       \/ unwinding = "other"
       \/ unwinding = "none" /\ observation # NoObservation /\ observation.processes > 0
RetainedInv ==
  pc \in Early \cup Loop /\ index \in retained => pc = "conclude" /\ diagnostics
AheadInv ==
  pc \in Early \cup Loop => \A i \in spawned \cup retained : i <= index

LEMMA StepUnwinding ==
  ASSUME UnwindingInv, [Next]_vars
  PROVE  UnwindingInv'
<1> USE DEF repoVars, setupVars, checkVars, resultVars, historyVars
<1>1. ASSUME NEW h \in Helper, HelperReplaced(h) \/ HelperRestored(h)
      PROVE  UnwindingInv'
  BY <1>1 DEF HelperReplaced, HelperRestored, Disturb, UnwindingInv, Verification, Ending, Over
<1>2. ASSUME NEW p \in Part, Mutate(p) \/ Restore(p)
      PROVE  UnwindingInv'
  BY <1>2 DEF Mutate, Restore, Disturb, UnwindingInv, Verification, Ending, Over
<1>3. CASE LockPresent \/ LockAbsent \/ BaselineFails \/ CaptureProtected \/ CaptureTracked \/
              Prepare \/ PreparationFails \/ Probed \/ ProbeLosesHelper \/ NothingPrepared
  BY <1>3 DEF LockPresent, LockAbsent, BaselineFails, CaptureProtected, CaptureTracked, Prepare,
     PreparationFails, Probed, ProbeLosesHelper, NothingPrepared, GiveUpPreparation,
     EnterFinally, UnwindingInv, Verification, Ending, Over
<1>4. ASSUME NEW d \in DependencyName, ProbeDependency(d)
      PROVE  UnwindingInv'
  BY <1>4 DEF ProbeDependency, UnwindingInv, Verification, Ending, Over
<1>5. CASE DependencyUnavailable \/ CreateFails \/ BeginCheck \/ ChecksDone \/ CreateWorkspace \/
              OpenWorkspace \/ StageLauncher \/ SetupFails \/ NotStarted \/ LaunchLosesHelper \/
              Launch \/ InnerStarts
  BY <1>5 DEF DependencyUnavailable, CreateFails, BeginCheck, ChecksDone, CreateWorkspace,
     OpenWorkspace, StageLauncher, SetupFails, NotStarted, LaunchLosesHelper, Launch,
     InnerStarts, EnterFinally, UnwindingInv, Verification, Ending, Over
<1>6. CASE Interrupt \/ ProcessEnds \/ CoverageJson \/ CoverageLosesHelper \/ CloseWorkspace \/
              RemoveWorkspace \/ ConcludeCheck \/ ConcludeWithoutEnvironment \/
              ConcludeIdentityLost \/ ConcludeRaised
  BY <1>6 DEF Interrupt, ProcessEnds, CoverageJson, CoverageLosesHelper, CloseWorkspace,
     RemoveWorkspace, ConcludeCheck, ConcludeWithoutEnvironment, ConcludeIdentityLost,
     ConcludeRaised, EnterFinally, UnwindingInv, Verification, Ending, Over
<1>7. CASE VerifyProtected \/ VerifyTarget \/ VerifyElsewhere \/ VerificationFails \/ Compare \/
              Finish
  BY <1>7 DEF VerifyProtected, VerifyTarget, VerifyElsewhere, VerificationFails, Compare, Finish,
     UnwindingInv, Verification, Ending, Over
<1>8. CASE UNCHANGED vars
  BY <1>8 DEF vars, UnwindingInv, Verification, Ending, Over
<1>9. QED
  BY <1>1, <1>2, <1>3, <1>4, <1>5, <1>6, <1>7, <1>8 DEF Next, Controller, World

LEMMA StepStarted ==
  ASSUME UnwindingInv, ObservedInv, AheadInv, IndexPart, HistoryPart, ObservationPart,
         StartedInv, [Next]_vars
  PROVE  StartedInv'
<1> USE DEF repoVars, setupVars, checkVars, resultVars, historyVars
<1>a. pc \in Early \cup Loop => index + 1 \notin spawned \cup retained
  BY DEF AheadInv, IndexPart, HistoryPart
<1>1. ASSUME NEW h \in Helper, HelperReplaced(h) \/ HelperRestored(h)
      PROVE  StartedInv'
  BY <1>a, <1>1 DEF HelperReplaced, HelperRestored, Disturb, StartedInv, UnwindingInv,
     ObservedInv, InCheck, Early, Unstarted, Loop, Verification, Ending, Over
<1>2. ASSUME NEW p \in Part, Mutate(p) \/ Restore(p)
      PROVE  StartedInv'
  BY <1>a, <1>2 DEF Mutate, Restore, Disturb, StartedInv, UnwindingInv, ObservedInv, InCheck,
     Early, Unstarted, Loop, Verification, Ending, Over
<1>3. CASE LockPresent \/ LockAbsent \/ BaselineFails \/ CaptureProtected \/ CaptureTracked \/
              Prepare \/ PreparationFails \/ Probed \/ ProbeLosesHelper \/ NothingPrepared
  BY <1>a, <1>3 DEF LockPresent, LockAbsent, BaselineFails, CaptureProtected, CaptureTracked,
     Prepare, PreparationFails, Probed, ProbeLosesHelper, NothingPrepared, GiveUpPreparation,
     EnterFinally, StartedInv, UnwindingInv, ObservedInv, InCheck, Early, Unstarted, Loop,
     Verification, Ending, Over
<1>4. ASSUME NEW d \in DependencyName, ProbeDependency(d)
      PROVE  StartedInv'
  BY <1>a, <1>4 DEF ProbeDependency, StartedInv, UnwindingInv, ObservedInv, InCheck, Early,
     Unstarted, Loop, Verification, Ending, Over
<1>5. CASE DependencyUnavailable \/ CreateFails \/ BeginCheck \/ ChecksDone
  BY <1>a, <1>5 DEF DependencyUnavailable, CreateFails, BeginCheck, ChecksDone, EnterFinally,
     StartedInv, UnwindingInv, ObservedInv, InCheck, Early, Unstarted, Loop, Verification,
     Ending, Over
<1>6. CASE CreateWorkspace \/ OpenWorkspace \/ StageLauncher \/ SetupFails \/ NotStarted
  BY <1>a, <1>6 DEF CreateWorkspace, OpenWorkspace, StageLauncher, SetupFails, NotStarted,
     StartedInv, UnwindingInv, ObservedInv, InCheck, Early, Unstarted, Loop, Verification,
     Ending, Over
<1>7. CASE LaunchLosesHelper \/ Launch \/ InnerStarts \/ Interrupt
  BY <1>a, <1>7 DEF LaunchLosesHelper, Launch, InnerStarts, Interrupt, StartedInv, UnwindingInv,
     ObservedInv, InCheck, Early, Unstarted, Loop, Verification, Ending, Over
<1>8. CASE ProcessEnds \/ CoverageJson \/ CoverageLosesHelper
  <2>1. CASE ProcessEnds
    <3>1. \A b, e : Observed(b, e).processes = 1 /\ Observed(b, e) # NoObservation
      BY DEF Observed, NoObservation
    <3>2. observation' # NoObservation /\ observation'.processes = 1
      BY <2>1, <3>1 DEF ProcessEnds
    <3>3. pc' \in {"coverage", "close"} /\ unwinding' = "none"
      BY <2>1 DEF ProcessEnds, UnwindingInv, Over, Verification, Ending
    <3>4. QED
      BY <3>2, <3>3 DEF StartedInv, Early, Unstarted, InCheck
  <2>2. CASE CoverageJson \/ CoverageLosesHelper
    <3>1. observation \in Observation /\ unwinding = "none"
      BY <2>2 DEF CoverageJson, CoverageLosesHelper, ObservationPart, UnwindingInv, Over,
         Verification, Ending
    <3>2. /\ [observation EXCEPT !.processes = 2].processes > 0
          /\ [observation EXCEPT !.processes = 2] # NoObservation
          /\ [observation EXCEPT !.environmentError = TRUE].processes = observation.processes
          /\ [observation EXCEPT !.environmentError = TRUE] # NoObservation
      BY <3>1 DEF Observation, NoObservation
    <3>3. QED
      BY <2>2, <3>1, <3>2 DEF CoverageJson, CoverageLosesHelper, StartedInv, Early, Unstarted,
         InCheck
  <2>3. QED
    BY <1>8, <2>1, <2>2
<1>9. CASE CloseWorkspace \/ RemoveWorkspace
  BY <1>a, <1>9 DEF CloseWorkspace, RemoveWorkspace, StartedInv, UnwindingInv, ObservedInv,
     InCheck, Early, Unstarted, Loop, Verification, Ending, Over
<1>10. CASE ConcludeCheck \/ ConcludeWithoutEnvironment \/ ConcludeIdentityLost \/ ConcludeRaised
  BY <1>a, <1>10 DEF ConcludeCheck, ConcludeWithoutEnvironment, ConcludeIdentityLost,
     ConcludeRaised, EnterFinally, StartedInv, UnwindingInv, ObservedInv, InCheck, Early,
     Unstarted, Loop, Verification, Ending, Over
<1>11. CASE VerifyProtected \/ VerifyTarget \/ VerifyElsewhere \/ VerificationFails \/ Compare \/
              Finish
  BY <1>a, <1>11 DEF VerifyProtected, VerifyTarget, VerifyElsewhere, VerificationFails, Compare,
     Finish, StartedInv, UnwindingInv, ObservedInv, InCheck, Early, Unstarted, Loop,
     Verification, Ending, Over
<1>12. CASE UNCHANGED vars
  BY <1>a, <1>12 DEF vars, StartedInv, UnwindingInv, ObservedInv, InCheck, Early, Unstarted,
     Loop, Verification, Ending, Over
<1>13. QED
  BY <1>1, <1>2, <1>3, <1>4, <1>5, <1>6, <1>7, <1>8, <1>9, <1>10, <1>11, <1>12 DEF Next,
     Controller, World

LEMMA StepObserved ==
  ASSUME UnwindingInv, ObservedInv, ObservationPart, [Next]_vars
  PROVE  ObservedInv'
<1> USE DEF repoVars, setupVars, checkVars, resultVars, historyVars
<1>1. ASSUME NEW h \in Helper, HelperReplaced(h) \/ HelperRestored(h)
      PROVE  ObservedInv'
  BY <1>1 DEF HelperReplaced, HelperRestored, Disturb, ObservedInv, InCheck, Unstarted, Early,
     NotRun, Verification, Ending, Over
<1>2. ASSUME NEW p \in Part, Mutate(p) \/ Restore(p)
      PROVE  ObservedInv'
  BY <1>2 DEF Mutate, Restore, Disturb, ObservedInv, InCheck, Unstarted, Early, NotRun,
     Verification, Ending, Over
<1>3. CASE LockPresent \/ LockAbsent \/ BaselineFails \/ CaptureProtected \/ CaptureTracked \/
              Prepare \/ PreparationFails \/ Probed \/ ProbeLosesHelper \/ NothingPrepared
  BY <1>3 DEF LockPresent, LockAbsent, BaselineFails, CaptureProtected, CaptureTracked, Prepare,
     PreparationFails, Probed, ProbeLosesHelper, NothingPrepared, GiveUpPreparation,
     EnterFinally, ObservedInv, InCheck, Unstarted, Early, NotRun, Verification, Ending, Over
<1>4. ASSUME NEW d \in DependencyName, ProbeDependency(d)
      PROVE  ObservedInv'
  BY <1>4 DEF ProbeDependency, ObservedInv, InCheck, Unstarted, Early, NotRun, Verification,
     Ending, Over
<1>5. CASE DependencyUnavailable \/ CreateFails \/ BeginCheck \/ ChecksDone
  BY <1>5 DEF DependencyUnavailable, CreateFails, BeginCheck, ChecksDone, EnterFinally,
     ObservedInv, InCheck, Unstarted, Early, NotRun, Verification, Ending, Over
<1>6. CASE CreateWorkspace \/ OpenWorkspace \/ StageLauncher \/ SetupFails \/ NotStarted
  <2>1. CASE SetupFails \/ NotStarted
    <3>1. \A c, e : CheckFailure(c, e).error = e
      BY DEF CheckFailure
    <3>2. observation' = observation
          \/ observation'.error \in {"platform_safety_unavailable", "dependency",
                                     "pytest_evidence_error", "check_start_evidence_invalid"}
      BY <2>1, <3>1 DEF SetupFails, NotStarted
    <3>3. pc \in {"open", "stage", "launch"} /\ pc' = "close"
      BY <2>1 DEF SetupFails, NotStarted
    <3>4. QED
      BY <3>2, <3>3 DEF ObservedInv, InCheck, Unstarted, NotRun
  <2>2. QED
    BY <1>6, <2>1 DEF CreateWorkspace, OpenWorkspace, StageLauncher, ObservedInv, InCheck,
       Unstarted
<1>7. CASE LaunchLosesHelper \/ Launch \/ InnerStarts \/ Interrupt
  BY <1>7 DEF LaunchLosesHelper, Launch, InnerStarts, Interrupt, ObservedInv, InCheck, Unstarted,
     Early, NotRun, Verification, Ending, Over
<1>8. CASE ProcessEnds \/ CoverageJson \/ CoverageLosesHelper
  <2>1. CASE ProcessEnds
    <3>1. /\ Observed(FALSE, "spawn_failed").error = "spawn_failed"
          /\ Observed(FALSE, "check_start_evidence_invalid").error = "check_start_evidence_invalid"
          /\ \A rc : Observed(TRUE, Classify(rc)).error = Classify(rc)
      BY DEF Observed
    <3>2. \A rc : Classify(rc) # NotRun
      BY DEF Classify, NotRun
    <3>3. observation'.error # NotRun /\ (observation'.error = "none" => index \in inner)
      <4>1. \/ observation' = Observed(FALSE, "spawn_failed")
            \/ observation' = Observed(FALSE, "check_start_evidence_invalid")
            \/ index \in inner /\ \E rc : observation' = Observed(TRUE, Classify(rc))
        BY <2>1 DEF ProcessEnds, StartValidated
      <4>2. QED
        BY <3>1, <3>2, <4>1 DEF NotRun
    <3>4. pc' \in {"coverage", "close"} /\ index' = index /\ inner' = inner
      BY <2>1 DEF ProcessEnds
    <3>5. QED
      BY <3>3, <3>4 DEF ObservedInv, InCheck, Unstarted
  <2>2. CASE CoverageJson \/ CoverageLosesHelper
    <3>1. observation \in Observation
      BY <2>2 DEF CoverageJson, CoverageLosesHelper, ObservationPart
    <3>2. /\ [observation EXCEPT !.processes = 2].error = observation.error
          /\ [observation EXCEPT !.environmentError = TRUE].error = observation.error
          /\ observation # NoObservation
      BY <3>1 DEF Observation, NoObservation
    <3>3. QED
      BY <2>2, <3>2 DEF CoverageJson, CoverageLosesHelper, ObservedInv, InCheck, Unstarted
  <2>3. QED
    BY <1>8, <2>1, <2>2
<1>9. CASE CloseWorkspace \/ RemoveWorkspace
  BY <1>9 DEF CloseWorkspace, RemoveWorkspace, ObservedInv, InCheck, Unstarted, Early, NotRun,
     Verification, Ending, Over
<1>10. CASE ConcludeCheck \/ ConcludeWithoutEnvironment \/ ConcludeIdentityLost \/ ConcludeRaised
  BY <1>10 DEF ConcludeCheck, ConcludeWithoutEnvironment, ConcludeIdentityLost, ConcludeRaised,
     EnterFinally, ObservedInv, InCheck, Unstarted, Early, NotRun, Verification, Ending, Over
<1>11. CASE VerifyProtected \/ VerifyTarget \/ VerifyElsewhere \/ VerificationFails \/ Compare \/
              Finish
  BY <1>11 DEF VerifyProtected, VerifyTarget, VerifyElsewhere, VerificationFails, Compare,
     Finish, ObservedInv, InCheck, Unstarted, Early, NotRun, Verification, Ending, Over
<1>12. CASE UNCHANGED vars
  BY <1>12 DEF vars, ObservedInv, InCheck, Unstarted, Early, NotRun, Verification, Ending, Over
<1>13. QED
  BY <1>1, <1>2, <1>3, <1>4, <1>5, <1>6, <1>7, <1>8, <1>9, <1>10, <1>11, <1>12 DEF Next,
     Controller, World

LEMMA StepRetained ==
  ASSUME AheadInv, IndexPart, HistoryPart, RetainedInv, [Next]_vars
  PROVE  RetainedInv'
<1> USE DEF repoVars, setupVars, checkVars, resultVars, historyVars
<1>a. pc \in Early \cup Loop => index + 1 \notin spawned \cup retained
  BY DEF AheadInv, IndexPart, HistoryPart
<1>1. ASSUME NEW h \in Helper, HelperReplaced(h) \/ HelperRestored(h)
      PROVE  RetainedInv'
  BY <1>a, <1>1 DEF HelperReplaced, HelperRestored, Disturb, RetainedInv, InCheck, Early, Loop,
     Verification, Ending, Over
<1>2. ASSUME NEW p \in Part, Mutate(p) \/ Restore(p)
      PROVE  RetainedInv'
  BY <1>a, <1>2 DEF Mutate, Restore, Disturb, RetainedInv, InCheck, Early, Loop, Verification,
     Ending, Over
<1>3. CASE LockPresent \/ LockAbsent \/ BaselineFails \/ CaptureProtected \/ CaptureTracked \/
              Prepare \/ PreparationFails \/ Probed \/ ProbeLosesHelper \/ NothingPrepared
  BY <1>a, <1>3 DEF LockPresent, LockAbsent, BaselineFails, CaptureProtected, CaptureTracked,
     Prepare, PreparationFails, Probed, ProbeLosesHelper, NothingPrepared, GiveUpPreparation,
     EnterFinally, RetainedInv, InCheck, Early, Loop, Verification, Ending, Over
<1>4. ASSUME NEW d \in DependencyName, ProbeDependency(d)
      PROVE  RetainedInv'
  BY <1>a, <1>4 DEF ProbeDependency, RetainedInv, InCheck, Early, Loop, Verification, Ending,
     Over
<1>5. CASE DependencyUnavailable \/ CreateFails \/ BeginCheck \/ ChecksDone
  BY <1>a, <1>5 DEF DependencyUnavailable, CreateFails, BeginCheck, ChecksDone, EnterFinally,
     RetainedInv, InCheck, Early, Loop, Verification, Ending, Over
<1>6. CASE CreateWorkspace \/ OpenWorkspace \/ StageLauncher \/ SetupFails \/ NotStarted
  BY <1>a, <1>6 DEF CreateWorkspace, OpenWorkspace, StageLauncher, SetupFails, NotStarted,
     RetainedInv, InCheck, Early, Loop, Verification, Ending, Over
<1>7. CASE LaunchLosesHelper \/ Launch \/ InnerStarts \/ Interrupt
  BY <1>a, <1>7 DEF LaunchLosesHelper, Launch, InnerStarts, Interrupt, RetainedInv, InCheck,
     Early, Loop, Verification, Ending, Over
<1>8. CASE ProcessEnds \/ CoverageJson \/ CoverageLosesHelper
  <2>1. /\ pc \in {"running", "coverage"} /\ pc' \in {"coverage", "close"}
        /\ UNCHANGED <<index, retained, unwinding, diagnostics>>
    BY <1>8 DEF ProcessEnds, CoverageJson, CoverageLosesHelper
  <2>2. QED
    BY <2>1 DEF RetainedInv, InCheck, Loop
<1>9. CASE CloseWorkspace \/ RemoveWorkspace
  BY <1>a, <1>9 DEF CloseWorkspace, RemoveWorkspace, RetainedInv, InCheck, Early, Loop,
     Verification, Ending, Over
<1>10. CASE ConcludeCheck \/ ConcludeWithoutEnvironment \/ ConcludeIdentityLost \/ ConcludeRaised
  BY <1>a, <1>10 DEF ConcludeCheck, ConcludeWithoutEnvironment, ConcludeIdentityLost,
     ConcludeRaised, EnterFinally, RetainedInv, InCheck, Early, Loop, Verification, Ending, Over
<1>11. CASE VerifyProtected \/ VerifyTarget \/ VerifyElsewhere \/ VerificationFails \/ Compare \/
              Finish
  BY <1>a, <1>11 DEF VerifyProtected, VerifyTarget, VerifyElsewhere, VerificationFails, Compare,
     Finish, RetainedInv, InCheck, Early, Loop, Verification, Ending, Over
<1>12. CASE UNCHANGED vars
  BY <1>a, <1>12 DEF vars, RetainedInv, InCheck, Early, Loop, Verification, Ending, Over
<1>13. QED
  BY <1>1, <1>2, <1>3, <1>4, <1>5, <1>6, <1>7, <1>8, <1>9, <1>10, <1>11, <1>12 DEF Next,
     Controller, World

LEMMA StepAhead ==
  ASSUME AheadInv, IndexPart, HistoryPart, [Next]_vars
  PROVE  AheadInv'
<1> USE DEF repoVars, setupVars, checkVars, resultVars, historyVars
<1>a. \A i \in spawned \cup retained \cup {index} : i \in Nat
  BY DEF IndexPart, HistoryPart
<1>1. ASSUME NEW h \in Helper, HelperReplaced(h) \/ HelperRestored(h)
      PROVE  AheadInv'
  BY <1>a, <1>1 DEF HelperReplaced, HelperRestored, Disturb, AheadInv, InCheck, Early, Loop,
     Verification, Ending, Over
<1>2. ASSUME NEW p \in Part, Mutate(p) \/ Restore(p)
      PROVE  AheadInv'
  BY <1>a, <1>2 DEF Mutate, Restore, Disturb, AheadInv, InCheck, Early, Loop, Verification,
     Ending, Over
<1>3. CASE LockPresent \/ LockAbsent \/ BaselineFails \/ CaptureProtected \/ CaptureTracked \/
              Prepare \/ PreparationFails \/ Probed \/ ProbeLosesHelper \/ NothingPrepared
  BY <1>a, <1>3 DEF LockPresent, LockAbsent, BaselineFails, CaptureProtected, CaptureTracked,
     Prepare, PreparationFails, Probed, ProbeLosesHelper, NothingPrepared, GiveUpPreparation,
     EnterFinally, AheadInv, InCheck, Early, Loop, Verification, Ending, Over
<1>4. ASSUME NEW d \in DependencyName, ProbeDependency(d)
      PROVE  AheadInv'
  BY <1>a, <1>4 DEF ProbeDependency, AheadInv, InCheck, Early, Loop, Verification, Ending, Over
<1>5. CASE DependencyUnavailable \/ CreateFails \/ BeginCheck \/ ChecksDone
  BY <1>a, <1>5 DEF DependencyUnavailable, CreateFails, BeginCheck, ChecksDone, EnterFinally,
     AheadInv, InCheck, Early, Loop, Verification, Ending, Over
<1>6. CASE CreateWorkspace \/ OpenWorkspace \/ StageLauncher \/ SetupFails \/ NotStarted
  BY <1>a, <1>6 DEF CreateWorkspace, OpenWorkspace, StageLauncher, SetupFails, NotStarted,
     AheadInv, InCheck, Early, Loop, Verification, Ending, Over
<1>7. CASE LaunchLosesHelper \/ Launch \/ InnerStarts \/ Interrupt
  BY <1>a, <1>7 DEF LaunchLosesHelper, Launch, InnerStarts, Interrupt, AheadInv, InCheck, Early,
     Loop, Verification, Ending, Over
<1>8. CASE ProcessEnds \/ CoverageJson \/ CoverageLosesHelper
  BY <1>a, <1>8 DEF ProcessEnds, CoverageJson, CoverageLosesHelper, AheadInv, InCheck, Early,
     Loop, Verification, Ending, Over
<1>9. CASE CloseWorkspace \/ RemoveWorkspace
  BY <1>a, <1>9 DEF CloseWorkspace, RemoveWorkspace, AheadInv, InCheck, Early, Loop,
     Verification, Ending, Over
<1>10. CASE ConcludeCheck \/ ConcludeWithoutEnvironment \/ ConcludeIdentityLost \/ ConcludeRaised
  <2>1. CASE ConcludeCheck
    <3>1. \A i \in spawned \cup retained : i <= index + 1
      BY <1>a, <2>1 DEF ConcludeCheck, AheadInv, InCheck, Loop
    <3>2. QED
      BY <2>1, <3>1 DEF ConcludeCheck, AheadInv
  <2>2. CASE ConcludeWithoutEnvironment \/ ConcludeIdentityLost \/ ConcludeRaised
    BY <2>2 DEF ConcludeWithoutEnvironment, ConcludeIdentityLost, ConcludeRaised, EnterFinally,
       AheadInv, Early, InCheck, Loop
  <2>3. QED
    BY <1>10, <2>1, <2>2
<1>11. CASE VerifyProtected \/ VerifyTarget \/ VerifyElsewhere \/ VerificationFails \/ Compare \/
              Finish
  BY <1>a, <1>11 DEF VerifyProtected, VerifyTarget, VerifyElsewhere, VerificationFails, Compare,
     Finish, AheadInv, InCheck, Early, Loop, Verification, Ending, Over
<1>12. CASE UNCHANGED vars
  BY <1>a, <1>12 DEF vars, AheadInv, InCheck, Early, Loop, Verification, Ending, Over
<1>13. QED
  BY <1>1, <1>2, <1>3, <1>4, <1>5, <1>6, <1>7, <1>8, <1>9, <1>10, <1>11, <1>12 DEF Next,
     Controller, World

(* What is added to the observations, at the end or up to the end.         *)
LEMMA Appended ==
  ASSUME NEW o \in Observation, NEW s \in Seq(Observation), NEW n \in Nat, Len(s) = n
  PROVE  /\ Append(s, o) \in Seq(Observation) /\ Len(Append(s, o)) = n + 1
         /\ \A i \in 1 .. n : Append(s, o)[i] = s[i]
         /\ Append(s, o)[n + 1] = o
BY AppendProperties

LEMMA Extended ==
  ASSUME plan \in Plans, NEW n \in Nat, n <= Last, NEW s \in Seq(Observation), Len(s) = n
  PROVE  /\ Len(s \o UnavailableFrom(n + 1)) = Last
         /\ \A k \in 1 .. n : (s \o UnavailableFrom(n + 1))[k] = s[k]
         /\ \A k \in n + 1 .. Last : (s \o UnavailableFrom(n + 1))[k] = Unavailable(k)
<1> DEFINE u == UnavailableFrom(n + 1)
<1>1. PICK last \in Nat : last = Last
  BY PlanIsSequence
<1>2. n + 1 \in 1 .. Last + 1
  BY <1>1
<1>3. /\ u \in Seq(Observation) /\ Len(u) = last - n
      /\ \A k \in 1 .. last - n : u[k] = Unavailable(n + k)
  <2>1. /\ u \in Seq(Observation) /\ Len(u) = Last - (n + 1) + 1
        /\ \A k \in 1 .. Last - (n + 1) + 1 : u[k] = Unavailable(n + 1 + k - 1)
    BY <1>2, UnavailableIsSequence
  <2>2. Last - (n + 1) + 1 = last - n /\ \A k \in 1 .. last - n : n + 1 + k - 1 = n + k
    BY <1>1
  <2>3. QED
    BY <2>1, <2>2
<1>4. /\ Len(s \o u) = n + (last - n)
      /\ \A k \in 1 .. n + (last - n) : (s \o u)[k] = IF k <= n THEN s[k] ELSE u[k - n]
  BY <1>3, ConcatProperties
<1>5. n + (last - n) = last
  BY <1>1
<1>6. \A k \in n + 1 .. last : k - n \in 1 .. last - n /\ ~(k <= n) /\ n + (k - n) = k /\ k \in 1 .. last
  BY <1>1
<1>7. \A k \in 1 .. n : k <= n /\ k \in 1 .. last
  BY <1>1
<1>8. \A k \in n + 1 .. last : (s \o u)[k] = Unavailable(k)
  BY <1>3, <1>4, <1>5, <1>6
<1>9. QED
  BY <1>1, <1>4, <1>5, <1>7, <1>8

(* A Check that ended, and one that was given up.                          *)
Kept(i) ==
  /\ checks[i].error # NotRun
  /\ i \in spawned => checks[i].processes > 0
  /\ i \in spawned \cap retained => checks[i].error = "cleanup_failed"
GivenUp(i) == checks[i].error = NotRun /\ i \notin spawned

KeptUpTo(n) == \A i \in 1 .. n : Kept(i)
GivenUpAfter(n) == \A i \in n + 1 .. Last : GivenUp(i)

LoopInv == pc \in Loop => Len(checks) = index - 1 /\ KeptUpTo(index - 1)
OverInv ==
  pc \in Over /\ unwinding # "other" =>
    Len(checks) = Last /\ \E n \in 0 .. Last : KeptUpTo(n) /\ GivenUpAfter(n)

AtHandInv == UnwindingInv /\ ObservedInv /\ StartedInv /\ RetainedInv /\ AheadInv
EvidenceInv == AtHandInv /\ LoopInv /\ OverInv /\ FindingsHaveStarted

(* What is concluded of the Check at hand is kept.                         *)
KeepsConcluded ==
  /\ Concluded.error # NotRun
  /\ Concluded.error = "none" => index \in inner
  /\ index \in spawned => Concluded.processes > 0
  /\ index \in spawned \cap retained => Concluded.error = "cleanup_failed"

LEMMA ConcludedIsKept ==
  ASSUME TypeParts, AtHandInv, pc = "conclude", unwinding = "none"
  PROVE  Concluded \in Observation /\ KeepsConcluded
<1>1. index \in 1 .. Last
  BY DEF TypeParts, IndexPart, InCheck
<1>2. /\ Concluded \in Observation
      /\ diagnostics \/ observation = NoObservation => Concluded.error = "cleanup_failed"
      /\ ~diagnostics /\ observation # NoObservation => Concluded = observation
      /\ observation # NoObservation => Concluded.processes = observation.processes
  BY <1>1, ConcludedIsObservation DEF TypeParts
<1>3. /\ observation # NoObservation =>
           observation.error # NotRun /\ (observation.error = "none" => index \in inner)
      /\ index \in spawned => observation # NoObservation /\ observation.processes > 0
      /\ index \in retained => diagnostics
  BY DEF AtHandInv, ObservedInv, StartedInv, RetainedInv, InCheck, Loop
<1>4. QED
  BY <1>2, <1>3 DEF KeepsConcluded, NotRun

(* Of the Checks that ended, what is recorded does not change.             *)
LEMMA RecordFrame ==
  ASSUME NEW n \in Nat, KeptUpTo(n), \A i \in 1 .. n : checks'[i] = checks[i],
         \A i \in 1 .. n : (i \in spawned' <=> i \in spawned) /\ (i \in retained' <=> i \in retained)
  PROVE  KeptUpTo(n)'
BY DEF KeptUpTo, Kept

(* A step adds to the records of the processes, and only the Check at hand. *)
RecordsGrow ==
  /\ spawned \subseteq spawned' /\ spawned' \subseteq spawned \cup {index}
  /\ retained \subseteq retained' /\ retained' \subseteq retained \cup {index}
  /\ inner \subseteq inner'

LEMMA HistoryFrame ==
  ASSUME [Next]_vars
  PROVE  RecordsGrow
<1> USE DEF repoVars, setupVars, checkVars, resultVars, historyVars
<1>1. ASSUME NEW h \in Helper, HelperReplaced(h) \/ HelperRestored(h)
      PROVE  RecordsGrow
  BY <1>1 DEF RecordsGrow, HelperReplaced, HelperRestored, Disturb, Part
<1>2. ASSUME NEW p \in Part, Mutate(p) \/ Restore(p)
      PROVE  RecordsGrow
  BY <1>2 DEF RecordsGrow, Mutate, Restore, Disturb, Part
<1>3. CASE LockPresent \/ LockAbsent \/ BaselineFails \/ CaptureProtected \/ CaptureTracked \/
              Prepare \/ PreparationFails \/ Probed \/ ProbeLosesHelper \/ NothingPrepared
  BY <1>3 DEF RecordsGrow, LockPresent, LockAbsent, BaselineFails, CaptureProtected,
     CaptureTracked, Prepare, PreparationFails, Probed, ProbeLosesHelper, NothingPrepared,
     GiveUpPreparation, EnterFinally, Part
<1>4. ASSUME NEW d \in DependencyName, ProbeDependency(d)
      PROVE  RecordsGrow
  BY <1>4 DEF RecordsGrow, ProbeDependency, Part
<1>5. CASE DependencyUnavailable \/ CreateFails \/ BeginCheck \/ ChecksDone
  BY <1>5 DEF RecordsGrow, DependencyUnavailable, CreateFails, BeginCheck, ChecksDone,
     EnterFinally, Part
<1>6. CASE CreateWorkspace \/ OpenWorkspace \/ StageLauncher \/ SetupFails \/ NotStarted
  BY <1>6 DEF RecordsGrow, CreateWorkspace, OpenWorkspace, StageLauncher, SetupFails, NotStarted,
     Part
<1>7. CASE LaunchLosesHelper \/ Launch \/ InnerStarts \/ Interrupt
  BY <1>7 DEF RecordsGrow, LaunchLosesHelper, Launch, InnerStarts, Interrupt, Part
<1>8. CASE ProcessEnds \/ CoverageJson \/ CoverageLosesHelper
  BY <1>8 DEF RecordsGrow, ProcessEnds, CoverageJson, CoverageLosesHelper, Part
<1>9. CASE CloseWorkspace \/ RemoveWorkspace
  BY <1>9 DEF RecordsGrow, CloseWorkspace, RemoveWorkspace, Part
<1>10. CASE ConcludeCheck \/ ConcludeWithoutEnvironment \/ ConcludeIdentityLost \/ ConcludeRaised
  BY <1>10 DEF RecordsGrow, ConcludeCheck, ConcludeWithoutEnvironment, ConcludeIdentityLost,
     ConcludeRaised, EnterFinally, Part
<1>11. CASE VerifyProtected \/ VerifyTarget \/ VerifyElsewhere \/ VerificationFails \/ Compare \/
              Finish
  BY <1>11 DEF RecordsGrow, VerifyProtected, VerifyTarget, VerifyElsewhere, VerificationFails,
     Compare, Finish, Part
<1>12. CASE UNCHANGED vars
  BY <1>12 DEF RecordsGrow, vars, Part
<1>13. QED
  BY <1>1, <1>2, <1>3, <1>4, <1>5, <1>6, <1>7, <1>8, <1>9, <1>10, <1>11, <1>12 DEF Next,
     Controller, World

(* A step that records no Check stays on its side of the loop.             *)
ControlKept ==
  \/ NothingPrepared \/ DependencyUnavailable \/ CreateFails \/ ChecksDone \/ ConcludeCheck
  \/ ConcludeWithoutEnvironment \/ ConcludeIdentityLost
  \/ /\ UNCHANGED <<checks, index>>
     /\ pc' \in Loop => pc \in Loop \cup {"probe"}
     /\ pc' \in Over /\ unwinding' # "other" =>
          pc \in Over /\ unwinding # "other" /\ spawned' = spawned /\ retained' = retained

LEMMA ControlFrame ==
  ASSUME [Next]_vars
  PROVE  ControlKept
<1> USE DEF repoVars, setupVars, checkVars, resultVars, historyVars
<1>1. ASSUME NEW h \in Helper, HelperReplaced(h) \/ HelperRestored(h)
      PROVE  ControlKept
  BY <1>1 DEF ControlKept, HelperReplaced, HelperRestored, Disturb, Loop, Over, InCheck,
     Verification, Ending
<1>2. ASSUME NEW p \in Part, Mutate(p) \/ Restore(p)
      PROVE  ControlKept
  BY <1>2 DEF ControlKept, Mutate, Restore, Disturb, Loop, Over, InCheck, Verification, Ending
<1>3. CASE LockPresent \/ LockAbsent \/ BaselineFails \/ CaptureProtected \/ CaptureTracked \/
              Prepare \/ PreparationFails \/ Probed \/ ProbeLosesHelper \/ NothingPrepared
  BY <1>3 DEF ControlKept, LockPresent, LockAbsent, BaselineFails, CaptureProtected,
     CaptureTracked, Prepare, PreparationFails, Probed, ProbeLosesHelper, NothingPrepared,
     GiveUpPreparation, EnterFinally, Loop, Over, InCheck, Verification, Ending
<1>4. ASSUME NEW d \in DependencyName, ProbeDependency(d)
      PROVE  ControlKept
  BY <1>4 DEF ControlKept, ProbeDependency, Loop, Over, InCheck, Verification, Ending
<1>5. CASE DependencyUnavailable \/ CreateFails \/ BeginCheck \/ ChecksDone
  BY <1>5 DEF ControlKept, DependencyUnavailable, CreateFails, BeginCheck, ChecksDone,
     EnterFinally, Loop, Over, InCheck, Verification, Ending
<1>6. CASE CreateWorkspace \/ OpenWorkspace \/ StageLauncher \/ SetupFails \/ NotStarted
  BY <1>6 DEF ControlKept, CreateWorkspace, OpenWorkspace, StageLauncher, SetupFails, NotStarted,
     Loop, Over, InCheck, Verification, Ending
<1>7. CASE LaunchLosesHelper \/ Launch \/ InnerStarts \/ Interrupt
  BY <1>7 DEF ControlKept, LaunchLosesHelper, Launch, InnerStarts, Interrupt, Loop, Over,
     InCheck, Verification, Ending
<1>8. CASE ProcessEnds \/ CoverageJson \/ CoverageLosesHelper
  BY <1>8 DEF ControlKept, ProcessEnds, CoverageJson, CoverageLosesHelper, Loop, Over, InCheck,
     Verification, Ending
<1>9. CASE CloseWorkspace \/ RemoveWorkspace
  BY <1>9 DEF ControlKept, CloseWorkspace, RemoveWorkspace, Loop, Over, InCheck, Verification,
     Ending
<1>10. CASE ConcludeCheck \/ ConcludeWithoutEnvironment \/ ConcludeIdentityLost \/ ConcludeRaised
  BY <1>10 DEF ControlKept, ConcludeCheck, ConcludeWithoutEnvironment, ConcludeIdentityLost,
     ConcludeRaised, EnterFinally, Loop, Over, InCheck, Verification, Ending
<1>11. CASE VerifyProtected \/ VerifyTarget \/ VerifyElsewhere \/ VerificationFails \/ Compare \/
              Finish
  BY <1>11 DEF ControlKept, VerifyProtected, VerifyTarget, VerifyElsewhere, VerificationFails,
     Compare, Finish, Loop, Over, InCheck, Verification, Ending
<1>12. CASE UNCHANGED vars
  BY <1>12 DEF ControlKept, vars, Loop, Over, InCheck, Verification, Ending
<1>13. QED
  BY <1>1, <1>2, <1>3, <1>4, <1>5, <1>6, <1>7, <1>8, <1>9, <1>10, <1>11, <1>12 DEF Next,
     Controller, World

LEMMA StepLoop ==
  ASSUME plan \in Plans, TypeParts, AtHandInv, LoopInv, [Next]_vars
  PROVE  LoopInv'
<1> USE DEF resultVars, historyVars
<1>1. /\ index \in Nat \ {0} /\ checks \in Seq(Observation) /\ index' \in Nat \ {0}
      /\ Len(checks) \in Nat
  BY PlanIsSequence, StepPlan, StepIndex, LenProperties DEF TypeParts, IndexPart, ChecksPart
<1>2. PICK n \in Nat : n = index - 1
  BY <1>1
<1>3. /\ spawned \subseteq spawned' /\ spawned' \subseteq spawned \cup {index}
      /\ retained \subseteq retained' /\ retained' \subseteq retained \cup {index}
  BY HistoryFrame DEF RecordsGrow
<1>4. \A i \in 1 .. n : i # index
  BY <1>2
<1>5. \A i \in 1 .. n : (i \in spawned' <=> i \in spawned) /\ (i \in retained' <=> i \in retained)
  BY <1>3, <1>4
<1>6. ASSUME UNCHANGED <<checks, index>>, pc' \in Loop => pc \in Loop \cup {"probe"}
      PROVE  LoopInv'
  <2>1. CASE pc \in Loop
    <3>1. KeptUpTo(n)'
      BY <1>2, <1>5, <1>6, <2>1, RecordFrame DEF LoopInv
    <3>2. QED
      BY <1>2, <1>6, <2>1, <3>1 DEF LoopInv
  <2>2. CASE pc = "probe"
    <3>1. index = 1 /\ checks = << >>
      BY <2>2 DEF TypeParts, IndexPart, ChecksPart, Early
    <3>2. Len(checks) = 0 /\ index - 1 = 0
      BY <3>1
    <3>3. KeptUpTo(0)'
      BY DEF KeptUpTo
    <3>4. QED
      BY <1>6, <3>2, <3>3 DEF LoopInv
  <2>3. QED
    BY <1>6, <2>1, <2>2 DEF LoopInv
<1>7. ASSUME NEW o \in Observation, checks' = Append(checks, o), index' = index + 1, pc \in Loop,
             o.error # NotRun,
             index \in spawned' => o.processes > 0,
             index \in spawned' \cap retained' => o.error = "cleanup_failed"
      PROVE  LoopInv'
  <2>1. Len(checks) = n /\ KeptUpTo(n)
    BY <1>2, <1>7 DEF LoopInv
  <2>2. /\ Len(checks') = n + 1 /\ checks'[n + 1] = o
        /\ \A i \in 1 .. n : checks'[i] = checks[i]
    BY <1>1, <1>7, <2>1, Appended
  <2>3. KeptUpTo(n)'
    BY <1>5, <2>1, <2>2, RecordFrame
  <2>4. n + 1 = index /\ index' - 1 = n + 1
    BY <1>1, <1>2, <1>7
  <2>5. Kept(n + 1)'
    BY <1>7, <2>2, <2>4 DEF Kept
  <2>6. KeptUpTo(n + 1)'
    BY <2>3, <2>5 DEF KeptUpTo
  <2>7. QED
    BY <2>2, <2>4, <2>6 DEF LoopInv
<1>8. CASE DependencyUnavailable \/ CreateFails
  <2>1. /\ pc \in Unstarted /\ pc \in Loop /\ index' = index + 1
        /\ spawned' = spawned /\ Name(index) \in CheckName
    BY <1>8, PlanIsSequence DEF DependencyUnavailable, CreateFails, Unstarted, Loop, InCheck,
       TypeParts, IndexPart
  <2>2. index \notin spawned'
    BY <2>1 DEF AtHandInv, StartedInv
  <2>3. PICK e \in CheckError \ {NotRun} : checks' = Append(checks, CheckFailure(Name(index), e))
    BY <1>8 DEF DependencyUnavailable, CreateFails, CheckError, NotRun
  <2>4. /\ CheckFailure(Name(index), e) \in Observation
        /\ CheckFailure(Name(index), e).error = e
    BY <2>1, FailureIsObservation DEF CheckFailure
  <2>5. QED
    BY <1>7, <2>1, <2>2, <2>3, <2>4
<1>9. CASE ConcludeCheck
  <2>1. /\ pc = "conclude" /\ index' = index + 1 /\ UNCHANGED <<spawned, retained>>
        /\ checks' = Append(checks, Concluded) /\ unwinding = "none"
    BY <1>9 DEF ConcludeCheck
  <2>2. Concluded \in Observation /\ KeepsConcluded
    BY <2>1, ConcludedIsKept
  <2>3. QED
    BY <1>7, <2>1, <2>2 DEF KeepsConcluded, Loop, InCheck
<1>10. CASE NothingPrepared \/ ChecksDone \/ ConcludeWithoutEnvironment \/ ConcludeIdentityLost
  BY <1>10 DEF NothingPrepared, ChecksDone, ConcludeWithoutEnvironment, ConcludeIdentityLost,
     EnterFinally, LoopInv, Loop, InCheck
<1>11. QED
  BY <1>6, <1>8, <1>9, <1>10, ControlFrame DEF ControlKept

LEMMA StepOver ==
  ASSUME plan \in Plans, TypeParts, AtHandInv, LoopInv, OverInv, [Next]_vars
  PROVE  OverInv'
<1> USE DEF setupVars, checkVars, resultVars, historyVars
<1>1. /\ index \in 1 .. Last + 1 /\ checks \in Seq(Observation) /\ Last' = Last /\ Last \in Nat
      /\ spawned \subseteq 1 .. Last
  BY PlanIsSequence, StepPlan DEF TypeParts, IndexPart, ChecksPart, HistoryPart
<1>2. PICK n \in Nat : n = index - 1 /\ n <= Last /\ index = n + 1
  BY <1>1
<1>3. CASE /\ UNCHANGED <<checks, index>>
           /\ pc' \in Over /\ unwinding' # "other" =>
                pc \in Over /\ unwinding # "other" /\ spawned' = spawned /\ retained' = retained
  <2> SUFFICES ASSUME pc' \in Over, unwinding' # "other"
               PROVE  OverInv'
    BY DEF OverInv
  <2>1. PICK m \in 0 .. Last : KeptUpTo(m) /\ GivenUpAfter(m)
    BY <1>3 DEF OverInv
  <2>2. KeptUpTo(m)' /\ GivenUpAfter(m)'
    BY <1>1, <1>3, <2>1 DEF KeptUpTo, GivenUpAfter, Kept, GivenUp
  <2>3. Len(checks') = Last
    BY <1>3 DEF OverInv
  <2>4. QED
    BY <1>1, <2>2, <2>3 DEF OverInv
<1>4. ASSUME NEW m \in Nat, m <= Last, NEW s \in Seq(Observation), Len(s) = m,
             checks' = s \o UnavailableFrom(m + 1), spawned' = spawned, retained' = retained,
             \A k \in m + 1 .. Last : k \notin spawned,
             \A k \in 1 .. m : /\ s[k].error # NotRun
                               /\ k \in spawned => s[k].processes > 0
                               /\ k \in spawned \cap retained => s[k].error = "cleanup_failed"
      PROVE  OverInv'
  <2>1. /\ Len(checks') = Last
        /\ \A k \in 1 .. m : checks'[k] = s[k]
        /\ \A k \in m + 1 .. Last : checks'[k] = Unavailable(k)
    BY <1>4, Extended
  <2>2. KeptUpTo(m)'
    BY <1>4, <2>1 DEF KeptUpTo, Kept
  <2>3. \A k : Unavailable(k).error = NotRun
    BY DEF Unavailable, CheckFailure, NotRun
  <2>4. GivenUpAfter(m)'
    BY <1>1, <1>4, <2>1, <2>3 DEF GivenUpAfter, GivenUp
  <2>5. m \in 0 .. Last'
    BY <1>1, <1>4
  <2>6. QED
    BY <1>1, <2>1, <2>2, <2>4, <2>5 DEF OverInv
<1>5. CASE NothingPrepared
  <2>1. index = 1 /\ index \notin spawned /\ \A i \in spawned : i <= index
    BY <1>5 DEF NothingPrepared, TypeParts, IndexPart, AtHandInv, StartedInv, AheadInv, Early
  <2>2. spawned = {}
    BY <1>1, <2>1
  <2>3. Last \in Int /\ checks' = [i \in 1 .. Last |-> Unavailable(i)] /\ spawned' = spawned
    BY <1>1, <1>5 DEF NothingPrepared
  <2>4. \A i \in 1 .. Last : checks'[i].error = NotRun
    BY <2>3 DEF Unavailable, CheckFailure, NotRun
  <2>5. Len(checks') = Last
    <3>1. \A i \in 1 .. Last : Unavailable(i) \in Observation
      BY PlanIsSequence, FailureIsObservation DEF Unavailable, CheckError
    <3>2. checks' \in [1 .. Last -> Observation]
      BY <2>3, <3>1
    <3>3. QED
      BY <3>2, <1>1, SegmentIsSequence
  <2>6. KeptUpTo(0)' /\ GivenUpAfter(0)'
    BY <1>1, <2>2, <2>3, <2>4 DEF KeptUpTo, GivenUpAfter, GivenUp
  <2>7. 0 \in 0 .. Last'
    BY <1>1
  <2>8. QED
    BY <1>1, <2>5, <2>6, <2>7 DEF OverInv
<1>6. CASE ChecksDone
  <2>1. Len(checks) = n /\ KeptUpTo(n) /\ n = Last
    BY <1>1, <1>2, <1>6 DEF ChecksDone, LoopInv, Loop
  <2>2. checks' = checks /\ spawned' = spawned /\ retained' = retained
    BY <1>6 DEF ChecksDone
  <2>3. KeptUpTo(n)' /\ GivenUpAfter(n)'
    BY <1>1, <2>1, <2>2 DEF KeptUpTo, Kept, GivenUpAfter
  <2>4. QED
    BY <1>1, <2>1, <2>2, <2>3 DEF OverInv
<1>7. CASE ConcludeIdentityLost
  <2>1. /\ checks' = checks \o UnavailableFrom(index) /\ UNCHANGED <<spawned, retained>>
        /\ pc = "conclude" /\ unwinding = "identity"
    BY <1>7 DEF ConcludeIdentityLost
  <2>2. index \notin spawned /\ \A i \in spawned : i <= index
    BY <2>1 DEF AtHandInv, StartedInv, AheadInv, Loop, InCheck
  <2>3. Len(checks) = n /\ KeptUpTo(n)
    BY <1>2, <2>1 DEF LoopInv, Loop, InCheck
  <2>4. \A k \in n + 1 .. Last : k \notin spawned
    BY <1>1, <1>2, <2>2
  <2>5. QED
    BY <1>1, <1>2, <1>4, <2>1, <2>3, <2>4 DEF KeptUpTo, Kept
<1>8. CASE ConcludeWithoutEnvironment
  <2>1. /\ checks' = Append(checks, Concluded) \o UnavailableFrom(index + 1)
        /\ UNCHANGED <<spawned, retained>> /\ pc = "conclude" /\ unwinding = "none"
    BY <1>8 DEF ConcludeWithoutEnvironment
  <2>2. Concluded \in Observation /\ KeepsConcluded
    BY <2>1, ConcludedIsKept
  <2>3. Len(checks) = n /\ KeptUpTo(n)
    BY <1>2, <2>1 DEF LoopInv, Loop, InCheck
  <2>4. /\ Append(checks, Concluded) \in Seq(Observation) /\ Len(Append(checks, Concluded)) = n + 1
        /\ \A k \in 1 .. n : Append(checks, Concluded)[k] = checks[k]
        /\ Append(checks, Concluded)[n + 1] = Concluded
    BY <1>1, <2>2, <2>3, Appended
  <2>5. index \in 1 .. Last /\ \A i \in spawned : i <= index
    BY <2>1 DEF AtHandInv, AheadInv, Loop, InCheck, TypeParts, IndexPart
  <2>6. n + 1 \in Nat /\ n + 1 <= Last /\ index + 1 = n + 1 + 1
    BY <1>1, <1>2, <2>5
  <2>7. \A k \in n + 1 + 1 .. Last : k \notin spawned
    BY <1>1, <1>2, <2>5
  <2>8. \A k \in 1 .. n + 1 : k \in 1 .. n \/ k = n + 1
    OBVIOUS
  <2>9. \A k \in 1 .. n + 1 :
          /\ Append(checks, Concluded)[k].error # NotRun
          /\ k \in spawned => Append(checks, Concluded)[k].processes > 0
          /\ k \in spawned \cap retained => Append(checks, Concluded)[k].error = "cleanup_failed"
    BY <1>2, <2>2, <2>3, <2>4, <2>8 DEF KeptUpTo, Kept, KeepsConcluded
  <2>10. QED
    BY <1>4, <2>1, <2>4, <2>6, <2>7, <2>9
<1>9. CASE DependencyUnavailable \/ CreateFails \/ ConcludeCheck
  BY <1>9 DEF DependencyUnavailable, CreateFails, ConcludeCheck, OverInv, Over, Verification,
     Ending
<1>10. QED
  BY <1>3, <1>5, <1>6, <1>7, <1>8, <1>9, ControlFrame DEF ControlKept

LEMMA StepFindings ==
  ASSUME plan \in Plans, TypeParts, AtHandInv, LoopInv, FindingsHaveStarted, [Next]_vars
  PROVE  FindingsHaveStarted'
<1> USE DEF resultVars, historyVars
<1>1. /\ index \in 1 .. Last + 1 /\ checks \in Seq(Observation) /\ Last \in Nat
      /\ inner \subseteq inner'
  BY PlanIsSequence, HistoryFrame DEF RecordsGrow, TypeParts, IndexPart, ChecksPart
<1>2. PICK n \in Nat : n = Len(checks)
  BY <1>1, LenProperties
<1>3. CASE UNCHANGED <<checks, index>>
  BY <1>1, <1>3 DEF FindingsHaveStarted
<1>4. pc \in Loop => n = index - 1 /\ n <= Last /\ index = n + 1
  BY <1>1, <1>2 DEF LoopInv
<1>5. ASSUME NEW o \in Observation, checks' = Append(checks, o), pc \in Loop,
             o.error = "none" => index \in inner'
      PROVE  FindingsHaveStarted'
  <2>1. /\ Len(checks') = n + 1 /\ checks'[n + 1] = o
        /\ \A i \in 1 .. n : checks'[i] = checks[i]
    BY <1>1, <1>2, <1>5, Appended
  <2>2. \A i \in 1 .. n + 1 : i \in 1 .. n \/ i = n + 1
    OBVIOUS
  <2>3. QED
    BY <1>1, <1>2, <1>4, <1>5, <2>1, <2>2 DEF FindingsHaveStarted
<1>6. ASSUME NEW m \in Nat, m <= Last, NEW s \in Seq(Observation), Len(s) = m,
             checks' = s \o UnavailableFrom(m + 1),
             \A k \in 1 .. m : s[k].error = "none" => k \in inner'
      PROVE  FindingsHaveStarted'
  <2>1. /\ Len(checks') = Last
        /\ \A k \in 1 .. m : checks'[k] = s[k]
        /\ \A k \in m + 1 .. Last : checks'[k] = Unavailable(k)
    BY <1>6, Extended
  <2>2. \A k : Unavailable(k).error # "none"
    BY DEF Unavailable, CheckFailure
  <2>3. \A k \in 1 .. Last : k \in 1 .. m \/ k \in m + 1 .. Last
    BY <1>1, <1>6
  <2>4. QED
    BY <1>6, <2>1, <2>2, <2>3 DEF FindingsHaveStarted
<1>7. CASE NothingPrepared
  <2>1. \A k \in 1 .. Last : Unavailable(k) \in Observation /\ Unavailable(k).error # "none"
    BY PlanIsSequence, FailureIsObservation DEF Unavailable, CheckFailure, CheckError
  <2>2. checks' = [i \in 1 .. Last |-> Unavailable(i)]
    BY <1>7 DEF NothingPrepared
  <2>3. Len(checks') = Last
    BY <1>1, <2>1, <2>2, SegmentIsSequence
  <2>4. QED
    BY <2>1, <2>2, <2>3 DEF FindingsHaveStarted
<1>8. CASE DependencyUnavailable \/ CreateFails
  <2>1. pc \in Loop /\ Name(index) \in CheckName
    BY <1>8, PlanIsSequence DEF DependencyUnavailable, CreateFails, Loop, InCheck, TypeParts,
       IndexPart
  <2>2. PICK e \in CheckError \ {"none"} : checks' = Append(checks, CheckFailure(Name(index), e))
    BY <1>8 DEF DependencyUnavailable, CreateFails, CheckError
  <2>3. /\ CheckFailure(Name(index), e) \in Observation
        /\ CheckFailure(Name(index), e).error = e
    BY <2>1, FailureIsObservation DEF CheckFailure
  <2>4. QED
    BY <1>5, <2>1, <2>2, <2>3
<1>9. ASSUME pc = "conclude", unwinding = "none"
      PROVE  Concluded \in Observation /\ (Concluded.error = "none" => index \in inner')
  BY <1>1, <1>9, ConcludedIsKept DEF KeepsConcluded
<1>10. CASE ConcludeCheck
  <2>1. pc \in Loop /\ pc = "conclude" /\ unwinding = "none" /\ checks' = Append(checks, Concluded)
    BY <1>10 DEF ConcludeCheck, Loop, InCheck
  <2>2. QED
    BY <1>5, <1>9, <2>1
<1>11. CASE ConcludeIdentityLost
  <2>1. pc \in Loop /\ checks' = checks \o UnavailableFrom(index)
    BY <1>11 DEF ConcludeIdentityLost, Loop, InCheck
  <2>2. \A k \in 1 .. n : checks[k].error = "none" => k \in inner'
    BY <1>1, <1>2 DEF FindingsHaveStarted
  <2>3. QED
    BY <1>1, <1>2, <1>4, <1>6, <2>1, <2>2
<1>12. CASE ConcludeWithoutEnvironment
  <2>1. /\ pc \in Loop /\ pc = "conclude" /\ unwinding = "none"
        /\ checks' = Append(checks, Concluded) \o UnavailableFrom(index + 1)
    BY <1>12 DEF ConcludeWithoutEnvironment, Loop, InCheck
  <2>2. Concluded \in Observation /\ (Concluded.error = "none" => index \in inner')
    BY <1>9, <2>1
  <2>3. /\ Append(checks, Concluded) \in Seq(Observation) /\ Len(Append(checks, Concluded)) = n + 1
        /\ \A k \in 1 .. n : Append(checks, Concluded)[k] = checks[k]
        /\ Append(checks, Concluded)[n + 1] = Concluded
    BY <1>1, <1>2, <2>2, Appended
  <2>4. index \in 1 .. Last
    BY <2>1 DEF InCheck, TypeParts, IndexPart
  <2>5. n + 1 \in Nat /\ n + 1 <= Last /\ index + 1 = n + 1 + 1 /\ index = n + 1
    BY <1>1, <1>4, <2>1, <2>4
  <2>6. \A k \in 1 .. n + 1 : k \in 1 .. n \/ k = n + 1
    OBVIOUS
  <2>7. \A k \in 1 .. n + 1 : Append(checks, Concluded)[k].error = "none" => k \in inner'
    BY <1>1, <1>2, <2>2, <2>3, <2>5, <2>6 DEF FindingsHaveStarted
  <2>8. QED
    BY <1>6, <2>1, <2>3, <2>5, <2>7
<1>13. CASE ChecksDone
  BY <1>3, <1>13 DEF ChecksDone
<1>14. QED
  BY <1>3, <1>7, <1>8, <1>10, <1>11, <1>12, <1>13, ControlFrame DEF ControlKept

LEMMA InitEvidenceInv == Init => EvidenceInv
<1> SUFFICES ASSUME Init
             PROVE  EvidenceInv
  OBVIOUS
<1>1. AtHandInv
  BY DEF Init, AtHandInv, UnwindingInv, ObservedInv, StartedInv, RetainedInv, AheadInv, InCheck,
     Unstarted
<1>2. LoopInv /\ OverInv
  BY DEF Init, LoopInv, OverInv, Loop, InCheck, Over, Verification, Ending
<1>3. Len(checks) = 0
  BY EmptySeq DEF Init
<1>4. FindingsHaveStarted
  BY <1>3 DEF FindingsHaveStarted
<1>5. QED
  BY <1>1, <1>2, <1>4 DEF EvidenceInv

LEMMA StepEvidenceInv == TypeParts /\ EvidenceInv /\ [Next]_vars => EvidenceInv'
<1> SUFFICES ASSUME TypeParts, EvidenceInv, [Next]_vars
             PROVE  EvidenceInv'
  OBVIOUS
<1>1. AtHandInv'
  BY StepUnwinding, StepObserved, StepStarted, StepRetained, StepAhead DEF EvidenceInv,
     AtHandInv, TypeParts
<1>2. LoopInv' /\ OverInv' /\ FindingsHaveStarted'
  BY StepLoop, StepOver, StepFindings DEF EvidenceInv, TypeParts
<1>3. QED
  BY <1>1, <1>2 DEF EvidenceInv

LEMMA AlwaysEvidenceInv == Spec => []EvidenceInv
BY AlwaysTypeParts, InitEvidenceInv, StepEvidenceInv, PTL DEF Spec

(* A run that returned has kept what was recorded of every Check, up to    *)
(* where it gave up.                                                       *)
LEMMA ReturnedIsOver ==
  ASSUME EvidenceInv, Returned
  PROVE  \E n \in 0 .. Last : KeptUpTo(n) /\ GivenUpAfter(n)
BY DEF EvidenceInv, OverInv, Returned, Over, Ending

(* No Check's findings are those of an outer uv that failed, and the       *)
(* evidence of a process that was started is never dropped for the sake of *)
(* what is lost later.                                                     *)
THEOREM EvidenceOfChecks == Spec => []EvidenceIsKept
<1>1. ASSUME TypeParts, EvidenceInv
      PROVE  EvidenceIsKept
  <2> SUFFICES ASSUME Returned, NEW i \in 1 .. Last
               PROVE  /\ i \in spawned => checks[i].processes > 0
                      /\ checks[i].error = NotRun =>
                           \A j \in i .. Last : j \notin spawned /\ checks[j].error = NotRun
    BY <1>1 DEF EvidenceIsKept, AttemptedEvidenceIsKept, EvidenceInv, NotRun
  <2>1. PICK n \in 0 .. Last : KeptUpTo(n) /\ GivenUpAfter(n)
    BY <1>1, ReturnedIsOver
  <2>2. Last \in Nat
    BY <1>1, PlanIsSequence DEF TypeParts
  <2>3. \A j \in 1 .. Last : j \in 1 .. n \/ j \in n + 1 .. Last
    BY <2>2
  <2>4. CASE i \in 1 .. n
    BY <2>1, <2>4 DEF KeptUpTo, Kept
  <2>5. CASE i \in n + 1 .. Last
    <3>1. \A j \in i .. Last : j \in n + 1 .. Last
      BY <2>2, <2>5
    <3>2. QED
      BY <2>1, <2>5, <3>1 DEF GivenUpAfter, GivenUp
  <2>6. QED
    BY <2>3, <2>4, <2>5
<1>2. QED
  BY <1>1, AlwaysTypeParts, AlwaysEvidenceInv, PTL

(* No way out of a Check leaves its workspace open; one that stays behind  *)
(* after its process was started is reported.                              *)
THEOREM WorkspacesAreAccountedFor == Spec => []WorkspaceIsAccountedFor
<1>1. WorkspaceInv => WorkspaceIsReleased
  BY DEF WorkspaceInv, WorkspaceIsReleased, InCheck, Verification, Ending
<1>2. ASSUME TypeParts, EvidenceInv
      PROVE  RetainedAfterProcessIsReported
  <2> SUFFICES ASSUME Returned, NEW i \in retained \cap spawned
               PROVE  checks[i].error = "cleanup_failed"
    BY DEF RetainedAfterProcessIsReported
  <2>1. PICK n \in 0 .. Last : KeptUpTo(n) /\ GivenUpAfter(n)
    BY <1>2, ReturnedIsOver
  <2>2. Last \in Nat /\ i \in 1 .. Last
    BY <1>2, PlanIsSequence DEF TypeParts, HistoryPart
  <2>3. i \in 1 .. n \/ i \in n + 1 .. Last
    BY <2>2
  <2>4. QED
    BY <2>1, <2>3 DEF KeptUpTo, Kept, GivenUpAfter, GivenUp
<1>3. QED
  BY <1>1, <1>2, AlwaysWorkspaceInv, AlwaysTypeParts, AlwaysEvidenceInv, PTL
     DEF WorkspaceIsAccountedFor

-----------------------------------------------------------------------------
(* What is recorded of a Check is its own.  RepositoryRun implements       *)
(* RunContract: every planned Check is observed once, in the order of the  *)
(* plan, and a run that reports has them all; and no Check is held back by *)
(* what happens to another.                                                *)

(* What is recorded carries the name of its Check, and a dependency that   *)
(* is missing is the one this Check needs.                                 *)
OwnAtHand ==
  pc \in InCheck /\ observation # NoObservation =>
    /\ observation.name = Name(index)
    /\ observation.error = "dependency" => ~Available(Name(index))
Own(o, i) == o.name = Name(i) /\ (o.error = "dependency" => ~Available(Name(i)))
OwnInv == \A i \in 1 .. Len(checks) : Own(checks[i], i)

(* Only the probes change what is known of the dependencies, only a Check  *)
(* that has its own is started, and no error of the repository is undone.  *)
ProbesKept ==
  /\ \/ UNCHANGED dependency
     \/ pc = "probe" /\ pc' \in {"probe", "unavailable"} /\ UNCHANGED <<checks, spawned>>
  /\ \/ spawned' = spawned
     \/ spawned' = spawned \cup {index} /\ Available(Name(index))
  /\ repoError' = "none" => repoError = "none"

(* The run ends with the step that says so.                                *)
StatusKept ==
  \/ Finish
  \/ pc # "returned" /\ pc' # "returned"
  \/ UNCHANGED <<pc, unwinding>>

LEMMA StepOwnAtHand ==
  ASSUME ObservationPart, OwnAtHand, [Next]_vars
  PROVE  OwnAtHand'
<1> USE DEF repoVars, setupVars, checkVars, resultVars, historyVars
<1>1. ASSUME NEW h \in Helper, HelperReplaced(h) \/ HelperRestored(h)
      PROVE  OwnAtHand'
  BY <1>1 DEF HelperReplaced, HelperRestored, Disturb, OwnAtHand, InCheck, Verification, Ending,
     Name, Available
<1>2. ASSUME NEW p \in Part, Mutate(p) \/ Restore(p)
      PROVE  OwnAtHand'
  BY <1>2 DEF Mutate, Restore, Disturb, OwnAtHand, InCheck, Verification, Ending, Name, Available
<1>3. CASE LockPresent \/ LockAbsent \/ BaselineFails \/ CaptureProtected \/ CaptureTracked \/
              Prepare \/ PreparationFails \/ Probed \/ ProbeLosesHelper \/ NothingPrepared
  BY <1>3 DEF LockPresent, LockAbsent, BaselineFails, CaptureProtected, CaptureTracked, Prepare,
     PreparationFails, Probed, ProbeLosesHelper, NothingPrepared, GiveUpPreparation,
     EnterFinally, OwnAtHand, InCheck, Verification, Ending, Name, Available
<1>4. ASSUME NEW d \in DependencyName, ProbeDependency(d)
      PROVE  OwnAtHand'
  BY <1>4 DEF ProbeDependency, OwnAtHand, InCheck, Verification, Ending, Name, Available
<1>5. CASE DependencyUnavailable \/ CreateFails \/ BeginCheck \/ ChecksDone
  BY <1>5 DEF DependencyUnavailable, CreateFails, BeginCheck, ChecksDone, EnterFinally,
     OwnAtHand, InCheck, Verification, Ending, Name, Available
<1>6. CASE CreateWorkspace \/ OpenWorkspace \/ StageLauncher \/ SetupFails \/ NotStarted
  <2>1. pc \in InCheck /\ index' = index /\ Name(index)' = Name(index)
        /\ Available(Name(index))' = Available(Name(index))
    BY <1>6 DEF CreateWorkspace, OpenWorkspace, StageLauncher, SetupFails, NotStarted, InCheck,
       Name, Available
  <2>2. CASE SetupFails \/ NotStarted
    <3>1. \A c, e : CheckFailure(c, e).name = c /\ CheckFailure(c, e).error = e
      BY DEF CheckFailure
    <3>2. \/ observation' = observation
          \/ observation'.name = Name(index) /\ observation'.error # "dependency"
          \/ observation'.name = Name(index) /\ ~Available(Name(index))
      BY <2>2, <3>1 DEF SetupFails, NotStarted
    <3>3. QED
      BY <2>1, <3>2 DEF OwnAtHand
  <2>3. CASE UNCHANGED observation
    BY <2>1, <2>3 DEF OwnAtHand
  <2>4. QED
    BY <1>6, <2>2, <2>3 DEF CreateWorkspace, OpenWorkspace, StageLauncher
<1>7. CASE LaunchLosesHelper \/ Launch \/ InnerStarts \/ Interrupt
  BY <1>7 DEF LaunchLosesHelper, Launch, InnerStarts, Interrupt, OwnAtHand, InCheck,
     Verification, Ending, Name, Available
<1>8. CASE ProcessEnds \/ CoverageJson \/ CoverageLosesHelper
  <2>1. pc \in InCheck /\ index' = index /\ Name(index)' = Name(index)
        /\ Available(Name(index))' = Available(Name(index))
    BY <1>8 DEF ProcessEnds, CoverageJson, CoverageLosesHelper, InCheck, Name, Available
  <2>2. CASE ProcessEnds
    <3>1. \A rc : Classify(rc) # "dependency"
      BY DEF Classify
    <3>2. observation'.name = Name(index) /\ observation'.error # "dependency"
      <4>1. \/ observation' = Observed(FALSE, "spawn_failed")
            \/ observation' = Observed(FALSE, "check_start_evidence_invalid")
            \/ \E rc : observation' = Observed(TRUE, Classify(rc))
        BY <2>2 DEF ProcessEnds
      <4>2. /\ Observed(FALSE, "spawn_failed").name = Name(index)
            /\ Observed(FALSE, "spawn_failed").error = "spawn_failed"
            /\ Observed(FALSE, "check_start_evidence_invalid").name = Name(index)
            /\ Observed(FALSE, "check_start_evidence_invalid").error = "check_start_evidence_invalid"
            /\ \A rc : Observed(TRUE, Classify(rc)).name = Name(index)
            /\ \A rc : Observed(TRUE, Classify(rc)).error = Classify(rc)
        BY DEF Observed
      <4>3. QED
        BY <3>1, <4>1, <4>2
    <3>3. QED
      BY <2>1, <3>2 DEF OwnAtHand
  <2>3. CASE CoverageJson \/ CoverageLosesHelper
    <3>1. observation \in Observation
      BY <2>3 DEF CoverageJson, CoverageLosesHelper, ObservationPart
    <3>2. \A o \in {[observation EXCEPT !.processes = 2],
                    [observation EXCEPT !.environmentError = TRUE]} :
            o.name = observation.name /\ o.error = observation.error
      BY <3>1 DEF Observation
    <3>3. observation # NoObservation
      BY <3>1 DEF Observation, NoObservation
    <3>4. observation'.name = observation.name /\ observation'.error = observation.error
      BY <2>3, <3>2 DEF CoverageJson, CoverageLosesHelper
    <3>5. QED
      BY <2>1, <3>3, <3>4 DEF OwnAtHand
  <2>4. QED
    BY <1>8, <2>2, <2>3
<1>9. CASE CloseWorkspace \/ RemoveWorkspace
  BY <1>9 DEF CloseWorkspace, RemoveWorkspace, OwnAtHand, InCheck, Verification, Ending, Name,
     Available
<1>10. CASE ConcludeCheck \/ ConcludeWithoutEnvironment \/ ConcludeIdentityLost \/ ConcludeRaised
  BY <1>10 DEF ConcludeCheck, ConcludeWithoutEnvironment, ConcludeIdentityLost, ConcludeRaised,
     EnterFinally, OwnAtHand, InCheck, Verification, Ending, Name, Available
<1>11. CASE VerifyProtected \/ VerifyTarget \/ VerifyElsewhere \/ VerificationFails \/ Compare \/
              Finish
  BY <1>11 DEF VerifyProtected, VerifyTarget, VerifyElsewhere, VerificationFails, Compare,
     Finish, OwnAtHand, InCheck, Verification, Ending, Name, Available
<1>12. CASE UNCHANGED vars
  BY <1>12 DEF vars, OwnAtHand, InCheck, Verification, Ending, Name, Available
<1>13. QED
  BY <1>1, <1>2, <1>3, <1>4, <1>5, <1>6, <1>7, <1>8, <1>9, <1>10, <1>11, <1>12 DEF Next,
     Controller, World

LEMMA StatusFrame ==
  ASSUME ControlPart, [Next]_vars
  PROVE  StatusKept
<1> USE DEF repoVars, setupVars, checkVars, resultVars, historyVars
<1>1. ASSUME NEW h \in Helper, HelperReplaced(h) \/ HelperRestored(h)
      PROVE  StatusKept
  BY <1>1 DEF HelperReplaced, HelperRestored, Disturb, StatusKept
<1>2. ASSUME NEW p \in Part, Mutate(p) \/ Restore(p)
      PROVE  StatusKept
  BY <1>2 DEF Mutate, Restore, Disturb, StatusKept
<1>3. CASE LockPresent \/ LockAbsent \/ BaselineFails \/ CaptureProtected \/ CaptureTracked \/
              Prepare \/ PreparationFails \/ Probed \/ ProbeLosesHelper \/ NothingPrepared
  BY <1>3 DEF LockPresent, LockAbsent, BaselineFails, CaptureProtected, CaptureTracked, Prepare,
     PreparationFails, Probed, ProbeLosesHelper, NothingPrepared, GiveUpPreparation,
     EnterFinally, StatusKept
<1>4. ASSUME NEW d \in DependencyName, ProbeDependency(d)
      PROVE  StatusKept
  BY <1>4 DEF ProbeDependency, StatusKept
<1>5. CASE DependencyUnavailable \/ CreateFails \/ BeginCheck \/ ChecksDone
  BY <1>5 DEF DependencyUnavailable, CreateFails, BeginCheck, ChecksDone, EnterFinally,
     StatusKept
<1>6. CASE CreateWorkspace \/ OpenWorkspace \/ StageLauncher \/ SetupFails \/ NotStarted
  BY <1>6 DEF CreateWorkspace, OpenWorkspace, StageLauncher, SetupFails, NotStarted, StatusKept
<1>7. CASE LaunchLosesHelper \/ Launch \/ InnerStarts \/ Interrupt
  BY <1>7 DEF LaunchLosesHelper, Launch, InnerStarts, Interrupt, StatusKept
<1>8. CASE ProcessEnds \/ CoverageJson \/ CoverageLosesHelper
  BY <1>8 DEF ProcessEnds, CoverageJson, CoverageLosesHelper, StatusKept
<1>9. CASE CloseWorkspace \/ RemoveWorkspace
  BY <1>9 DEF CloseWorkspace, RemoveWorkspace, StatusKept
<1>10. CASE ConcludeCheck \/ ConcludeWithoutEnvironment \/ ConcludeIdentityLost \/ ConcludeRaised
  BY <1>10 DEF ConcludeCheck, ConcludeWithoutEnvironment, ConcludeIdentityLost, ConcludeRaised,
     EnterFinally, StatusKept
<1>11. CASE VerifyProtected \/ VerifyTarget \/ VerifyElsewhere \/ VerificationFails \/ Compare \/
              Finish
  BY <1>11 DEF VerifyProtected, VerifyTarget, VerifyElsewhere, VerificationFails, Compare,
     Finish, StatusKept
<1>12. CASE UNCHANGED vars
  BY <1>12 DEF vars, StatusKept
<1>13. QED
  BY <1>1, <1>2, <1>3, <1>4, <1>5, <1>6, <1>7, <1>8, <1>9, <1>10, <1>11, <1>12 DEF Next,
     Controller, World

LEMMA ProbesFrame ==
  ASSUME [Next]_vars
  PROVE  ProbesKept
<1> USE DEF repoVars, setupVars, checkVars, resultVars, historyVars
<1>1. ASSUME NEW h \in Helper, HelperReplaced(h) \/ HelperRestored(h)
      PROVE  ProbesKept
  BY <1>1 DEF HelperReplaced, HelperRestored, Disturb, ProbesKept
<1>2. ASSUME NEW p \in Part, Mutate(p) \/ Restore(p)
      PROVE  ProbesKept
  BY <1>2 DEF Mutate, Restore, Disturb, ProbesKept
<1>3. CASE LockPresent \/ LockAbsent \/ BaselineFails \/ CaptureProtected \/ CaptureTracked \/
              Prepare \/ PreparationFails \/ Probed \/ ProbeLosesHelper \/ NothingPrepared
  BY <1>3 DEF LockPresent, LockAbsent, BaselineFails, CaptureProtected, CaptureTracked, Prepare,
     PreparationFails, Probed, ProbeLosesHelper, NothingPrepared, GiveUpPreparation,
     EnterFinally, ProbesKept
<1>4. ASSUME NEW d \in DependencyName, ProbeDependency(d)
      PROVE  ProbesKept
  BY <1>4 DEF ProbeDependency, ProbesKept
<1>5. CASE DependencyUnavailable \/ CreateFails \/ BeginCheck \/ ChecksDone
  BY <1>5 DEF DependencyUnavailable, CreateFails, BeginCheck, ChecksDone, EnterFinally,
     ProbesKept
<1>6. CASE CreateWorkspace \/ OpenWorkspace \/ StageLauncher \/ SetupFails \/ NotStarted
  BY <1>6 DEF CreateWorkspace, OpenWorkspace, StageLauncher, SetupFails, NotStarted, ProbesKept
<1>7. CASE LaunchLosesHelper \/ Launch \/ InnerStarts \/ Interrupt
  BY <1>7 DEF LaunchLosesHelper, Launch, InnerStarts, Interrupt, ProbesKept
<1>8. CASE ProcessEnds \/ CoverageJson \/ CoverageLosesHelper
  BY <1>8 DEF ProcessEnds, CoverageJson, CoverageLosesHelper, ProbesKept
<1>9. CASE CloseWorkspace \/ RemoveWorkspace
  BY <1>9 DEF CloseWorkspace, RemoveWorkspace, ProbesKept
<1>10. CASE ConcludeCheck \/ ConcludeWithoutEnvironment \/ ConcludeIdentityLost \/ ConcludeRaised
  BY <1>10 DEF ConcludeCheck, ConcludeWithoutEnvironment, ConcludeIdentityLost, ConcludeRaised,
     EnterFinally, ProbesKept
<1>11. CASE VerifyProtected \/ VerifyTarget \/ VerifyElsewhere \/ VerificationFails \/ Compare \/
              Finish
  BY <1>11 DEF VerifyProtected, VerifyTarget, VerifyElsewhere, VerificationFails, Compare,
     Finish, ProbesKept
<1>12. CASE UNCHANGED vars
  BY <1>12 DEF vars, ProbesKept
<1>13. QED
  BY <1>1, <1>2, <1>3, <1>4, <1>5, <1>6, <1>7, <1>8, <1>9, <1>10, <1>11, <1>12 DEF Next,
     Controller, World

(* Without a prepared environment the error is there before the result.    *)
GivenUpInv == pc = "unavailable" => repoError = "environment"

LEMMA StepGivenUp ==
  ASSUME GivenUpInv, [Next]_vars
  PROVE  GivenUpInv'
<1> USE DEF repoVars, setupVars, checkVars, resultVars, historyVars
<1>1. ASSUME NEW h \in Helper, HelperReplaced(h) \/ HelperRestored(h)
      PROVE  GivenUpInv'
  BY <1>1 DEF HelperReplaced, HelperRestored, Disturb, GivenUpInv
<1>2. ASSUME NEW p \in Part, Mutate(p) \/ Restore(p)
      PROVE  GivenUpInv'
  BY <1>2 DEF Mutate, Restore, Disturb, GivenUpInv
<1>3. CASE LockPresent \/ LockAbsent \/ BaselineFails \/ CaptureProtected \/ CaptureTracked \/
              Prepare \/ PreparationFails \/ Probed \/ ProbeLosesHelper \/ NothingPrepared
  BY <1>3 DEF LockPresent, LockAbsent, BaselineFails, CaptureProtected, CaptureTracked, Prepare,
     PreparationFails, Probed, ProbeLosesHelper, NothingPrepared, GiveUpPreparation,
     EnterFinally, GivenUpInv
<1>4. ASSUME NEW d \in DependencyName, ProbeDependency(d)
      PROVE  GivenUpInv'
  BY <1>4 DEF ProbeDependency, GivenUpInv
<1>5. CASE DependencyUnavailable \/ CreateFails \/ BeginCheck \/ ChecksDone
  BY <1>5 DEF DependencyUnavailable, CreateFails, BeginCheck, ChecksDone, EnterFinally,
     GivenUpInv
<1>6. CASE CreateWorkspace \/ OpenWorkspace \/ StageLauncher \/ SetupFails \/ NotStarted
  BY <1>6 DEF CreateWorkspace, OpenWorkspace, StageLauncher, SetupFails, NotStarted, GivenUpInv
<1>7. CASE LaunchLosesHelper \/ Launch \/ InnerStarts \/ Interrupt
  BY <1>7 DEF LaunchLosesHelper, Launch, InnerStarts, Interrupt, GivenUpInv
<1>8. CASE ProcessEnds \/ CoverageJson \/ CoverageLosesHelper
  BY <1>8 DEF ProcessEnds, CoverageJson, CoverageLosesHelper, GivenUpInv
<1>9. CASE CloseWorkspace \/ RemoveWorkspace
  BY <1>9 DEF CloseWorkspace, RemoveWorkspace, GivenUpInv
<1>10. CASE ConcludeCheck \/ ConcludeWithoutEnvironment \/ ConcludeIdentityLost \/ ConcludeRaised
  BY <1>10 DEF ConcludeCheck, ConcludeWithoutEnvironment, ConcludeIdentityLost, ConcludeRaised,
     EnterFinally, GivenUpInv
<1>11. CASE VerifyProtected \/ VerifyTarget \/ VerifyElsewhere \/ VerificationFails \/ Compare \/
              Finish
  BY <1>11 DEF VerifyProtected, VerifyTarget, VerifyElsewhere, VerificationFails, Compare,
     Finish, GivenUpInv
<1>12. CASE UNCHANGED vars
  BY <1>12 DEF vars, GivenUpInv
<1>13. QED
  BY <1>1, <1>2, <1>3, <1>4, <1>5, <1>6, <1>7, <1>8, <1>9, <1>10, <1>11, <1>12 DEF Next,
     Controller, World

(* So is what is concluded of a Check.                                     *)
LEMMA ConcludedIsOwn ==
  ASSUME TypeParts, OwnAtHand, pc = "conclude"
  PROVE  Own(Concluded, index)
<1>1. CASE observation = NoObservation
  BY <1>1 DEF Concluded, CheckFailure, Own
<1>2. CASE observation # NoObservation
  <2>1. observation \in Observation /\ Own(observation, index)
    BY <1>2 DEF TypeParts, ObservationPart, OwnAtHand, InCheck, Own
  <2>2. /\ [observation EXCEPT !.error = "cleanup_failed"].name = observation.name
        /\ [observation EXCEPT !.error = "cleanup_failed"].error = "cleanup_failed"
    BY <2>1 DEF Observation
  <2>3. QED
    BY <1>2, <2>1, <2>2 DEF Concluded, Own
<1>3. QED
  BY <1>1, <1>2

LEMMA StepOwn ==
  ASSUME plan \in Plans, TypeParts, EvidenceInv, OwnAtHand, OwnInv, [Next]_vars
  PROVE  OwnInv'
<1>1. /\ index \in 1 .. Last + 1 /\ checks \in Seq(Observation) /\ Last \in Nat
  BY PlanIsSequence DEF TypeParts, IndexPart, ChecksPart
<1>2. PICK n \in Nat : n = Len(checks)
  BY <1>1, LenProperties
<1>a. CASE dependency' # dependency
  <2>1. checks' = << >>
    BY <1>a, ProbesFrame DEF ProbesKept, TypeParts, ChecksPart, Early
  <2>2. QED
    BY <2>1, EmptySeq DEF OwnInv
<1> SUFFICES ASSUME dependency' = dependency
             PROVE  OwnInv'
  BY <1>a
<1>b. \A o, i : Own(o, i)' <=> Own(o, i)
  BY StepPlan DEF TypeParts, Own, Name, Available
<1>3. CASE UNCHANGED <<checks, index>>
  BY <1>b, <1>3 DEF OwnInv
<1>4. pc \in Loop => n = index - 1 /\ n <= Last /\ index = n + 1
  BY <1>1, <1>2 DEF EvidenceInv, LoopInv
<1>5. ASSUME NEW o \in Observation, checks' = Append(checks, o), pc \in Loop, Own(o, index)
      PROVE  OwnInv'
  <2>1. /\ Len(checks') = n + 1 /\ checks'[n + 1] = o
        /\ \A i \in 1 .. n : checks'[i] = checks[i]
    BY <1>1, <1>2, <1>5, Appended
  <2>2. \A i \in 1 .. n + 1 : i \in 1 .. n \/ i = n + 1
    OBVIOUS
  <2>3. QED
    BY <1>1, <1>2, <1>b, <1>4, <1>5, <2>1, <2>2 DEF OwnInv
<1>6. ASSUME NEW m \in Nat, m <= Last, NEW s \in Seq(Observation), Len(s) = m,
             checks' = s \o UnavailableFrom(m + 1),
             \A k \in 1 .. m : Own(s[k], k)
      PROVE  OwnInv'
  <2>1. /\ Len(checks') = Last
        /\ \A k \in 1 .. m : checks'[k] = s[k]
        /\ \A k \in m + 1 .. Last : checks'[k] = Unavailable(k)
    BY <1>6, Extended
  <2>2. \A k : Own(Unavailable(k), k)
    BY DEF Unavailable, CheckFailure, Own
  <2>3. \A k \in 1 .. Last : k \in 1 .. m \/ k \in m + 1 .. Last
    BY <1>1, <1>6
  <2>4. QED
    BY <1>1, <1>b, <1>6, <2>1, <2>2, <2>3 DEF OwnInv
<1>7. CASE NothingPrepared
  <2>1. \A k \in 1 .. Last : Unavailable(k) \in Observation /\ Own(Unavailable(k), k)
    BY PlanIsSequence, FailureIsObservation DEF Unavailable, CheckFailure, CheckError, Own
  <2>2. checks' = [i \in 1 .. Last |-> Unavailable(i)]
    BY <1>7 DEF NothingPrepared
  <2>3. Len(checks') = Last
    BY <1>1, <2>1, <2>2, SegmentIsSequence
  <2>4. QED
    BY <1>1, <1>b, <2>1, <2>2, <2>3 DEF OwnInv
<1>8. CASE DependencyUnavailable \/ CreateFails
  <2>1. pc \in Loop /\ Name(index) \in CheckName
    BY <1>8, PlanIsSequence DEF DependencyUnavailable, CreateFails, Loop, InCheck, TypeParts, IndexPart
  <2>2. PICK e \in CheckError : /\ checks' = Append(checks, CheckFailure(Name(index), e))
                                /\ e = "dependency" => ~Available(Name(index))
    BY <1>8 DEF DependencyUnavailable, CreateFails, CheckError
  <2>3. CheckFailure(Name(index), e) \in Observation /\ Own(CheckFailure(Name(index), e), index)
    BY <2>1, <2>2, FailureIsObservation DEF CheckFailure, Own
  <2>4. QED
    BY <1>5, <2>1, <2>2, <2>3
<1>9. ASSUME pc = "conclude", unwinding = "none"
      PROVE  Concluded \in Observation /\ Own(Concluded, index)
  BY <1>9, ConcludedIsKept, ConcludedIsOwn DEF EvidenceInv
<1>10. CASE ConcludeCheck
  <2>1. pc \in Loop /\ pc = "conclude" /\ unwinding = "none" /\ checks' = Append(checks, Concluded)
    BY <1>10 DEF ConcludeCheck, Loop, InCheck
  <2>2. QED
    BY <1>5, <1>9, <2>1
<1>11. CASE ConcludeIdentityLost
  <2>1. pc \in Loop /\ checks' = checks \o UnavailableFrom(index)
    BY <1>11 DEF ConcludeIdentityLost, Loop, InCheck
  <2>2. \A k \in 1 .. n : Own(checks[k], k)
    BY <1>1, <1>2 DEF OwnInv
  <2>3. QED
    BY <1>1, <1>2, <1>4, <1>6, <2>1, <2>2
<1>12. CASE ConcludeWithoutEnvironment
  <2>1. /\ pc \in Loop /\ pc = "conclude" /\ unwinding = "none"
        /\ checks' = Append(checks, Concluded) \o UnavailableFrom(index + 1)
    BY <1>12 DEF ConcludeWithoutEnvironment, Loop, InCheck
  <2>2. Concluded \in Observation /\ Own(Concluded, index)
    BY <1>9, <2>1
  <2>3. /\ Append(checks, Concluded) \in Seq(Observation) /\ Len(Append(checks, Concluded)) = n + 1
        /\ \A k \in 1 .. n : Append(checks, Concluded)[k] = checks[k]
        /\ Append(checks, Concluded)[n + 1] = Concluded
    BY <1>1, <1>2, <2>2, Appended
  <2>4. index \in 1 .. Last
    BY <2>1 DEF InCheck, TypeParts, IndexPart
  <2>5. n + 1 \in Nat /\ n + 1 <= Last /\ index + 1 = n + 1 + 1 /\ index = n + 1
    BY <1>1, <1>4, <2>1, <2>4
  <2>6. \A k \in 1 .. n + 1 : k \in 1 .. n \/ k = n + 1
    OBVIOUS
  <2>7. \A k \in 1 .. n + 1 : Own(Append(checks, Concluded)[k], k)
    BY <1>1, <1>2, <2>2, <2>3, <2>5, <2>6 DEF OwnInv
  <2>8. QED
    BY <1>6, <2>1, <2>3, <2>5, <2>7
<1>13. CASE ChecksDone
  BY <1>3, <1>13 DEF ChecksDone, resultVars
<1>14. QED
  BY <1>3, <1>7, <1>8, <1>10, <1>11, <1>12, <1>13, ControlFrame DEF ControlKept

Invariant == TypeParts /\ EvidenceInv /\ OwnAtHand /\ OwnInv

LEMMA AlwaysInvariant == Spec => []Invariant
<1>1. Init => OwnAtHand /\ OwnInv
  <2>1. Init => OwnAtHand
    BY DEF Init, OwnAtHand, InCheck
  <2>2. Init => Len(checks) = 0
    BY EmptySeq DEF Init
  <2>3. QED
    BY <2>1, <2>2 DEF OwnInv
<1>2. TypeParts /\ EvidenceInv /\ OwnAtHand /\ OwnInv /\ [Next]_vars => OwnAtHand' /\ OwnInv'
  BY StepOwnAtHand, StepOwn DEF TypeParts
<1>3. QED
  BY <1>1, <1>2, AlwaysTypeParts, AlwaysEvidenceInv, PTL DEF Spec, Invariant

-----------------------------------------------------------------------------
(* The refinement mapping of Contract.                                     *)
Reported == [i \in 1 .. Len(checks) |-> checks[i].name]
Status ==
  IF pc # "returned" THEN "running" ELSE IF unwinding = "other" THEN "raised" ELSE "report"

(* What is reported is the beginning of the plan.                          *)
LEMMA ReportedIsPrefix ==
  TypeParts /\ OwnInv /\ Len(checks) <= Last =>
    Reported = SubSeq(plan.checks, 1, Len(checks)) /\ Len(Reported) = Len(checks)
<1> SUFFICES ASSUME TypeParts, OwnInv, NEW n \in Nat, n = Len(checks), n <= Last
             PROVE  Reported = SubSeq(plan.checks, 1, n) /\ Len(Reported) = n
  BY LenProperties DEF TypeParts, ChecksPart
<1>1. plan.checks \in Seq(CheckName) /\ Last \in Nat /\ \A i \in 1 .. Last : Name(i) \in CheckName
  BY PlanIsSequence, PlansAssumption DEF TypeParts
<1>2. Reported = [i \in 1 .. n |-> plan.checks[i]]
  BY DEF OwnInv, Own, Reported, Name
<1>3. \A i \in 1 .. n : plan.checks[i] \in CheckName
  <2>1. \A i \in 1 .. n : i \in 1 .. Last
    BY <1>1
  <2>2. QED
    BY <1>1, <2>1 DEF Name
<1>4. Reported \in Seq(CheckName) /\ Len(Reported) = n
  <2>1. Reported \in [1 .. n -> CheckName]
    BY <1>2, <1>3
  <2>2. QED
    BY <2>1, SegmentIsSequence
<1>5. /\ SubSeq(plan.checks, 1, n) \in Seq(CheckName)
      /\ Len(SubSeq(plan.checks, 1, n)) = n
      /\ \A i \in 1 .. n : SubSeq(plan.checks, 1, n)[i] = plan.checks[i]
  <2>1. /\ SubSeq(plan.checks, 1, n) \in Seq(CheckName)
        /\ Len(SubSeq(plan.checks, 1, n)) = IF 1 <= n THEN n - 1 + 1 ELSE 0
        /\ \A i \in 1 .. n - 1 + 1 : SubSeq(plan.checks, 1, n)[i] = plan.checks[1 + i - 1]
    BY <1>3, SubSeqProperties
  <2>2. n - 1 + 1 = n /\ (~(1 <= n) => n = 0) /\ \A i \in 1 .. n : 1 + i - 1 = i
    OBVIOUS
  <2>3. QED
    BY <2>1, <2>2
<1>6. \A i \in 1 .. n : Reported[i] = SubSeq(plan.checks, 1, n)[i]
  BY <1>2, <1>5
<1>7. QED
  BY <1>4, <1>5, <1>6, SeqEqual

(* A step that records Checks records more of the plan.                    *)
LEMMA RecordsMore ==
  ASSUME Invariant, Invariant', [Next]_vars, UNCHANGED plan,
         NothingPrepared \/ DependencyUnavailable \/ CreateFails \/ ConcludeCheck
           \/ ConcludeWithoutEnvironment \/ ConcludeIdentityLost
  PROVE  /\ Len(checks) < Len(checks') /\ Len(checks') <= Last
         /\ pc # "returned" /\ pc' # "returned"
<1>1. /\ Last \in Nat \ {0} /\ Last' = Last /\ index \in 1 .. Last + 1 /\ index' \in 1 .. Last + 1
      /\ checks \in Seq(Observation) /\ checks' \in Seq(Observation)
  <2>1. Last \in Nat \ {0} /\ Last' = Last
    BY PlanIsSequence DEF Invariant, TypeParts, Last
  <2>2. QED
    BY <2>1 DEF Invariant, TypeParts, IndexPart, ChecksPart
<1>2. CASE NothingPrepared
  <2>1. checks = << >> /\ unwinding = "none" /\ unwinding' = unwinding
    BY <1>2 DEF NothingPrepared, Invariant, TypeParts, ChecksPart, EvidenceInv, AtHandInv,
       UnwindingInv, Early, Over, Verification, Ending, checkVars
  <2>2. pc = "unavailable" /\ pc' \in Over \ {"returned"}
    BY <1>2 DEF NothingPrepared, EnterFinally, Over, Verification, Ending
  <2>3. Len(checks') = Last
    BY <2>1, <2>2, <1>1 DEF Invariant, EvidenceInv, OverInv
  <2>4. Len(checks) = 0
    BY <2>1, EmptySeq
  <2>5. QED
    BY <1>1, <2>2, <2>3, <2>4
<1>3. CASE DependencyUnavailable \/ CreateFails \/ ConcludeCheck
  <2>1. pc \in Loop /\ pc' \in Loop /\ index' = index + 1
    BY <1>3 DEF DependencyUnavailable, CreateFails, ConcludeCheck, Loop, InCheck
  <2>2. Len(checks) = index - 1 /\ Len(checks') = index' - 1
    BY <2>1 DEF Invariant, EvidenceInv, LoopInv
  <2>3. QED
    BY <1>1, <2>1, <2>2 DEF Loop, InCheck
<1>4. CASE ConcludeWithoutEnvironment \/ ConcludeIdentityLost
  <2>1. pc = "conclude" /\ pc' \in Over \ {"returned"} /\ unwinding' # "other"
    BY <1>4 DEF ConcludeWithoutEnvironment, ConcludeIdentityLost, EnterFinally, Over, Verification,
       Ending, checkVars
  <2>2. Len(checks) = index - 1 /\ index \in 1 .. Last
    BY <2>1 DEF Invariant, EvidenceInv, LoopInv, Loop, InCheck, TypeParts, IndexPart
  <2>3. Len(checks') = Last
    BY <2>1, <1>1 DEF Invariant, EvidenceInv, OverInv
  <2>4. QED
    BY <1>1, <2>1, <2>2, <2>3
<1>5. QED
  BY <1>2, <1>3, <1>4

LEMMA StepContract == Invariant /\ Invariant' /\ [Next]_vars => [Contract!Next]_Contract!vars
<1> SUFFICES ASSUME Invariant, Invariant', [Next]_vars
             PROVE  [Contract!Next]_Contract!vars
  OBVIOUS
<1>1. plan' = plan /\ Last' = Last /\ Last \in Nat
  BY StepPlan, PlanIsSequence DEF Invariant, TypeParts
<1>2. CASE NothingPrepared \/ DependencyUnavailable \/ CreateFails \/ ConcludeCheck
             \/ ConcludeWithoutEnvironment \/ ConcludeIdentityLost
  <2>1. /\ Len(checks) < Len(checks') /\ Len(checks') <= Last
        /\ pc # "returned" /\ pc' # "returned"
    BY <1>1, <1>2, RecordsMore
  <2>2. Len(checks) \in Nat /\ Len(checks') \in Nat
    BY LenProperties DEF Invariant, TypeParts, ChecksPart
  <2>3. PICK n \in Nat, m \in Nat : n = Len(checks) /\ m = Len(checks')
    BY <2>2
  <2>4. n < m /\ m <= Last /\ n <= Last
    BY <1>1, <2>1, <2>3
  <2>5. Len(Reported) = n
    BY <2>3, <2>4, ReportedIsPrefix DEF Invariant
  <2>6. Reported' = SubSeq(plan.checks, 1, m)
    <3>1. (TypeParts /\ OwnInv /\ Len(checks) <= Last =>
             Reported = SubSeq(plan.checks, 1, Len(checks)) /\ Len(Reported) = Len(checks))'
      BY ReportedIsPrefix, PTL
    <3>2. QED
      BY <1>1, <2>3, <2>4, <3>1 DEF Invariant
  <2>7. m \in n + 1 .. Last
    BY <1>1, <2>4
  <2>8. Status = "running" /\ Status' = "running"
    BY <2>1 DEF Status
  <2>9. Contract!Observe
    BY <1>1, <2>5, <2>6, <2>7, <2>8 DEF Contract!Observe, Reported, Status, Last
  <2>10. QED
    BY <2>9 DEF Contract!Next
<1>3. CASE Finish
  <2>1. checks' = checks /\ pc = "final" /\ pc' = "returned" /\ unwinding' = unwinding
    BY <1>3 DEF Finish, checkVars
  <2>2. Reported' = Reported /\ Status = "running"
    BY <2>1 DEF Reported, Status
  <2>3. CASE unwinding = "other"
    <3>1. Status' = "raised"
      BY <2>1, <2>3 DEF Status
    <3>2. Contract!Raise
      BY <1>1, <2>2, <3>1 DEF Contract!Raise, Reported, Status
    <3>3. QED
      BY <3>2 DEF Contract!Next
  <2>4. CASE unwinding # "other"
    <3>1. Status' = "report"
      BY <2>1, <2>4 DEF Status
    <3>2. Len(checks) = Last
      BY <2>1, <2>4 DEF Invariant, EvidenceInv, OverInv, Over, Ending
    <3>3. Reported = SubSeq(plan.checks, 1, Last)
      BY <1>1, <3>2, ReportedIsPrefix DEF Invariant
    <3>4. SubSeq(plan.checks, 1, Last) = plan.checks
      BY PlansAssumption, SubSeqFull DEF Invariant, TypeParts, Last
    <3>5. Contract!Report
      BY <1>1, <2>2, <3>1, <3>3, <3>4 DEF Contract!Report, Reported, Status
    <3>6. QED
      BY <3>5 DEF Contract!Next
  <2>5. QED
    BY <2>3, <2>4
<1>4. CASE UNCHANGED checks /\ ~Finish
  <2>1. Status' = Status
    BY <1>4, StatusFrame DEF Invariant, TypeParts, StatusKept, Status
  <2>2. Reported' = Reported
    BY <1>4 DEF Reported
  <2>3. QED
    BY <1>1, <2>1, <2>2 DEF Contract!vars, Reported, Status
<1>5. QED
  BY <1>2, <1>3, <1>4, ChecksFrame DEF ChecksKept

(* A run implements its contract (ContractSpec): each Check of the plan is *)
(* observed once and in order, whatever is lost or raised on the way, and  *)
(* a report is made only of all of them.                                   *)
THEOREM RunImplementsContract == Spec => ContractSpec
<1>1. Init => Contract!Init
  <2>1. Init => checks = << >> /\ pc = "lock"
    BY DEF Init
  <2>2. ASSUME Len(checks) = 0
        PROVE  Reported = << >>
    <3>1. Reported \in [1 .. 0 -> CheckName]
      BY <2>2 DEF Reported
    <3>2. QED
      BY <3>1, SegmentIsSequence, EmptySeq
  <2>3. Init => Reported = << >> /\ Status = "running"
    BY <2>1, <2>2, EmptySeq DEF Status
  <2>4. QED
    BY <2>3 DEF Contract!Init, Reported, Status
<1>2. QED
  BY <1>1, StepContract, AlwaysInvariant, PTL DEF Spec, ContractSpec, Contract!Spec
-----------------------------------------------------------------------------
(* The Checks are independent: whatever was started has its dependency,    *)
(* and Checks are given up only together with the repository.              *)
SpawnedInv == \A i \in spawned : Available(Name(i))
SettledInv ==
  pc \in Over /\ unwinding # "other" /\ repoError = "none" =>
    \A i \in 1 .. Last : checks[i].error # NotRun

LEMMA EarlyIsUnspawned ==
  ASSUME TypeParts, EvidenceInv, pc \in Early
  PROVE  spawned = {}
<1>1. index = 1 /\ index \notin spawned /\ \A i \in spawned : i <= index
  BY DEF TypeParts, IndexPart, EvidenceInv, AtHandInv, StartedInv, AheadInv
<1>2. spawned \subseteq 1 .. Last /\ Last \in Nat
  BY PlanIsSequence DEF TypeParts, HistoryPart
<1>3. QED
  BY <1>1, <1>2

LEMMA StepSpawned == Invariant /\ SpawnedInv /\ [Next]_vars => SpawnedInv'
<1> SUFFICES ASSUME Invariant, SpawnedInv, [Next]_vars
             PROVE  SpawnedInv'
  OBVIOUS
<1>1. ProbesKept /\ plan' = plan
  BY ProbesFrame, StepPlan DEF Invariant, TypeParts
<1>2. CASE UNCHANGED dependency
  BY <1>1, <1>2 DEF ProbesKept, SpawnedInv, Available, Name
<1>3. CASE dependency' # dependency
  <2>1. spawned = {} /\ spawned' = spawned
    BY <1>1, <1>3, EarlyIsUnspawned DEF ProbesKept, Invariant, Early
  <2>2. QED
    BY <2>1 DEF SpawnedInv
<1>4. QED
  BY <1>2, <1>3

LEMMA StepSettled == Invariant /\ GivenUpInv /\ SettledInv /\ [Next]_vars => SettledInv'
<1> SUFFICES ASSUME Invariant, GivenUpInv, SettledInv, [Next]_vars,
                    pc' \in Over, unwinding' # "other", repoError' = "none"
             PROVE  \A i \in 1 .. Last' : checks'[i].error # NotRun
  BY DEF SettledInv
<1>1. Last' = Last /\ Last \in Nat /\ repoError = "none" /\ index \in 1 .. Last + 1
  BY StepPlan, PlanIsSequence, ProbesFrame DEF Invariant, TypeParts, ProbesKept, IndexPart
<1>2. CASE ChecksDone
  <2>1. checks' = checks /\ index = Last + 1 /\ KeptUpTo(index - 1)
    BY <1>1, <1>2 DEF ChecksDone, resultVars, Invariant, EvidenceInv, LoopInv, Loop
  <2>2. \A i \in 1 .. Last : i \in 1 .. index - 1
    BY <1>1, <2>1
  <2>3. QED
    BY <1>1, <2>1, <2>2 DEF KeptUpTo, Kept
<1>3. CASE NothingPrepared \/ ConcludeWithoutEnvironment \/ ConcludeIdentityLost
  BY <1>1, <1>3 DEF NothingPrepared, ConcludeWithoutEnvironment, ConcludeIdentityLost, GivenUpInv
<1>4. CASE DependencyUnavailable \/ CreateFails \/ ConcludeCheck
  BY <1>4 DEF DependencyUnavailable, CreateFails, ConcludeCheck, Over, Verification, Ending
<1>5. CASE UNCHANGED checks /\ pc \in Over /\ unwinding # "other"
  BY <1>1, <1>5 DEF SettledInv
<1>6. QED
  BY <1>2, <1>3, <1>4, <1>5, ControlFrame DEF ControlKept

(* While the environment is usable, what happens to one Check leaves the   *)
(* others alone: none is given up, none is held back by the dependency of  *)
(* another, and none is started without its own.                           *)
THEOREM IndependenceOfChecks == Spec => []ChecksAreIndependent
<1>1. Init => GivenUpInv /\ SpawnedInv /\ SettledInv
  BY DEF Init, GivenUpInv, SpawnedInv, SettledInv, Over, Verification, Ending
<1>2. ASSUME Invariant, SpawnedInv, SettledInv
      PROVE  ChecksAreIndependent
  <2> SUFFICES ASSUME Returned, repoError = "none", NEW i \in 1 .. Last
               PROVE  /\ checks[i].error # "repository_environment_unavailable"
                      /\ checks[i].error = "dependency" => ~Available(Name(i))
                      /\ i \in spawned => Available(Name(i))
    BY DEF ChecksAreIndependent
  <2>1. pc \in Over /\ unwinding # "other"
    BY DEF Returned, Over, Ending
  <2>2. Len(checks) = Last
    BY <1>2, <2>1 DEF Invariant, EvidenceInv, OverInv
  <2>3. Own(checks[i], i)
    BY <1>2, <2>2 DEF Invariant, OwnInv
  <2>4. QED
    BY <1>2, <2>1, <2>3 DEF SpawnedInv, SettledInv, Own, NotRun
<1>3. QED
  BY <1>1, <1>2, AlwaysInvariant, StepGivenUp, StepSpawned, StepSettled, PTL DEF Spec
=============================================================================
