------------------------ MODULE ReportedRunEvidence ------------------------
(***************************************************************************)
(* Proof that the validation of the report refuses exactly the evidence    *)
(* that RefusalIsExplained names.  EvidenceInv says what kinds of evidence *)
(* each step of a run may have left; it is inductive together with         *)
(* SafeInv.  At the end every rule of the report (ReportRules) is compared *)
(* with every kind: a rule is obeyed, or it is broken in one of the nine   *)
(* circumstances.                                                          *)
(***************************************************************************)
EXTENDS ReportedRunProofs

-----------------------------------------------------------------------------
(* What the evidence of a run may be *)

\* What the controller knows of the first required dependencies, the first
\* Checks, and the rest of both once it has given up.
Seen(dependency) ==
  \E process \in PreparationEnds("dependency_probe"), claim \in Claims :
     dependency = DependencyObservation(dependency.name, process, claim[1], claim[2])
LeftOut(dependency) == dependency = Unattempted(dependency.name)

Unstarted(o) == o.processes = <<>> /\ o.start = "none" /\ ~o.authority
Bare(o) == o.pytest = NoPytest /\ o.coverage = NoCoverage
Abandoned(o) == Unstarted(o) /\ Bare(o) /\ o.error = "repository_environment_unavailable"

\* A Check whose workspace was not set up, or could not be cleaned up.
NoWorkspace(o) ==
  Unstarted(o) /\ Bare(o) /\ o.error \in {"platform_safety_unavailable", "cleanup_failed"}

\* The error of the Check, or that of its cleanup.
FailsWith(o, error) == o.error \in {error, "cleanup_failed"}

OrdinaryRan(o) ==
  \E process \in PrimaryEnds({0, 1, 2}), started \in BOOLEAN :
     /\ process.outcome = "spawn_failed" => ~started
     /\ o.processes = <<process>>
     /\ o.start = IF started THEN DependencyNameForCheck(o.name) ELSE "none"
     /\ o.authority = /\ started /\ process.code \in {0, 1}
                      /\ DependencyNameForCheck(o.name) \in {"ruff", "ty"}
     /\ FailsWith(o, PrimaryError(process, started, {0, 1}))

OrdinaryEvidence(d, o) ==
  LET owner == DependencyOf(d, DependencyNameForCheck(o.name))
  IN /\ Bare(o)
     /\ \/ owner.status # "available" /\ Unstarted(o) /\ o.error = owner.error
        \/ owner.status = "available" /\ NoWorkspace(o)
        \/ owner.status = "available" /\ Unstarted(o) /\ FailsWith(o, "check_start_evidence_invalid")
        \/ owner.status = "available" /\ OrdinaryRan(o)

PreflightOf(owner) ==
  CASE owner.status = "available" ->
         PytestObservation("supported", NumericVersion(owner.version), "missing", NoSession)
    [] owner.status = "missing" ->
         PytestObservation("module_unavailable", "none", "missing", NoSession)
    [] owner.status = "incompatible" /\ NumericVersion(owner.version) # "none" ->
         PytestObservation("unsupported_version", NumericVersion(owner.version), "missing", NoSession)
    [] OTHER -> PytestObservation("preflight_invalid", "none", "missing", NoSession)
Measured(p, d) == CoverageRequested(p) /\ DependencyOf(d, "coverage").status = "available"
CoverageBefore(p, d) ==
  IF ~CoverageRequested(p) THEN NoCoverage
  ELSE CoverageObservation(CASE DependencyOf(d, "coverage").status = "available" -> "supported"
                             [] OTHER -> PreflightError(DependencyOf(d, "coverage").status),
                           "not_attempted")
CoverageWithout(p) ==
  IF CoverageRequested(p) THEN CoverageObservation("preflight_invalid", "not_attempted")
  ELSE NoCoverage

\* pytest was started, or that was tried.
Launched(p, d, o, process, started, artifact) ==
  /\ process \in PrimaryEnds({0, 1, 2, 5, 6}) /\ started \in BOOLEAN /\ artifact \in Artifacts
  /\ process.outcome = "spawn_failed" => ~started
  /\ process.outcome # "exited" => artifact[1] = "missing"
  /\ o.start = IF started THEN (IF Measured(p, d) THEN "coverage" ELSE "pytest") ELSE "none"
  /\ ~o.authority
  /\ o.pytest = PytestObservation("supported", "supported", artifact[1], artifact[2])

\* Its coverage data are worth a conversion.
Trusted(process, started, artifact) ==
  started /\ process.code \in {0, 1, 2, 5} /\ artifact[1] # "parallel"

\* Coverage data that were not converted.
LeftArtifact(process, started, artifact) ==
  IF ~(started /\ process.code \in {0, 1, 2, 5}) THEN {"data_missing"}
  ELSE IF artifact[1] = "parallel" THEN {"unsupported_parallelism"}
  ELSE {"data_missing", "unexpected_parallel_data", "generation_failed"}

Conversions == {NotSpawned("coverage_json"), Signaled("coverage_json")}
                 \cup {Exited("coverage_json", code) : code \in {0, 1, 2}}
ConvertedTo(json, artifact) ==
  CASE json.outcome = "spawn_failed" -> artifact = "spawn_failed"
    [] json.outcome = "signaled" -> artifact = "terminated_by_signal"
    [] json.outcome = "exited" ->
         \/ artifact \in {"unexpected_parallel_data", "snapshot", "artifact_missing", "artifact_invalid"}
         \/ artifact = "generation_failed" /\ json.code # 0

CoverageLeft(p, d, o, process, started, artifact) ==
  \/ ~Measured(p, d) /\ o.processes = <<process>> /\ o.coverage = CoverageBefore(p, d)
  \/ /\ Measured(p, d) /\ o.processes = <<process>>
     /\ \E left \in LeftArtifact(process, started, artifact) :
           o.coverage = CoverageObservation("supported", left)
  \/ /\ Measured(p, d) /\ Trusted(process, started, artifact)
     /\ \E json \in Conversions, converted \in CoverageArtifact, wellFormed \in BOOLEAN :
           /\ o.processes = <<process, json>> /\ ConvertedTo(json, converted)
           /\ o.coverage = [classification |-> "supported", artifact |-> converted,
                            jsonExit |-> json.code, wellFormed |-> wellFormed]

PytestRan(p, d, o) ==
  \E process \in PrimaryEnds({0, 1, 2, 5, 6}), started \in BOOLEAN, artifact \in Artifacts :
     /\ Launched(p, d, o, process, started, artifact)
     /\ FailsWith(o, PrimaryError(process, started, {0, 1, 5}))
     /\ CoverageLeft(p, d, o, process, started, artifact)

PytestEvidence(p, d, o) ==
  LET owner == DependencyOf(d, "pytest")
  IN \/ NoWorkspace(o)
     \/ /\ owner.status # "available" /\ Unstarted(o) /\ FailsWith(o, owner.error)
        /\ o.pytest = PreflightOf(owner) /\ o.coverage = CoverageWithout(p)
     \/ /\ owner.status = "available" /\ Unstarted(o) /\ FailsWith(o, "pytest_evidence_error")
        /\ o.pytest = PytestObservation("not_started", "none", "missing", NoSession)
        /\ o.coverage = CoverageWithout(p)
     \/ /\ owner.status = "available" /\ Unstarted(o) /\ FailsWith(o, "check_start_evidence_invalid")
        /\ o.pytest = PreflightOf(owner) /\ o.coverage = CoverageBefore(p, d)
     \/ owner.status = "available" /\ PytestRan(p, d, o)

CheckEvidence(p, d, o) ==
  IF o.name = "pytest" THEN PytestEvidence(p, d, o) ELSE OrdinaryEvidence(d, o)

\* The first m dependencies were observed, the first l Checks were executed.
Reached(p, d, c, m, l) ==
  /\ m \in 0 .. Len(d) /\ \A i \in 1 .. m : Seen(d[i])
  /\ \A i \in m + 1 .. Len(d) : LeftOut(d[i])
  /\ l \in 0 .. Len(c) /\ \A i \in 1 .. l : CheckEvidence(p, d, c[i])
  /\ \A i \in l + 1 .. Len(c) : Abandoned(c[i])
  /\ m < Len(d) => l = 0

\* The processes of the environment: those that capture the baseline, those
\* of the preparation, and those of the verification.
Laid(processes, core, tail) ==
  \E n \in {0, 1, 4} : processes = (SafetyProcesses(n) \o core) \o tail

UvRuns(uv) == uv \in PreparationEnds("uv_version") /\ ZeroExit(uv) /\ CompleteStdout(uv)

\* The preparation ended with an error.
Stopped(e, core, error) ==
  \/ /\ core = <<>> /\ ~e.manager /\ e.python = "none" /\ e.lock = "missing"
     /\ error = "repository_lock_missing"
  \/ /\ core = <<>> /\ ~e.manager /\ e.python = "none" /\ e.lock = "unverified"
     /\ error \in {"unsafe_repository_environment", "uv_unavailable"}
  \/ \E uv \in PreparationEnds("uv_version"), wellFormed \in BOOLEAN :
       /\ core = <<uv>> /\ ~e.manager /\ e.python = "none" /\ e.lock = "unverified"
       /\ error = UvVersionError(uv, wellFormed) /\ error # "none"
  \/ \E uv \in PreparationEnds("uv_version") :
       /\ core = <<uv>> /\ UvRuns(uv) /\ e.manager /\ e.python = "none" /\ e.lock = "unverified"
       /\ error = "unsafe_repository_environment"
  \/ \E uv \in PreparationEnds("uv_version"), probe \in PreparationEnds("environment_probe"),
        finding \in ProbeFinding \cup {"malformed"} :
       LET observed == ProbedEnvironment(probe, finding, <<>>)
       IN /\ core = <<uv, probe>> /\ UvRuns(uv) /\ e.manager
          /\ e.python = observed.python /\ e.lock = observed.lock
          /\ error = observed.error /\ error # "none"

\* The environment is usable, or was until a helper was lost.
Usable(e, core, error) ==
  /\ \E uv \in PreparationEnds("uv_version"), probe \in PreparationEnds("environment_probe") :
        core = <<uv, probe>> /\ UvRuns(uv) /\ ZeroExit(probe) /\ CompleteStdout(probe)
  /\ e.manager /\ e.python = "supported" /\ e.lock = "current"
  /\ error \in {"none", "unsafe_repository_environment"}

Outcome(p, e, d, c, core, error, m, l) ==
  /\ Reached(p, d, c, m, l)
  /\ \/ Stopped(e, core, error) /\ m = 0 /\ l = 0
     \/ Usable(e, core, error) /\ (l < Len(c) => error # "none")

Cores == {<<>>} \cup {<<uv>> : uv \in PreparationEnds("uv_version")}
          \cup {<<uv, probe>> : uv \in PreparationEnds("uv_version"), probe \in PreparationEnds("environment_probe")}
Tails == {<<>>, <<Safety(0)>>, <<Safety(1)>>, <<NotSpawned("repository_safety")>>}

\* The verification, if there was one, found what the environment says.
Verified(e, error, tail) ==
  /\ e.error \in {error, "repository_state_changed", "unsafe_repository_environment"}
  /\ e.lock = "missing" => e.error = error /\ e.processes = <<>> /\ e.protection = "unobserved"
  /\ e.error = "none" => e.protection # "unobserved"
  /\ e.protection = "tracked_files" => tail = <<Safety(0)>>

Verifying(p, e, d, c) ==
  e.lock # "missing" /\ \E core \in Cores : Laid(e.processes, core, <<>>) /\
    \E m \in 0 .. Len(d), l \in 0 .. Len(c) : Outcome(p, e, d, c, core, e.error, m, l)
Reporting(p, e, d, c) ==
  \E core \in Cores, tail \in Tails : Laid(e.processes, core, tail) /\
    \E error \in EnvironmentError, m \in 0 .. Len(d), l \in 0 .. Len(c) :
      Outcome(p, e, d, c, core, error, m, l) /\ Verified(e, error, tail)

ReportablePlan(p) ==
  /\ p.mode = "focused" => p.coverageScope # "unavailable"
  /\ p.mode = "strict_aggregate" => p.coverageScope # "not_requested"
  /\ CoverageRequested(p) /\ ~p.targets /\ ~p.shortcut => p.coverageScope = "complete"

\* What is at hand before each step.
BeforeUv(e) ==
  Laid(e.processes, <<>>, <<>>) /\ ~e.manager /\ e.python = "none" /\ e.lock = "unverified"
BeforeProbe(e) ==
  \E uv \in PreparationEnds("uv_version") :
     /\ Laid(e.processes, <<uv>>, <<>>) /\ UvRuns(uv) /\ e.manager
     /\ e.python = "none" /\ e.lock = "unverified"
Checking(p, e, d, c) ==
  /\ \E core \in Cores : Laid(e.processes, core, <<>>) /\ Usable(e, core, e.error)
  /\ \A i \in 1 .. Len(d) : Seen(d[i])
  /\ \A i \in 1 .. Len(c) : CheckEvidence(p, d, c[i])
BeforeLaunch(p, d, o) ==
  /\ Unstarted(o) /\ o.error = "none"
  /\ o.name # "pytest" => Bare(o)
  /\ o.name = "pytest" =>
       o.pytest = PreflightOf(DependencyOf(d, "pytest")) /\ o.coverage = CoverageBefore(p, d)
BeforeClosing(p, d, o) ==
  /\ CheckEvidence(p, d, o)
  /\ o.name # "pytest" => DependencyOf(d, DependencyNameForCheck(o.name)).status = "available"
BeforeConversion(p, d, o) ==
  /\ Measured(p, d) /\ DependencyOf(d, "pytest").status = "available"
  /\ o.coverage = CoverageObservation("supported", "not_attempted")
  /\ \E process \in PrimaryEnds({0, 1, 2, 5, 6}), started \in BOOLEAN, artifact \in Artifacts :
        /\ Launched(p, d, o, process, started, artifact) /\ o.processes = <<process>>
        /\ Trusted(process, started, artifact)
        /\ o.error = PrimaryError(process, started, {0, 1, 5})

Evidence(step, p, e, d, c, o) ==
  /\ step \in {"plan", "planned", "baseline"} => e = FailedPreparation("none", FALSE, <<>>)
  /\ step = "uv" => BeforeUv(e)
  /\ step = "probe" => BeforeProbe(e)
  /\ step \in {"dependencies", "check", "launch", "coverage", "close"} => Checking(p, e, d, c)
  /\ step = "launch" => BeforeLaunch(p, d, o)
  /\ step = "coverage" => BeforeConversion(p, d, o)
  /\ step = "close" => BeforeClosing(p, d, o)
  /\ step = "verify" => Verifying(p, e, d, c)
  /\ step \in {"report", "done"} => Reporting(p, e, d, c)

(* The evidence of a run that was not refused is of a known kind, and the  *)
(* report is shown if it is valid.                                         *)
EvidenceInv ==
  ~Refused =>
    /\ pc # "plan" => ReportablePlan(plan)
    /\ Evidence(pc, plan, env, deps, checks, current)
    /\ pc = "done" => report = IF ValidReport(Built) THEN "shown" ELSE "refused"

-----------------------------------------------------------------------------
(* How evidence is put together *)

LEMMA GivenUpAre ==
  ASSUME SoundPlan(plan), NEW done \in Seq(ObservationState), Len(done) <= Len(plan.checks)
  PROVE  LET all == done \o GivenUpFrom(Len(done) + 1)
         IN /\ all \in Seq(ObservationState) /\ Len(all) = Len(plan.checks) /\ Len(done) \in Nat
            /\ \A i \in 1 .. Len(done) : all[i] = done[i]
            /\ \A i \in Len(done) + 1 .. Len(all) : Abandoned(all[i])
<1> DEFINE n == Len(done)
           rest == GivenUpFrom(Len(done) + 1)
           m == Len(plan.checks) - n
           fail(k) == CheckFailure(plan.checks[n + k], "repository_environment_unavailable")
<1>1. n \in Nat /\ Len(plan.checks) \in Nat /\ n <= Len(plan.checks)
  BY DEF SoundPlan
<1>2. m \in Nat
  BY <1>1
<1>3. rest = [k \in 1 .. m |-> fail(k)]
  <2>1. Len(plan.checks) - (n + 1) + 1 = m /\ \A k \in 1 .. m : n + 1 + k - 1 = n + k
    BY <1>1
  <2> QED BY <2>1 DEF GivenUpFrom
<1>4. \A k \in 1 .. m : fail(k) \in ObservationState /\ Abandoned(fail(k))
  <2> SUFFICES ASSUME NEW k \in 1 .. m
               PROVE  fail(k) \in ObservationState /\ Abandoned(fail(k))
    OBVIOUS
  <2>1. n + k \in 1 .. Len(plan.checks)
    BY <1>1
  <2>2. plan.checks[n + k] \in CheckName
    BY <2>1 DEF SoundPlan
  <2>3. "repository_environment_unavailable" \in CheckError
    BY DEF CheckError
  <2>4. fail(k) \in ObservationState
    BY <2>2, <2>3, FailureIsSound
  <2>5. Abandoned(fail(k))
    BY DEF Abandoned, Unstarted, Bare, CheckFailure, Observation
  <2> QED BY <2>4, <2>5
<1> HIDE DEF fail, m
<1>5. rest \in Seq(ObservationState) /\ Len(rest) = m
  BY <1>2, <1>3, <1>4
<1> HIDE DEF rest
<1>6. /\ done \o rest \in Seq(ObservationState) /\ Len(done \o rest) = n + m
      /\ \A i \in 1 .. n : (done \o rest)[i] = done[i]
      /\ \A k \in 1 .. m : (done \o rest)[n + k] = rest[k]
  BY <1>1, <1>2, <1>5
<1>7. n + m = Len(plan.checks)
  BY <1>1 DEF m
<1>8. ASSUME NEW i \in n + 1 .. n + m
      PROVE  Abandoned((done \o rest)[i])
  <2> DEFINE k == i - n
  <2>1. k \in 1 .. m /\ n + k = i
    BY <1>1, <1>2
  <2> HIDE DEF k
  <2>2. (done \o rest)[i] = fail(k)
    BY <2>1, <1>3, <1>6
  <2> QED BY <2>1, <2>2, <1>4
<1> QED BY <1>1, <1>6, <1>7, <1>8 DEF rest

LEMMA LeftOutAre ==
  ASSUME SoundPlan(plan), NEW done \in Seq(DependencyState),
         Len(done) <= Len(RequiredDependencies(plan))
  PROVE  LET all == done \o UnattemptedFrom(Len(done) + 1)
         IN /\ Len(all) = Len(RequiredDependencies(plan)) /\ Len(done) \in Nat
            /\ \A i \in 1 .. Len(done) : all[i] = done[i]
            /\ \A i \in Len(done) + 1 .. Len(all) : LeftOut(all[i])
<1> DEFINE R == RequiredDependencies(plan)
           n == Len(done)
           rest == UnattemptedFrom(Len(done) + 1)
           m == Len(R) - n
           none(k) == Unattempted(R[n + k])
<1>1. Len(R) \in Nat
  BY RequiredAre
<1>2. n \in Nat /\ n <= Len(R)
  OBVIOUS
<1>3. m \in Nat
  BY <1>1, <1>2
<1>4. rest = [k \in 1 .. m |-> none(k)]
  <2>1. Len(R) - (n + 1) + 1 = m /\ \A k \in 1 .. m : n + 1 + k - 1 = n + k
    BY <1>1, <1>2
  <2> QED BY <2>1 DEF UnattemptedFrom
<1>5. \A k \in 1 .. m : LeftOut(none(k))
  BY DEF LeftOut, Unattempted, Dependency
<1> HIDE DEF m, none
<1>6. rest \in Seq({none(k) : k \in 1 .. m}) /\ Len(rest) = m
  BY <1>3, <1>4
<1> HIDE DEF rest
<1>7. /\ Len(done \o rest) = n + m
      /\ \A i \in 1 .. n : (done \o rest)[i] = done[i]
      /\ \A k \in 1 .. m : (done \o rest)[n + k] = rest[k]
  BY <1>2, <1>3, <1>6
<1>8. n + m = Len(R)
  BY <1>1, <1>2 DEF m
<1>9. ASSUME NEW i \in n + 1 .. n + m
      PROVE  LeftOut((done \o rest)[i])
  <2> DEFINE k == i - n
  <2>1. k \in 1 .. m /\ n + k = i
    BY <1>2, <1>3
  <2> HIDE DEF k
  <2>2. (done \o rest)[i] = none(k)
    BY <2>1, <1>4, <1>7
  <2> QED BY <2>1, <2>2, <1>5
<1> QED BY <1>2, <1>7, <1>8, <1>9 DEF rest

LEMMA NothingAppended ==
  ASSUME NEW S, NEW s \in Seq(S)
  PROVE  s \o <<>> = s /\ <<>> \in Seq(S)
OBVIOUS

LEMMA LaidFirst ==
  ASSUME NEW n \in {0, 1, 4}
  PROVE  Laid(SafetyProcesses(n), <<>>, <<>>)
<1> DEFINE s == SafetyProcesses(n)
<1>1. s \in Seq(ProcessState)
  BY SafetyProcessesAreTyped
<1> HIDE DEF s
<1>2. s = (s \o <<>>) \o <<>>
  BY <1>1, NothingAppended
<1> QED BY <1>2 DEF Laid, s

LEMMA LaidNext ==
  ASSUME NEW core \in Seq(ProcessState), NEW process \in ProcessState, NEW processes,
         Laid(processes, core, <<>>)
  PROVE  Laid(Append(processes, process), Append(core, process), <<>>)
<1>1. PICK n \in {0, 1, 4} : processes = (SafetyProcesses(n) \o core) \o <<>>
  BY DEF Laid
<1> DEFINE s == SafetyProcesses(n)
<1>2. s \in Seq(ProcessState)
  BY SafetyProcessesAreTyped
<1> HIDE DEF s
<1>3. s \o core \in Seq(ProcessState) /\ s \o Append(core, process) \in Seq(ProcessState)
  BY <1>2
<1>4. (s \o core) \o <<>> = s \o core /\ (s \o Append(core, process)) \o <<>> = s \o Append(core, process)
  BY <1>3, NothingAppended
<1>5. Append(s \o core, process) = s \o Append(core, process)
  BY <1>2
<1>6. Append(processes, process) = (s \o Append(core, process)) \o <<>>
  BY <1>1, <1>4, <1>5 DEF s
<1> QED BY <1>6 DEF Laid, s

LEMMA LaidLast ==
  ASSUME NEW core \in Seq(ProcessState), NEW tail \in Seq(ProcessState), NEW processes,
         Laid(processes, core, <<>>)
  PROVE  Laid(processes \o tail, core, tail)
<1>1. PICK n \in {0, 1, 4} : processes = (SafetyProcesses(n) \o core) \o <<>>
  BY DEF Laid
<1> DEFINE s == SafetyProcesses(n)
<1>2. s \in Seq(ProcessState)
  BY SafetyProcessesAreTyped
<1> HIDE DEF s
<1>3. s \o core \in Seq(ProcessState)
  BY <1>2
<1>4. processes = s \o core
  BY <1>1, <1>3, NothingAppended DEF s
<1> QED BY <1>4 DEF Laid, s

LEMMA AppendedTwice ==
  ASSUME NEW S, NEW x \in S, NEW y \in S
  PROVE  Append(<<x>>, y) = <<x, y>>
<1> DEFINE a == Append(<<x>>, y)
           b == <<x, y>>
<1>1. a \in Seq(S) /\ Len(a) = 2 /\ a[1] = x /\ a[2] = y
  OBVIOUS
<1>2. b \in Seq(S) /\ Len(b) = 2 /\ b[1] = x /\ b[2] = y
  OBVIOUS
<1> HIDE DEF a, b
<1>3. \A i \in 1 .. 2 : a[i] = b[i]
  BY <1>1, <1>2
<1>4. a = b
  BY <1>1, <1>2, <1>3, SeqEqual
<1> QED BY <1>4 DEF a, b

LEMMA CoresAreTyped ==
  /\ Cores \subseteq Seq(ProcessState) /\ Tails \subseteq Seq(ProcessState)
  /\ \A uv \in PreparationEnds("uv_version") :
       /\ uv \in ProcessState /\ <<uv>> \in Cores /\ Append(<<>>, uv) = <<uv>>
       /\ \A probe \in PreparationEnds("environment_probe") :
            <<uv, probe>> \in Cores /\ Append(<<uv>>, probe) = <<uv, probe>> /\ probe \in ProcessState
<1>1. /\ PreparationEnds("uv_version") \subseteq ProcessState
      /\ PreparationEnds("environment_probe") \subseteq ProcessState
      /\ Safety(0) \in ProcessState /\ Safety(1) \in ProcessState
      /\ NotSpawned("repository_safety") \in ProcessState
  BY ProcessesAreTyped DEF Role, Safety
<1>2. \A x \in ProcessState : <<x>> \in Seq(ProcessState) /\ Append(<<>>, x) = <<x>>
  OBVIOUS
<1>3. \A x, y \in ProcessState : <<x, y>> \in Seq(ProcessState)
  <2> HIDE DEF ProcessState
  <2> QED OBVIOUS
<1>4. \A x, y \in ProcessState : Append(<<x>>, y) = <<x, y>>
  BY AppendedTwice
<1>5. <<>> \in Seq(ProcessState)
  OBVIOUS
<1>6. Tails \subseteq Seq(ProcessState)
  BY <1>1, <1>2, <1>5 DEF Tails
<1>7. Cores \subseteq Seq(ProcessState)
  <2> SUFFICES ASSUME NEW core \in Cores
               PROVE  core \in Seq(ProcessState)
    OBVIOUS
  <2>1. CASE core = <<>>
    BY <2>1, <1>5
  <2>2. CASE \E uv \in PreparationEnds("uv_version") : core = <<uv>>
    BY <2>2, <1>1, <1>2
  <2>3. CASE \E uv \in PreparationEnds("uv_version"), probe \in PreparationEnds("environment_probe") :
                core = <<uv, probe>>
    BY <2>3, <1>1, <1>3
  <2>4. \/ core = <<>> \/ (\E uv \in PreparationEnds("uv_version") : core = <<uv>>)
        \/ \E uv \in PreparationEnds("uv_version"), probe \in PreparationEnds("environment_probe") :
              core = <<uv, probe>>
    BY DEF Cores
  <2> QED BY <2>1, <2>2, <2>3, <2>4
<1> QED BY <1>1, <1>2, <1>4, <1>6, <1>7 DEF Cores

(* A step within a run that was not refused.                               *)
LEMMA FollowsOn ==
  ASSUME SafeInv, EvidenceInv, pc \notin {"plan", "done"}, pc' # "done",
         plan' = plan, report' = report,
         Evidence(pc', plan', env', deps', checks', current')
  PROVE  EvidenceInv'
<1>1. ~Refused
  BY UnderWay
<1> QED BY <1>1 DEF EvidenceInv

LEMMA InitHasEvidence == Init => EvidenceInv
BY DEF Init, EvidenceInv, Evidence

LEMMA RefuseHasEvidence ==
  ASSUME Refuse
  PROVE  EvidenceInv'
BY DEF Refuse, EvidenceInv, Refused

LEMMA PlanIsReportable ==
  ASSUME NEW r \in Request, NEW config \in ProjectConfig
  PROVE  ReportablePlan(PlanRun(r, config))
BY DEF ReportablePlan, PlanRun, PlannedCoverageScope, CoverageRequested

LEMMA PlanHasEvidence ==
  ASSUME SafeInv, EvidenceInv, Plan
  PROVE  EvidenceInv'
<1>1. pc = "plan" /\ invocation \in Invocations /\ ~Refused
  BY DEF Plan, SafeInv, PlanInv, ExitInv, Refused
<1>2. invocation.request \in Request /\ invocation.config \in ProjectConfig
  BY <1>1, InvocationsAssumption
<1>3. ReportablePlan(plan') /\ pc' = "planned" /\ env' = env
  BY <1>2, PlanIsReportable DEF Plan
<1> QED BY <1>1, <1>3 DEF EvidenceInv, Evidence

LEMMA LockPresentHasEvidence ==
  ASSUME SafeInv, EvidenceInv, LockPresent
  PROVE  EvidenceInv'
<1>1. ~Refused
  BY UnderWay DEF LockPresent
<1>2. Evidence("baseline", plan, env', deps', checks', current')
  BY <1>1 DEF LockPresent, EvidenceInv, Evidence
<1> QED BY <1>2, FollowsOn DEF LockPresent

(* The preparation failed: nothing was observed and nothing was run.       *)
LEMMA NothingReached ==
  ASSUME SafeInv, pc \in {"planned", "baseline", "uv", "probe"}, NEW observed,
         NothingPrepared(observed), plan' = plan
  PROVE  /\ env' = observed /\ 0 \in 0 .. Len(deps') /\ 0 \in 0 .. Len(checks')
         /\ Reached(plan', deps', checks', 0, 0)
<1>1. SoundPlan(plan)
  BY UnderWay
<1>2. /\ env' = observed /\ deps' = UnattemptedFrom(1) /\ checks' = <<>> \o GivenUpFrom(1)
  BY DEF NothingPrepared, GiveUpFrom
<1>3. <<>> \in Seq(ObservationState) /\ <<>> \in Seq(DependencyState) /\ Len(<<>>) = 0 /\ 0 + 1 = 1
  OBVIOUS
<1>4. Len(plan.checks) \in Nat /\ Len(RequiredDependencies(plan)) \in Nat
  <2>1. plan.checks \in Seq(CheckName) /\ RequiredDependencies(plan) \in Seq(Owners \cup {"coverage"})
    BY <1>1, RequiredAre DEF SoundPlan
  <2> QED BY <2>1
<1>5. /\ Len(checks') = Len(plan.checks)
      /\ \A i \in 0 + 1 .. Len(checks') : Abandoned(checks'[i])
  <2>1. 0 <= Len(plan.checks)
    BY <1>4
  <2> QED BY <1>1, <1>2, <1>3, <2>1, GivenUpAre
<1>6. /\ Len(deps') = Len(RequiredDependencies(plan))
      /\ \A i \in 0 + 1 .. Len(deps') : LeftOut(deps'[i])
  <2>1. UnattemptedFrom(1) = <<>> \o UnattemptedFrom(1)
    <3>1. UnattemptedFrom(1) \in Seq(DependencyState)
      <4>1. Probed(plan, <<>>)
        BY <1>3, <1>4 DEF Probed
      <4> QED BY <1>1, <1>3, <4>1, UnattemptedCompletes
    <3> QED BY <3>1
  <2>2. 0 <= Len(RequiredDependencies(plan))
    BY <1>4
  <2> QED BY <1>1, <1>2, <1>3, <2>1, <2>2, LeftOutAre
<1> QED BY <1>2, <1>4, <1>5, <1>6 DEF Reached

(* A run that is refused its lock or its baseline goes to its report.      *)
LEMMA StopsBeforeUv ==
  ASSUME SafeInv, EvidenceInv, pc \in {"planned", "baseline"}, NEW observed,
         NothingPrepared(observed), pc' = "report", plan' = plan, report' = report,
         Laid(observed.processes, <<>>, <<>>), Stopped(observed, <<>>, observed.error),
         observed.error \in EnvironmentError, observed.error # "none",
         observed.protection = "unobserved",
         observed.lock = "missing" => observed.processes = <<>>
  PROVE  EvidenceInv'
<1>1. /\ env' = observed /\ 0 \in 0 .. Len(deps') /\ 0 \in 0 .. Len(checks')
      /\ Reached(plan', deps', checks', 0, 0)
  BY NothingReached
<1>2. Outcome(plan', observed, deps', checks', <<>>, observed.error, 0, 0)
  BY <1>1 DEF Outcome
<1>3. Verified(observed, observed.error, <<>>)
  BY DEF Verified
<1>4. <<>> \in Cores /\ <<>> \in Tails
  BY DEF Cores, Tails
<1>5. Reporting(plan', observed, deps', checks')
  BY <1>1, <1>2, <1>3, <1>4 DEF Reporting
<1>6. Evidence("report", plan', env', deps', checks', current')
  BY <1>1, <1>5 DEF Evidence
<1> QED BY <1>6, FollowsOn

(* A preparation that fails later is verified before its report.           *)
LEMMA StopsPreparation ==
  ASSUME SafeInv, EvidenceInv, pc \in {"uv", "probe"}, NEW observed, PreparationFails(observed),
         NEW core \in Cores, Laid(observed.processes, core, <<>>),
         Stopped(observed, core, observed.error), observed.lock # "missing"
  PROVE  EvidenceInv'
<1>1. NothingPrepared(observed) /\ pc' = "verify" /\ plan' = plan /\ report' = report
  BY DEF PreparationFails
<1>2. /\ env' = observed /\ 0 \in 0 .. Len(deps') /\ 0 \in 0 .. Len(checks')
      /\ Reached(plan', deps', checks', 0, 0)
  BY <1>1, NothingReached
<1>3. Outcome(plan', observed, deps', checks', core, observed.error, 0, 0)
  BY <1>2 DEF Outcome
<1>4. Verifying(plan', observed, deps', checks')
  BY <1>2, <1>3 DEF Verifying
<1>5. Evidence("verify", plan', env', deps', checks', current')
  BY <1>2, <1>4 DEF Evidence
<1> QED BY <1>1, <1>5, FollowsOn

\* What is known of a run that was not refused.
LEMMA AtHand ==
  ASSUME SafeInv, EvidenceInv, pc \notin {"plan", "done"}
  PROVE  Evidence(pc, plan, env, deps, checks, current)
BY UnderWay DEF EvidenceInv

LEMMA NoSafetyProcesses == SafetyProcesses(0) = <<>>
BY DEF SafetyProcesses

LEMMA LockRejectedHasEvidence ==
  ASSUME SafeInv, EvidenceInv, LockRejected
  PROVE  EvidenceInv'
<1>1. pc = "planned" /\ pc' = "report" /\ plan' = plan /\ report' = report
  BY DEF LockRejected
<1>2. env = FailedPreparation("none", FALSE, <<>>)
  BY <1>1, AtHand DEF Evidence
<1>3. Laid(<<>>, <<>>, <<>>)
  BY LaidFirst, NoSafetyProcesses
<1>4. PICK observed : /\ NothingPrepared(observed)
                      /\ \/ observed = [env EXCEPT !.error = "repository_lock_missing", !.lock = "missing"]
                         \/ observed = [env EXCEPT !.error = "unsafe_repository_environment"]
  BY DEF LockRejected
<1>5. /\ observed.processes = <<>> /\ observed.protection = "unobserved" /\ ~observed.manager
      /\ observed.python = "none"
      /\ \/ observed.error = "repository_lock_missing" /\ observed.lock = "missing"
         \/ observed.error = "unsafe_repository_environment" /\ observed.lock = "unverified"
  BY <1>2, <1>4 DEF FailedPreparation, Environment
<1>6. observed.error \in EnvironmentError /\ observed.error # "none"
  BY <1>5 DEF EnvironmentError
<1>7. Stopped(observed, <<>>, observed.error)
  BY <1>5 DEF Stopped
<1> QED BY <1>1, <1>3, <1>4, <1>5, <1>6, <1>7, StopsBeforeUv

LEMMA BaselineFailsHasEvidence ==
  ASSUME SafeInv, EvidenceInv, BaselineFails
  PROVE  EvidenceInv'
<1>1. pc = "baseline" /\ pc' = "report" /\ plan' = plan /\ report' = report
  BY DEF BaselineFails
<1>2. PICK n \in {0, 1, 4} :
        NothingPrepared(FailedPreparation("unsafe_repository_environment", FALSE, SafetyProcesses(n)))
  BY DEF BaselineFails
<1> DEFINE s == SafetyProcesses(n)
           observed == FailedPreparation("unsafe_repository_environment", FALSE, s)
<1>3. Laid(s, <<>>, <<>>)
  BY LaidFirst
<1>4. NothingPrepared(observed)
  BY <1>2
<1> HIDE DEF s
<1>5. /\ observed.processes = s /\ observed.protection = "unobserved" /\ ~observed.manager
      /\ observed.python = "none" /\ observed.lock = "unverified"
      /\ observed.error = "unsafe_repository_environment"
  BY DEF FailedPreparation, Environment
<1> HIDE DEF observed
<1>6. observed.error \in EnvironmentError /\ observed.error # "none"
  BY <1>5 DEF EnvironmentError
<1>7. Stopped(observed, <<>>, observed.error)
  BY <1>5 DEF Stopped
<1> QED BY <1>1, <1>3, <1>4, <1>5, <1>6, <1>7, StopsBeforeUv

LEMMA CaptureBaselineHasEvidence ==
  ASSUME SafeInv, EvidenceInv, CaptureBaseline
  PROVE  EvidenceInv'
<1>1. pc = "baseline" /\ pc' = "uv" /\ plan' = plan /\ report' = report
  BY DEF CaptureBaseline
<1>2. PICK n \in {0, 1, 4} : env' = [env EXCEPT !.processes = SafetyProcesses(n)]
  BY DEF CaptureBaseline
<1>3. env = FailedPreparation("none", FALSE, <<>>)
  BY <1>1, AtHand DEF Evidence
<1> DEFINE s == SafetyProcesses(n)
<1>4. Laid(s, <<>>, <<>>)
  BY LaidFirst
<1>5. env' = [env EXCEPT !.processes = s]
  BY <1>2
<1> HIDE DEF s
<1>6. /\ env'.processes = s /\ ~env'.manager /\ env'.python = "none" /\ env'.lock = "unverified"
  BY <1>3, <1>5 DEF FailedPreparation, Environment
<1>7. BeforeUv(env')
  BY <1>4, <1>6 DEF BeforeUv
<1>8. Evidence("uv", plan', env', deps', checks', current')
  BY <1>7 DEF Evidence
<1> QED BY <1>1, <1>8, FollowsOn

LEMMA UvRejectedHasEvidence ==
  ASSUME SafeInv, EvidenceInv, UvRejected
  PROVE  EvidenceInv'
<1>1. PICK error \in {"unsafe_repository_environment", "uv_unavailable"} :
        PreparationFails(FailedPreparation(error, FALSE, env.processes))
  BY DEF UvRejected
<1>2. pc = "uv" /\ BeforeUv(env)
  BY AtHand DEF UvRejected, Evidence
<1> DEFINE observed == FailedPreparation(error, FALSE, env.processes)
<1>3. PreparationFails(observed)
  BY <1>1
<1>4. /\ observed.processes = env.processes /\ ~observed.manager /\ observed.python = "none"
      /\ observed.lock = "unverified" /\ observed.error = error
  BY DEF FailedPreparation, Environment
<1> HIDE DEF observed
<1>5. Stopped(observed, <<>>, observed.error) /\ <<>> \in Cores
  BY <1>4 DEF Stopped, Cores
<1>6. Laid(observed.processes, <<>>, <<>>) /\ observed.lock # "missing"
  BY <1>2, <1>4 DEF BeforeUv
<1> QED BY <1>2, <1>3, <1>5, <1>6, StopsPreparation

LEMMA RunUvVersionHasEvidence ==
  ASSUME SafeInv, EvidenceInv, RunUvVersion
  PROVE  EvidenceInv'
<1>1. PICK process \in PreparationEnds("uv_version"), wellFormed \in BOOLEAN :
        LET error == UvVersionError(process, wellFormed)
            processes == Append(env.processes, process)
        IN \/ error # "none" /\ PreparationFails(FailedPreparation(error, FALSE, processes))
           \/ /\ error = "none" /\ pc' = "probe" /\ env' = FailedPreparation("none", TRUE, processes)
              /\ UNCHANGED <<plan, report>>
  BY DEF RunUvVersion
<1> DEFINE error == UvVersionError(process, wellFormed)
           processes == Append(env.processes, process)
<1>2. pc = "uv" /\ BeforeUv(env)
  BY AtHand DEF RunUvVersion, Evidence
<1>3. process \in ProcessState /\ <<process>> \in Cores /\ Append(<<>>, process) = <<process>>
  BY CoresAreTyped
<1>4. Laid(processes, <<process>>, <<>>)
  <2>1. <<>> \in Seq(ProcessState) /\ Laid(env.processes, <<>>, <<>>)
    BY <1>2 DEF BeforeUv
  <2>2. Laid(processes, Append(<<>>, process), <<>>)
    BY <1>3, <2>1, LaidNext
  <2> QED BY <1>3, <2>2
<1> HIDE DEF processes
<1>5. CASE error # "none" /\ PreparationFails(FailedPreparation(error, FALSE, processes))
  <2> DEFINE observed == FailedPreparation(error, FALSE, processes)
  <2>1. /\ observed.processes = processes /\ ~observed.manager /\ observed.python = "none"
        /\ observed.lock = "unverified" /\ observed.error = error
    BY DEF FailedPreparation, Environment
  <2>2. PreparationFails(observed)
    BY <1>5
  <2> HIDE DEF observed
  <2>3. Stopped(observed, <<process>>, observed.error)
    BY <1>5, <2>1 DEF Stopped
  <2> DEFINE core == <<process>>
  <2>4. /\ observed.lock # "missing" /\ Laid(observed.processes, core, <<>>) /\ core \in Cores
        /\ Stopped(observed, core, observed.error)
    BY <1>3, <1>4, <2>1, <2>3
  <2> HIDE DEF core
  <2> QED BY <1>2, <2>2, <2>4, StopsPreparation
<1>6. CASE /\ error = "none" /\ pc' = "probe" /\ env' = FailedPreparation("none", TRUE, processes)
           /\ UNCHANGED <<plan, report>>
  <2>1. UvRuns(process)
    BY <1>6 DEF UvRuns, UvVersionError
  <2>2. /\ env'.processes = processes /\ env'.manager /\ env'.python = "none"
        /\ env'.lock = "unverified"
    BY <1>6 DEF FailedPreparation, Environment
  <2>3. BeforeProbe(env')
    BY <1>4, <2>1, <2>2 DEF BeforeProbe
  <2>4. Evidence("probe", plan', env', deps', checks', current')
    BY <2>3 DEF Evidence
  <2> QED BY <1>2, <1>6, <2>4, FollowsOn
<1> QED BY <1>1, <1>5, <1>6 DEF processes

LEMMA UvChangesBeforeProbeHasEvidence ==
  ASSUME SafeInv, EvidenceInv, UvChangesBeforeProbe
  PROVE  EvidenceInv'
<1>1. pc = "probe" /\ PreparationFails([env EXCEPT !.error = "unsafe_repository_environment"])
  BY DEF UvChangesBeforeProbe
<1>2. PICK uv \in PreparationEnds("uv_version") :
        /\ Laid(env.processes, <<uv>>, <<>>) /\ UvRuns(uv) /\ env.manager
        /\ env.python = "none" /\ env.lock = "unverified"
  BY <1>1, AtHand DEF Evidence, BeforeProbe
<1> DEFINE observed == [env EXCEPT !.error = "unsafe_repository_environment"]
<1>3. /\ observed.processes = env.processes /\ observed.manager /\ observed.python = "none"
      /\ observed.lock = "unverified" /\ observed.error = "unsafe_repository_environment"
  BY <1>2 DEF SafeInv, TypeInv, EnvironmentState
<1>4. PreparationFails(observed)
  BY <1>1
<1> HIDE DEF observed
<1>5. Stopped(observed, <<uv>>, observed.error)
  BY <1>2, <1>3 DEF Stopped
<1>6. <<uv>> \in Cores
  BY CoresAreTyped
<1> QED BY <1>1, <1>2, <1>3, <1>4, <1>5, <1>6, StopsPreparation

LEMMA RunProbeHasEvidence ==
  ASSUME SafeInv, EvidenceInv, RunProbe
  PROVE  EvidenceInv'
<1>1. PICK process \in PreparationEnds("environment_probe"), finding \in ProbeFinding \cup {"malformed"} :
        LET observed == ProbedEnvironment(process, finding, Append(env.processes, process))
        IN \/ observed.error # "none" /\ PreparationFails(observed)
           \/ /\ observed.error = "none" /\ pc' = "dependencies" /\ env' = observed
              /\ UNCHANGED <<plan, deps, checks, report>>
  BY DEF RunProbe
<1> DEFINE processes == Append(env.processes, process)
           observed == ProbedEnvironment(process, finding, processes)
<1>2. pc = "probe" /\ BeforeProbe(env)
  BY AtHand DEF RunProbe, Evidence
<1>3. PICK uv \in PreparationEnds("uv_version") : Laid(env.processes, <<uv>>, <<>>) /\ UvRuns(uv)
  BY <1>2 DEF BeforeProbe
<1>4. /\ process \in ProcessState /\ <<uv, process>> \in Cores /\ <<uv>> \in Seq(ProcessState)
      /\ Append(<<uv>>, process) = <<uv, process>>
  <2>1. <<uv>> \in Cores /\ <<uv>> \in Seq(ProcessState)
    BY CoresAreTyped
  <2> QED BY <2>1, CoresAreTyped
<1>5. Laid(processes, <<uv, process>>, <<>>)
  <2>1. Laid(processes, Append(<<uv>>, process), <<>>)
    BY <1>3, <1>4, LaidNext
  <2> QED BY <1>4, <2>1
<1> HIDE DEF processes
<1>6. observed.processes = processes /\ observed.manager
      /\ observed.python = ProbedEnvironment(process, finding, <<>>).python
      /\ observed.lock = ProbedEnvironment(process, finding, <<>>).lock
      /\ observed.error = ProbedEnvironment(process, finding, <<>>).error
  BY DEF ProbedEnvironment, FailedPreparation, Environment
<1>11. observed.lock # "missing"
  BY DEF ProbedEnvironment, FailedPreparation, Environment
<1>7. observed.error = "none" =>
        /\ ZeroExit(process) /\ CompleteStdout(process)
        /\ observed.python = "supported" /\ observed.lock = "current"
  BY DEF ProbedEnvironment, FailedPreparation, Environment, ProbeError
<1>8. \/ observed.error # "none" /\ PreparationFails(observed)
      \/ /\ observed.error = "none" /\ pc' = "dependencies" /\ env' = observed
         /\ UNCHANGED <<plan, deps, checks, report>>
  BY <1>1 DEF processes
<1> HIDE DEF observed
<1>9. CASE observed.error # "none" /\ PreparationFails(observed)
  <2>1. Stopped(observed, <<uv, process>>, observed.error)
    BY <1>3, <1>6, <1>9 DEF Stopped
  <2> QED BY <1>2, <1>4, <1>5, <1>6, <1>9, <1>11, <2>1, StopsPreparation
<1>10. CASE /\ observed.error = "none" /\ pc' = "dependencies" /\ env' = observed
            /\ UNCHANGED <<plan, deps, checks, report>>
  <2>1. deps' = <<>> /\ checks' = <<>> /\ Len(<<>>) = 0
    BY <1>2, <1>10 DEF SafeInv, DepsInv, OrderInv, Early
  <2>2. Usable(observed, <<uv, process>>, observed.error)
    BY <1>3, <1>6, <1>7, <1>10 DEF Usable
  <2>3. Checking(plan', observed, deps', checks')
    BY <1>4, <1>5, <1>6, <2>1, <2>2 DEF Checking
  <2>4. Evidence("dependencies", plan', env', deps', checks', current')
    BY <1>10, <2>3 DEF Evidence
  <2> QED BY <1>2, <1>10, <2>4, FollowsOn
<1> QED BY <1>8, <1>9, <1>10

-----------------------------------------------------------------------------
(* Evidence of dependencies and Checks *)

LEMMA ProbeDependencyHasEvidence ==
  ASSUME SafeInv, EvidenceInv, ProbeDependency
  PROVE  EvidenceInv'
<1> DEFINE R == RequiredDependencies(plan)
           name == R[Len(deps) + 1]
<1>1. PICK process \in PreparationEnds("dependency_probe"), claim \in Claims :
        deps' = Append(deps, DependencyObservation(name, process, claim[1], claim[2]))
  BY DEF ProbeDependency
<1>2. /\ pc = "dependencies" /\ pc' \in {"dependencies", "check"}
      /\ UNCHANGED <<plan, env, checks, report>>
  BY DEF ProbeDependency
<1>3. /\ Len(deps) < Len(R) /\ deps \in Seq(DependencyState) /\ Len(deps) \in Nat
      /\ checks = <<>> /\ Len(<<>>) = 0
  BY <1>2 DEF SafeInv, DepsInv, OrderInv, TypeInv
<1>4. name \in Owners \cup {"coverage"}
  <2>1. SoundPlan(plan)
    BY <1>2, UnderWay
  <2>2. R \in Seq(Owners \cup {"coverage"}) /\ Len(R) \in Nat
    BY <2>1, RequiredAre
  <2> HIDE DEF R
  <2>3. Len(deps) + 1 \in 1 .. Len(R)
    BY <1>3, <2>2
  <2> QED BY <2>2, <2>3
<1> DEFINE d == DependencyObservation(name, process, claim[1], claim[2])
<1>5. d \in DependencyState /\ d.name = name
  <2>1. process \in ProcessState
    BY ProcessesAreTyped DEF Role
  <2> QED BY <1>4, <2>1, DependencyObservationIsTyped
<1>6. Seen(d)
  BY <1>5 DEF Seen
<1>7. deps' = Append(deps, d)
  BY <1>1
<1> HIDE DEF d
<1>8. /\ Len(deps') = Len(deps) + 1 /\ deps'[Len(deps) + 1] = d
      /\ \A i \in 1 .. Len(deps) : deps'[i] = deps[i]
  BY <1>3, <1>5, <1>7
<1>9. \A i \in 1 .. Len(deps') : i \in 1 .. Len(deps) \/ i = Len(deps) + 1
  BY <1>3, <1>8
<1>10. Checking(plan, env, deps, checks)
  BY <1>2, AtHand DEF Evidence
<1>11. Checking(plan', env', deps', checks')
  <2>1. \A i \in 1 .. Len(deps') : Seen(deps'[i])
    BY <1>6, <1>8, <1>9, <1>10 DEF Checking
  <2> QED BY <1>2, <1>3, <1>10, <2>1 DEF Checking
<1>12. Evidence(pc', plan', env', deps', checks', current')
  BY <1>2, <1>11 DEF Evidence
<1> QED BY <1>2, <1>12, FollowsOn

(* A lost helper leaves an environment that was usable.                    *)
LEMMA LostIsUsable ==
  ASSUME NEW e \in EnvironmentState, NEW core, NEW error, Usable(e, core, error)
  PROVE  LET lost == [e EXCEPT !.error = "unsafe_repository_environment"]
         IN /\ lost.processes = e.processes /\ lost.error = "unsafe_repository_environment"
            /\ Usable(lost, core, lost.error)
<1> DEFINE lost == [e EXCEPT !.error = "unsafe_repository_environment"]
<1>1. /\ lost.processes = e.processes /\ lost.error = "unsafe_repository_environment"
      /\ lost.manager = e.manager /\ lost.python = e.python /\ lost.lock = e.lock
  BY DEF EnvironmentState
<1> HIDE DEF lost
<1>2. Usable(lost, core, lost.error)
  BY <1>1 DEF Usable
<1> QED BY <1>1, <1>2 DEF lost

LEMMA ProbingLosesUvHasEvidence ==
  ASSUME SafeInv, EvidenceInv, ProbingLosesUv
  PROVE  EvidenceInv'
<1>1. /\ pc = "dependencies" /\ pc' = "verify" /\ deps' = deps \o UnattemptedFrom(Len(deps) + 1)
      /\ env' = [env EXCEPT !.error = "unsafe_repository_environment"]
      /\ checks' = <<>> \o GivenUpFrom(1) /\ plan' = plan /\ report' = report
  BY DEF ProbingLosesUv, GiveUpFrom
<1>2. SoundPlan(plan)
  BY <1>1, UnderWay
<1>3. /\ deps \in Seq(DependencyState) /\ Len(deps) <= Len(RequiredDependencies(plan))
      /\ env \in EnvironmentState
  BY <1>1, UnderWay DEF SafeInv, TypeInv, DepsInv, Early
<1>4. /\ Len(deps') = Len(RequiredDependencies(plan)) /\ Len(deps) \in Nat
      /\ \A i \in 1 .. Len(deps) : deps'[i] = deps[i]
      /\ \A i \in Len(deps) + 1 .. Len(deps') : LeftOut(deps'[i])
  BY <1>1, <1>2, <1>3, LeftOutAre
<1>5. Len(plan.checks) \in Nat /\ Len(RequiredDependencies(plan)) \in Nat
  <2>1. plan.checks \in Seq(CheckName) /\ RequiredDependencies(plan) \in Seq(Owners \cup {"coverage"})
    BY <1>2, RequiredAre DEF SoundPlan
  <2> QED BY <2>1
<1>6. Len(checks') = Len(plan.checks) /\ \A i \in 0 + 1 .. Len(checks') : Abandoned(checks'[i])
  <2>1. <<>> \in Seq(ObservationState) /\ Len(<<>>) = 0 /\ 0 + 1 = 1
    OBVIOUS
  <2>2. 0 <= Len(plan.checks)
    BY <1>5
  <2> QED BY <1>1, <1>2, <2>1, <2>2, GivenUpAre
<1>7. Checking(plan, env, deps, checks)
  BY <1>1, AtHand DEF Evidence
<1>8. PICK core \in Cores : Laid(env.processes, core, <<>>) /\ Usable(env, core, env.error)
  BY <1>7 DEF Checking
<1>9. /\ env'.processes = env.processes /\ env'.error = "unsafe_repository_environment"
      /\ Usable(env', core, env'.error)
  BY <1>1, <1>3, <1>8, LostIsUsable
<1>10. Len(deps) \in 0 .. Len(deps') /\ 0 \in 0 .. Len(checks')
  BY <1>3, <1>4, <1>5, <1>6
<1>11. Reached(plan', deps', checks', Len(deps), 0)
  <2>1. \A i \in 1 .. Len(deps) : Seen(deps'[i])
    BY <1>4, <1>7 DEF Checking
  <2> QED BY <1>4, <1>6, <1>10, <2>1 DEF Reached
<1>12. Outcome(plan', env', deps', checks', core, env'.error, Len(deps), 0)
  BY <1>9, <1>11 DEF Outcome
<1>13. Verifying(plan', env', deps', checks')
  BY <1>8, <1>9, <1>10, <1>12 DEF Verifying, Usable
<1>14. Evidence("verify", plan', env', deps', checks', current')
  BY <1>13 DEF Evidence
<1> QED BY <1>1, <1>14, FollowsOn

(* The Checks that ended, and the others given up, once a helper is lost.  *)
LEMMA GivesUp ==
  ASSUME SafeInv, EvidenceInv, pc \in InCheck,
         NEW done \in Seq(ObservationState), Len(done) <= Len(plan.checks),
         \A i \in 1 .. Len(done) : CheckEvidence(plan, deps, done[i]),
         checks' = done \o GivenUpFrom(Len(done) + 1), deps' = deps, plan' = plan, report' = report,
         pc' = "verify",
         \/ env' = env /\ env.error # "none"
         \/ env' = [env EXCEPT !.error = "unsafe_repository_environment"]
  PROVE  EvidenceInv'
<1>1. SoundPlan(plan)
  BY UnderWay DEF InCheck, InWorkspace
<1>2. /\ env \in EnvironmentState /\ deps \in Seq(DependencyState) /\ Len(deps) \in Nat
  BY DEF SafeInv, TypeInv
<1>3. /\ Len(checks') = Len(plan.checks) /\ Len(done) \in Nat
      /\ \A i \in 1 .. Len(done) : checks'[i] = done[i]
      /\ \A i \in Len(done) + 1 .. Len(checks') : Abandoned(checks'[i])
  BY <1>1, GivenUpAre
<1>4. Checking(plan, env, deps, checks)
  BY AtHand DEF Evidence, InCheck, InWorkspace
<1>5. PICK core \in Cores : Laid(env.processes, core, <<>>) /\ Usable(env, core, env.error)
  BY <1>4 DEF Checking
<1>6. env'.processes = env.processes /\ env'.error # "none" /\ Usable(env', core, env'.error)
  BY <1>2, <1>5, LostIsUsable
<1>7. Len(plan.checks) \in Nat
  <2>1. plan.checks \in Seq(CheckName)
    BY <1>1 DEF SoundPlan
  <2> QED BY <2>1
<1>8. Len(deps) \in 0 .. Len(deps') /\ Len(done) \in 0 .. Len(checks')
  BY <1>2, <1>3, <1>7
<1>9. Reached(plan', deps', checks', Len(deps), Len(done))
  <2>1. \A i \in 1 .. Len(deps) : Seen(deps'[i])
    BY <1>4 DEF Checking
  <2>2. \A i \in 1 .. Len(done) : CheckEvidence(plan', deps', checks'[i])
    BY <1>3
  <2>3. \A i \in Len(deps) + 1 .. Len(deps') : LeftOut(deps'[i])
    BY <1>2
  <2>4. ~(Len(deps) < Len(deps'))
    BY <1>2
  <2> QED BY <1>3, <1>8, <2>1, <2>2, <2>3, <2>4 DEF Reached
<1>10. Outcome(plan', env', deps', checks', core, env'.error, Len(deps), Len(done))
  BY <1>6, <1>9 DEF Outcome
<1>11. Verifying(plan', env', deps', checks')
  BY <1>5, <1>6, <1>8, <1>10 DEF Verifying, Usable
<1>12. Evidence("verify", plan', env', deps', checks', current')
  BY <1>11 DEF Evidence
<1> QED BY <1>12, FollowsOn DEF InCheck, InWorkspace

LEMMA LeavesHasEvidence ==
  ASSUME SafeInv, EvidenceInv, pc \in {"check", "launch", "coverage"}, NEW o, Leaves(o),
         env' = env \/ env' = [env EXCEPT !.error = "unsafe_repository_environment"],
         BeforeClosing(plan, deps, o)
  PROVE  EvidenceInv'
<1>1. /\ current' = o /\ pc' = "close" /\ plan' = plan /\ deps' = deps /\ checks' = checks
      /\ report' = report
  BY DEF Leaves
<1>2. Checking(plan, env, deps, checks) /\ env \in EnvironmentState
  BY AtHand DEF Evidence, SafeInv, TypeInv
<1>3. PICK core \in Cores : Laid(env.processes, core, <<>>) /\ Usable(env, core, env.error)
  BY <1>2 DEF Checking
<1>4. env'.processes = env.processes /\ Usable(env', core, env'.error)
  BY <1>2, <1>3, LostIsUsable
<1>5. Checking(plan', env', deps', checks')
  BY <1>1, <1>2, <1>3, <1>4 DEF Checking
<1>6. Evidence("close", plan', env', deps', checks', current')
  BY <1>1, <1>5 DEF Evidence
<1> QED BY <1>1, <1>6, FollowsOn

LEMMA OneMoreHasEvidence ==
  ASSUME SafeInv, EvidenceInv, pc \in InCheck, NEW o \in ObservationState,
         CheckEvidence(plan, deps, o), NEW done, done = Append(checks, o)
  PROVE  /\ done \in Seq(ObservationState) /\ Len(done) = Index /\ Index \in Nat /\ Len(done) \in Nat
         /\ Len(done) <= Len(plan.checks)
         /\ \A i \in 1 .. Len(done) : CheckEvidence(plan, deps, done[i])
<1>1. checks \in Seq(ObservationState) /\ Len(checks) \in Nat
  BY DEF SafeInv, TypeInv
<1>2. Index = Len(checks) + 1 /\ Index \in 1 .. Len(plan.checks)
  BY CheckAtHand
<1>3. /\ done \in Seq(ObservationState) /\ Len(done) = Len(checks) + 1
      /\ \A i \in 1 .. Len(checks) : done[i] = checks[i]
      /\ done[Len(checks) + 1] = o
  BY <1>1
<1>4. \A i \in 1 .. Len(done) : i \in 1 .. Len(checks) \/ i = Len(checks) + 1
  BY <1>1, <1>3
<1>5. \A i \in 1 .. Len(checks) : CheckEvidence(plan, deps, checks[i])
  BY AtHand DEF Evidence, Checking, InCheck, InWorkspace
<1>6. Len(done) <= Len(plan.checks)
  BY <1>2, <1>3
<1> QED BY <1>1, <1>2, <1>3, <1>4, <1>5, <1>6

LEMMA EndsHasEvidence ==
  ASSUME SafeInv, EvidenceInv, pc \in {"check", "close"}, NEW o \in ObservationState, Ends(o),
         CheckEvidence(plan, deps, o)
  PROVE  EvidenceInv'
<1>1. /\ checks' = Append(checks, o) /\ pc' \in {"verify", "check"} /\ plan' = plan /\ deps' = deps
      /\ env' = env /\ report' = report
  BY DEF Ends
<1>2. /\ Len(checks') \in Nat /\ \A i \in 1 .. Len(checks') : CheckEvidence(plan, deps, checks'[i])
  BY <1>1, OneMoreHasEvidence DEF InCheck, InWorkspace
<1>3. Checking(plan, env, deps, checks) /\ Len(deps) \in Nat
  <2>1. Checking(plan, env, deps, checks)
    BY AtHand DEF Evidence
  <2>2. deps \in Seq(DependencyState)
    BY DEF SafeInv, TypeInv
  <2> QED BY <2>1, <2>2
<1>4. Checking(plan', env', deps', checks')
  BY <1>1, <1>2, <1>3 DEF Checking
<1>5. Verifying(plan', env', deps', checks')
  <2>1. PICK core \in Cores : Laid(env'.processes, core, <<>>) /\ Usable(env', core, env'.error)
    BY <1>4 DEF Checking
  <2>2. Len(deps') \in 0 .. Len(deps') /\ Len(checks') \in 0 .. Len(checks')
    BY <1>1, <1>2, <1>3
  <2>3. /\ Len(deps') + 1 .. Len(deps') = {} /\ Len(checks') + 1 .. Len(checks') = {}
        /\ ~(Len(deps') < Len(deps')) /\ ~(Len(checks') < Len(checks'))
    BY <1>1, <1>2, <1>3
  <2>4. Reached(plan', deps', checks', Len(deps'), Len(checks'))
    BY <1>4, <2>2, <2>3 DEF Reached, Checking
  <2>5. Outcome(plan', env', deps', checks', core, env'.error, Len(deps'), Len(checks'))
    BY <2>1, <2>3, <2>4 DEF Outcome
  <2> QED BY <2>1, <2>2, <2>5 DEF Verifying, Usable
<1>6. Evidence(pc', plan', env', deps', checks', current')
  BY <1>1, <1>4, <1>5 DEF Evidence
<1> QED BY <1>1, <1>6, FollowsOn

LEMMA JoinsHasEvidence ==
  ASSUME SafeInv, EvidenceInv, pc = "close", NEW o \in ObservationState, Joins(o),
         CheckEvidence(plan, deps, o)
  PROVE  EvidenceInv'
<1>1. CASE env.error = "none"
  BY <1>1, EndsHasEvidence DEF Joins
<1>2. CASE env.error # "none"
  <2> DEFINE done == Append(checks, o)
  <2>1. /\ done \in Seq(ObservationState) /\ Len(done) = Index /\ Len(done) <= Len(plan.checks)
        /\ \A i \in 1 .. Len(done) : CheckEvidence(plan, deps, done[i])
    BY OneMoreHasEvidence DEF InCheck, InWorkspace
  <2>2. /\ checks' = done \o GivenUpFrom(Index + 1) /\ pc' = "verify" /\ plan' = plan /\ env' = env
        /\ deps' = deps /\ report' = report
    BY <1>2 DEF Joins, GiveUpFrom
  <2> HIDE DEF done
  <2>3. checks' = done \o GivenUpFrom(Len(done) + 1)
    BY <2>1, <2>2
  <2> QED BY <1>2, <2>1, <2>2, <2>3, GivesUp DEF InCheck, InWorkspace
<1> QED BY <1>1, <1>2

LEMMA LaunchLosesUvHasEvidence ==
  ASSUME SafeInv, EvidenceInv, LaunchLosesUv
  PROVE  EvidenceInv'
<1>1. /\ pc = "launch" /\ checks' = checks \o GivenUpFrom(Index) /\ pc' = "verify"
      /\ env' = [env EXCEPT !.error = "unsafe_repository_environment"]
      /\ plan' = plan /\ deps' = deps /\ report' = report
  BY DEF LaunchLosesUv, Launches, GiveUpFrom
<1>2. pc \in InCheck
  BY <1>1 DEF InCheck, InWorkspace
<1>3. checks \in Seq(ObservationState) /\ Len(checks) <= Len(plan.checks) /\ Index = Len(checks) + 1
  <2>1. Index = Len(checks) + 1 /\ Index \in 1 .. Len(plan.checks)
    BY <1>2, CheckAtHand
  <2>2. checks \in Seq(ObservationState) /\ Len(checks) \in Nat
    BY DEF SafeInv, TypeInv
  <2> QED BY <2>1, <2>2
<1>4. \A i \in 1 .. Len(checks) : CheckEvidence(plan, deps, checks[i])
  BY <1>1, AtHand DEF Evidence, Checking
<1>5. checks' = checks \o GivenUpFrom(Len(checks) + 1)
  BY <1>1, <1>3
<1> QED BY <1>1, <1>2, <1>3, <1>4, <1>5, GivesUp

-----------------------------------------------------------------------------
(* A Check that does not come to its process *)

LEMMA FailureIsBare ==
  ASSUME NEW name, NEW error
  PROVE  LET o == CheckFailure(name, error)
         IN o.name = name /\ o.error = error /\ Unstarted(o) /\ Bare(o)
BY DEF CheckFailure, Observation, Unstarted, Bare

LEMMA DependencyUnavailableHasEvidence ==
  ASSUME SafeInv, EvidenceInv, DependencyUnavailable
  PROVE  EvidenceInv'
<1>1. /\ pc = "check" /\ pc \in InCheck /\ Name # "pytest" /\ Owner.status # "available"
  BY DEF DependencyUnavailable, InCheck, IsPytest
<1>2. Name \in CheckName /\ Owner.error \in CheckError /\ Owner.error # "none"
  BY <1>1, CheckAtHand DEF DependencyState, CheckError
<1> DEFINE o == CheckFailure(Name, Owner.error)
<1>3. o \in ObservationState
  BY <1>2, FailureIsSound
<1>4. Ends(o)
  BY DEF DependencyUnavailable
<1>5. o.name = Name /\ o.error = Owner.error /\ Unstarted(o) /\ Bare(o)
  BY FailureIsBare
<1> HIDE DEF o
<1>6. CheckEvidence(plan, deps, o)
  BY <1>1, <1>5 DEF CheckEvidence, OrdinaryEvidence, Owner
<1> QED BY <1>1, <1>3, <1>4, <1>6, EndsHasEvidence

(* A Check whose workspace is not to be had.                               *)
LEMMA NoWorkspaceIsEvidence ==
  ASSUME SafeInv, NeedsWorkspace, NEW error \in {"platform_safety_unavailable", "cleanup_failed"}
  PROVE  CheckFailure(Name, error) \in ObservationState /\ BeforeClosing(plan, deps, CheckFailure(Name, error))
<1>1. pc \in InCheck /\ (Name = "pytest" \/ Owner.status = "available")
  BY DEF NeedsWorkspace, InCheck, IsPytest
<1>2. Name \in CheckName /\ error \in CheckError /\ error # "none"
  BY <1>1, CheckAtHand DEF CheckError
<1> DEFINE o == CheckFailure(Name, error)
<1>3. o \in ObservationState
  BY <1>2, FailureIsSound
<1>4. o.name = Name /\ o.error = error /\ Unstarted(o) /\ Bare(o)
  BY FailureIsBare
<1> HIDE DEF o
<1>5. NoWorkspace(o)
  BY <1>4 DEF NoWorkspace
<1>6. BeforeClosing(plan, deps, o)
  BY <1>1, <1>4, <1>5
     DEF BeforeClosing, CheckEvidence, OrdinaryEvidence, PytestEvidence, NoWorkspace, Owner
<1> QED BY <1>3, <1>6 DEF o

LEMMA CreateFailsHasEvidence ==
  ASSUME SafeInv, EvidenceInv, CreateFails
  PROVE  EvidenceInv'
<1>1. PICK error \in {"platform_safety_unavailable", "cleanup_failed"} : Ends(CheckFailure(Name, error))
  BY DEF CreateFails
<1>2. NeedsWorkspace /\ pc = "check"
  BY DEF CreateFails, NeedsWorkspace
<1> DEFINE o == CheckFailure(Name, error)
<1>3. o \in ObservationState /\ BeforeClosing(plan, deps, o)
  BY <1>2, NoWorkspaceIsEvidence
<1> HIDE DEF o
<1> QED BY <1>1, <1>2, <1>3, EndsHasEvidence DEF o, BeforeClosing

LEMMA SetupFailsHasEvidence ==
  ASSUME SafeInv, EvidenceInv, SetupFails
  PROVE  EvidenceInv'
<1>1. PICK error \in {"platform_safety_unavailable", "cleanup_failed"} : Leaves(CheckFailure(Name, error))
  BY DEF SetupFails
<1>2. NeedsWorkspace /\ pc = "check" /\ env' = env
  BY DEF SetupFails, NeedsWorkspace
<1> DEFINE o == CheckFailure(Name, error)
<1>3. BeforeClosing(plan, deps, o)
  BY <1>2, NoWorkspaceIsEvidence
<1> HIDE DEF o
<1> QED BY <1>1, <1>2, <1>3, LeavesHasEvidence DEF o

LEMMA EnterWorkspaceHasEvidence ==
  ASSUME SafeInv, EvidenceInv, EnterWorkspace
  PROVE  EvidenceInv'
<1>1. /\ pc = "check" /\ pc \in InCheck /\ pc' = "launch"
      /\ UNCHANGED <<plan, env, deps, checks, report>>
  BY DEF EnterWorkspace, NeedsWorkspace, InCheck
<1> DEFINE o == Observation(Name, <<>>, "none", FALSE, "none")
<1>2. Name \in CheckName
  BY <1>1, CheckAtHand
<1>3. o \in ObservationState
  BY <1>2, NotStartedIsTyped
<1>4. o.name = Name /\ o.error = "none" /\ Unstarted(o) /\ Bare(o)
  BY DEF Observation, Unstarted, Bare
<1>5. BeforeLaunch(plan, deps, current')
  <2>1. CASE IsPytest
    <3> DEFINE q == [o EXCEPT !.pytest = PytestPreflight, !.coverage = CoveragePreflight]
    <3>1. current' = q
      BY <2>1 DEF EnterWorkspace
    <3> HIDE DEF o
    <3>2. /\ q.name = o.name /\ q.error = o.error /\ q.processes = o.processes /\ q.start = o.start
          /\ q.authority = o.authority /\ q.pytest = PytestPreflight /\ q.coverage = CoveragePreflight
      BY <1>3 DEF ObservationState
    <3> HIDE DEF q
    <3>3. PytestPreflight = PreflightOf(DependencyOf(deps, "pytest"))
      BY <2>1 DEF PytestPreflight, PreflightOf, Owner, IsPytest, DependencyNameForCheck
    <3>4. CoveragePreflight = CoverageBefore(plan, deps)
      BY DEF CoveragePreflight, CoverageBefore, CoverageOwner
    <3> QED BY <2>1, <1>4, <3>1, <3>2, <3>3, <3>4 DEF BeforeLaunch, Unstarted, IsPytest
  <2>2. CASE ~IsPytest
    <3>1. current' = o
      BY <2>2 DEF EnterWorkspace
    <3> HIDE DEF o
    <3> QED BY <2>2, <1>4, <3>1 DEF BeforeLaunch, IsPytest
  <2> QED BY <2>1, <2>2
<1>6. Checking(plan, env, deps, checks)
  BY <1>1, AtHand DEF Evidence
<1>7. Evidence("launch", plan', env', deps', checks', current')
  BY <1>1, <1>5, <1>6 DEF Evidence
<1> QED BY <1>1, <1>7, FollowsOn

(* What is at hand when a Check is launched.                               *)
LEMMA LaunchedWith ==
  ASSUME SafeInv, EvidenceInv, pc = "launch"
  PROVE  /\ pc \in InCheck /\ current \in ObservationState /\ current.name = Name
         /\ BeforeLaunch(plan, deps, current) /\ Owner = DependencyOf(deps, DependencyNameForCheck(Name))
         /\ IsPytest => Owner = DependencyOf(deps, "pytest")
<1>1. BeforeLaunch(plan, deps, current)
  BY AtHand DEF Evidence
<1>2. IsPytest => Owner = DependencyOf(deps, "pytest")
  BY DEF Owner, IsPytest, DependencyNameForCheck
<1> QED BY <1>1, <1>2, AtLaunch DEF Owner

LEMMA PytestUnavailableHasEvidence ==
  ASSUME SafeInv, EvidenceInv, PytestUnavailable
  PROVE  EvidenceInv'
<1>1. pc = "launch" /\ IsPytest /\ Owner.status # "available" /\ env' = env
  BY DEF PytestUnavailable
<1>2. /\ current \in ObservationState /\ current.name = "pytest" /\ BeforeLaunch(plan, deps, current)
      /\ Owner = DependencyOf(deps, "pytest")
  BY <1>1, LaunchedWith DEF IsPytest
<1> DEFINE o == [current EXCEPT !.error = Owner.error, !.coverage = InvalidCoverage]
<1>3. Leaves(o)
  BY DEF PytestUnavailable
<1>4. /\ o.name = "pytest" /\ o.error = Owner.error /\ o.coverage = InvalidCoverage
      /\ o.pytest = current.pytest /\ o.processes = current.processes /\ o.start = current.start
      /\ o.authority = current.authority
  BY <1>2 DEF ObservationState
<1> HIDE DEF o
<1>5. InvalidCoverage = CoverageWithout(plan)
  BY DEF InvalidCoverage, CoverageWithout
<1>6. Unstarted(o) /\ o.pytest = PreflightOf(Owner) /\ FailsWith(o, Owner.error)
  BY <1>2, <1>4 DEF BeforeLaunch, Unstarted, FailsWith
<1>7. BeforeClosing(plan, deps, o)
  BY <1>1, <1>2, <1>4, <1>5, <1>6 DEF BeforeClosing, CheckEvidence, PytestEvidence
<1> QED BY <1>1, <1>3, <1>7, LeavesHasEvidence

LEMMA StagingFailsHasEvidence ==
  ASSUME SafeInv, EvidenceInv, StagingFails
  PROVE  EvidenceInv'
<1>1. pc = "launch" /\ IsPytest /\ Owner.status = "available" /\ env' = env
  BY DEF StagingFails, Launches
<1>2. /\ current \in ObservationState /\ current.name = "pytest" /\ BeforeLaunch(plan, deps, current)
      /\ Owner = DependencyOf(deps, "pytest")
  BY <1>1, LaunchedWith DEF IsPytest
<1> DEFINE notStarted == PytestObservation("not_started", "none", "missing", NoSession)
           o == [current EXCEPT !.error = "pytest_evidence_error", !.coverage = InvalidCoverage,
                                !.pytest = notStarted]
<1>3. Leaves(o)
  BY DEF StagingFails
<1> HIDE DEF notStarted
<1>4. /\ o.name = "pytest" /\ o.error = "pytest_evidence_error" /\ o.coverage = InvalidCoverage
      /\ o.pytest = notStarted /\ o.processes = current.processes /\ o.start = current.start
      /\ o.authority = current.authority
  BY <1>2 DEF ObservationState
<1> HIDE DEF o
<1>5. InvalidCoverage = CoverageWithout(plan)
  BY DEF InvalidCoverage, CoverageWithout
<1>6. Unstarted(o) /\ FailsWith(o, "pytest_evidence_error")
  BY <1>2, <1>4 DEF BeforeLaunch, Unstarted, FailsWith
<1>7. BeforeClosing(plan, deps, o)
  BY <1>1, <1>2, <1>4, <1>5, <1>6 DEF BeforeClosing, CheckEvidence, PytestEvidence, notStarted
<1> QED BY <1>1, <1>3, <1>7, LeavesHasEvidence

LEMMA MarkerUnpreparedHasEvidence ==
  ASSUME SafeInv, EvidenceInv, MarkerUnprepared
  PROVE  EvidenceInv'
<1>1. pc = "launch" /\ Owner.status = "available" /\ env' = env
  BY DEF MarkerUnprepared, Launches
<1>2. /\ current \in ObservationState /\ current.name = Name /\ BeforeLaunch(plan, deps, current)
      /\ Owner = DependencyOf(deps, DependencyNameForCheck(Name))
      /\ Name = "pytest" => Owner = DependencyOf(deps, "pytest")
  BY <1>1, LaunchedWith DEF IsPytest
<1> DEFINE o == [current EXCEPT !.error = "check_start_evidence_invalid"]
<1>3. Leaves(o)
  BY DEF MarkerUnprepared
<1>4. /\ o.name = Name /\ o.error = "check_start_evidence_invalid" /\ o.coverage = current.coverage
      /\ o.pytest = current.pytest /\ o.processes = current.processes /\ o.start = current.start
      /\ o.authority = current.authority
  BY <1>2 DEF ObservationState
<1> HIDE DEF o
<1>5. Unstarted(o) /\ FailsWith(o, "check_start_evidence_invalid")
  BY <1>2, <1>4 DEF BeforeLaunch, Unstarted, FailsWith
<1>6. BeforeClosing(plan, deps, o)
  <2>1. CASE Name = "pytest"
    BY <1>1, <1>2, <1>4, <1>5, <2>1 DEF BeforeClosing, CheckEvidence, PytestEvidence, BeforeLaunch
  <2>2. CASE Name # "pytest"
    <3>1. Bare(o)
      BY <1>2, <1>4, <2>2 DEF BeforeLaunch, Bare
    <3> QED BY <1>1, <1>2, <1>4, <1>5, <2>2, <3>1 DEF BeforeClosing, CheckEvidence, OrdinaryEvidence
  <2> QED BY <2>1, <2>2
<1> QED BY <1>1, <1>3, <1>6, LeavesHasEvidence

LEMMA RunOrdinaryHasEvidence ==
  ASSUME SafeInv, EvidenceInv, RunOrdinary
  PROVE  EvidenceInv'
<1>1. pc = "launch" /\ Name # "pytest" /\ Owner.status = "available" /\ env' = env
  BY DEF RunOrdinary, Launches, IsPytest
<1>2. /\ current \in ObservationState /\ current.name = Name /\ BeforeLaunch(plan, deps, current)
      /\ Owner = DependencyOf(deps, DependencyNameForCheck(Name))
  BY <1>1, LaunchedWith
<1>3. PICK process \in PrimaryEnds({0, 1, 2}), started \in BOOLEAN :
        /\ process.outcome = "spawn_failed" => ~started
        /\ Leaves([current EXCEPT
                     !.processes = <<process>>,
                     !.start = IF started THEN StartModule ELSE "none",
                     !.authority = /\ started /\ process.code \in {0, 1}
                                   /\ DependencyNameForCheck(Name) \in {"ruff", "ty"},
                     !.error = PrimaryError(process, started, {0, 1})])
  BY DEF RunOrdinary
<1> DEFINE start == IF started THEN StartModule ELSE "none"
           authority == /\ started /\ process.code \in {0, 1}
                        /\ DependencyNameForCheck(Name) \in {"ruff", "ty"}
           error == PrimaryError(process, started, {0, 1})
           processes == <<process>>
           o == [current EXCEPT !.processes = processes, !.start = start,
                                !.authority = authority, !.error = error]
<1>4. Leaves(o)
  BY <1>3
<1>5. StartModule = DependencyNameForCheck(Name)
  BY <1>1 DEF StartModule, Instrumented, IsPytest
<1> HIDE DEF start, authority, error, processes
<1>6. /\ o.name = Name /\ o.processes = processes /\ o.start = start /\ o.authority = authority
      /\ o.error = error /\ o.coverage = current.coverage /\ o.pytest = current.pytest
  BY <1>2 DEF ObservationState
<1> HIDE DEF o
<1>7. Bare(o)
  BY <1>1, <1>2, <1>6 DEF BeforeLaunch, Bare
<1>8. OrdinaryRan(o)
  <2>1. o.start = IF started THEN DependencyNameForCheck(o.name) ELSE "none"
    BY <1>5, <1>6 DEF start
  <2>2. o.authority = (/\ started /\ process.code \in {0, 1}
                       /\ DependencyNameForCheck(o.name) \in {"ruff", "ty"})
    BY <1>6 DEF authority
  <2>3. FailsWith(o, PrimaryError(process, started, {0, 1}))
    BY <1>6 DEF error, FailsWith
  <2>4. o.processes = <<process>>
    BY <1>6 DEF processes
  <2> QED BY <1>3, <2>1, <2>2, <2>3, <2>4 DEF OrdinaryRan
<1>9. BeforeClosing(plan, deps, o)
  BY <1>1, <1>2, <1>6, <1>7, <1>8 DEF BeforeClosing, CheckEvidence, OrdinaryEvidence
<1> QED BY <1>1, <1>4, <1>9, LeavesHasEvidence

-----------------------------------------------------------------------------
(* A pytest that was run *)

LEMMA OwnerIsSeen ==
  ASSUME SafeInv, EvidenceInv, pc \in InCheck
  PROVE  Seen(Owner)
<1>1. pc \notin Early /\ pc \notin {"plan", "done"}
  BY DEF InCheck, InWorkspace, Early
<1>2. ~Refused /\ SoundPlan(plan)
  BY <1>1, UnderWay
<1>3. Index \in 1 .. Len(plan.checks)
  BY CheckAtHand
<1> DEFINE R == RequiredDependencies(plan)
<1>4. R \in Seq(Owners \cup {"coverage"}) /\ \E j \in 1 .. Len(R) : R[j] = DependencyNameForCheck(Name)
  BY <1>2, <1>3, RequiredAre DEF Name
<1> HIDE DEF R
<1>5. deps \in Seq(DependencyState) /\ Len(deps) = Len(R) /\ DOMAIN deps = 1 .. Len(R)
  <2>1. Len(deps) = Len(R) /\ deps \in Seq(DependencyState)
    BY <1>2 DEF R, SafeInv, DepsInv, TypeInv
  <2> QED BY <2>1
<1>6. \A j \in 1 .. Len(R) : deps[j].name = R[j]
  BY <1>1, <1>2, <1>5 DEF R, SafeInv, DepsInv
<1>7. PICK j \in 1 .. Len(R) : R[j] = DependencyNameForCheck(Name)
  BY <1>4
<1>8. Owner \in Range(deps)
  BY <1>5, <1>6, <1>7, DependencyIsFound DEF Owner
<1>9. \A i \in 1 .. Len(deps) : Seen(deps[i])
  BY AtHand DEF Evidence, Checking, InCheck, InWorkspace
<1> QED BY <1>5, <1>8, <1>9 DEF Range

LEMMA AvailableIsSupported ==
  ASSUME NEW d, Seen(d), d.status = "available"
  PROVE  d.version = "supported" /\ d.error = "none" /\ d.process # NoProcess
<1>1. PICK process \in PreparationEnds("dependency_probe"), claim \in Claims :
        d = DependencyObservation(d.name, process, claim[1], claim[2])
  BY DEF Seen
<1> DEFINE status == claim[1]
           version == claim[2]
<1> HIDE DEF status, version
<1>3. d = DependencyObservation(d.name, process, status, version)
  BY <1>1 DEF status, version
<1> QED BY <1>3
       DEF DependencyObservation, UnobservedDependency, Dependency, VersionSupported, ZeroExit, NoProcess, Process

(* pytest was launched, and what it left is in its observation.            *)
LEMMA PytestLaunched ==
  ASSUME SafeInv, EvidenceInv, pc = "launch", IsPytest, Owner.status = "available",
         NEW process \in PrimaryEnds({0, 1, 2, 5, 6}), NEW started \in BOOLEAN, NEW artifact \in Artifacts,
         process.outcome = "spawn_failed" => ~started,
         process.outcome # "exited" => artifact[1] = "missing"
  PROVE  LET o == [current EXCEPT
                     !.processes = <<process>>,
                     !.start = IF started THEN StartModule ELSE "none",
                     !.error = PrimaryError(process, started, {0, 1, 5}),
                     !.pytest.artifact = artifact[1], !.pytest.session = artifact[2]]
         IN /\ o \in ObservationState /\ o.name = "pytest" /\ o.processes = <<process>>
            /\ o.error = PrimaryError(process, started, {0, 1, 5})
            /\ (o.start # "none") <=> started
            /\ o.coverage = CoverageBefore(plan, deps)
            /\ Launched(plan, deps, o, process, started, artifact)
<1>1. /\ current \in ObservationState /\ current.name = "pytest" /\ BeforeLaunch(plan, deps, current)
      /\ Owner = DependencyOf(deps, "pytest") /\ pc \in InCheck
  BY LaunchedWith DEF IsPytest
<1> DEFINE start == IF started THEN StartModule ELSE "none"
           error == PrimaryError(process, started, {0, 1, 5})
           processes == <<process>>
           pytest == PytestObservation("supported", "supported", artifact[1], artifact[2])
           o == [current EXCEPT
                   !.processes = <<process>>,
                   !.start = IF started THEN StartModule ELSE "none",
                   !.error = PrimaryError(process, started, {0, 1, 5}),
                   !.pytest.artifact = artifact[1], !.pytest.session = artifact[2]]
<1>2. current.pytest = PytestObservation("supported", "supported", "missing", NoSession)
  <2>1. Owner.version = "supported"
    BY <1>1, OwnerIsSeen, AvailableIsSupported
  <2>2. current.pytest = PreflightOf(Owner)
    BY <1>1 DEF BeforeLaunch
  <2> QED BY <2>1, <2>2 DEF PreflightOf, NumericVersion
<1>3. [current.pytest EXCEPT !.artifact = artifact[1], !.session = artifact[2]] = pytest
  <2> DEFINE r == current.pytest
             kind == artifact[1]
             last == artifact[2]
             q == [r EXCEPT !.artifact = kind]
  <2> HIDE DEF r, kind, last
  <2>1. r = [classification |-> "supported", version |-> "supported", artifact |-> "missing",
             session |-> NoSession]
    BY <1>2 DEF PytestObservation, r
  <2>2. q = [classification |-> "supported", version |-> "supported", artifact |-> kind,
             session |-> NoSession]
    BY <2>1
  <2> HIDE DEF q
  <2>3. [q EXCEPT !.session = last]
          = [classification |-> "supported", version |-> "supported", artifact |-> kind,
             session |-> last]
    BY <2>2
  <2>4. pytest = [classification |-> "supported", version |-> "supported", artifact |-> kind,
                  session |-> last]
    BY DEF PytestObservation, kind, last
  <2> QED BY <2>3, <2>4 DEF q, r, kind, last
<1>4. o = [current EXCEPT !.processes = processes, !.start = start, !.error = error, !.pytest = pytest]
  BY <1>1, <1>3 DEF ObservationState
<1>5. process \in ProcessState /\ error \in CheckError
  <2>1. {0, 1, 2, 5, 6} \subseteq Int
    OBVIOUS
  <2> QED BY <2>1, PrimaryEndsAre
<1>6. processes \in Seq(ProcessState)
  BY <1>5, OneProcess
<1>7. start \in Owners \cup {"coverage", "none"} /\ ((start # "none") <=> started)
  BY <1>1, StartModuleIsTyped
<1>8. pytest \in PytestState
  <2>1. artifact[1] \in {"valid"} \cup RefusedArtifacts /\ artifact[2] \in Session
    <3>1. Sessions \subseteq Session /\ NoSession \in Session
      BY DEF Sessions, Session, WholeSession, NoSession
    <3> QED BY <3>1 DEF Artifacts
  <2> QED BY <2>1 DEF PytestState, PytestObservation
<1>9. StartModule = IF Measured(plan, deps) THEN "coverage" ELSE "pytest"
  BY DEF StartModule, Instrumented, Measured, CoverageOwner, IsPytest, DependencyNameForCheck
<1>10. start = IF started THEN (IF Measured(plan, deps) THEN "coverage" ELSE "pytest") ELSE "none"
  BY <1>9
<1> HIDE DEF start, error, processes, pytest, o
<1>11. /\ o \in ObservationState /\ o.name = "pytest" /\ o.processes = processes /\ o.start = start
       /\ o.error = error /\ o.coverage = current.coverage /\ o.pytest = pytest
       /\ o.authority = current.authority
  BY <1>1, <1>4, <1>5, <1>6, <1>7, <1>8 DEF ObservationState
<1>12. ~o.authority /\ o.coverage = CoverageBefore(plan, deps)
  BY <1>1, <1>11 DEF BeforeLaunch, Unstarted
<1>13. Launched(plan, deps, o, process, started, artifact)
  BY <1>10, <1>11, <1>12 DEF Launched, pytest
<1> QED BY <1>7, <1>11, <1>12, <1>13 DEF o, error, processes

\* The exit codes of the processes that were launched.
LEMMA PrimaryCodes ==
  ASSUME NEW process \in PrimaryEnds({0, 1, 2, 5, 6})
  PROVE  /\ process.role = "primary" /\ process # NoProcess /\ process.output = "complete"
         /\ \/ process.outcome = "exited" /\ process.code \in {0, 1, 2, 5, 6}
            \/ process.outcome \in {"spawn_failed", "signaled"} /\ process.code = NoCode
BY DEF PrimaryEnds, NotSpawned, Signaled, Exited, Process, NoProcess

(* When the data of pytest are not to be converted.                        *)
LEMMA WhenUntrusted ==
  ASSUME NEW o \in ObservationState, NEW process \in PrimaryEnds({0, 1, 2, 5, 6}),
         NEW started \in BOOLEAN, process.outcome = "spawn_failed" => ~started,
         o.processes = <<process>>, (o.start # "none") <=> started,
         o.error = PrimaryError(process, started, {0, 1, 5})
  PROVE  /\ Primary(o) = process
         /\ (o.error # "none" /\ ~Reserved(o)) <=> ~(started /\ process.code \in {0, 1, 2, 5})
<1>1. Primary(o) = process
  <2>1. Len(o.processes) = 1 /\ o.processes[1] = process
    OBVIOUS
  <2> QED BY <2>1, PrimaryIsFirst
<1>2. \/ process.outcome = "exited" /\ process.code \in {0, 1, 2, 5, 6}
      \/ process.outcome \in {"spawn_failed", "signaled"} /\ process.code = NoCode
  BY PrimaryCodes
<1>3. Reserved(o) <=> started /\ process.code = 2
  BY <1>1, <1>2 DEF Reserved, NoCode
<1>4. CASE process.outcome = "exited" /\ started
  BY <1>2, <1>3, <1>4, <1>1 DEF PrimaryError
<1>5. CASE process.outcome = "exited" /\ ~started
  BY <1>2, <1>3, <1>5, <1>1 DEF PrimaryError
<1>6. CASE process.outcome = "signaled" /\ started
  BY <1>2, <1>3, <1>6, <1>1 DEF PrimaryError, NoCode
<1>7. CASE process.outcome \in {"spawn_failed", "signaled"} /\ ~started
  BY <1>2, <1>3, <1>7, <1>1 DEF PrimaryError, NoCode
<1> QED BY <1>2, <1>4, <1>5, <1>6, <1>7

LEMMA WhenParallel ==
  ASSUME NEW o, NEW process \in PrimaryEnds({0, 1, 2, 5, 6}), NEW artifact \in Artifacts,
         Primary(o) = process, process.outcome = "exited",
         o.pytest = PytestObservation("supported", "supported", artifact[1], artifact[2])
  PROVE  (CurrentPytest(o).error = "unsupported_parallelism") <=> (artifact[1] = "parallel")
<1> DEFINE kind == artifact[1]
           error == ValidationError(o)
<1>1. kind \in {"valid"} \cup RefusedArtifacts
  BY DEF Artifacts
<1> HIDE DEF kind
<1>2. error = ArtifactError(kind)
  BY PrimaryCodes DEF ValidationError, PytestObservation, kind
<1>3. (error = "unsupported_parallelism") <=> (kind = "parallel")
  BY <1>1, <1>2 DEF ArtifactError, RefusedArtifacts
<1>4. (error = "none") <=> (kind = "valid")
  BY <1>1, <1>2 DEF ArtifactError, RefusedArtifacts
<1> HIDE DEF error
<1>5. CASE error = "none"
  <2> DEFINE session == o.pytest.session
             code == Primary(o).code
  <2> HIDE DEF session, code
  <2>1. CurrentPytest(o) = SessionResult(plan, session, Owner.version, code)
    BY <1>5 DEF CurrentPytest, BuildPytestResult, error, session, code
  <2>2. CurrentPytest(o).error = ExitError(code, SessionComplete(session, code), session.stopped)
    BY <2>1 DEF SessionResult, PytestResult
  <2>3. CurrentPytest(o).error # "unsupported_parallelism"
    BY <2>2 DEF ExitError
  <2> QED BY <1>4, <1>5, <2>3 DEF kind
<1>6. CASE error # "none"
  <2>1. CurrentPytest(o).error = error
    BY <1>6 DEF CurrentPytest, BuildPytestResult, PytestFailure, PytestResult, error
  <2> QED BY <1>3, <2>1 DEF kind
<1> QED BY <1>5, <1>6

(* The observation of a pytest that was run, when its workspace is closed. *)
LEMMA PytestRanIsEvidence ==
  ASSUME NEW p, NEW d, NEW o, o.name = "pytest", DependencyOf(d, "pytest").status = "available",
         PytestRan(p, d, o)
  PROVE  BeforeClosing(p, d, o)
BY DEF BeforeClosing, CheckEvidence, PytestEvidence

\* The data are left as they are.
LEMMA LeftIsEvidence ==
  ASSUME NEW p, NEW d, NEW o \in ObservationState, o.name = "pytest", Measured(p, d),
         DependencyOf(d, "pytest").status = "available",
         NEW process \in PrimaryEnds({0, 1, 2, 5, 6}), NEW started \in BOOLEAN, NEW artifact \in Artifacts,
         Launched(p, d, o, process, started, artifact), o.processes = <<process>>,
         o.error = PrimaryError(process, started, {0, 1, 5}),
         o.coverage = CoverageObservation("supported", "not_attempted"),
         NEW left \in LeftArtifact(process, started, artifact)
  PROVE  BeforeClosing(p, d, [o EXCEPT !.coverage.artifact = left])
<1> DEFINE coverage == [o.coverage EXCEPT !.artifact = left]
           q == [o EXCEPT !.coverage.artifact = left]
<1>1. coverage = CoverageObservation("supported", left)
  <2> DEFINE r == o.coverage
             yes == TRUE
  <2>1. r = [classification |-> "supported", artifact |-> "not_attempted", jsonExit |-> NoCode,
             wellFormed |-> yes]
    BY DEF CoverageObservation
  <2> HIDE DEF r, yes
  <2>2. [r EXCEPT !.artifact = left]
          = [classification |-> "supported", artifact |-> left, jsonExit |-> NoCode,
             wellFormed |-> yes]
    BY <2>1
  <2> QED BY <2>2 DEF CoverageObservation, r, yes
<1>2. q = [o EXCEPT !.coverage = coverage]
  OBVIOUS
<1> HIDE DEF coverage, q
<1>3. /\ q.name = o.name /\ q.processes = o.processes /\ q.start = o.start /\ q.error = o.error
      /\ q.authority = o.authority /\ q.pytest = o.pytest /\ q.coverage = coverage
  BY <1>2 DEF ObservationState
<1>4. Launched(p, d, q, process, started, artifact)
  BY <1>3 DEF Launched
<1>5. CoverageLeft(p, d, q, process, started, artifact)
  BY <1>1, <1>3 DEF CoverageLeft
<1>6. FailsWith(q, PrimaryError(process, started, {0, 1, 5}))
  BY <1>3 DEF FailsWith
<1>7. PytestRan(p, d, q)
  BY <1>4, <1>5, <1>6 DEF PytestRan
<1> QED BY <1>3, <1>7, PytestRanIsEvidence DEF q

LEMMA RunPytestHasEvidence ==
  ASSUME SafeInv, EvidenceInv, RunPytest
  PROVE  EvidenceInv'
<1>1. pc = "launch" /\ IsPytest /\ Owner.status = "available" /\ env' = env
  BY DEF RunPytest, Launches
<1>2. PICK process \in PrimaryEnds({0, 1, 2, 5, 6}), started \in BOOLEAN, artifact \in Artifacts :
        LET observation ==
              [current EXCEPT
                 !.processes = <<process>>,
                 !.start = IF started THEN StartModule ELSE "none",
                 !.error = PrimaryError(process, started, {0, 1, 5}),
                 !.pytest.artifact = artifact[1], !.pytest.session = artifact[2]]
            untrusted == observation.error # "none" /\ ~Reserved(observation)
            parallel == CurrentPytest(observation).error = "unsupported_parallelism"
        IN /\ process.outcome = "spawn_failed" => ~started
           /\ process.outcome # "exited" => artifact[1] = "missing"
           /\ Usual(ZeroExit(process) /\ started /\ artifact = <<"valid", WholeSession>>)
           /\ \/ ~Instrumented /\ Leaves(observation)
              \/ Instrumented /\ untrusted
                   /\ Leaves([observation EXCEPT !.coverage.artifact = "data_missing"])
              \/ Instrumented /\ ~untrusted /\ parallel
                   /\ Leaves([observation EXCEPT !.coverage.artifact = "unsupported_parallelism"])
              \/ /\ Instrumented /\ ~untrusted /\ ~parallel
                 /\ current' = observation /\ pc' = "coverage"
                 /\ UNCHANGED <<invocation, plan, baseline, deps, checks, report, exit>>
  BY DEF RunPytest
<1> DEFINE o == [current EXCEPT
                   !.processes = <<process>>,
                   !.start = IF started THEN StartModule ELSE "none",
                   !.error = PrimaryError(process, started, {0, 1, 5}),
                   !.pytest.artifact = artifact[1], !.pytest.session = artifact[2]]
<1>3. /\ process.outcome = "spawn_failed" => ~started
      /\ process.outcome # "exited" => artifact[1] = "missing"
  BY <1>2
<1>4. /\ o \in ObservationState /\ o.name = "pytest" /\ o.processes = <<process>>
      /\ o.error = PrimaryError(process, started, {0, 1, 5})
      /\ (o.start # "none") <=> started
      /\ o.coverage = CoverageBefore(plan, deps)
      /\ Launched(plan, deps, o, process, started, artifact)
  BY <1>1, <1>3, PytestLaunched
<1> DEFINE untrusted == o.error # "none" /\ ~Reserved(o)
           parallel == CurrentPytest(o).error = "unsupported_parallelism"
<1>5. \/ ~Instrumented /\ Leaves(o)
      \/ Instrumented /\ untrusted /\ Leaves([o EXCEPT !.coverage.artifact = "data_missing"])
      \/ Instrumented /\ ~untrusted /\ parallel
           /\ Leaves([o EXCEPT !.coverage.artifact = "unsupported_parallelism"])
      \/ /\ Instrumented /\ ~untrusted /\ ~parallel /\ current' = o /\ pc' = "coverage"
         /\ UNCHANGED <<plan, deps, checks, report>>
  BY <1>2
<1> HIDE DEF o
<1>6. /\ Primary(o) = process
      /\ untrusted <=> ~(started /\ process.code \in {0, 1, 2, 5})
  BY <1>3, <1>4, WhenUntrusted
<1>7. ~untrusted => (parallel <=> artifact[1] = "parallel")
  <2> SUFFICES ASSUME ~untrusted PROVE parallel <=> artifact[1] = "parallel"
    OBVIOUS
  <2>1. process.code \in {0, 1, 2, 5}
    BY <1>6
  <2>2. process.outcome = "exited"
    BY <2>1, PrimaryCodes DEF NoCode
  <2>3. o.pytest = PytestObservation("supported", "supported", artifact[1], artifact[2])
    BY <1>4 DEF Launched
  <2> HIDE DEF untrusted
  <2> QED BY <1>6, <2>2, <2>3, WhenParallel
<1> HIDE DEF untrusted, parallel
<1>8. Instrumented <=> Measured(plan, deps)
  BY <1>1 DEF Instrumented, Measured, CoverageOwner
<1>9. DependencyOf(deps, "pytest").status = "available"
  BY <1>1 DEF Owner, IsPytest, DependencyNameForCheck
<1>10. Measured(plan, deps) => o.coverage = CoverageObservation("supported", "not_attempted")
  BY <1>4 DEF Measured, CoverageBefore
<1>11. CASE ~Instrumented /\ Leaves(o)
  <2>1. CoverageLeft(plan, deps, o, process, started, artifact)
    BY <1>4, <1>8, <1>11 DEF CoverageLeft
  <2>2. PytestRan(plan, deps, o)
    BY <1>4, <2>1 DEF PytestRan, FailsWith
  <2>3. BeforeClosing(plan, deps, o)
    BY <1>4, <1>9, <2>2, PytestRanIsEvidence
  <2> QED BY <1>1, <1>11, <2>3, LeavesHasEvidence
<1>12. CASE Instrumented /\ untrusted /\ Leaves([o EXCEPT !.coverage.artifact = "data_missing"])
  <2>1. "data_missing" \in LeftArtifact(process, started, artifact)
    BY <1>6, <1>12 DEF LeftArtifact
  <2>2. BeforeClosing(plan, deps, [o EXCEPT !.coverage.artifact = "data_missing"])
    BY <1>4, <1>8, <1>9, <1>10, <1>12, <2>1, LeftIsEvidence
  <2> QED BY <1>1, <1>12, <2>2, LeavesHasEvidence
<1>13. CASE Instrumented /\ ~untrusted /\ parallel
              /\ Leaves([o EXCEPT !.coverage.artifact = "unsupported_parallelism"])
  <2>1. "unsupported_parallelism" \in LeftArtifact(process, started, artifact)
    BY <1>6, <1>7, <1>13 DEF LeftArtifact
  <2>2. BeforeClosing(plan, deps, [o EXCEPT !.coverage.artifact = "unsupported_parallelism"])
    BY <1>4, <1>8, <1>9, <1>10, <1>13, <2>1, LeftIsEvidence
  <2> QED BY <1>1, <1>13, <2>2, LeavesHasEvidence
<1>14. CASE /\ Instrumented /\ ~untrusted /\ ~parallel /\ current' = o /\ pc' = "coverage"
            /\ UNCHANGED <<plan, deps, checks, report>>
  <2>1. Trusted(process, started, artifact)
    BY <1>6, <1>7, <1>14 DEF Trusted
  <2>2. BeforeConversion(plan, deps, o)
    BY <1>4, <1>8, <1>9, <1>10, <1>14, <2>1 DEF BeforeConversion
  <2>3. Checking(plan, env, deps, checks)
    BY <1>1, AtHand DEF Evidence
  <2>4. Evidence("coverage", plan', env', deps', checks', current')
    BY <1>1, <1>14, <2>2, <2>3 DEF Evidence
  <2> QED BY <1>1, <1>14, <2>4, FollowsOn
<1> QED BY <1>5, <1>11, <1>12, <1>13, <1>14

-----------------------------------------------------------------------------
(* Coverage data *)

LEMMA DataAtHand ==
  ASSUME SafeInv, EvidenceInv, pc = "coverage"
  PROVE  /\ current \in ObservationState /\ current.name = "pytest"
         /\ BeforeConversion(plan, deps, current)
BY AtHand, AtCoverage DEF Evidence

\* The conversion does not come about.
LEMMA DataLeft ==
  ASSUME SafeInv, EvidenceInv, pc = "coverage",
         NEW left \in {"data_missing", "unexpected_parallel_data", "generation_failed"}
  PROVE  BeforeClosing(plan, deps, [current EXCEPT !.coverage.artifact = left])
<1>1. /\ current \in ObservationState /\ current.name = "pytest"
      /\ BeforeConversion(plan, deps, current)
  BY DataAtHand
<1>2. PICK process \in PrimaryEnds({0, 1, 2, 5, 6}), started \in BOOLEAN, artifact \in Artifacts :
        /\ Launched(plan, deps, current, process, started, artifact)
        /\ current.processes = <<process>>
        /\ Trusted(process, started, artifact)
        /\ current.error = PrimaryError(process, started, {0, 1, 5})
  BY <1>1 DEF BeforeConversion
<1>3. left \in LeftArtifact(process, started, artifact)
  BY <1>2 DEF Trusted, LeftArtifact
<1> QED BY <1>1, <1>2, <1>3, LeftIsEvidence DEF BeforeConversion

LEMMA ConversionLosesUvHasEvidence ==
  ASSUME SafeInv, EvidenceInv, ConversionLosesUv
  PROVE  EvidenceInv'
<1>1. /\ pc = "coverage" /\ Leaves([current EXCEPT !.coverage.artifact = "generation_failed"])
      /\ env' = [env EXCEPT !.error = "unsafe_repository_environment"]
  BY DEF ConversionLosesUv
<1>2. BeforeClosing(plan, deps, [current EXCEPT !.coverage.artifact = "generation_failed"])
  BY <1>1, DataLeft
<1> QED BY <1>1, <1>2, LeavesHasEvidence

LEMMA DataRejectedHasEvidence ==
  ASSUME SafeInv, EvidenceInv, DataRejected
  PROVE  EvidenceInv'
<1>1. pc = "coverage" /\ env' = env
  BY DEF DataRejected
<1>2. PICK left \in {"data_missing", "unexpected_parallel_data", "generation_failed"} :
        Leaves([current EXCEPT !.coverage.artifact = left])
  BY DEF DataRejected
<1>3. BeforeClosing(plan, deps, [current EXCEPT !.coverage.artifact = left])
  BY <1>1, DataLeft
<1> QED BY <1>1, <1>2, <1>3, LeavesHasEvidence

LEMMA ConvertHasEvidence ==
  ASSUME SafeInv, EvidenceInv, Convert
  PROVE  EvidenceInv'
<1>1. pc = "coverage" /\ env' = env
  BY DEF Convert
<1>2. PICK json \in {NotSpawned("coverage_json"), Signaled("coverage_json")}
                      \cup {Exited("coverage_json", code) : code \in {0, 1, 2}},
           sound, wellFormed \in BOOLEAN, document \in {"snapshot", "artifact_missing", "artifact_invalid"} :
        /\ json.outcome # "exited" \/ document # "snapshot" => wellFormed
        /\ Usual(ZeroExit(json) /\ sound /\ wellFormed /\ document = "snapshot")
        /\ Leaves([current EXCEPT
                     !.processes = Append(@, json),
                     !.coverage.artifact = ConvertedArtifact(json, sound, document),
                     !.coverage.jsonExit = json.code, !.coverage.wellFormed = wellFormed])
  BY DEF Convert
<1>3. /\ current \in ObservationState /\ current.name = "pytest"
      /\ BeforeConversion(plan, deps, current)
  BY <1>1, DataAtHand
<1>4. PICK process \in PrimaryEnds({0, 1, 2, 5, 6}), started \in BOOLEAN, artifact \in Artifacts :
        /\ Launched(plan, deps, current, process, started, artifact)
        /\ current.processes = <<process>>
        /\ Trusted(process, started, artifact)
        /\ current.error = PrimaryError(process, started, {0, 1, 5})
  BY <1>3 DEF BeforeConversion
<1>5. json \in ProcessState /\ process \in ProcessState
  <2>1. /\ \A code \in Int : Exited("coverage_json", code) \in ProcessState
        /\ NotSpawned("coverage_json") \in ProcessState /\ Signaled("coverage_json") \in ProcessState
    BY ProcessesAreTyped DEF Role
  <2>2. {0, 1, 2} \subseteq Int /\ {0, 1, 2, 5, 6} \subseteq Int
    OBVIOUS
  <2>3. process \in ProcessState
    <3>1. process.outcome = "spawn_failed" => ~started
      BY <1>4 DEF Launched
    <3> QED BY <2>2, <3>1, PrimaryEndsAre
  <2> QED BY <2>1, <2>2, <2>3
<1> DEFINE converted == ConvertedArtifact(json, sound, document)
           coverage == [current.coverage EXCEPT !.artifact = converted, !.jsonExit = json.code,
                                                !.wellFormed = wellFormed]
           processes == Append(current.processes, json)
           o == [current EXCEPT
                   !.processes = Append(@, json),
                   !.coverage.artifact = ConvertedArtifact(json, sound, document),
                   !.coverage.jsonExit = json.code, !.coverage.wellFormed = wellFormed]
<1>6. json \in Conversions /\ converted \in CoverageArtifact /\ ConvertedTo(json, converted)
  <2>1. \/ json.outcome = "spawn_failed" \/ json.outcome = "signaled" \/ json.outcome = "exited"
    BY DEF NotSpawned, Signaled, Exited, Process
  <2>2. converted \in CoverageArtifact /\ ConvertedTo(json, converted)
    <3>1. CASE json.outcome = "exited" /\ sound
      BY <3>1 DEF ConvertedArtifact, CoverageArtifact, ConvertedTo
    <3>2. CASE json.outcome = "exited" /\ ~sound
      BY <3>2 DEF ConvertedArtifact, CoverageArtifact, ConvertedTo
    <3>3. CASE json.outcome = "signaled"
      BY <3>3 DEF ConvertedArtifact, CoverageArtifact, ConvertedTo
    <3>4. CASE json.outcome = "spawn_failed"
      BY <3>4 DEF ConvertedArtifact, CoverageArtifact, ConvertedTo
    <3> QED BY <2>1, <3>1, <3>2, <3>3, <3>4
  <2>3. json \in Conversions
    BY DEF Conversions
  <2> QED BY <2>2, <2>3
<1>7. Leaves(o)
  BY <1>2
<1>8. o = [current EXCEPT !.processes = processes, !.coverage = coverage]
  OBVIOUS
<1> HIDE DEF o, converted
<1>9. coverage = [classification |-> "supported", artifact |-> converted,
                  jsonExit |-> json.code, wellFormed |-> wellFormed]
  <2> DEFINE yes == TRUE
             no == wellFormed
             last == json.code
             r == current.coverage
             q == [r EXCEPT !.artifact = converted]
             s == [q EXCEPT !.jsonExit = last]
  <2>1. r = [classification |-> "supported", artifact |-> "not_attempted", jsonExit |-> NoCode,
             wellFormed |-> yes]
    BY <1>3 DEF BeforeConversion, CoverageObservation
  <2> HIDE DEF r, yes, no, last
  <2>2. q = [classification |-> "supported", artifact |-> converted, jsonExit |-> NoCode,
             wellFormed |-> yes]
    BY <2>1
  <2> HIDE DEF q
  <2>3. s = [classification |-> "supported", artifact |-> converted, jsonExit |-> last,
             wellFormed |-> yes]
    BY <2>2
  <2> HIDE DEF s
  <2>4. [s EXCEPT !.wellFormed = no]
          = [classification |-> "supported", artifact |-> converted, jsonExit |-> last,
             wellFormed |-> no]
    BY <2>3
  <2> QED BY <2>4 DEF s, q, r, no, last
<1>10. processes = <<process, json>>
  BY <1>4, <1>5, AppendedTwice
<1> HIDE DEF coverage, processes
<1>11. /\ o.name = "pytest" /\ o.processes = processes /\ o.start = current.start
       /\ o.error = current.error /\ o.authority = current.authority /\ o.pytest = current.pytest
       /\ o.coverage = coverage
  BY <1>3, <1>8 DEF ObservationState
<1>12. Launched(plan, deps, o, process, started, artifact)
  BY <1>4, <1>11 DEF Launched
<1>13. CoverageLeft(plan, deps, o, process, started, artifact)
  BY <1>3, <1>4, <1>6, <1>9, <1>10, <1>11 DEF CoverageLeft, BeforeConversion
<1>14. FailsWith(o, PrimaryError(process, started, {0, 1, 5}))
  BY <1>4, <1>11 DEF FailsWith
<1>15. PytestRan(plan, deps, o)
  BY <1>12, <1>13, <1>14 DEF PytestRan
<1>16. BeforeClosing(plan, deps, o)
  BY <1>3, <1>11, <1>15, PytestRanIsEvidence DEF BeforeConversion
<1> QED BY <1>1, <1>7, <1>16, LeavesHasEvidence

-----------------------------------------------------------------------------
(* The end of a Check and of a run *)

\* What a failed cleanup makes of an observation.
LEMMA CleanupFails ==
  ASSUME NEW p, NEW d, NEW o \in ObservationState, BeforeClosing(p, d, o)
  PROVE  CheckEvidence(p, d, [o EXCEPT !.error = "cleanup_failed"])
<1> DEFINE q == [o EXCEPT !.error = "cleanup_failed"]
<1>1. /\ q.name = o.name /\ q.processes = o.processes /\ q.start = o.start
      /\ q.authority = o.authority /\ q.error = "cleanup_failed"
      /\ q.pytest = o.pytest /\ q.coverage = o.coverage
  BY DEF ObservationState
<1> HIDE DEF q
<1>2. /\ Unstarted(q) <=> Unstarted(o)
      /\ Bare(q) <=> Bare(o)
      /\ NoWorkspace(o) => NoWorkspace(q)
      /\ \A error : FailsWith(q, error)
  BY <1>1 DEF Unstarted, Bare, NoWorkspace, FailsWith
<1>3. CASE o.name = "pytest"
  <2>1. PytestEvidence(p, d, o)
    BY <1>3 DEF BeforeClosing, CheckEvidence
  <2>2. PytestRan(p, d, o) => PytestRan(p, d, q)
    <3> SUFFICES ASSUME PytestRan(p, d, o)
                 PROVE  PytestRan(p, d, q)
      OBVIOUS
    <3>1. PICK process \in PrimaryEnds({0, 1, 2, 5, 6}), started \in BOOLEAN, artifact \in Artifacts :
            /\ Launched(p, d, o, process, started, artifact)
            /\ FailsWith(o, PrimaryError(process, started, {0, 1, 5}))
            /\ CoverageLeft(p, d, o, process, started, artifact)
      BY DEF PytestRan
    <3>2. Launched(p, d, q, process, started, artifact)
      BY <1>1, <3>1 DEF Launched
    <3>3. CoverageLeft(p, d, q, process, started, artifact)
      BY <1>1, <3>1 DEF CoverageLeft
    <3> QED BY <1>2, <3>2, <3>3 DEF PytestRan
  <2>3. PytestEvidence(p, d, q)
    BY <1>1, <1>2, <2>1, <2>2 DEF PytestEvidence
  <2> QED BY <1>1, <1>3, <2>3 DEF CheckEvidence, q
<1>4. CASE o.name # "pytest"
  <2>1. OrdinaryEvidence(d, o) /\ DependencyOf(d, DependencyNameForCheck(o.name)).status = "available"
    BY <1>4 DEF BeforeClosing, CheckEvidence
  <2>2. OrdinaryRan(o) => OrdinaryRan(q)
    BY <1>1, <1>2 DEF OrdinaryRan
  <2>3. OrdinaryEvidence(d, q)
    BY <1>1, <1>2, <2>1, <2>2 DEF OrdinaryEvidence
  <2> QED BY <1>1, <1>4, <2>3 DEF CheckEvidence, q
<1> QED BY <1>3, <1>4

LEMMA CloseWorkspaceHasEvidence ==
  ASSUME SafeInv, EvidenceInv, CloseWorkspace
  PROVE  EvidenceInv'
<1>1. pc = "close" /\ Joins(current)
  BY DEF CloseWorkspace
<1>2. current \in ObservationState
  BY <1>1, AtClose
<1>3. CheckEvidence(plan, deps, current)
  BY <1>1, AtHand DEF Evidence, BeforeClosing
<1> QED BY <1>1, <1>2, <1>3, JoinsHasEvidence

LEMMA CloseFailsHasEvidence ==
  ASSUME SafeInv, EvidenceInv, CloseFails
  PROVE  EvidenceInv'
<1> DEFINE o == [current EXCEPT !.error = "cleanup_failed"]
<1>1. pc = "close" /\ Joins(o)
  BY DEF CloseFails
<1>2. current \in ObservationState
  BY <1>1, AtClose
<1>3. o \in ObservationState
  <2>1. "cleanup_failed" \in CheckError
    BY DEF CheckError
  <2> QED BY <1>2, <2>1 DEF ObservationState
<1>4. BeforeClosing(plan, deps, current)
  BY <1>1, AtHand DEF Evidence
<1>5. CheckEvidence(plan, deps, o)
  BY <1>2, <1>4, CleanupFails
<1> HIDE DEF o
<1> QED BY <1>1, <1>3, <1>5, JoinsHasEvidence

\* Which processes a verification leaves, and what they show.
LEMMA VerificationsLeave ==
  ASSUME NEW found \in Verifications
  PROVE  /\ found.processes \in Tails
         /\ found.protection = "tracked_files" => found.processes = <<Safety(0)>>
<1> DEFINE F(processes, protection, error) ==
             [processes |-> processes, protection |-> protection, error |-> error]
<1>1. \E processes \in Tails, protection \in {"unobserved", "tracked_files", "protected_files"},
        error \in {"none", "repository_state_changed"} :
           /\ found = F(processes, protection, error)
           /\ protection = "tracked_files" => processes = <<Safety(0)>>
  <2>1. CASE baseline = "git"
    <3>1. \/ found = F(<<Safety(0)>>, "tracked_files", "none")
          \/ found = F(<<Safety(0)>>, "tracked_files", "repository_state_changed")
          \/ found = F(<<>>, "unobserved", "repository_state_changed")
          \/ found = F(<<Safety(0)>>, "unobserved", "repository_state_changed")
          \/ found = F(<<Safety(1)>>, "unobserved", "repository_state_changed")
          \/ found = F(<<NotSpawned("repository_safety")>>, "unobserved", "repository_state_changed")
      BY <2>1 DEF Verifications
    <3> HIDE DEF F
    <3>2. /\ <<>> \in Tails /\ <<Safety(0)>> \in Tails /\ <<Safety(1)>> \in Tails
          /\ <<NotSpawned("repository_safety")>> \in Tails
      BY DEF Tails
    <3> QED BY <3>1, <3>2
  <2>2. CASE baseline # "git"
    <3>1. /\ found.processes = <<>> /\ found = F(found.processes, found.protection, found.error)
          /\ found.protection \in {"unobserved", "protected_files"}
          /\ found.error \in {"none", "repository_state_changed"}
      BY <2>2 DEF Verifications
    <3> HIDE DEF F
    <3>2. <<>> \in Tails
      BY DEF Tails
    <3> QED BY <3>1, <3>2
  <2> QED BY <2>1, <2>2
<1>2. PICK processes \in Tails, protection \in {"unobserved", "tracked_files", "protected_files"},
        error \in {"none", "repository_state_changed"} :
           /\ found = F(processes, protection, error)
           /\ protection = "tracked_files" => processes = <<Safety(0)>>
  BY <1>1
<1>3. found.processes = processes /\ found.protection = protection
  BY <1>2
<1> QED BY <1>2, <1>3

LEMMA VerifyHasEvidence ==
  ASSUME SafeInv, EvidenceInv, Verify
  PROVE  EvidenceInv'
<1>1. PICK found \in Verifications, helperLost \in BOOLEAN :
        /\ deviations' = deviations + (IF found.error = "none" THEN 0 ELSE 1)
                                    + (IF helperLost THEN 1 ELSE 0)
        /\ deviations' <= DeviationBound
        /\ env' = [env EXCEPT
                     !.processes = @ \o found.processes, !.protection = found.protection,
                     !.error = FinalError(found, helperLost)]
  BY DEF Verify
<1>2. /\ pc = "verify" /\ pc' = "report"
      /\ UNCHANGED <<invocation, plan, baseline, deps, checks, current, forced, report, exit>>
  BY DEF Verify
<1>3. env \in EnvironmentState /\ env.error \in EnvironmentError
  BY DEF SafeInv, TypeInv, EnvironmentState
<1>4. baseline \in {"git", "plain"}
  BY <1>2 DEF SafeInv, TypeInv, EnvInv
<1>5. /\ found.error \in {"none", "repository_state_changed"}
      /\ found.error = "none" => found.protection \in {"tracked_files", "protected_files"}
      /\ found.processes \in Tails /\ found.processes \in Seq(ProcessState)
      /\ found.protection = "tracked_files" => found.processes = <<Safety(0)>>
  BY <1>4, VerificationsAre, VerificationsLeave DEF BaselineProtection
<1>6. Verifying(plan, env, deps, checks)
  BY <1>2, AtHand DEF Evidence
<1>7. PICK core \in Cores, m \in 0 .. Len(deps), l \in 0 .. Len(checks) :
        /\ env.lock # "missing" /\ Laid(env.processes, core, <<>>)
        /\ Outcome(plan, env, deps, checks, core, env.error, m, l)
  BY <1>6 DEF Verifying
<1> DEFINE error == FinalError(found, helperLost)
           processes == env.processes \o found.processes
<1>8. /\ error \in {env.error, "repository_state_changed", "unsafe_repository_environment"}
      /\ error = "none" => found.error = "none"
  <2>1. CASE helperLost
    BY <2>1 DEF FinalError
  <2>2. CASE ~helperLost /\ found.error # "none"
    BY <2>2, <1>5 DEF FinalError
  <2>3. CASE ~helperLost /\ found.error = "none"
    BY <2>3 DEF FinalError
  <2> QED BY <2>1, <2>2, <2>3
<1>9. Laid(processes, core, found.processes)
  BY <1>5, <1>7, CoresAreTyped, LaidLast
<1>10. env' = [env EXCEPT !.processes = processes, !.protection = found.protection, !.error = error]
  BY <1>1
<1> HIDE DEF error, processes
<1>11. /\ env'.processes = processes /\ env'.protection = found.protection /\ env'.error = error
       /\ env'.lock = env.lock /\ env'.python = env.python /\ env'.manager = env.manager
  BY <1>3, <1>10 DEF EnvironmentState
<1>12. Verified(env', env.error, found.processes)
  BY <1>5, <1>7, <1>8, <1>11 DEF Verified
<1>13. /\ Stopped(env, core, env.error) => Stopped(env', core, env.error)
       /\ Usable(env, core, env.error) => Usable(env', core, env.error)
  BY <1>11 DEF Stopped, Usable
<1>14. Outcome(plan, env', deps, checks, core, env.error, m, l)
  BY <1>7, <1>13 DEF Outcome
<1>15. Reporting(plan, env', deps, checks)
  BY <1>3, <1>5, <1>7, <1>9, <1>11, <1>12, <1>14 DEF Reporting
<1>16. Evidence("report", plan', env', deps', checks', current')
  BY <1>2, <1>15 DEF Evidence
<1> QED BY <1>2, <1>16, FollowsOn

LEMMA ReportHasEvidence ==
  ASSUME SafeInv, EvidenceInv, Report
  PROVE  EvidenceInv'
<1>1. /\ pc = "report" /\ pc' = "done"
      /\ UNCHANGED <<invocation, plan, baseline, env, deps, checks, current, forced, deviations>>
      /\ report' = IF ValidReport(Built) THEN "shown" ELSE "refused"
  BY DEF Report
<1>2. Built' = Built
  BY <1>1 DEF Built
<1>3. Evidence("report", plan, env, deps, checks, current)
  BY <1>1, AtHand
<1>4. Evidence("done", plan, env, deps, checks, current)
  BY <1>3 DEF Evidence
<1>5. Evidence(pc', plan', env', deps', checks', current')
  BY <1>1, <1>4
<1>6. ReportablePlan(plan)'
  BY <1>1, UnderWay DEF EvidenceInv
<1> QED BY <1>1, <1>2, <1>5, <1>6 DEF EvidenceInv

LEMMA StutterHasEvidence ==
  ASSUME EvidenceInv, UNCHANGED vars
  PROVE  EvidenceInv'
<1>1. /\ pc' = pc /\ plan' = plan /\ env' = env /\ deps' = deps /\ checks' = checks
      /\ current' = current /\ report' = report
  BY DEF vars
<1>2. Built' = Built
  BY <1>1 DEF Built
<1> QED BY <1>1, <1>2 DEF EvidenceInv, Refused

LEMMA StepEvidence == SafeInv /\ EvidenceInv /\ [Next]_vars => EvidenceInv'
<1> SUFFICES ASSUME SafeInv, EvidenceInv, [Next]_vars
             PROVE  EvidenceInv'
  OBVIOUS
<1>1. CASE Next
  BY <1>1, RefuseHasEvidence, PlanHasEvidence, LockPresentHasEvidence, LockRejectedHasEvidence,
     CaptureBaselineHasEvidence, BaselineFailsHasEvidence, UvRejectedHasEvidence,
     RunUvVersionHasEvidence, UvChangesBeforeProbeHasEvidence, RunProbeHasEvidence,
     ProbeDependencyHasEvidence, ProbingLosesUvHasEvidence, DependencyUnavailableHasEvidence,
     CreateFailsHasEvidence, SetupFailsHasEvidence, EnterWorkspaceHasEvidence,
     PytestUnavailableHasEvidence, StagingFailsHasEvidence, MarkerUnpreparedHasEvidence,
     LaunchLosesUvHasEvidence, RunOrdinaryHasEvidence, RunPytestHasEvidence,
     ConversionLosesUvHasEvidence, DataRejectedHasEvidence, ConvertHasEvidence,
     CloseWorkspaceHasEvidence, CloseFailsHasEvidence, VerifyHasEvidence, ReportHasEvidence
     DEF Next
<1>2. CASE UNCHANGED vars
  BY <1>2, StutterHasEvidence
<1> QED BY <1>1, <1>2

(* The evidence of every run, and its validation, at every step.           *)
THEOREM SpecHasEvidence == Spec => [](SafeInv /\ EvidenceInv)
<1>1. Init => SafeInv /\ EvidenceInv
  BY InitSafe, InitHasEvidence
<1>2. SafeInv /\ EvidenceInv /\ [Next]_vars => (SafeInv /\ EvidenceInv)'
  BY StepSafe, StepEvidence
<1> QED BY <1>1, <1>2, PTL DEF Spec

-----------------------------------------------------------------------------
(* The processes of the environment *)

LEMMA LeastIs ==
  ASSUME NEW I \in SUBSET Nat, NEW least \in I, \A i \in I : least <= i
  PROVE  Min(I) = least
<1>1. \A x \in I : (\A y \in I : x <= y) => x = least
  OBVIOUS
<1> QED BY <1>1 DEF Min

\* Where a sequence of processes has those that are not git commands.
Inner(processes) == {i \in 1 .. Len(processes) : processes[i].role # "repository_safety"}

\* The first n processes captured the baseline.
LaidAt(processes, core, tail, n) ==
  /\ processes \in Seq(ProcessState) /\ Len(tail) \in {0, 1}
  /\ Len(processes) = n + Len(core) + Len(tail)
  /\ \A i \in 1 .. n : processes[i].role = "repository_safety"
  /\ \A k \in 1 .. Len(core) : processes[n + k] = core[k]
  /\ \A i \in n + 1 .. n + Len(core) : processes[i].role # "repository_safety"
  /\ \A i \in n + Len(core) + 1 .. Len(processes) :
        processes[i].role = "repository_safety" /\ processes[i] = tail[1]
  /\ Inner(processes) = n + 1 .. n + Len(core)

(* The positions and the roles of the processes of an environment.         *)
LEMMA LaidOut ==
  ASSUME NEW core \in Seq(ProcessState), NEW tail \in Tails, NEW processes,
         Laid(processes, core, tail),
         \A i \in 1 .. Len(core) : core[i].role # "repository_safety"
  PROVE  \E n \in {0, 1, 4} : LaidAt(processes, core, tail, n)
<1>1. PICK n \in {0, 1, 4} : processes = (SafetyProcesses(n) \o core) \o tail
  BY DEF Laid
<1> DEFINE s == SafetyProcesses(n)
           c == Len(core)
           t == Len(tail)
<1>2. /\ s \in Seq(ProcessState) /\ Len(s) = n
      /\ \A i \in 1 .. n : s[i].role = "repository_safety"
  <2>1. s \in Seq(ProcessState)
    BY SafetyProcessesAreTyped
  <2>2. DOMAIN s = 1 .. n /\ \A i \in 1 .. n : s[i] = Safety(0)
    BY DEF SafetyProcesses
  <2>3. Len(s) = n
    BY <2>1, <2>2
  <2> QED BY <2>1, <2>2, <2>3 DEF Safety, Exited, Process
<1>3. /\ tail \in Seq(ProcessState) /\ t \in {0, 1}
      /\ \A i \in 1 .. t : tail[i].role = "repository_safety"
  <2>1. tail \in Seq(ProcessState)
    BY CoresAreTyped
  <2>2. /\ Safety(0).role = "repository_safety" /\ Safety(1).role = "repository_safety"
        /\ NotSpawned("repository_safety").role = "repository_safety"
    BY DEF Safety, Exited, NotSpawned, Process
  <2>3. \/ tail = <<>> \/ tail = <<Safety(0)>> \/ tail = <<Safety(1)>>
        \/ tail = <<NotSpawned("repository_safety")>>
    BY DEF Tails
  <2> QED BY <2>1, <2>2, <2>3
<1>4. c \in Nat
  OBVIOUS
<1> HIDE DEF s
<1>5. /\ s \o core \in Seq(ProcessState) /\ Len(s \o core) = n + c
      /\ \A i \in 1 .. n : (s \o core)[i] = s[i]
      /\ \A k \in 1 .. c : (s \o core)[n + k] = core[k]
  BY <1>2, <1>4
<1> DEFINE u == s \o core
<1> HIDE DEF u
<1>6. u \in Seq(ProcessState) /\ Len(u) = n + c
  BY <1>5 DEF u
<1>7. /\ u \o tail \in Seq(ProcessState) /\ Len(u \o tail) = n + c + t
      /\ \A i \in 1 .. n + c : (u \o tail)[i] = u[i]
      /\ \A k \in 1 .. t : (u \o tail)[n + c + k] = tail[k]
  BY <1>3, <1>6
<1>8. processes = u \o tail
  BY <1>1 DEF s, u
<1>9. \A i \in 1 .. n : processes[i].role = "repository_safety"
  BY <1>2, <1>4, <1>5, <1>7, <1>8 DEF u
<1>10. \A k \in 1 .. c : processes[n + k] = core[k]
  <2> SUFFICES ASSUME NEW k \in 1 .. c PROVE processes[n + k] = core[k]
    OBVIOUS
  <2>1. n + k \in 1 .. n + c
    BY <1>4
  <2> QED BY <2>1, <1>5, <1>7, <1>8 DEF u
<1>11. \A i \in n + 1 .. n + c : processes[i].role # "repository_safety"
  <2> SUFFICES ASSUME NEW i \in n + 1 .. n + c PROVE processes[i].role # "repository_safety"
    OBVIOUS
  <2> DEFINE k == i - n
  <2>1. k \in 1 .. c /\ n + k = i
    BY <1>4
  <2> HIDE DEF k
  <2> QED BY <2>1, <1>10
<1>12. \A i \in n + c + 1 .. Len(processes) :
          processes[i].role = "repository_safety" /\ processes[i] = tail[1]
  <2> SUFFICES ASSUME NEW i \in n + c + 1 .. Len(processes)
               PROVE  processes[i].role = "repository_safety" /\ processes[i] = tail[1]
    OBVIOUS
  <2>1. t = 1 /\ i = n + c + 1
    BY <1>3, <1>4, <1>7, <1>8
  <2>2. processes[n + c + 1] = tail[1]
    BY <2>1, <1>7, <1>8
  <2> QED BY <2>1, <2>2, <1>3
<1>13. Len(processes) = n + c + t /\ processes \in Seq(ProcessState)
  BY <1>7, <1>8
<1>14. Inner(processes) = n + 1 .. n + c
  <2>1. ASSUME NEW i \in Inner(processes) PROVE i \in n + 1 .. n + c
    <3>1. i \in 1 .. n + c + t /\ processes[i].role # "repository_safety"
      BY <2>1, <1>13 DEF Inner
    <3>2. i \notin 1 .. n /\ i \notin n + c + 1 .. n + c + t
      BY <3>1, <1>9, <1>12, <1>13
    <3> QED BY <3>1, <3>2, <1>3, <1>4
  <2>2. ASSUME NEW i \in n + 1 .. n + c PROVE i \in Inner(processes)
    <3>1. i \in 1 .. n + c + t
      BY <1>3, <1>4
    <3> QED BY <3>1, <1>11, <1>13 DEF Inner
  <2> QED BY <2>1, <2>2
<1> QED BY <1>3, <1>9, <1>10, <1>11, <1>12, <1>13, <1>14 DEF LaidAt

(* What Picked returns of an interval of positions.                        *)
LEMMA PickedInterval ==
  ASSUME NEW s \in Seq(ProcessState), NEW n \in Nat, NEW c \in {0, 1, 2}, n + c <= Len(s)
  PROVE  LET q == Picked(s, n + 1 .. n + c)
         IN q \in Seq(ProcessState) /\ Len(q) = c /\ \A k \in 1 .. c : q[k] = s[n + k]
<1> DEFINE q == Picked(s, n + 1 .. n + c)
           P == n + 1 .. n + c
<1>1. P \in SUBSET (1 .. Len(s))
  OBVIOUS
<1>2. q \in Seq(ProcessState) /\ \E f : Leads(f, q, s, P)
  BY <1>1, PickedIs
<1>3. PICK f : Leads(f, q, s, P)
  BY <1>2
<1> HIDE DEF q
<1>4. /\ \A i \in 1 .. Len(q) : f[i] \in Int /\ f[i] >= n + 1 /\ f[i] <= n + c
      /\ \A i, j \in 1 .. Len(q) : i < j => f[i] < f[j]
      /\ \A i \in 1 .. Len(q) : q[i] = s[f[i]]
      /\ \A p \in P : \E i \in 1 .. Len(q) : f[i] = p
  BY <1>3 DEF Leads
<1>5. Len(q) \in Nat
  BY <1>2
<1>6. ASSUME c = 0 PROVE Len(q) = c /\ \A k \in 1 .. c : q[k] = s[n + k]
  <2>1. Len(q) = 0
    <3>1. Len(q) >= 1 => 1 \in 1 .. Len(q)
      BY <1>5
    <3> QED BY <3>1, <1>4, <1>5, <1>6
  <2> QED BY <2>1, <1>2, <1>6
<1>7. ASSUME c = 1 PROVE Len(q) = c /\ \A k \in 1 .. c : q[k] = s[n + k]
  <2>1. n + 1 \in P
    BY <1>7
  <2>2. Len(q) >= 1
    BY <2>1, <1>4, <1>5
  <2>3. ~(Len(q) >= 2)
    <3>1. Len(q) >= 2 => 1 \in 1 .. Len(q) /\ 2 \in 1 .. Len(q)
      BY <1>5
    <3> QED BY <3>1, <1>4, <1>7
  <2>4. Len(q) = 1 /\ 1 \in 1 .. Len(q)
    <3> DEFINE l == Len(q)
    <3>1. l \in Nat /\ l >= 1 /\ ~(l >= 2)
      BY <2>2, <2>3, <1>5
    <3> HIDE DEF l
    <3>2. l = 1
      BY <3>1
    <3> QED BY <3>2 DEF l
  <2>5. f[1] = n + 1
    BY <2>4, <1>4, <1>7
  <2> QED BY <2>4, <2>5, <1>2, <1>4, <1>7
<1>8. ASSUME c = 2 PROVE Len(q) = c /\ \A k \in 1 .. c : q[k] = s[n + k]
  <2>1. n + 1 \in P /\ n + 2 \in P
    BY <1>8
  <2>2. Len(q) >= 2
    <3>1. PICK i \in 1 .. Len(q) : f[i] = n + 1
      BY <2>1, <1>4
    <3>2. PICK j \in 1 .. Len(q) : f[j] = n + 2
      BY <2>1, <1>4
    <3> QED BY <3>1, <3>2, <1>5
  <2>3. ~(Len(q) >= 3)
    <3>1. Len(q) >= 3 => 1 \in 1 .. Len(q) /\ 2 \in 1 .. Len(q) /\ 3 \in 1 .. Len(q)
      BY <1>5
    <3> QED BY <3>1, <1>4, <1>8
  <2>4. Len(q) = 2 /\ 1 \in 1 .. Len(q) /\ 2 \in 1 .. Len(q)
    <3> DEFINE l == Len(q)
    <3>1. l \in Nat /\ l >= 2 /\ ~(l >= 3)
      BY <2>2, <2>3, <1>5
    <3> HIDE DEF l
    <3>2. l = 2
      BY <3>1
    <3> QED BY <3>2 DEF l
  <2>5. f[1] < f[2] /\ f[1] \in Int /\ f[2] \in Int /\ f[1] >= n + 1 /\ f[2] <= n + 2
    BY <2>4, <1>4, <1>8
  <2>6. f[1] = n + 1 /\ f[2] = n + 2
    BY <2>5
  <2>7. q[1] = s[n + 1] /\ q[2] = s[n + 2]
    BY <2>4, <2>6, <1>4
  <2>8. \A k \in 1 .. 2 : k = 1 \/ k = 2
    OBVIOUS
  <2> QED BY <2>4, <2>7, <2>8, <1>2, <1>8
<1>9. Len(q) = c /\ \A k \in 1 .. c : q[k] = s[n + k]
  BY <1>6, <1>7, <1>8
<1> QED BY <1>2, <1>9 DEF q

LEMMA CoreIsInner ==
  ASSUME NEW core \in Cores
  PROVE  /\ core \in Seq(ProcessState) /\ Len(core) \in {0, 1, 2}
         /\ \A i \in 1 .. Len(core) : core[i].role = IF i = 1 THEN "uv_version" ELSE "environment_probe"
<1>1. /\ \A uv \in PreparationEnds("uv_version") : uv.role = "uv_version"
      /\ \A probe \in PreparationEnds("environment_probe") : probe.role = "environment_probe"
  BY DEF PreparationEnds, Exited, NotSpawned, Signaled, Process
<1>2. core \in Seq(ProcessState)
  BY CoresAreTyped
<1>3. CASE core = <<>>
  BY <1>2, <1>3
<1>4. CASE \E uv \in PreparationEnds("uv_version") : core = <<uv>>
  <2>1. PICK uv \in PreparationEnds("uv_version") : core = <<uv>>
    BY <1>4
  <2>2. Len(core) = 1 /\ core[1].role = "uv_version"
    BY <2>1, <1>1
  <2> QED BY <1>2, <2>2
<1>5. CASE \E uv \in PreparationEnds("uv_version"), probe \in PreparationEnds("environment_probe") :
             core = <<uv, probe>>
  <2>1. PICK uv \in PreparationEnds("uv_version"), probe \in PreparationEnds("environment_probe") :
          core = <<uv, probe>>
    BY <1>5
  <2>2. Len(core) = 2 /\ core[1].role = "uv_version" /\ core[2].role = "environment_probe"
    BY <2>1, <1>1
  <2> QED BY <1>2, <2>2
<1> QED BY <1>3, <1>4, <1>5 DEF Cores

(* The processes of an environment are in order, and what the report reads *)
(* out of them is what was laid down.                                      *)
LEMMA ProcessesInOrder ==
  ASSUME NEW e \in EnvironmentState, NEW core \in Cores, NEW tail \in Tails,
         Laid(e.processes, core, tail)
  PROVE  /\ CoreProcesses(e) = core /\ OrderedProcesses(e)
         /\ CoreRoles(e) = [i \in 1 .. Len(core) |-> core[i].role]
         /\ UvVersion(e) = IF Len(core) = 0 THEN NoProcess ELSE core[1]
         /\ Probe(e) = IF Len(core) # 2 THEN NoProcess ELSE core[2]
         /\ tail = <<Safety(0)>> => e.processes # <<>> /\ Last(e.processes) = Safety(0)
<1> DEFINE s == e.processes
           c == Len(core)
           t == Len(tail)
<1>1. /\ core \in Seq(ProcessState) /\ c \in {0, 1, 2}
      /\ \A i \in 1 .. c : core[i].role = IF i = 1 THEN "uv_version" ELSE "environment_probe"
  BY CoreIsInner
<1>0. Laid(s, core, tail)
  OBVIOUS
<1> HIDE DEF s
<1>2. \A i \in 1 .. c : core[i].role # "repository_safety"
  BY <1>1
<1>20. PICK n \in {0, 1, 4} : LaidAt(s, core, tail, n)
  BY <1>0, <1>1, <1>2, LaidOut
<1>3. /\ s \in Seq(ProcessState) /\ t \in {0, 1} /\ Len(s) = n + c + t
      /\ \A i \in 1 .. n : s[i].role = "repository_safety"
      /\ \A k \in 1 .. c : s[n + k] = core[k]
      /\ \A i \in n + 1 .. n + c : s[i].role # "repository_safety"
      /\ \A i \in n + c + 1 .. Len(s) : s[i].role = "repository_safety" /\ s[i] = tail[1]
      /\ Inner(s) = n + 1 .. n + c
  BY <1>20 DEF LaidAt
<1>4. n \in Nat /\ n + c <= Len(s) /\ Len(s) \in Nat
  BY <1>1, <1>3
<1>5. CoreProcesses(e) = core
  <2> DEFINE q == Picked(s, n + 1 .. n + c)
  <2>1. q \in Seq(ProcessState) /\ Len(q) = c /\ \A k \in 1 .. c : q[k] = s[n + k]
    <3> DEFINE k == c
    <3>1. n \in Nat /\ k \in {0, 1, 2} /\ n + k <= Len(s) /\ s \in Seq(ProcessState)
      BY <1>1, <1>3, <1>4
    <3> HIDE DEF k
    <3>2. LET r == Picked(s, n + 1 .. n + k)
          IN r \in Seq(ProcessState) /\ Len(r) = k /\ \A j \in 1 .. k : r[j] = s[n + j]
      BY <3>1, PickedInterval
    <3> QED BY <3>2 DEF k
  <2>2. CoreProcesses(e) = Picked(s, Inner(s))
    <3>1. DOMAIN s = 1 .. Len(s)
      BY <1>3
    <3> QED BY <3>1 DEF CoreProcesses, Inner, s
  <2>3. CoreProcesses(e) = q
    BY <2>2, <1>3
  <2> HIDE DEF q
  <2>4. q = core
    BY <2>1, <1>1, <1>3, SeqEqual
  <2> QED BY <2>3, <2>4
<1>6. CoreRoles(e) = [i \in 1 .. c |-> core[i].role]
  <2>1. DOMAIN core = 1 .. c
    BY <1>1
  <2> QED BY <1>5, <2>1 DEF CoreRoles
<1>7. SelectInSeq(s, LAMBDA p : p.role # "repository_safety") = IF c = 0 THEN 0 ELSE n + 1
  <2>1. SelectInSeq(s, LAMBDA p : p.role # "repository_safety") = IF Inner(s) # {} THEN Min(Inner(s)) ELSE 0
    BY DEF SelectInSeq, Inner
  <2>2. CASE c = 0
    <3>1. Inner(s) = {}
      BY <1>3, <1>4, <2>2
    <3> QED BY <2>1, <2>2, <3>1
  <2>3. CASE c # 0
    <3>1. n + 1 \in Inner(s) /\ Inner(s) \in SUBSET Nat /\ \A i \in Inner(s) : n + 1 <= i
      BY <1>1, <1>3, <1>4, <2>3
    <3>2. Min(Inner(s)) = n + 1
      BY <3>1, LeastIs
    <3> QED BY <2>1, <2>3, <3>1, <3>2
  <2> QED BY <2>2, <2>3
<1>8. OrderedProcesses(e)
  <2>1. CoreRoles(e) \in {<<>>, <<"uv_version">>, <<"uv_version", "environment_probe">>}
    <3>1. CASE c = 0
      BY <1>6, <3>1
    <3>2. CASE c = 1
      BY <1>1, <1>6, <3>2
    <3>3. CASE c = 2
      BY <1>1, <1>6, <3>3
    <3> QED BY <1>1, <3>1, <3>2, <3>3
  <2>2. c # 0 => \A i \in n + 1 .. Len(s) - 1 : s[i].role # "repository_safety"
    <3> DEFINE l == Len(s)
    <3>0. l = n + c + t /\ n \in Nat /\ c \in Nat /\ t \in {0, 1}
      BY <1>1, <1>3, <1>4
    <3> HIDE DEF l, c, t
    <3>1. \A i \in n + 1 .. l - 1 : i \in n + 1 .. n + c
      BY <3>0
    <3> USE DEF l, c, t
    <3> QED BY <3>1, <1>3
  <2>3. (IF c = 0 THEN 0 ELSE n + 1) # 0 => c # 0
    OBVIOUS
  <2> QED BY <1>7, <2>1, <2>2, <2>3 DEF OrderedProcesses, s
<1>9. ASSUME NEW role \in {"uv_version", "environment_probe"}
      PROVE  FirstOf(e, role) = IF role = "uv_version" /\ c # 0 THEN core[1]
                                ELSE IF role = "environment_probe" /\ c = 2 THEN core[2] ELSE NoProcess
  <2> DEFINE I == {i \in 1 .. Len(s) : s[i].role = role}
             at == IF role = "uv_version" THEN 1 ELSE 2
  <2>1. SelectInSeq(s, LAMBDA p : p.role = role) = IF I # {} THEN Min(I) ELSE 0
    BY DEF SelectInSeq
  <2>2. \A i \in I : i \in n + 1 .. n + c /\ core[i - n].role = role
    <3> SUFFICES ASSUME NEW i \in I PROVE i \in n + 1 .. n + c /\ core[i - n].role = role
      OBVIOUS
    <3>1. s[i].role # "repository_safety"
      BY <1>9
    <3>2. i \in n + 1 .. n + c
      BY <3>1, <1>3 DEF Inner
    <3> DEFINE k == i - n
    <3>3. k \in 1 .. c /\ n + k = i
      BY <3>2, <1>1, <1>4
    <3> HIDE DEF k
    <3>4. s[i] = core[k]
      BY <3>3, <1>3
    <3> QED BY <3>2, <3>4 DEF k
  <2>3. \A i \in I : i = n + at
    <3> SUFFICES ASSUME NEW i \in I PROVE i = n + at
      OBVIOUS
    <3> DEFINE k == i - n
    <3>1. k \in 1 .. c /\ n + k = i /\ core[k].role = role
      BY <2>2, <1>1, <1>4
    <3> HIDE DEF k
    <3>2. k = at
      BY <3>1, <1>1, <1>9
    <3> QED BY <3>1, <3>2
  <2>4. (n + at \in I) <=> at <= c
    <3>1. ASSUME at <= c PROVE n + at \in I
      <4>1. at \in 1 .. c /\ n + at \in 1 .. Len(s)
        BY <3>1, <1>1, <1>3, <1>4
      <4>2. s[n + at] = core[at] /\ core[at].role = role
        BY <4>1, <1>1, <1>3, <1>9
      <4> QED BY <4>1, <4>2
    <3>2. ASSUME n + at \in I PROVE at <= c
      BY <3>2, <2>2, <1>1, <1>4
    <3> QED BY <3>1, <3>2
  <2> HIDE DEF I
  <2>5. CASE at <= c
    <3>1. I = {n + at} /\ n + at \in Nat
      BY <2>3, <2>4, <2>5, <1>4
    <3>2. Min(I) = n + at
      BY <3>1, LeastIs
    <3>3. FirstOf(e, role) = s[n + at]
      <4>1. n + at # 0 /\ I # {}
        BY <3>1, <1>4
      <4> QED BY <2>1, <3>2, <4>1 DEF FirstOf, s
    <3>4. at \in 1 .. c
      BY <2>5, <1>1
    <3> QED BY <3>3, <3>4, <1>1, <1>3, <1>9, <2>5
  <2>6. CASE ~(at <= c)
    <3>1. I = {}
      BY <2>3, <2>4, <2>6
    <3>2. FirstOf(e, role) = NoProcess
      BY <2>1, <3>1 DEF FirstOf, s
    <3> QED BY <3>2, <1>1, <1>9, <2>6
  <2> QED BY <2>5, <2>6
<1>10. /\ UvVersion(e) = IF c = 0 THEN NoProcess ELSE core[1]
       /\ Probe(e) = IF c # 2 THEN NoProcess ELSE core[2]
  BY <1>9 DEF UvVersion, Probe
<1>11. tail = <<Safety(0)>> => s # <<>> /\ Last(s) = Safety(0)
  <2> SUFFICES ASSUME tail = <<Safety(0)>> PROVE s # <<>> /\ Last(s) = Safety(0)
    OBVIOUS
  <2>1. t = 1 /\ tail[1] = Safety(0)
    OBVIOUS
  <2>2. Len(s) \in n + c + 1 .. Len(s) /\ Len(s) # 0
    BY <2>1, <1>1, <1>3
  <2>3. s[Len(s)] = Safety(0)
    BY <2>1, <2>2, <1>3
  <2>4. s # <<>>
    BY <2>2
  <2> QED BY <2>3, <2>4 DEF Last
<1> QED BY <1>5, <1>6, <1>8, <1>10, <1>11 DEF s

(* What the report finds out from the processes of the environment.        *)
LEMMA RolesAre ==
  ASSUME NEW e \in EnvironmentState, NEW core \in Cores, NEW tail \in Tails,
         Laid(e.processes, core, tail)
  PROVE  /\ (CoreRoles(e) = <<>>) <=> (Len(core) = 0)
         /\ UvOnly(e) <=> (Len(core) = 1)
         /\ UvAndProbe(e) <=> (Len(core) = 2)
<1> DEFINE c == Len(core)
           roles == [i \in 1 .. c |-> core[i].role]
           names == {core[i].role : i \in 1 .. c}
<1>1. /\ core \in Seq(ProcessState) /\ c \in {0, 1, 2}
      /\ \A i \in 1 .. c : core[i].role = IF i = 1 THEN "uv_version" ELSE "environment_probe"
  BY CoreIsInner
<1>2. CoreRoles(e) = roles
  BY ProcessesInOrder
<1>3. roles \in Seq(names) /\ Len(roles) = c /\ \A i \in 1 .. c : roles[i] = core[i].role
  BY <1>1
<1> HIDE DEF roles, c
<1>4. /\ Len(<<"uv_version">>) = 1 /\ Len(<<"uv_version", "environment_probe">>) = 2
  OBVIOUS
<1>5. (roles = <<>>) <=> (c = 0)
  BY <1>3
<1>6. (roles = <<"uv_version">>) <=> (c = 1)
  <2>1. c = 1 => roles[1] = "uv_version"
    BY <1>1, <1>3
  <2>2. c = 1 => roles = <<"uv_version">>
    BY <1>3, <2>1
  <2> QED BY <1>3, <1>4, <2>2
<1>7. (roles = <<"uv_version", "environment_probe">>) <=> (c = 2)
  <2>1. c = 2 => roles[1] = "uv_version" /\ roles[2] = "environment_probe"
    BY <1>1, <1>3
  <2>2. c = 2 => roles = <<"uv_version", "environment_probe">>
    BY <1>3, <2>1
  <2> QED BY <1>3, <1>4, <2>2
<1> QED BY <1>2, <1>5, <1>6, <1>7 DEF UvOnly, UvAndProbe, c

(* How a command of the preparation ends.                                  *)
LEMMA PreparationEndsAre ==
  ASSUME NEW role, NEW process \in PreparationEnds(role), role # "none"
  PROVE  /\ process # NoProcess /\ process.role = role
         /\ process.outcome \in {"exited", "spawn_failed", "signaled"}
         /\ FailedProcess(process) <=> ~ZeroExit(process)
         /\ Successful(process) <=> (ZeroExit(process) /\ ~Cut(process))
BY DEF PreparationEnds, Exited, NotSpawned, Signaled, Process, NoProcess, FailedProcess, ZeroExit,
       Successful, Cut

\* A helper was lost after the preparation, and nothing else went wrong since.
LEMMA ProtectedAsShown ==
  ASSUME NEW e \in EnvironmentState, NEW core \in Cores, NEW tail \in Tails,
         Laid(e.processes, core, tail), NEW error, Verified(e, error, tail)
  PROVE  e.protection = "tracked_files" =>
           /\ e.processes # <<>>
           /\ Last(e.processes).role = "repository_safety" /\ ZeroExit(Last(e.processes))
<1>1. e.protection = "tracked_files" => e.processes # <<>> /\ Last(e.processes) = Safety(0)
  BY ProcessesInOrder DEF Verified
<1> QED BY <1>1 DEF Safety, Exited, Process, ZeroExit

(* The environment of a run whose preparation failed is valid unless one   *)
(* of the circumstances is given.                                          *)
LEMMA StoppedEnvironment ==
  ASSUME env \in EnvironmentState, NEW core \in Cores, NEW tail \in Tails,
         Laid(env.processes, core, tail), NEW error, Stopped(env, core, error),
         Verified(env, error, tail), env.error # "repository_state_changed"
  PROVE  /\ EnvironmentFailed(env)
         /\ (StageAgrees(env) /\ EnvironmentAgrees(env)) <=>
              ~(\/ env.manager /\ Cut(UvVersion(env))
                \/ Observed(env) /\ Cut(Probe(env))
                \/ NoUvToRun \/ LostHalfway)
<1>1. /\ (CoreRoles(env) = <<>>) <=> (Len(core) = 0)
      /\ UvOnly(env) <=> (Len(core) = 1)
      /\ UvAndProbe(env) <=> (Len(core) = 2)
  BY RolesAre
<1>2. /\ UvVersion(env) = IF Len(core) = 0 THEN NoProcess ELSE core[1]
      /\ Probe(env) = IF Len(core) # 2 THEN NoProcess ELSE core[2]
  BY ProcessesInOrder
<1>3. env.protection = "tracked_files" =>
        /\ env.processes # <<>>
        /\ Last(env.processes).role = "repository_safety" /\ ZeroExit(Last(env.processes))
  BY ProtectedAsShown
<1>4. /\ env.error = error \/ env.error = "unsafe_repository_environment"
      /\ env.lock = "missing" => env.error = error /\ env.processes = <<>> /\ env.protection = "unobserved"
  BY DEF Verified
<1>5. env.manager \in BOOLEAN
  BY DEF EnvironmentState
<1>6. CASE core = <<>> /\ ~env.manager /\ env.python = "none" /\ env.lock = "missing"
           /\ error = "repository_lock_missing"
  <2>1. Len(core) = 0
    BY <1>6
  <2>2. env.error = "repository_lock_missing"
    BY <1>4, <1>6
  <2>3. EnvironmentFailed(env) /\ StageAgrees(env)
    BY <1>4, <1>6, <2>2 DEF EnvironmentFailed, StageAgrees, Observed
  <2>4. EnvironmentAgrees(env)
    BY <1>2, <1>3, <1>6, <2>1, <2>2 DEF EnvironmentAgrees, Observed
  <2>5. ~NoUvToRun /\ ~LostHalfway /\ ~env.manager /\ ~Observed(env)
    BY <1>6, <2>2 DEF NoUvToRun, LostHalfway, Observed
  <2> QED BY <2>3, <2>4, <2>5
<1>7. CASE core = <<>> /\ ~env.manager /\ env.python = "none" /\ env.lock = "unverified"
           /\ error \in {"unsafe_repository_environment", "uv_unavailable"}
  <2>1. Len(core) = 0
    BY <1>7
  <2>2. env.error \in {"unsafe_repository_environment", "uv_unavailable"}
    BY <1>4, <1>7
  <2>3. EnvironmentFailed(env)
    BY <2>2 DEF EnvironmentFailed
  <2>4. EnvironmentAgrees(env) /\ ~Observed(env)
    BY <1>2, <1>3, <1>7, <2>1, <2>2 DEF EnvironmentAgrees, Observed
  <2>5. CASE env.error = "unsafe_repository_environment"
    <3>1. StageAgrees(env)
      BY <1>1, <1>7, <2>1, <2>4, <2>5 DEF StageAgrees, NothingObserved
    <3>2. ~NoUvToRun /\ ~LostHalfway
      BY <1>1, <2>1, <2>5 DEF NoUvToRun, LostHalfway
    <3> QED BY <1>7, <2>3, <2>4, <3>1, <3>2
  <2>6. CASE env.error = "uv_unavailable"
    <3>1. ~StageAgrees(env)
      BY <1>1, <2>1, <2>6 DEF StageAgrees
    <3>2. NoUvToRun
      BY <1>2, <2>1, <2>6 DEF NoUvToRun
    <3> QED BY <2>3, <3>1, <3>2
  <2> QED BY <2>2, <2>5, <2>6
<1>8. ASSUME NEW uv \in PreparationEnds("uv_version"), NEW wellFormed \in BOOLEAN,
             core = <<uv>>, ~env.manager, env.python = "none", env.lock = "unverified",
             error = UvVersionError(uv, wellFormed), error # "none"
      PROVE  /\ EnvironmentFailed(env)
             /\ (StageAgrees(env) /\ EnvironmentAgrees(env)) <=>
                  ~(\/ env.manager /\ Cut(UvVersion(env))
                    \/ Observed(env) /\ Cut(Probe(env))
                    \/ NoUvToRun \/ LostHalfway)
  <2>1. Len(core) = 1 /\ core[1] = uv
    BY <1>8
  <2>2. /\ error = "uv_unavailable" \/ error = "environment_evidence_invalid"
        /\ (error = "uv_unavailable") <=> ~ZeroExit(uv)
    BY <1>8 DEF UvVersionError
  <2>3. uv # NoProcess /\ (FailedProcess(uv) <=> ~ZeroExit(uv))
    BY PreparationEndsAre
  <2>4. EnvironmentFailed(env)
    BY <1>4, <2>2 DEF EnvironmentFailed
  <2>5. UvVersion(env) = uv /\ Probe(env) = NoProcess
    BY <1>2, <2>1
  <2>6. EnvironmentAgrees(env) /\ ~Observed(env) /\ NothingObserved(env)
    BY <1>3, <1>4, <1>8, <2>2, <2>5 DEF EnvironmentAgrees, Observed, NothingObserved
  <2>7. CASE env.error = "unsafe_repository_environment"
    <3>1. ~StageAgrees(env)
      BY <1>1, <2>1, <2>7 DEF StageAgrees, UnsafeAfterPreparation
    <3>2. LostHalfway
      BY <1>1, <2>1, <2>7 DEF LostHalfway
    <3> QED BY <2>4, <3>1, <3>2
  <2>8. CASE env.error = error
    <3>1. StageAgrees(env)
      BY <1>1, <1>8, <2>1, <2>2, <2>3, <2>5, <2>6, <2>8 DEF StageAgrees
    <3>2. ~NoUvToRun /\ ~LostHalfway
      BY <2>2, <2>3, <2>5, <2>8 DEF NoUvToRun, LostHalfway
    <3> QED BY <1>8, <2>4, <2>6, <3>1, <3>2
  <2> QED BY <1>4, <2>7, <2>8
<1>9. ASSUME NEW uv \in PreparationEnds("uv_version"),
             core = <<uv>>, UvRuns(uv), env.manager, env.python = "none", env.lock = "unverified",
             error = "unsafe_repository_environment"
      PROVE  /\ EnvironmentFailed(env)
             /\ (StageAgrees(env) /\ EnvironmentAgrees(env)) <=>
                  ~(\/ env.manager /\ Cut(UvVersion(env))
                    \/ Observed(env) /\ Cut(Probe(env))
                    \/ NoUvToRun \/ LostHalfway)
  <2>1. Len(core) = 1 /\ env.error = "unsafe_repository_environment"
    BY <1>4, <1>9
  <2>2. EnvironmentFailed(env) /\ ~StageAgrees(env) /\ LostHalfway
    BY <1>1, <2>1 DEF EnvironmentFailed, StageAgrees, UnsafeAfterPreparation, LostHalfway
  <2> QED BY <2>2
<1>10. ASSUME NEW uv \in PreparationEnds("uv_version"), NEW probe \in PreparationEnds("environment_probe"),
              NEW finding \in ProbeFinding \cup {"malformed"},
              core = <<uv, probe>>, UvRuns(uv), env.manager,
              env.python = ProbedEnvironment(probe, finding, <<>>).python,
              env.lock = ProbedEnvironment(probe, finding, <<>>).lock,
              error = ProbedEnvironment(probe, finding, <<>>).error, error # "none"
      PROVE  /\ EnvironmentFailed(env)
             /\ (StageAgrees(env) /\ EnvironmentAgrees(env)) <=>
                  ~(\/ env.manager /\ Cut(UvVersion(env))
                    \/ Observed(env) /\ Cut(Probe(env))
                    \/ NoUvToRun \/ LostHalfway)
  <2>1. Len(core) = 2 /\ core[1] = uv /\ core[2] = probe
    BY <1>10
  <2>2. UvVersion(env) = uv /\ Probe(env) = probe
    BY <1>2, <2>1
  <2>3. /\ FailedProcess(probe) <=> ~ZeroExit(probe)
        /\ Successful(probe) <=> (ZeroExit(probe) /\ ~Cut(probe))
        /\ Successful(uv) <=> ~Cut(uv)
    BY <1>10, PreparationEndsAre DEF UvRuns
  <2>4. \/ /\ ~ZeroExit(probe) /\ error = "repository_environment_failed"
           /\ env.python = "none" /\ env.lock = "unverified"
        \/ /\ ZeroExit(probe) /\ error = "environment_evidence_invalid"
           /\ env.python = "none" /\ env.lock = "unverified"
        \/ /\ ZeroExit(probe) /\ error = "repository_python_unsupported"
           /\ env.python = "unsupported" /\ env.lock = "current"
        \/ /\ ZeroExit(probe) /\ env.python = "supported" /\ env.lock = "current"
           /\ error \in {"environment_evidence_invalid", "unsafe_repository_environment"}
    BY <1>10 DEF ProbedEnvironment, FailedPreparation, Environment, ProbeError, ProbeFinding
  <2>5. EnvironmentFailed(env) /\ ~NoUvToRun
    BY <1>4, <2>4 DEF EnvironmentFailed, NoUvToRun
  <2>6. LostHalfway <=> (env.error = "unsafe_repository_environment" /\ env.python # "supported")
    BY <1>1, <2>1 DEF LostHalfway
  <2>7. Observed(env) <=> env.python # "none"
    BY DEF Observed
  <2>8. CASE env.error = "unsafe_repository_environment" /\ env.python = "none"
    <3>1. ~StageAgrees(env)
      BY <1>1, <2>1, <2>7, <2>8 DEF StageAgrees, UnsafeAfterPreparation
    <3> QED BY <2>5, <2>6, <2>8, <3>1
  <2>9. CASE env.error = "unsafe_repository_environment" /\ env.python = "unsupported"
    <3>1. ~EnvironmentAgrees(env)
      BY <2>7, <2>9 DEF EnvironmentAgrees
    <3> QED BY <2>5, <2>6, <2>9, <3>1
  <2>10. CASE env.error = "unsafe_repository_environment" /\ env.python = "supported"
    <3>1. env.lock = "current" /\ ZeroExit(probe)
      BY <2>4, <2>10
    <3>2. StageAgrees(env)
      BY <1>1, <1>10, <2>1, <2>7, <2>10, <3>1 DEF StageAgrees, UnsafeAfterPreparation
    <3>3. EnvironmentAgrees(env) <=> (~Cut(uv) /\ ~Cut(probe))
      BY <1>3, <1>10, <2>2, <2>3, <2>7, <2>10, <3>1 DEF EnvironmentAgrees
    <3> QED BY <1>10, <2>2, <2>5, <2>6, <2>7, <2>10, <3>2, <3>3
  <2>11. CASE env.error = error /\ error # "unsafe_repository_environment"
    <3>1. StageAgrees(env)
      BY <1>1, <1>10, <2>1, <2>2, <2>3, <2>4, <2>7, <2>11 DEF StageAgrees, NothingObserved
    <3>2. EnvironmentAgrees(env) <=> (~Cut(uv) /\ (Observed(env) => ~Cut(probe)))
      BY <1>3, <1>10, <2>2, <2>3, <2>4, <2>7, <2>11 DEF EnvironmentAgrees
    <3> QED BY <1>10, <2>2, <2>5, <2>6, <2>11, <3>1, <3>2
  <2> QED BY <1>4, <2>4, <2>8, <2>9, <2>10, <2>11
<1> QED BY <1>6, <1>7, <1>8, <1>9, <1>10 DEF Stopped

(* The environment that Checks ran in is valid unless a diagnostic was cut *)
LEMMA UsableEnvironment ==
  ASSUME env \in EnvironmentState, NEW core \in Cores, NEW tail \in Tails,
         Laid(env.processes, core, tail), NEW error, Usable(env, core, error),
         Verified(env, error, tail)
  PROVE  /\ env.error \in {"none", "repository_state_changed", "unsafe_repository_environment"}
         /\ error # "none" => env.error # "none"
         /\ StageAgrees(env) /\ env.manager /\ Observed(env) /\ ~NoUvToRun /\ ~LostHalfway
         /\ UnsafeAfterPreparation(env) <=> env.error = "unsafe_repository_environment"
         /\ EnvironmentFailed(env) <=> env.error = "unsafe_repository_environment"
         /\ EnvironmentAgrees(env) <=> (~Cut(UvVersion(env)) /\ ~Cut(Probe(env)))
<1>1. /\ UvOnly(env) <=> (Len(core) = 1)
      /\ UvAndProbe(env) <=> (Len(core) = 2)
  BY RolesAre
<1>2. /\ UvVersion(env) = IF Len(core) = 0 THEN NoProcess ELSE core[1]
      /\ Probe(env) = IF Len(core) # 2 THEN NoProcess ELSE core[2]
  BY ProcessesInOrder
<1>3. env.protection = "tracked_files" =>
        /\ env.processes # <<>>
        /\ Last(env.processes).role = "repository_safety" /\ ZeroExit(Last(env.processes))
  BY ProtectedAsShown
<1>4. PICK uv \in PreparationEnds("uv_version"), probe \in PreparationEnds("environment_probe") :
        core = <<uv, probe>> /\ UvRuns(uv) /\ ZeroExit(probe) /\ CompleteStdout(probe)
  BY DEF Usable
<1>5. env.manager /\ env.python = "supported" /\ env.lock = "current"
  BY DEF Usable
<1>6. /\ env.error \in {"none", "repository_state_changed", "unsafe_repository_environment"}
      /\ env.error = "none" => env.protection # "unobserved"
  BY DEF Usable, Verified
<1>7. Len(core) = 2 /\ core[1] = uv /\ core[2] = probe
  BY <1>4
<1>8. UvVersion(env) = uv /\ Probe(env) = probe
  BY <1>2, <1>7
<1>9. /\ Successful(probe) <=> ~Cut(probe)
      /\ Successful(uv) <=> ~Cut(uv)
  BY <1>4, PreparationEndsAre DEF UvRuns
<1>10. Observed(env)
  BY <1>5 DEF Observed
<1>11. UvAndProbe(env) /\ ~UvOnly(env)
  BY <1>1, <1>7
<1>12. UnsafeAfterPreparation(env) <=> env.error = "unsafe_repository_environment"
  BY <1>5, <1>10, <1>11 DEF UnsafeAfterPreparation
<1>13. EnvironmentFailed(env) <=> env.error = "unsafe_repository_environment"
  BY <1>6 DEF EnvironmentFailed
<1>14. StageAgrees(env)
  BY <1>6, <1>12 DEF StageAgrees
<1>15. ~NoUvToRun /\ ~LostHalfway
  BY <1>5, <1>6, <1>11 DEF NoUvToRun, LostHalfway
<1>16. EnvironmentAgrees(env) <=> (~Cut(uv) /\ ~Cut(probe))
  BY <1>3, <1>5, <1>6, <1>8, <1>9, <1>10 DEF EnvironmentAgrees
<1>17. error # "none" => env.error # "none"
  BY DEF Usable, Verified
<1> QED BY <1>5, <1>6, <1>8, <1>10, <1>12, <1>13, <1>14, <1>15, <1>16, <1>17

-----------------------------------------------------------------------------
(* The dependencies *)

(* What a probe shows of a dependency.                                     *)
LEMMA SeenAre ==
  ASSUME NEW d, Seen(d)
  PROVE  /\ d.process # NoProcess
         /\ d.status \in {"unobserved", "available", "incompatible", "missing", "shadowed", "unusable"}
         /\ d.status = "unobserved" => d.version = "none" /\ d.error = "check_dependency_unusable"
         /\ d.status = "available" => d.version = "supported" /\ d.error = "none"
         /\ d.status = "incompatible" => d.version \in OutOfRange
         /\ d.status \notin {"unobserved", "available"} => d.error = TypedError(d.status)
         /\ d.status # "unobserved" => (Successful(d.process) <=> ~Cut(d.process))
         /\ d.error # "none" => d.error \in DependencyError
         /\ d.error = "none" => d.status = "available"
<1>1. PICK process \in PreparationEnds("dependency_probe"), claim \in Claims :
        d = DependencyObservation(d.name, process, claim[1], claim[2])
  BY DEF Seen
<1>2. /\ process # NoProcess
      /\ Successful(process) <=> (ZeroExit(process) /\ ~Cut(process))
  BY PreparationEndsAre
<1>3. /\ claim[1] \in {"available", "shadowed", "unusable", "missing", "malformed"}
      /\ claim[1] = "available" => claim[2] \in {"supported"} \cup OutOfRange
  <2>1. claim \in Claims
    OBVIOUS
  <2> QED BY <2>1 DEF Claims, OutOfRange
<1> DEFINE status == claim[1]
           version == claim[2]
           name == d.name
<1> HIDE DEF status, version, name
<1>4. d = DependencyObservation(name, process, status, version)
  BY <1>1 DEF status, version, name
<1>5. /\ status \in {"available", "shadowed", "unusable", "missing", "malformed"}
      /\ status = "available" => version \in {"supported"} \cup OutOfRange
  BY <1>3 DEF status, version
<1>6. CASE ~ZeroExit(process) \/ ~CompleteStdout(process) \/ status = "malformed"
  <2>1. d = UnobservedDependency(name, process)
    BY <1>4, <1>6 DEF DependencyObservation
  <2> QED BY <1>2, <2>1 DEF UnobservedDependency, Dependency, DependencyError
<1>7. CASE ZeroExit(process) /\ CompleteStdout(process) /\ status = "available" /\ version = "supported"
  <2>1. d = Dependency(name, "available", version, process, "none")
    BY <1>4, <1>7 DEF DependencyObservation, VersionSupported
  <2> QED BY <1>2, <1>7, <2>1 DEF Dependency
<1>8. CASE ZeroExit(process) /\ CompleteStdout(process) /\ status = "available" /\ version # "supported"
  <2>1. d = Dependency(name, "incompatible", version, process, "check_dependency_incompatible")
    BY <1>4, <1>8 DEF DependencyObservation, VersionSupported
  <2> QED BY <1>2, <1>5, <1>8, <2>1 DEF Dependency, TypedError, DependencyError
<1>9. CASE ZeroExit(process) /\ CompleteStdout(process) /\ status \notin {"available", "malformed"}
  <2>1. /\ d.name = name /\ d.status = status /\ d.version = version /\ d.process = process
        /\ d.error = TypedError(status)
    BY <1>4, <1>5, <1>9 DEF DependencyObservation, Dependency, TypedError
  <2>2. TypedError(status) \in DependencyError /\ TypedError(status) # "none"
    BY <1>5, <1>9 DEF TypedError, DependencyError
  <2> QED BY <1>2, <1>5, <1>9, <2>1, <2>2
<1> QED BY <1>5, <1>6, <1>7, <1>8, <1>9

(* A dependency that was probed is valid unless a diagnostic was cut.      *)
LEMMA SeenAgrees ==
  ASSUME NEW d, Seen(d), NEW failed
  PROVE  DependencyAgrees(d, failed) <=> ~(d.status # "unobserved" /\ Cut(d.process))
<1>1. CASE d.status = "unobserved"
  BY <1>1, SeenAre DEF DependencyAgrees
<1>2. CASE d.status = "available"
  BY <1>2, SeenAre DEF DependencyAgrees, VersionSupported
<1>3. CASE d.status \notin {"unobserved", "available"}
  <2>1. d.status = "incompatible" => d.version # "none"
    BY SeenAre DEF OutOfRange
  <2> QED BY <1>3, <2>1, SeenAre DEF DependencyAgrees
<1> QED BY <1>1, <1>2, <1>3

LEMMA LeftOutAgrees ==
  ASSUME NEW d, LeftOut(d), NEW failed
  PROVE  /\ d.status = "unobserved" /\ d.process = NoProcess /\ d.version = "none"
         /\ d = Unattempted(d.name)
         /\ DependencyAgrees(d, failed) <=> failed
<1>1. d.status = "unobserved" /\ d.process = NoProcess /\ d.version = "none" /\ d.error = "none"
  BY DEF LeftOut, Unattempted, Dependency
<1> QED BY <1>1 DEF DependencyAgrees, LeftOut

-----------------------------------------------------------------------------
(* The results of pytest and of coverage *)

(* A failed validation makes a sound result.                               *)
LEMMA FailureIs ==
  ASSUME NEW p, NEW error, error \notin {"none", "session_incomplete"}, NEW version, NEW code
  PROVE  LET r == PytestFailure(p, error, version, code)
         IN /\ r.status = "error" /\ ~r.complete /\ ~r.evidence /\ r.error = error
            /\ r.version = version /\ r.exitCode = code
            /\ r # NoPytestResult /\ PytestIsSound(r, p)
            /\ NotRun(r) <=> (code = NoCode)
<1> DEFINE r == PytestFailure(p, error, version, code)
           reasons == PlannedReasons(p) \cup {"incomplete_session"}
<1>1. /\ "incomplete_session" \in reasons /\ "narrowed" \notin reasons
      /\ ("planned_selector" \in reasons) <=> (p.testScope = "partial")
  BY DEF PlannedReasons
<1> HIDE DEF reasons
<1>2. r = PytestResult("error", FALSE, reasons, version, code, FALSE, TRUE, error)
  BY DEF PytestFailure, reasons
<1> HIDE DEF r
<1>3. /\ r.status = "error" /\ ~r.complete /\ ~r.evidence /\ r.error = error
      /\ r.version = version /\ r.exitCode = code /\ r.reasons = reasons
  BY <1>2 DEF PytestResult
<1>4. r # NoPytestResult
  BY <1>3 DEF NoPytestResult, PytestResult
<1>5. PytestIsSound(r, p)
  <2>1. /\ r.status = "error" => r.error # "none"
        /\ r.status # "error" => r.error \in {"none", "session_incomplete"}
        /\ r.complete => r.status # "error" /\ r.error = "none" /\ r.evidence
        /\ ("planned_selector" \in r.reasons) <=> (p.testScope = "partial")
        /\ ("incomplete_session" \in r.reasons) <=> ~r.complete
    BY <1>1, <1>3
  <2>2. ~r.evidence => r.status = "error" /\ ~r.complete /\ "narrowed" \notin r.reasons
    BY <1>1, <1>3
  <2>3. r.error = "session_incomplete" =>
          r.status = "failed" /\ ~r.complete /\ r.evidence
    BY <1>3
  <2> QED BY <2>1, <2>2, <2>3 DEF PytestIsSound
<1>6. NotRun(r) <=> (code = NoCode)
  BY <1>3 DEF NotRun
<1> QED BY <1>3, <1>4, <1>5, <1>6 DEF r

LEMMA FitsExitIs ==
  ASSUME NEW r, NEW code
  PROVE  /\ r.error = "none" =>
              (PytestFitsExit(r, code) <=>
                 /\ code \in {0, 1, 5} /\ r.status = (IF code = 0 THEN "passed" ELSE "failed")
                 /\ code = 5 /\ r.complete => r.evidence /\ r.empty)
         /\ r.error = "session_incomplete" => (PytestFitsExit(r, code) <=> code = 1)
         /\ r.error \in ArtifactErrors =>
              (PytestFitsExit(r, code) <=> (r.status = "error" /\ ~r.evidence))
         /\ r.error \notin {"none", "session_incomplete"} \cup ArtifactErrors =>
              (PytestFitsExit(r, code) <=>
                 /\ r.status = "error" /\ ~r.complete /\ r.evidence
                 /\ r.error = ExitError(code, FALSE, FALSE))
<1> DEFINE E == r.error
           none == /\ code \in {0, 1, 5} /\ r.status = (IF code = 0 THEN "passed" ELSE "failed")
                   /\ code = 5 /\ r.complete => r.evidence /\ r.empty
           bad == r.status = "error" /\ ~r.evidence
           other == /\ r.status = "error" /\ ~r.complete /\ r.evidence
                    /\ E = ExitError(code, FALSE, FALSE)
<1>1. PytestFitsExit(r, code) =
        CASE E = "none" -> none [] E = "session_incomplete" -> code = 1
          [] E \in ArtifactErrors -> bad [] OTHER -> other
  BY DEF PytestFitsExit
<1>2. "none" \notin ArtifactErrors /\ "session_incomplete" \notin ArtifactErrors
  BY DEF ArtifactErrors
<1> HIDE DEF E, none, bad, other
<1>3. CASE E = "none"
  <2>1. PytestFitsExit(r, code) = none
    BY <1>1, <1>2, <1>3
  <2> QED BY <2>1, <1>2, <1>3 DEF E, none
<1>4. CASE E = "session_incomplete"
  <2>1. PytestFitsExit(r, code) = (code = 1)
    BY <1>1, <1>2, <1>4
  <2> QED BY <2>1, <1>2, <1>4 DEF E
<1>5. CASE E \in ArtifactErrors
  <2>1. PytestFitsExit(r, code) = bad
    BY <1>1, <1>2, <1>5
  <2> QED BY <2>1, <1>2, <1>5 DEF E, bad
<1>6. CASE E \notin {"none", "session_incomplete"} \cup ArtifactErrors
  <2>1. PytestFitsExit(r, code) = other
    BY <1>1, <1>6
  <2> QED BY <2>1, <1>6 DEF E, other
<1> QED BY <1>3, <1>4, <1>5, <1>6

(* So does a session.                                                      *)
LEMMA SessionIs ==
  ASSUME NEW p, NEW session \in Session, NEW version, NEW code \in {0, 1, 2, 5, 6}
  PROVE  LET r == SessionResult(p, session, version, code)
         IN /\ r.version = version /\ r.exitCode = code /\ r.evidence
            /\ r # NoPytestResult /\ PytestIsSound(r, p) /\ PytestFitsExit(r, code)
            /\ code \in {0, 1, 5} => r.error \in {"none", "session_incomplete"} /\ r.status # "error"
            /\ r.status = "error" => r.error \notin {"none", "session_incomplete"}
<1> DEFINE r == SessionResult(p, session, version, code)
           complete == SessionComplete(session, code)
           reasons == PlannedReasons(p)
                        \cup (IF session.narrowed THEN {"narrowed"} ELSE {})
                        \cup (IF complete THEN {} ELSE {"incomplete_session"})
           error == ExitError(code, complete, session.stopped)
           status == ExitStatus(code)
<1>1. /\ complete \in BOOLEAN /\ session.stopped \in BOOLEAN /\ session.empty \in BOOLEAN
      /\ complete => /\ ~session.stopped /\ code \in {0, 1, 5}
                     /\ code = 5 => session.empty
  BY DEF Session, SessionComplete
<1>2. /\ ("planned_selector" \in reasons) <=> (p.testScope = "partial")
      /\ ("incomplete_session" \in reasons) <=> ~complete
  BY DEF PlannedReasons
<1> DEFINE plain == ExitError(code, FALSE, FALSE)
<1>3. /\ code \in {0, 1, 5} => error \in {"none", "session_incomplete"}
      /\ error = "session_incomplete" => code = 1 /\ ~complete
      /\ code = 2 => error = "interrupted" /\ plain = "interrupted"
      /\ code = 6 => error = "unknown_exit_code" /\ plain = "unknown_exit_code"
  <2> HIDE DEF complete
  <2>1. 6 \notin 0 .. 5 /\ 0 \in 0 .. 5 /\ 1 \in 0 .. 5 /\ 2 \in 0 .. 5 /\ 5 \in 0 .. 5
    OBVIOUS
  <2>2. code = 2 => error = "interrupted" /\ plain = "interrupted"
    BY <2>1 DEF ExitError
  <2>3. code = 6 => error = "unknown_exit_code" /\ plain = "unknown_exit_code"
    BY <2>1 DEF ExitError
  <2>4. /\ code \in {0, 1, 5} => error \in {"none", "session_incomplete"}
        /\ error = "session_incomplete" => code = 1 /\ ~complete
    BY <1>1, <2>1 DEF ExitError
  <2> QED BY <2>2, <2>3, <2>4
<1> HIDE DEF plain
<1>4. status = IF code = 0 THEN "passed" ELSE IF code \in {1, 5} THEN "failed" ELSE "error"
  BY DEF ExitStatus
<1>5. r = PytestResult(status, complete, reasons, version, code, TRUE, session.empty, error)
  BY DEF SessionResult
<1> HIDE DEF r, complete, reasons, error, status
<1>6. /\ r.status = status /\ r.complete = complete /\ r.evidence = TRUE /\ r.error = error
      /\ r.version = version /\ r.exitCode = code /\ r.reasons = reasons /\ r.empty = session.empty
  BY <1>5 DEF PytestResult
<1>7. r # NoPytestResult
  BY <1>6 DEF NoPytestResult, PytestResult
<1>8. PytestIsSound(r, p)
  BY <1>1, <1>2, <1>3, <1>4, <1>6 DEF PytestIsSound
<1>9. PytestFitsExit(r, code)
  <2>1. CASE code \in {0, 1, 5} /\ error = "none"
    <3>1. /\ r.error = "none" /\ code \in {0, 1, 5} /\ r.status = (IF code = 0 THEN "passed" ELSE "failed")
          /\ code = 5 /\ r.complete => r.evidence /\ r.empty
      BY <2>1, <1>1, <1>3, <1>4, <1>6
    <3> QED BY <3>1, FitsExitIs
  <2>2. CASE error = "session_incomplete"
    <3>1. r.error = "session_incomplete" /\ code = 1
      BY <2>2, <1>3, <1>6
    <3> QED BY <3>1, FitsExitIs
  <2>3. CASE code \in {2, 6}
    <3>1. r.error \in {"interrupted", "unknown_exit_code"} /\ r.error = ExitError(code, FALSE, FALSE)
      <4>1. r.error = error
        BY <1>6
      <4>2. error \in {"interrupted", "unknown_exit_code"} /\ error = plain
        BY <2>3, <1>3
      <4> QED BY <4>1, <4>2 DEF plain
    <3>2. r.status = "error"
      BY <2>3, <1>4, <1>6
    <3>3. ~r.complete /\ r.evidence
      BY <2>3, <1>1, <1>6
    <3>4. r.error \notin {"none", "session_incomplete"} \cup ArtifactErrors
      BY <3>1 DEF ArtifactErrors
    <3> QED BY <3>1, <3>2, <3>3, <3>4, FitsExitIs
  <2> QED BY <2>1, <2>2, <2>3, <1>3
<1>10. /\ code \in {0, 1, 5} => r.error \in {"none", "session_incomplete"} /\ r.status # "error"
       /\ r.status = "error" => r.error \notin {"none", "session_incomplete"}
  BY <1>3, <1>4, <1>6
<1> QED BY <1>6, <1>7, <1>8, <1>9, <1>10 DEF r

\* The versions that may accompany an error of coverage.
MayAccompany(version, error) ==
  CASE error = "unsupported_version" -> version \in {"none"} \cup OutOfRange
    [] error \in {"module_unavailable", "preflight_invalid"} -> version = "none"
    [] OTHER -> version = "supported"

(* Missing coverage evidence makes a sound result.                         *)
LEMMA CoverageErrorIs ==
  ASSUME NEW answer, NEW version, NEW error, MayAccompany(version, error),
         answer.coverage = CoverageErrorResult(answer.plan, version, error)
  PROVE  LET c == answer.coverage
         IN /\ c.status = "error" /\ c.error = error /\ c.version = version
            /\ c # NoCoverageResult /\ CoverageIsSound(c) /\ CoverageFitsContext(answer)
<1> DEFINE c == answer.coverage
<1>1. /\ c.status = "error" /\ ~c.complete /\ c.version = version /\ ~c.eligible
      /\ c.passed = "none" /\ c.skipped = "evidence_error" /\ c.error = error /\ c.scope = "partial"
      /\ c.complete = FALSE /\ c.eligible = FALSE
  BY DEF CoverageErrorResult, CoverageResult
<1> HIDE DEF c
<1>2. c # NoCoverageResult
  BY <1>1 DEF NoCoverageResult, CoverageResult
<1>3. CoverageIsSound(c)
  BY <1>1 DEF CoverageIsSound, MayAccompany, Evaluated, VersionSupported, OutOfRange
<1>4. /\ GateEligible(answer.plan, answer.pytest, FALSE) = FALSE
      /\ \A configured : SkippedReason(answer.plan, answer.pytest, FALSE, configured) = "evidence_error"
  BY DEF GateEligible, SkippedReason
<1>5. CoverageFitsContext(answer)
  <2> USE DEF c
  <2> HIDE DEF c
  <2>1. answer.coverage = c
    BY DEF c
  <2> QED BY <1>1, <1>4, <2>1 DEF CoverageFitsContext
<1> QED BY <1>1, <1>2, <1>3, <1>5 DEF c

(* What is reported of coverage that was not converted.                    *)
LEMMA UnconvertedIs ==
  ASSUME NEW p, NEW r, NEW version
  PROVE  /\ BuildCoverageResult(p, r, NoCoverage, version) = CoverageErrorResult(p, "none", "preflight_invalid")
         /\ \A class \in {"module_unavailable", "preflight_invalid"} :
              BuildCoverageResult(p, r, CoverageObservation(class, "not_attempted"), version)
                = CoverageErrorResult(p, "none", class)
         /\ version \in OutOfRange =>
              BuildCoverageResult(p, r, CoverageObservation("unsupported_version", "not_attempted"), version)
                = CoverageErrorResult(p, IF version = "prerelease" THEN "none" ELSE version, "unsupported_version")
         /\ version = "supported" =>
              \A left \in {"not_attempted", "data_missing", "unsupported_parallelism",
                           "unexpected_parallel_data", "generation_failed"} :
                BuildCoverageResult(p, r, CoverageObservation("supported", left), version)
                  = CoverageErrorResult(p, "supported", IF left = "not_attempted" THEN "data_missing" ELSE left)
<1> DEFINE none == NoCoverage
           kept(class, left) == CoverageObservation(class, left)
<1>1. /\ none.classification = "none"
      /\ \A class, left : /\ kept(class, left).classification = class
                          /\ kept(class, left).artifact = left
      /\ \A class, left : kept(class, left) # none
  <2>1. /\ none.classification = "none"
        /\ \A class, left : /\ kept(class, left).classification = class
                            /\ kept(class, left).artifact = left
    BY DEF NoCoverage, CoverageObservation
  <2>2. ASSUME NEW class, NEW left, kept(class, left) = none PROVE FALSE
    <3>1. "artifact" \in DOMAIN kept(class, left) /\ "artifact" \notin DOMAIN none
      BY DEF NoCoverage, CoverageObservation
    <3> QED BY <2>2, <3>1
  <2> QED BY <2>1, <2>2
<1> HIDE DEF none, kept
<1>2. BuildCoverageResult(p, r, none, version) = CoverageErrorResult(p, "none", "preflight_invalid")
  <2>1. CoverageObservationError(none) = "preflight_invalid" /\ TrustedCoverageVersion(none, version) = "none"
    BY <1>1 DEF CoverageObservationError, TrustedCoverageVersion, none
  <2> QED BY <2>1 DEF BuildCoverageResult, CoverageErrorVersion
<1>3. ASSUME NEW class \in {"module_unavailable", "preflight_invalid"}
      PROVE  BuildCoverageResult(p, r, kept(class, "not_attempted"), version)
               = CoverageErrorResult(p, "none", class)
  <2>1. CoverageObservationError(kept(class, "not_attempted")) = class
    BY <1>1 DEF CoverageObservationError, none
  <2> QED BY <2>1 DEF BuildCoverageResult, CoverageErrorVersion
<1>4. ASSUME version \in OutOfRange
      PROVE  BuildCoverageResult(p, r, kept("unsupported_version", "not_attempted"), version)
               = CoverageErrorResult(p, IF version = "prerelease" THEN "none" ELSE version, "unsupported_version")
  <2> DEFINE c == kept("unsupported_version", "not_attempted")
  <2>1. CoverageObservationError(c) = "unsupported_version"
    BY <1>1 DEF CoverageObservationError, none
  <2>2. TrustedCoverageVersion(c, version) = IF version = "prerelease" THEN "none" ELSE version
    BY <1>1, <1>4 DEF TrustedCoverageVersion, StableVersion, OutOfRange
  <2> HIDE DEF c
  <2> QED BY <1>4, <2>1, <2>2 DEF BuildCoverageResult, CoverageErrorVersion, VersionSupported, OutOfRange, c
<1>5. ASSUME version = "supported",
             NEW left \in {"not_attempted", "data_missing", "unsupported_parallelism",
                           "unexpected_parallel_data", "generation_failed"}
      PROVE  BuildCoverageResult(p, r, kept("supported", left), version)
               = CoverageErrorResult(p, "supported", IF left = "not_attempted" THEN "data_missing" ELSE left)
  <2> DEFINE c == kept("supported", left)
             error == IF left = "not_attempted" THEN "data_missing" ELSE left
  <2>1. CoverageObservationError(c) = error
    BY <1>1 DEF CoverageObservationError, none
  <2>2. TrustedCoverageVersion(c, version) = "supported"
    BY <1>1, <1>5 DEF TrustedCoverageVersion, StableVersion
  <2>3. /\ error \notin {"none", "module_unavailable", "preflight_invalid", "unsupported_version"}
    OBVIOUS
  <2> HIDE DEF c, error
  <2> QED BY <2>1, <2>2, <2>3 DEF BuildCoverageResult, CoverageErrorVersion, VersionSupported, c, error
<1> QED BY <1>2, <1>3, <1>4, <1>5 DEF none, kept

\* An observation of coverage that was converted.
Conversion(converted, code, wellFormed) ==
  [classification |-> "supported", artifact |-> converted, jsonExit |-> code,
   wellFormed |-> wellFormed]

(* What is reported of data that were converted.                           *)
LEMMA ConvertedIs ==
  ASSUME NEW p, NEW r, NEW converted, converted # "not_attempted", NEW code, NEW wellFormed
  PROVE  LET o == Conversion(converted, code, wellFormed)
             c == BuildCoverageResult(p, r, o, "supported")
         IN /\ converted = "snapshot" => c = MeasuredCoverage(p, r, o, "supported")
            /\ converted \in CoverageArtifact \ {"snapshot"} =>
                 c = CoverageErrorResult(p, "supported", converted)
<1> DEFINE o == Conversion(converted, code, wellFormed)
<1>1. o.classification = "supported" /\ o.artifact = converted /\ o # NoCoverage
  <2>1. o.classification = "supported" /\ o.artifact = converted
    BY DEF Conversion
  <2>2. NoCoverage.classification = "none"
    BY DEF NoCoverage
  <2> QED BY <2>1, <2>2
<1> HIDE DEF o
<1>2. CoverageObservationError(o) = IF converted = "snapshot" THEN "none" ELSE converted
  BY <1>1 DEF CoverageObservationError
<1>3. TrustedCoverageVersion(o, "supported") = "supported"
  BY <1>1 DEF TrustedCoverageVersion, StableVersion
<1>4. CASE converted = "snapshot"
  BY <1>2, <1>3, <1>4 DEF BuildCoverageResult, o
<1>5. CASE converted \in CoverageArtifact \ {"snapshot"}
  <2>1. converted \notin {"none", "module_unavailable", "preflight_invalid", "unsupported_version"}
    BY <1>5 DEF CoverageArtifact
  <2>2. CoverageErrorVersion("supported", converted) = "supported"
    BY <2>1 DEF CoverageErrorVersion, VersionSupported
  <2> QED BY <1>2, <1>3, <1>5, <2>1, <2>2 DEF BuildCoverageResult, o
<1> QED BY <1>4, <1>5 DEF o

(* Coverage that was measured makes a sound result, or an error that the   *)
(* exit code of its conversion admits.                                     *)
LEMMA MeasuredIs ==
  ASSUME NEW answer, NEW o, o.jsonExit \in {0, 1, 2}, CoverageRequested(answer.plan), ReportablePlan(answer.plan),
         answer.coverage = MeasuredCoverage(answer.plan, answer.pytest, o, "supported")
  PROVE  LET c == answer.coverage
         IN \/ /\ c = CoverageErrorResult(answer.plan, "supported", "generation_failed")
               /\ o.jsonExit # 0
            \/ c = CoverageErrorResult(answer.plan, "supported", "artifact_invalid")
            \/ /\ c.status \notin {"none", "error"} /\ c.version = "supported" /\ CoverageIsSound(c)
               /\ CoverageFitsContext(answer)
               /\ o.jsonExit = IF c.status = "failed" THEN 2 ELSE 0
<1> DEFINE c == answer.coverage
           p == answer.plan
           r == answer.pytest
           eligible == GateEligible(p, r, TRUE)
           skipped == SkippedReason(p, r, TRUE, p.configured)
           evaluated == p.configured /\ eligible
           code == o.jsonExit
           passed == IF ~evaluated THEN "none" ELSE IF code = 0 THEN "yes" ELSE "no"
           status == IF ~eligible THEN "guidance" ELSE IF passed = "no" THEN "failed" ELSE "passed"
           scope == IF p.coverageScope = "complete" /\ Scope(r) = "complete" THEN "complete" ELSE "partial"
           left == IF evaluated THEN "none" ELSE skipped
           failed == code # 0 /\ ~(code = 2 /\ evaluated)
           invalid == ~o.wellFormed \/ skipped = "evidence_error"
           sound == CoverageResult(status, TRUE, "supported", eligible, p.configured, passed, left, "none", scope)
<1>1. c = IF failed THEN CoverageErrorResult(p, "supported", "generation_failed")
          ELSE IF invalid THEN CoverageErrorResult(p, "supported", "artifact_invalid")
          ELSE sound
  BY DEF MeasuredCoverage
<1>2. /\ eligible <=> /\ r.evidence /\ r.exitCode = 0 /\ r.complete /\ r.reasons = {}
                      /\ ~p.targets /\ ~p.shortcut /\ p.mode = "strict_aggregate"
      /\ eligible \in BOOLEAN
  BY DEF GateEligible
<1>3. /\ skipped # "evidence_error" => r.evidence
      /\ r.evidence /\ ~p.configured => skipped = "not_configured"
      /\ r.evidence /\ skipped = "none" => p.configured /\ eligible
      /\ evaluated => skipped = "none"
  <2> DEFINE others == IF r.exitCode = 5 THEN "no_tests_collected"
                       ELSE IF ~r.complete THEN "pytest_incomplete"
                       ELSE IF r.exitCode # 0 THEN "pytest_failed"
                       ELSE IF r.reasons # {} \/ p.targets \/ p.shortcut THEN "partial_run"
                       ELSE IF p.mode # "strict_aggregate" THEN "focused_run"
                       ELSE "none"
  <2>1. skipped = IF ~r.evidence THEN "evidence_error"
                  ELSE IF ~p.configured THEN "not_configured" ELSE others
    BY DEF SkippedReason
  <2>2. r.evidence => (others = "none" <=> eligible)
    <3> HIDE DEF eligible
    <3>1. CASE r.exitCode = 0
      BY <3>1, <1>2
    <3>2. CASE r.exitCode # 0
      BY <3>2, <1>2
    <3> QED BY <3>1, <3>2
  <2>3. others # "evidence_error" /\ others # "not_configured"
    OBVIOUS
  <2>4. eligible => r.evidence
    BY <1>2
  <2> HIDE DEF others, skipped, eligible
  <2> QED BY <2>1, <2>2, <2>3, <2>4
<1>4. eligible => Scope(r) = "complete" /\ p.coverageScope = "complete"
  BY <1>2 DEF Scope, ReportablePlan
<1>5. code \in {0, 1, 2}
  OBVIOUS
<1> HIDE DEF eligible, skipped, code
<1>6. CASE ~failed /\ ~invalid
  <2>1. c = sound
    BY <1>1, <1>6
  <2>2. /\ skipped # "evidence_error" /\ r.evidence
        /\ code = 0 \/ (code = 2 /\ evaluated)
    BY <1>3, <1>5, <1>6
  <2>3. left = skipped
    BY <1>3
  <2>4. /\ status \in {"guidance", "failed", "passed"}
        /\ status = "guidance" <=> ~eligible
        /\ status = "failed" <=> (evaluated /\ code = 2)
        /\ passed = "none" <=> ~evaluated
        /\ status = "failed" => passed = "no" /\ p.configured
        /\ status = "passed" /\ p.configured => passed = "yes"
        /\ passed = "no" => status = "failed"
    BY <2>2
  <2>5. /\ eligible => scope = "complete"
        /\ scope = "complete" <=> (p.coverageScope = "complete" /\ Scope(r) = "complete")
    BY <1>4
  <2>6. code = IF status = "failed" THEN 2 ELSE 0
    BY <2>2, <2>4
  <2>7. status = IF ~eligible THEN "guidance" ELSE IF passed = "no" THEN "failed" ELSE "passed"
    OBVIOUS
  <2> HIDE DEF status, passed, scope, left, failed, invalid
  <2>8. /\ c.status = status /\ c.complete = TRUE /\ c.version = "supported" /\ c.eligible = eligible
        /\ c.configured = p.configured /\ c.passed = passed /\ c.skipped = left /\ c.error = "none"
        /\ c.scope = scope
    BY <2>1 DEF CoverageResult
  <2> HIDE DEF c
  <2>9. CoverageIsSound(c)
    <3>1. c.status # "error" /\ c.complete /\ c.error = "none" /\ VersionSupported(c.version)
      BY <2>4, <2>8 DEF VersionSupported
    <3>2. c.status = "guidance" =>
            ~c.eligible /\ ~Evaluated(c) /\ c.skipped \notin {"none", "evidence_error"}
      BY <1>2, <1>3, <2>2, <2>3, <2>4, <2>8 DEF Evaluated
    <3>3. c.status # "guidance" => c.scope = "complete" /\ c.eligible
      BY <2>4, <2>5, <2>8
    <3>4. c.status = "failed" => c.configured /\ c.passed = "no"
      BY <2>4, <2>8
    <3>5. c.status = "passed" =>
             \/ c.configured /\ c.passed = "yes"
             \/ ~c.configured /\ c.passed = "none" /\ c.skipped = "not_configured"
      BY <1>3, <2>2, <2>3, <2>4, <2>8
    <3> QED BY <3>1, <3>2, <3>3, <3>4, <3>5 DEF CoverageIsSound
  <2>10. CoverageFitsContext(answer)
    <3>1. /\ GateEligible(answer.plan, answer.pytest, c.complete) = eligible
          /\ SkippedReason(answer.plan, answer.pytest, c.complete, c.configured) = skipped
      BY <2>8 DEF eligible, skipped
    <3>2. answer.coverage = c
      BY DEF c
    <3>3. /\ (c.scope = "complete") <=>
               (answer.plan.coverageScope = "complete" /\ Scope(answer.pytest) = "complete" /\ c.complete)
          /\ c.eligible = eligible /\ c.status # "error" /\ c.skipped = skipped
          /\ c.status = (IF ~eligible THEN "guidance" ELSE IF c.passed = "no" THEN "failed" ELSE "passed")
      BY <2>3, <2>4, <2>5, <2>7, <2>8
    <3> QED BY <3>1, <3>2, <3>3 DEF CoverageFitsContext
  <2> QED BY <2>4, <2>6, <2>8, <2>9, <2>10 DEF c, code
<1>7. CASE failed
  <2>1. c = CoverageErrorResult(p, "supported", "generation_failed") /\ code # 0
    BY <1>1, <1>7
  <2> QED BY <2>1 DEF code
<1>8. CASE ~failed /\ invalid
  BY <1>1, <1>8
<1> QED BY <1>6, <1>7, <1>8

-----------------------------------------------------------------------------
(* The Check of pytest *)

\* What coverage was measured with, if it was requested.
CoverageDependency(p, cowner) == IF CoverageRequested(p) THEN cowner ELSE Unattempted("coverage")

\* The rules for a Check of pytest that was reached.
PytestRules(answer, check) ==
  PytestAgrees(check, answer.pytest, DependencyOf(answer.deps, "pytest"), answer.coverage,
               CoverageDependency(answer.plan, DependencyOf(answer.deps, "coverage")),
               UnsafeAfterPreparation(answer.env))

(* What is asked of the Check of pytest once the environment was usable.   *)
LEMMA PytestCheckIs ==
  ASSUME NEW answer, NEW check, check.name = "pytest", Observed(answer.env),
         EnvironmentFailed(answer.env) => UnsafeAfterPreparation(answer.env),
         answer.env.error = "repository_state_changed" => ~UnsafeAfterPreparation(answer.env),
         check.start # "none" => check.processes # <<>> /\ check.start = ExpectedModule(answer, check)
  PROVE  LET owner == DependencyOf(answer.deps, "pytest")
             lost == UnsafeAfterPreparation(answer.env)
             unavailable == check.error = "repository_environment_unavailable"
             rules == PytestRules(answer, check)
         IN /\ unavailable /\ lost /\ Synthesized(check) =>
                 (CheckAgrees(answer, check) <=> SynthesizedPytestAgrees(answer.pytest, answer.coverage, owner, TRUE))
            /\ unavailable /\ answer.env.error = "repository_state_changed" => ~CheckAgrees(answer, check)
            /\ ~unavailable /\ owner.status = "available" => (CheckAgrees(answer, check) <=> rules)
            /\ (/\ ~unavailable /\ owner.status # "available" /\ check.processes = <<>>
                /\ check.error \in {"cleanup_failed", "platform_safety_unavailable"})
                 => (CheckAgrees(answer, check) <=> rules)
            /\ (/\ ~unavailable /\ owner.status # "available"
                /\ check.error \notin {"cleanup_failed", "platform_safety_unavailable"}
                /\ owner.error # "none" /\ check.error = owner.error /\ Synthesized(check))
                 => (CheckAgrees(answer, check)
                       <=> SynthesizedPytestAgrees(answer.pytest, answer.coverage, owner, FALSE))
<1> DEFINE owner == DependencyOf(answer.deps, "pytest")
           cowner == CoverageDependency(answer.plan, DependencyOf(answer.deps, "coverage"))
           lost == UnsafeAfterPreparation(answer.env)
           its == answer.env
           unavailable == check.error = "repository_environment_unavailable"
           rules == PytestRules(answer, check)
           broken == EnvironmentFailed(its) /\ ~lost
           synthesized == Synthesized(check)
           whole == SynthesizedPytestAgrees(answer.pytest, answer.coverage, owner, TRUE)
           owned == SynthesizedPytestAgrees(answer.pytest, answer.coverage, owner, FALSE)
           cleaned == /\ owner.status # "available" /\ check.processes = <<>>
                      /\ check.error \in {"cleanup_failed", "platform_safety_unavailable"}
           changed == its.error = "repository_state_changed"
           started == check.start # "none" =>
                        /\ check.processes # <<>> /\ check.start = ExpectedModule(answer, check)
                        /\ Observed(its)
           available == owner.status = "available"
           sameError == owner.error # "none" /\ check.error = owner.error
<1>1. DependencyNameForCheck(check.name) = "pytest"
  BY DEF DependencyNameForCheck
<1>2. CheckAgrees(answer, check) <=>
        /\ started
        /\ IF broken THEN unavailable /\ synthesized /\ whole
           ELSE IF lost /\ unavailable /\ synthesized THEN whole
           ELSE IF changed /\ unavailable THEN FALSE
           ELSE IF cleaned THEN rules
           ELSE IF ~available THEN sameError /\ synthesized /\ owned
           ELSE rules
  <2> HIDE DEF owner, lost, unavailable, synthesized, broken, cleaned, changed, started, available, sameError
  <2>1. cowner = IF check.name = "pytest" /\ CoverageRequested(answer.plan)
                 THEN DependencyOf(answer.deps, "coverage") ELSE Unattempted("coverage")
    BY DEF CoverageDependency
  <2> HIDE DEF cowner, whole, owned, rules
  <2>2. rules = PytestAgrees(check, answer.pytest, owner, answer.coverage, cowner, lost)
    BY DEF PytestRules, rules, owner, cowner, lost
  <2> QED BY <1>1, <2>1, <2>2 DEF CheckAgrees, owner, lost, unavailable, synthesized, broken, cleaned, changed, started, available, sameError, whole, owned
<1>3. started
  OBVIOUS
<1>4. ~broken
  OBVIOUS
<1>5. cleaned <=> /\ ~available /\ check.processes = <<>>
                  /\ check.error \in {"cleanup_failed", "platform_safety_unavailable"}
  OBVIOUS
<1>6. changed => ~lost
  OBVIOUS
<1> HIDE DEF lost, unavailable, broken, synthesized, whole, owned, cleaned, changed, started, available, sameError, rules
<1>7. unavailable /\ lost /\ synthesized => (CheckAgrees(answer, check) <=> whole)
  BY <1>2, <1>3, <1>4
<1>8. unavailable /\ changed => ~CheckAgrees(answer, check)
  BY <1>2, <1>4, <1>6
<1>9. ~unavailable /\ available => (CheckAgrees(answer, check) <=> rules)
  BY <1>2, <1>3, <1>4, <1>5
<1>10. ~unavailable /\ cleaned => (CheckAgrees(answer, check) <=> rules)
  BY <1>2, <1>3, <1>4
<1>11. ~unavailable /\ ~available /\ ~cleaned /\ sameError /\ synthesized
         => (CheckAgrees(answer, check) <=> owned)
  BY <1>2, <1>3, <1>4
<1> HIDE DEF owner
<1>12. (/\ ~unavailable /\ ~available /\ check.processes = <<>>
        /\ check.error \in {"cleanup_failed", "platform_safety_unavailable"})
         => (CheckAgrees(answer, check) <=> rules)
  BY <1>5, <1>10
<1>13. (/\ ~unavailable /\ ~available
        /\ check.error \notin {"cleanup_failed", "platform_safety_unavailable"}
        /\ owner.error # "none" /\ check.error = owner.error /\ synthesized)
         => (CheckAgrees(answer, check) <=> owned)
  BY <1>5, <1>11 DEF sameError
<1> QED BY <1>7, <1>8, <1>9, <1>12, <1>13
          DEF lost, unavailable, synthesized, whole, owned, changed, available, owner, rules

\* How a report comes to its results of pytest and of coverage.
AboutPytest(answer, o, owner, cowner) ==
  /\ o.name = "pytest" /\ o \in ObservationState /\ ReportablePlan(answer.plan)
  /\ Seen(owner) /\ (CoverageRequested(answer.plan) => Seen(cowner))
  /\ answer.pytest = ReportedPytest(answer.plan, answer.env, o, owner)
  /\ answer.coverage = IF CoverageRequested(answer.plan)
                       THEN BuildCoverageResult(answer.plan, answer.pytest, o.coverage, cowner.version)
                       ELSE NoCoverageResult

SoundResults(answer) ==
  /\ answer.pytest # NoPytestResult /\ PytestIsSound(answer.pytest, answer.plan)
  /\ CoverageRequested(answer.plan) <=> (answer.coverage # NoCoverageResult)
  /\ CoverageRequested(answer.plan) => CoverageIsSound(answer.coverage) /\ CoverageFitsContext(answer)

(* A Check that was not started.                                           *)
LEMMA UnstartedCheckIs ==
  ASSUME NEW o, NEW r, Unstarted(o), o.error # "none"
  PROVE  LET check == CheckResult(o, r)
         IN /\ check.name = o.name /\ check.status = "error" /\ check.error = o.error
            /\ check.processes = <<>> /\ check.start = "none" /\ ~check.authority
            /\ CoverageJson(check) = NoProcess /\ Synthesized(check)
<1> DEFINE check == CheckResult(o, r)
<1>1. o.processes = <<>> /\ o.start = "none" /\ ~o.authority
  BY DEF Unstarted
<1>2. /\ check.name = o.name /\ check.status = "error" /\ check.error = o.error
      /\ check.processes = o.processes /\ check.start = o.start /\ check.authority = o.authority
  BY DEF CheckResult
<1> HIDE DEF check
<1>3. CoverageJson(check) = NoProcess /\ Synthesized(check)
  BY <1>1, <1>2 DEF CoverageJson, Synthesized
<1> QED BY <1>1, <1>2, <1>3 DEF check

(* Coverage without data is reported soundly.                              *)
LEMMA SoundWithoutData ==
  ASSUME NEW answer, answer.pytest # NoPytestResult, PytestIsSound(answer.pytest, answer.plan),
         ~CoverageRequested(answer.plan) => answer.coverage = NoCoverageResult,
         CoverageRequested(answer.plan) =>
           \E version, error : /\ MayAccompany(version, error)
                               /\ answer.coverage = CoverageErrorResult(answer.plan, version, error)
  PROVE  SoundResults(answer)
<1>1. CASE CoverageRequested(answer.plan)
  <2>1. PICK version, error : /\ MayAccompany(version, error)
                              /\ answer.coverage = CoverageErrorResult(answer.plan, version, error)
    BY <1>1
  <2>2. /\ answer.coverage # NoCoverageResult
        /\ CoverageIsSound(answer.coverage) /\ CoverageFitsContext(answer)
    BY <2>1, CoverageErrorIs
  <2> QED BY <1>1, <2>2 DEF SoundResults
<1>2. CASE ~CoverageRequested(answer.plan)
  BY <1>2 DEF SoundResults
<1> QED BY <1>1, <1>2

(* Coverage of a pytest that had no workspace, no plugin or no dependency. *)
LEMMA InvalidCoverageIs ==
  ASSUME NEW answer, NEW o, NEW owner, NEW cowner, AboutPytest(answer, o, owner, cowner),
         CoverageRequested(answer.plan),
         o.coverage = NoCoverage \/ o.coverage = CoverageObservation("preflight_invalid", "not_attempted")
  PROVE  LET c == answer.coverage
         IN /\ c = CoverageErrorResult(answer.plan, "none", "preflight_invalid")
            /\ c.status = "error" /\ c.error = "preflight_invalid" /\ c.version = "none"
            /\ MayAccompany("none", "preflight_invalid")
<1> DEFINE c == answer.coverage
<1>1. c = BuildCoverageResult(answer.plan, answer.pytest, o.coverage, cowner.version)
  BY DEF AboutPytest
<1>2. c = CoverageErrorResult(answer.plan, "none", "preflight_invalid")
  BY <1>1, UnconvertedIs
<1>3. MayAccompany("none", "preflight_invalid")
  BY DEF MayAccompany
<1>4. c.status = "error" /\ c.error = "preflight_invalid" /\ c.version = "none"
  BY <1>2, <1>3, CoverageErrorIs
<1> QED BY <1>2, <1>3, <1>4

(* pytest without a workspace.                                             *)
LEMMA NoWorkspaceAgrees ==
  ASSUME NEW answer, NEW o, NEW owner, NEW cowner, AboutPytest(answer, o, owner, cowner),
         NoWorkspace(o), NEW cdep, NEW lost
  PROVE  LET check == CheckResult(o, answer.pytest)
         IN /\ SoundResults(answer)
            /\ PytestAgrees(check, answer.pytest, owner, answer.coverage, cdep, lost)
                 <=> ~(/\ EnvironmentFailed(answer.env)
                       /\ owner.status \notin {"shadowed", "unusable", "unobserved"})
<1> DEFINE p == answer.plan
           r == answer.pytest
           c == answer.coverage
           check == CheckResult(o, r)
           failed == EnvironmentFailed(answer.env)
           E == IF failed THEN "preflight_invalid" ELSE "not_started"
<1>1. /\ o.pytest = NoPytest /\ o.coverage = NoCoverage /\ Unstarted(o)
      /\ o.error \in {"platform_safety_unavailable", "cleanup_failed"} /\ o.error # "none"
  BY DEF NoWorkspace, Bare
<1>2. r = PytestFailure(p, E, "none", NoCode)
  BY <1>1 DEF AboutPytest, ReportedPytest
<1>3. /\ r.status = "error" /\ ~r.complete /\ ~r.evidence /\ r.error = E /\ r.version = "none"
      /\ r # NoPytestResult /\ PytestIsSound(r, p) /\ NotRun(r)
  BY <1>2, FailureIs
<1>4. CoverageRequested(p) => /\ c = CoverageErrorResult(p, "none", "preflight_invalid")
                              /\ c.status = "error" /\ c.error = "preflight_invalid" /\ c.version = "none"
                              /\ MayAccompany("none", "preflight_invalid")
  BY <1>1, InvalidCoverageIs
<1>5. ~CoverageRequested(p) => c = NoCoverageResult
  BY DEF AboutPytest
<1>6. SoundResults(answer)
  BY <1>3, <1>4, <1>5, SoundWithoutData
<1>7. /\ check.status = "error" /\ check.error = o.error
      /\ check.processes = <<>> /\ check.start = "none" /\ ~check.authority
      /\ CoverageJson(check) = NoProcess
  BY <1>1, UnstartedCheckIs
<1>8. /\ owner.status \in {"unobserved", "available", "incompatible", "missing", "shadowed", "unusable"}
      /\ owner.status = "incompatible" => owner.version # "none"
      /\ owner.status = "available" => owner.version = "supported"
  <2>1. Seen(owner)
    BY DEF AboutPytest
  <2> QED BY <2>1, SeenAre DEF OutOfRange
<1> HIDE DEF r, c, check, E, p
<1>9. c # NoCoverageResult => UnstartedCoverageAgrees(check, r, c, cdep, owner.status = "available")
  <2>1. SUFFICES ASSUME c # NoCoverageResult
                 PROVE  UnstartedCoverageAgrees(check, r, c, cdep, owner.status = "available")
    OBVIOUS
  <2>2. c.status = "error" /\ c.error = "preflight_invalid" /\ c.version = "none"
    BY <1>4, <1>5, <2>1
  <2> QED BY <2>2, <1>1, <1>3, <1>7 DEF UnstartedCoverageAgrees
<1>10. PytestAgrees(check, r, owner, c, cdep, lost) <=> UnstartedPytestAgrees(check, r, owner, c, cdep)
  BY <1>3, <1>7 DEF PytestAgrees
<1>11. UnstartedPytestAgrees(check, r, owner, c, cdep) <=>
         /\ owner.status # "available" => UnavailableCleanupAgrees(r, owner)
         /\ owner.status = "available" => E = "not_started"
  BY <1>1, <1>3, <1>7, <1>8, <1>9 DEF UnstartedPytestAgrees
<1>12. owner.status # "available" =>
         (UnavailableCleanupAgrees(r, owner) <=>
            ~(failed /\ owner.status \notin {"shadowed", "unusable", "unobserved"}))
  BY <1>3, <1>8 DEF UnavailableCleanupAgrees, IncompatibleVersion, PreflightError, E
<1>13. (E = "not_started") <=> ~failed
  BY DEF E
<1> QED BY <1>6, <1>8, <1>10, <1>11, <1>12, <1>13 DEF r, c, check, p

(* pytest without its dependency.                                          *)
LEMMA UnavailableAgrees ==
  ASSUME NEW answer, NEW o, NEW owner, NEW cowner, AboutPytest(answer, o, owner, cowner),
         owner.status # "available", Unstarted(o), o.pytest = PreflightOf(owner),
         o.coverage = CoverageWithout(answer.plan), o.error # "none", NEW cdep, NEW lost
  PROVE  LET check == CheckResult(o, answer.pytest)
             odd == owner.status = "incompatible" /\ owner.version # "three_numbers"
         IN /\ SoundResults(answer)
            /\ SynthesizedPytestAgrees(answer.pytest, answer.coverage, owner, FALSE) <=> ~odd
            /\ o.error = "cleanup_failed" =>
                 (PytestAgrees(check, answer.pytest, owner, answer.coverage, cdep, lost) <=> ~odd)
<1> DEFINE p == answer.plan
           r == answer.pytest
           c == answer.coverage
           check == CheckResult(o, r)
           odd == owner.status = "incompatible" /\ owner.version # "three_numbers"
           class == o.pytest.classification
           version == o.pytest.version
<1>1. /\ owner.status \in {"unobserved", "incompatible", "missing", "shadowed", "unusable"}
      /\ owner.status = "incompatible" => owner.version \in OutOfRange
  <2>1. Seen(owner)
    BY DEF AboutPytest
  <2> QED BY <2>1, SeenAre
<1>2. /\ class = IF owner.status = "missing" THEN "module_unavailable"
                 ELSE IF owner.status = "incompatible" /\ owner.version # "prerelease" THEN "unsupported_version"
                 ELSE "preflight_invalid"
      /\ version = IF owner.status = "incompatible" /\ owner.version # "prerelease"
                   THEN NumericVersion(owner.version) ELSE "none"
      /\ o.pytest # NoPytest
  <2> DEFINE numeric == NumericVersion(owner.version)
  <2>1. owner.status = "incompatible" => ((numeric # "none") <=> (owner.version # "prerelease"))
    BY <1>1 DEF NumericVersion, OutOfRange
  <2> HIDE DEF numeric
  <2>2. PreflightOf(owner) =
          IF owner.status = "missing" THEN PytestObservation("module_unavailable", "none", "missing", NoSession)
          ELSE IF owner.status = "incompatible" /\ owner.version # "prerelease"
          THEN PytestObservation("unsupported_version", numeric, "missing", NoSession)
          ELSE PytestObservation("preflight_invalid", "none", "missing", NoSession)
    BY <1>1, <2>1 DEF PreflightOf, numeric
  <2>3. \A a, b : /\ PytestObservation(a, b, "missing", NoSession).classification = a
                  /\ PytestObservation(a, b, "missing", NoSession).version = b
    BY DEF PytestObservation
  <2>4. NoPytest.classification = "none"
    BY DEF NoPytest
  <2>5. class # "none"
    BY <2>2, <2>3
  <2> QED BY <2>2, <2>3, <2>4, <2>5 DEF numeric
<1> HIDE DEF class, version
<1>3. class \notin {"supported", "none", "session_incomplete"}
  BY <1>2
<1>4. r = PytestFailure(p, class, version, NoCode)
  <2>1. r = BuildPytestResult(p, o, owner.version)
    BY <1>2 DEF AboutPytest, ReportedPytest
  <2>2. ValidationError(o) = class
    BY <1>3 DEF ValidationError, class
  <2>3. ReportedVersion(o.pytest, owner.version) = version
    BY <1>3 DEF ReportedVersion, class, version
  <2> QED BY <1>3, <2>1, <2>2, <2>3 DEF BuildPytestResult, class
<1>5. /\ r.status = "error" /\ ~r.complete /\ ~r.evidence /\ r.error = class /\ r.version = version
      /\ r # NoPytestResult /\ PytestIsSound(r, p) /\ NotRun(r)
  BY <1>3, <1>4, FailureIs
<1>6. CoverageRequested(p) => /\ c = CoverageErrorResult(p, "none", "preflight_invalid")
                              /\ c.status = "error" /\ c.error = "preflight_invalid" /\ c.version = "none"
                              /\ MayAccompany("none", "preflight_invalid")
  BY InvalidCoverageIs DEF CoverageWithout
<1>7. ~CoverageRequested(p) => c = NoCoverageResult
  BY DEF AboutPytest
<1>8. SoundResults(answer)
  BY <1>5, <1>6, <1>7, SoundWithoutData
<1>9. /\ check.status = "error" /\ check.error = o.error
      /\ check.processes = <<>> /\ check.start = "none" /\ ~check.authority
      /\ CoverageJson(check) = NoProcess
  BY UnstartedCheckIs
<1>10. ~odd <=> (class = PreflightError(owner.status) /\ version = IncompatibleVersion(owner))
  BY <1>1, <1>2 DEF PreflightError, IncompatibleVersion, NumericVersion, OutOfRange
<1> HIDE DEF r, c, check, p, odd
<1>11. SynthesizedPytestAgrees(r, c, owner, FALSE) <=> ~odd
  <2>1. c # NoCoverageResult => c.status = "error" /\ c.error = "preflight_invalid"
    BY <1>6, <1>7
  <2> QED BY <2>1, <1>5, <1>10 DEF SynthesizedPytestAgrees
<1>12. ASSUME o.error = "cleanup_failed"
       PROVE  PytestAgrees(check, r, owner, c, cdep, lost) <=> ~odd
  <2>1. c # NoCoverageResult => UnstartedCoverageAgrees(check, r, c, cdep, FALSE)
    <3>1. SUFFICES ASSUME c # NoCoverageResult
                   PROVE  UnstartedCoverageAgrees(check, r, c, cdep, FALSE)
      OBVIOUS
    <3>2. c.status = "error" /\ c.error = "preflight_invalid" /\ c.version = "none"
      BY <1>6, <1>7, <3>1
    <3> QED BY <3>2, <1>9 DEF UnstartedCoverageAgrees
  <2>2. (owner.status = "available") = FALSE
    OBVIOUS
  <2>3. UnavailableCleanupAgrees(r, owner) <=> ~odd
    <3>1. class # "not_started"
      BY <1>2
    <3> QED BY <3>1, <1>5, <1>10 DEF UnavailableCleanupAgrees
  <2>4. UnstartedPytestAgrees(check, r, owner, c, cdep) <=> ~odd
    BY <1>5, <1>9, <1>12, <2>1, <2>2, <2>3 DEF UnstartedPytestAgrees
  <2>5. ~odd => r.version \in {"none", owner.version}
    BY <1>5, <1>10 DEF IncompatibleVersion
  <2> QED BY <1>9, <2>4, <2>5 DEF PytestAgrees
<1> QED BY <1>8, <1>11, <1>12 DEF r, c, check, p, odd

(* pytest whose plugin was not staged.                                     *)
LEMMA UnstagedAgrees ==
  ASSUME NEW answer, NEW o, NEW owner, NEW cowner, AboutPytest(answer, o, owner, cowner),
         owner.status = "available", Unstarted(o), FailsWith(o, "pytest_evidence_error"),
         o.pytest = PytestObservation("not_started", "none", "missing", NoSession),
         o.coverage = CoverageWithout(answer.plan), NEW cdep, NEW lost
  PROVE  LET check == CheckResult(o, answer.pytest)
         IN /\ SoundResults(answer)
            /\ PytestAgrees(check, answer.pytest, owner, answer.coverage, cdep, lost)
<1> DEFINE p == answer.plan
           r == answer.pytest
           c == answer.coverage
           check == CheckResult(o, r)
<1>1. owner.version = "supported"
  <2>1. Seen(owner)
    BY DEF AboutPytest
  <2> QED BY <2>1, SeenAre
<1>2. /\ o.pytest.classification = "not_started" /\ o.pytest.version = "none" /\ o.pytest # NoPytest
      /\ o.error \in {"pytest_evidence_error", "cleanup_failed"} /\ o.error # "none"
  <2>1. NoPytest.classification = "none"
    BY DEF NoPytest
  <2>2. o.pytest.classification = "not_started" /\ o.pytest.version = "none"
    BY DEF PytestObservation
  <2> QED BY <2>1, <2>2 DEF FailsWith
<1>3. r = PytestFailure(p, "not_started", "none", NoCode)
  <2>1. r = BuildPytestResult(p, o, owner.version)
    BY <1>2 DEF AboutPytest, ReportedPytest
  <2>2. ValidationError(o) = "not_started"
    BY <1>2 DEF ValidationError
  <2>3. ReportedVersion(o.pytest, owner.version) = "none"
    BY <1>2 DEF ReportedVersion
  <2> QED BY <1>2, <2>1, <2>2, <2>3 DEF BuildPytestResult
<1>4. /\ r.status = "error" /\ ~r.complete /\ ~r.evidence /\ r.error = "not_started" /\ r.version = "none"
      /\ r # NoPytestResult /\ PytestIsSound(r, p) /\ NotRun(r)
  BY <1>3, FailureIs
<1>5. CoverageRequested(p) => /\ c = CoverageErrorResult(p, "none", "preflight_invalid")
                              /\ c.status = "error" /\ c.error = "preflight_invalid" /\ c.version = "none"
                              /\ MayAccompany("none", "preflight_invalid")
  BY InvalidCoverageIs DEF CoverageWithout
<1>6. ~CoverageRequested(p) => c = NoCoverageResult
  BY DEF AboutPytest
<1>7. SoundResults(answer)
  BY <1>4, <1>5, <1>6, SoundWithoutData
<1>8. /\ check.status = "error" /\ check.error = o.error
      /\ check.processes = <<>> /\ check.start = "none" /\ ~check.authority
      /\ CoverageJson(check) = NoProcess
  BY <1>2, UnstartedCheckIs
<1> HIDE DEF r, c, check, p
<1>9. c # NoCoverageResult => UnstartedCoverageAgrees(check, r, c, cdep, TRUE)
  <2>1. SUFFICES ASSUME c # NoCoverageResult
                 PROVE  UnstartedCoverageAgrees(check, r, c, cdep, TRUE)
    OBVIOUS
  <2>2. c.status = "error" /\ c.error = "preflight_invalid" /\ c.version = "none"
    BY <1>5, <1>6, <2>1
  <2> QED BY <2>2, <1>2, <1>4, <1>8 DEF UnstartedCoverageAgrees
<1>10. (owner.status = "available") = TRUE
  OBVIOUS
<1>11. UnstartedPytestAgrees(check, r, owner, c, cdep)
  BY <1>1, <1>2, <1>4, <1>8, <1>9, <1>10 DEF UnstartedPytestAgrees
<1>12. PytestAgrees(check, r, owner, c, cdep, lost)
  BY <1>4, <1>8, <1>11 DEF PytestAgrees
<1> QED BY <1>7, <1>12 DEF r, c, check, p

(* Coverage without its dependency.                                        *)
LEMMA NotMeasuredIs ==
  ASSUME NEW answer, NEW o, NEW owner, NEW cowner, AboutPytest(answer, o, owner, cowner), NEW d,
         DependencyOf(d, "coverage") = cowner, o.coverage = CoverageBefore(answer.plan, d),
         CoverageRequested(answer.plan), cowner.status # "available"
  PROVE  LET c == answer.coverage
             error == PreflightError(cowner.status)
             version == IF cowner.status = "incompatible" /\ cowner.version # "prerelease"
                        THEN cowner.version ELSE "none"
         IN /\ c = CoverageErrorResult(answer.plan, version, error) /\ MayAccompany(version, error)
            /\ c.status = "error" /\ c.error = error /\ c.version = version
            /\ o.coverage # NoCoverage => o.coverage.artifact = "not_attempted"
<1> DEFINE c == answer.coverage
           error == PreflightError(cowner.status)
           version == IF cowner.status = "incompatible" /\ cowner.version # "prerelease"
                      THEN cowner.version ELSE "none"
<1>1. /\ cowner.status \in {"unobserved", "incompatible", "missing", "shadowed", "unusable"}
      /\ cowner.status = "incompatible" => cowner.version \in OutOfRange
  <2>1. Seen(cowner)
    BY DEF AboutPytest
  <2> QED BY <2>1, SeenAre
<1>2. /\ error \in {"module_unavailable", "unsupported_version", "preflight_invalid"}
      /\ error = "unsupported_version" <=> cowner.status = "incompatible"
  BY <1>1 DEF PreflightError
<1>3. o.coverage = CoverageObservation(error, "not_attempted")
  BY <1>1 DEF CoverageBefore
<1>4. c = BuildCoverageResult(answer.plan, answer.pytest, o.coverage, cowner.version)
  BY DEF AboutPytest
<1> HIDE DEF error, c
<1>5. c = CoverageErrorResult(answer.plan, version, error)
  <2>1. CASE error = "unsupported_version"
    <3>1. c = CoverageErrorResult(answer.plan, IF cowner.version = "prerelease" THEN "none" ELSE cowner.version, error)
      BY <1>1, <1>2, <1>3, <1>4, <2>1, UnconvertedIs
    <3> QED BY <1>2, <2>1, <3>1
  <2>2. CASE error # "unsupported_version"
    <3>1. c = CoverageErrorResult(answer.plan, "none", error)
      BY <1>1, <1>2, <1>3, <1>4, <2>2, UnconvertedIs
    <3> QED BY <1>2, <2>2, <3>1
  <2> QED BY <2>1, <2>2
<1>6. MayAccompany(version, error)
  <2>1. CASE error = "unsupported_version"
    BY <1>1, <1>2, <2>1 DEF MayAccompany, OutOfRange
  <2>2. CASE error # "unsupported_version"
    BY <1>1, <1>2, <2>2 DEF MayAccompany
  <2> QED BY <2>1, <2>2
<1> HIDE DEF version
<1>7. c.status = "error" /\ c.error = error /\ c.version = version
  BY <1>5, <1>6, CoverageErrorIs DEF c
<1>8. o.coverage.artifact = "not_attempted"
  BY <1>3 DEF CoverageObservation
<1> QED BY <1>5, <1>6, <1>7, <1>8 DEF c, error, version

(* pytest whose start marker was not prepared.                             *)
LEMMA UnpreparedAgrees ==
  ASSUME NEW answer, NEW o, NEW owner, NEW cowner, AboutPytest(answer, o, owner, cowner), NEW d,
         DependencyOf(d, "coverage") = cowner,
         owner.status = "available", Unstarted(o), FailsWith(o, "check_start_evidence_invalid"),
         o.pytest = PreflightOf(owner), o.coverage = CoverageBefore(answer.plan, d), NEW lost
  PROVE  LET check == CheckResult(o, answer.pytest)
             odd == /\ CoverageRequested(answer.plan) /\ cowner.status = "incompatible"
                    /\ cowner.version = "prerelease"
         IN /\ SoundResults(answer)
            /\ PytestAgrees(check, answer.pytest, owner, answer.coverage,
                            CoverageDependency(answer.plan, cowner), lost) <=> ~odd
            /\ o.coverage # NoCoverage => o.coverage.artifact = "not_attempted"
            /\ o.pytest.classification = "supported"
<1> DEFINE p == answer.plan
           r == answer.pytest
           c == answer.coverage
           check == CheckResult(o, r)
           cdep == CoverageDependency(p, cowner)
           odd == CoverageRequested(p) /\ cowner.status = "incompatible" /\ cowner.version = "prerelease"
<1>1. owner.version = "supported"
  <2>1. Seen(owner)
    BY DEF AboutPytest
  <2> QED BY <2>1, SeenAre
<1>2. /\ o.pytest.classification = "supported" /\ o.pytest # NoPytest
      /\ o.error \in {"check_start_evidence_invalid", "cleanup_failed"} /\ o.error # "none"
      /\ o.processes = <<>>
  <2>1. NoPytest.classification = "none"
    BY DEF NoPytest
  <2>2. o.pytest.classification = "supported"
    BY DEF PreflightOf, PytestObservation
  <2> QED BY <2>1, <2>2 DEF FailsWith, Unstarted
<1>3. r = PytestFailure(p, "not_started", "supported", NoCode)
  <2>1. r = BuildPytestResult(p, o, owner.version)
    BY <1>2 DEF AboutPytest, ReportedPytest
  <2>2. Primary(o) = NoProcess /\ Primary(o).code = NoCode
    BY <1>2 DEF Primary, NoProcess, Process
  <2>3. ValidationError(o) = "not_started"
    BY <1>2, <2>2 DEF ValidationError
  <2>4. ReportedVersion(o.pytest, owner.version) = "supported"
    BY <1>1, <1>2 DEF ReportedVersion
  <2> QED BY <1>2, <2>1, <2>2, <2>3, <2>4 DEF BuildPytestResult
<1>4. /\ r.status = "error" /\ ~r.complete /\ ~r.evidence /\ r.error = "not_started" /\ r.version = "supported"
      /\ r # NoPytestResult /\ PytestIsSound(r, p) /\ NotRun(r)
  BY <1>3, FailureIs
<1>5. ASSUME CoverageRequested(p), cowner.status = "available"
      PROVE  /\ c = CoverageErrorResult(p, "supported", "data_missing")
             /\ c.status = "error" /\ c.error = "data_missing" /\ c.version = cowner.version
             /\ MayAccompany("supported", "data_missing")
             /\ o.coverage # NoCoverage => o.coverage.artifact = "not_attempted"
  <2>1. cowner.version = "supported"
    BY <1>5, SeenAre DEF AboutPytest
  <2>2. o.coverage = CoverageObservation("supported", "not_attempted")
    BY <1>5 DEF CoverageBefore
  <2>3. c = BuildCoverageResult(p, r, o.coverage, "supported")
    BY <1>5, <2>1 DEF AboutPytest
  <2>4. c = CoverageErrorResult(p, "supported", "data_missing")
    BY <2>2, <2>3, UnconvertedIs
  <2>5. MayAccompany("supported", "data_missing")
    BY DEF MayAccompany
  <2>6. c.status = "error" /\ c.error = "data_missing" /\ c.version = "supported"
    BY <2>4, <2>5, CoverageErrorIs
  <2>7. o.coverage.artifact = "not_attempted"
    BY <2>2 DEF CoverageObservation
  <2> QED BY <2>1, <2>4, <2>5, <2>6, <2>7
<1> DEFINE error == PreflightError(cowner.status)
           version == IF cowner.status = "incompatible" /\ cowner.version # "prerelease"
                      THEN cowner.version ELSE "none"
<1>6. ASSUME CoverageRequested(p), cowner.status # "available"
      PROVE  /\ c = CoverageErrorResult(p, version, error) /\ MayAccompany(version, error)
             /\ c.status = "error" /\ c.error = error /\ c.version = version
             /\ o.coverage # NoCoverage => o.coverage.artifact = "not_attempted"
  <2> HIDE DEF r, c, check, cdep, odd
  <2> QED BY <1>6, NotMeasuredIs DEF c
<1>7. ~CoverageRequested(p) => c = NoCoverageResult /\ o.coverage = NoCoverage
  BY DEF AboutPytest, CoverageBefore
<1> HIDE DEF error, version
<1>8. SoundResults(answer)
  BY <1>4, <1>5, <1>6, <1>7, SoundWithoutData
<1>9. /\ check.status = "error" /\ check.error = o.error
      /\ check.processes = <<>> /\ check.start = "none" /\ ~check.authority
      /\ CoverageJson(check) = NoProcess
  BY <1>2, UnstartedCheckIs
<1>10. CoverageRequested(p) => cdep = cowner
  BY DEF CoverageDependency
<1> HIDE DEF r, c, check, p, cdep
<1>11. ASSUME c # NoCoverageResult
       PROVE  UnstartedCoverageAgrees(check, r, c, cdep, TRUE) <=> ~odd
  <2>1. CoverageRequested(p) /\ cdep = cowner
    BY <1>7, <1>10, <1>11
  <2>2. CASE cowner.status = "available"
    <3>1. UnstartedCoverageAgrees(check, r, c, cdep, TRUE)
      BY <1>2, <1>4, <1>5, <1>9, <2>1, <2>2 DEF UnstartedCoverageAgrees
    <3> QED BY <2>2, <3>1
  <2>3. CASE cowner.status # "available"
    <3>1. UnstartedCoverageAgrees(check, r, c, cdep, TRUE)
            <=> c.error = error /\ c.version = IncompatibleVersion(cowner) /\ c.status = "error"
      BY <1>2, <1>4, <1>9, <2>1, <2>3 DEF UnstartedCoverageAgrees, error
    <3>2. (version = IncompatibleVersion(cowner)) <=> ~odd
      <4>1. cowner.status = "incompatible" => cowner.version \in OutOfRange
        BY <2>1, SeenAre DEF AboutPytest, p
      <4> QED BY <2>1, <4>1 DEF IncompatibleVersion, version, OutOfRange
    <3> QED BY <1>6, <2>1, <2>3, <3>1, <3>2
  <2> QED BY <2>2, <2>3
<1>12. (owner.status = "available") = TRUE
  OBVIOUS
<1>13. odd => c # NoCoverageResult
  BY <1>8 DEF SoundResults, c, p
<1> HIDE DEF odd
<1>14. UnstartedPytestAgrees(check, r, owner, c, cdep) <=> ~odd
  BY <1>1, <1>2, <1>4, <1>9, <1>11, <1>12, <1>13 DEF UnstartedPytestAgrees
<1>15. PytestAgrees(check, r, owner, c, cdep, lost) <=> ~odd
  BY <1>1, <1>4, <1>9, <1>14 DEF PytestAgrees
<1>16. o.coverage # NoCoverage => o.coverage.artifact = "not_attempted"
  BY <1>5, <1>6, <1>7
<1> QED BY <1>2, <1>8, <1>15, <1>16 DEF r, c, check, cdep, odd, p

\* What a pytest that was launched has left of its process.
RanPytest(answer, o, owner, process, started, artifact) ==
  /\ process \in PrimaryEnds({0, 1, 2, 5, 6}) /\ started \in BOOLEAN /\ artifact \in Artifacts
  /\ process.outcome = "spawn_failed" => ~started
  /\ process.outcome # "exited" => artifact[1] = "missing"
  /\ owner.status = "available" /\ Primary(o) = process /\ o.processes # <<>>
  /\ (o.start # "none") <=> started
  /\ ~o.authority
  /\ o.pytest = PytestObservation("supported", "supported", artifact[1], artifact[2])
  /\ FailsWith(o, PrimaryError(process, started, {0, 1, 5}))

(* The result of a pytest that was launched.                               *)
LEMMA RanResultIs ==
  ASSUME NEW answer, NEW o, NEW owner, NEW cowner, AboutPytest(answer, o, owner, cowner),
         NEW process, NEW started, NEW artifact, RanPytest(answer, o, owner, process, started, artifact)
  PROVE  LET r == answer.pytest
         IN /\ owner.version = "supported" /\ r.version = "supported"
            /\ r # NoPytestResult /\ PytestIsSound(r, answer.plan)
            /\ process.outcome = "spawn_failed" => NotRun(r) /\ r.error = "spawn_failed"
            /\ process.outcome = "signaled" => NotRun(r) /\ r.error = "terminated_by_signal"
            /\ process.outcome = "exited" => r.exitCode = process.code /\ PytestFitsExit(r, process.code)
<1> DEFINE p == answer.plan
           r == answer.pytest
           code == process.code
           kind == artifact[1]
           session == o.pytest.session
           error == ValidationError(o)
<1>1. owner.version = "supported"
  <2>1. Seen(owner)
    BY DEF AboutPytest
  <2> QED BY <2>1, SeenAre DEF RanPytest
<1>2. process \in PrimaryEnds({0, 1, 2, 5, 6}) /\ artifact \in Artifacts
  BY DEF RanPytest
<1>3. /\ process # NoProcess
      /\ \/ process.outcome = "exited" /\ process.code \in {0, 1, 2, 5, 6}
         \/ process.outcome \in {"spawn_failed", "signaled"} /\ process.code = NoCode
  BY <1>2, PrimaryCodes
<1>4. kind \in {"valid"} \cup RefusedArtifacts
  BY <1>2 DEF Artifacts
<1>5. /\ o.pytest.classification = "supported" /\ o.pytest.version = "supported"
      /\ o.pytest.artifact = kind /\ Primary(o) = process
  BY DEF RanPytest, PytestObservation
<1>6. session \in Session /\ o.pytest # NoPytest
  <2>1. o.pytest.classification # NoPytest.classification
    BY <1>5 DEF NoPytest
  <2>2. o.pytest \in PytestState
    BY <2>1 DEF AboutPytest, ObservationState
  <2> QED BY <2>1, <2>2 DEF PytestState
<1> HIDE DEF kind, session
<1>7. error = IF process.outcome = "spawn_failed" THEN "spawn_failed"
              ELSE IF process.outcome = "signaled" THEN "terminated_by_signal"
              ELSE ArtifactError(kind)
  BY <1>3, <1>5 DEF ValidationError
<1>8. /\ kind = "valid" => ArtifactError(kind) = "none"
      /\ kind # "valid" => ArtifactError(kind) \in ArtifactErrors
  BY <1>4 DEF ArtifactError, ArtifactErrors, RefusedArtifacts
<1> HIDE DEF error
<1>9. r = IF error = "none" THEN SessionResult(p, session, "supported", code)
          ELSE PytestFailure(p, error, "supported", code)
  <2>1. r = BuildPytestResult(p, o, owner.version)
    BY <1>6 DEF AboutPytest, ReportedPytest
  <2>2. ReportedVersion(o.pytest, owner.version) = "supported"
    BY <1>1, <1>5 DEF ReportedVersion
  <2> QED BY <1>1, <1>5, <2>1, <2>2 DEF BuildPytestResult, error, session
<1> HIDE DEF r, p, code
<1>10. CASE process.outcome = "exited" /\ kind = "valid"
  <2>1. code \in {0, 1, 2, 5, 6} /\ error = "none"
    BY <1>3, <1>7, <1>8, <1>10 DEF code, NoCode
  <2>2. r = SessionResult(p, session, "supported", code)
    BY <1>9, <2>1
  <2>3. /\ r.version = "supported" /\ r.exitCode = code /\ r # NoPytestResult
        /\ PytestIsSound(r, p) /\ PytestFitsExit(r, code)
    BY <1>6, <2>1, <2>2, SessionIs
  <2> QED BY <1>1, <1>10, <2>3 DEF r, p, code
<1>11. ASSUME error \notin {"none", "session_incomplete"}
       PROVE  /\ r.status = "error" /\ ~r.complete /\ ~r.evidence /\ r.error = error
              /\ r.version = "supported" /\ r.exitCode = code
              /\ r # NoPytestResult /\ PytestIsSound(r, p)
              /\ NotRun(r) <=> (code = NoCode)
  <2>1. r = PytestFailure(p, error, "supported", code)
    BY <1>9, <1>11
  <2> QED BY <1>11, <2>1, FailureIs
<1>12. CASE process.outcome = "exited" /\ kind # "valid"
  <2>1. error \in ArtifactErrors /\ error \notin {"none", "session_incomplete"}
    BY <1>7, <1>8, <1>12 DEF ArtifactErrors
  <2>2. PytestFitsExit(r, code)
    BY <1>11, <2>1, FitsExitIs
  <2> QED BY <1>1, <1>11, <1>12, <2>1, <2>2 DEF r, p, code
<1>13. CASE process.outcome \in {"spawn_failed", "signaled"}
  <2>1. code = NoCode
    BY <1>3, <1>13 DEF code
  <2>2. /\ error \notin {"none", "session_incomplete"}
        /\ process.outcome = "spawn_failed" => error = "spawn_failed"
        /\ process.outcome = "signaled" => error = "terminated_by_signal"
    BY <1>7, <1>13
  <2> QED BY <1>1, <1>11, <1>13, <2>1, <2>2 DEF r, p, code
<1> QED BY <1>3, <1>10, <1>12, <1>13

(* The Check of a pytest that was launched obeys the rules unless those of *)
(* coverage are broken.                                                    *)
LEMMA RanCheckIs ==
  ASSUME NEW answer, NEW o, NEW owner, NEW cowner, AboutPytest(answer, o, owner, cowner),
         NEW process, NEW started, NEW artifact, RanPytest(answer, o, owner, process, started, artifact)
  PROVE  LET check == CheckResult(o, answer.pytest)
         IN /\ check.processes = o.processes /\ check.start = o.start /\ ~check.authority
            /\ Head(check.processes) = process
            /\ (check.error = "check_execution_failed") <=> (o.error = "check_execution_failed")
            /\ PytestCheckAgrees(check, answer.pytest, process)
<1> DEFINE r == answer.pytest
           check == CheckResult(o, r)
           nested == r.status = "error" /\ r.error # "session_incomplete"
           error == PrimaryError(process, started, {0, 1, 5})
<1>1. PytestIsSound(r, answer.plan)
  BY RanResultIs
<1>2. nested <=> r.error \notin {"none", "session_incomplete"}
  BY <1>1 DEF PytestIsSound
<1>3. o.name = "pytest"
  BY DEF AboutPytest
<1>4. /\ check.error = IF o.error = "none" /\ nested THEN "pytest_evidence_error" ELSE o.error
      /\ check.status = IF o.error # "none" THEN "error" ELSE r.status
      /\ check.processes = o.processes /\ check.start = o.start /\ check.authority = o.authority
  BY <1>3 DEF CheckResult
<1>5. /\ process \in PrimaryEnds({0, 1, 2, 5, 6}) /\ started \in BOOLEAN
      /\ process.outcome = "spawn_failed" => ~started
      /\ Primary(o) = process /\ o.processes # <<>>
      /\ (o.start # "none") <=> started
      /\ ~o.authority /\ o.error \in {error, "cleanup_failed"}
  BY DEF RanPytest, FailsWith
<1>6. \/ process.outcome = "exited" /\ process.code \in {0, 1, 2, 5, 6}
      \/ process.outcome \in {"spawn_failed", "signaled"} /\ process.code = NoCode
  BY <1>5, PrimaryCodes
<1> HIDE DEF check, nested
<1>7. error = IF process.outcome = "spawn_failed" THEN "spawn_failed"
              ELSE IF ~started THEN "check_start_evidence_invalid"
              ELSE IF process.outcome = "signaled" THEN "terminated_by_signal"
              ELSE IF process.code \in {0, 1, 5} THEN "none" ELSE "check_execution_failed"
  BY <1>5, <1>6 DEF PrimaryError
<1> HIDE DEF error, r
<1>8. (check.error = "check_execution_failed") <=> (o.error = "check_execution_failed")
  BY <1>4
<1>9. Head(check.processes) = process
  BY <1>4, <1>5 DEF Primary
<1>10. (check.start = "none") <=> ~started
  BY <1>4, <1>5
<1>11. check.error = "cleanup_failed" <=> o.error = "cleanup_failed"
  BY <1>4
<1>12. PytestCheckAgrees(check, r, process)
  <2>1. CASE o.error = "cleanup_failed"
    BY <1>4, <1>11, <2>1 DEF PytestCheckAgrees
  <2>2. CASE o.error # "cleanup_failed" /\ process.outcome = "spawn_failed"
    BY <1>4, <1>5, <1>7, <1>11, <2>2 DEF PytestCheckAgrees
  <2>3. CASE o.error # "cleanup_failed" /\ process.outcome # "spawn_failed" /\ ~started
    BY <1>4, <1>5, <1>7, <1>10, <1>11, <2>3 DEF PytestCheckAgrees
  <2>4. CASE o.error # "cleanup_failed" /\ process.outcome = "signaled" /\ started
    BY <1>4, <1>5, <1>7, <1>10, <1>11, <2>4 DEF PytestCheckAgrees
  <2>5. CASE o.error # "cleanup_failed" /\ process.outcome = "exited" /\ started
    <3>1. IF process.code \notin {0, 1, 5} THEN check.error = "check_execution_failed"
          ELSE IF r.error \in {"none", "session_incomplete"}
          THEN check.status = r.status /\ check.error = "none"
          ELSE check.error = "pytest_evidence_error"
      <4>1. o.error = IF process.code \in {0, 1, 5} THEN "none" ELSE "check_execution_failed"
        BY <1>5, <1>7, <2>5
      <4>2. nested <=> r.error \notin {"none", "session_incomplete"}
        BY <1>2 DEF r, nested
      <4> QED BY <1>4, <4>1, <4>2
    <3> QED BY <1>10, <1>11, <2>5, <3>1 DEF PytestCheckAgrees
  <2> QED BY <1>6, <2>1, <2>2, <2>3, <2>4, <2>5
<1> QED BY <1>4, <1>5, <1>8, <1>9, <1>12 DEF check, r

(* What is left to ask of a pytest that was launched.                      *)
LEMMA RanRulesAre ==
  ASSUME NEW answer, NEW o, NEW owner, NEW cowner, AboutPytest(answer, o, owner, cowner),
         NEW process, NEW started, NEW artifact, RanPytest(answer, o, owner, process, started, artifact),
         NEW cdep, NEW lost,
         CoverageJson(CheckResult(o, answer.pytest)) # NoProcess => cdep.status = "available"
  PROVE  LET check == CheckResult(o, answer.pytest)
             c == answer.coverage
         IN PytestAgrees(check, answer.pytest, owner, c, cdep, lost)
              <=> (c # NoCoverageResult => CoverageCorrelates(check, answer.pytest, c, cdep, lost))
<1> DEFINE check == CheckResult(o, answer.pytest)
           r == answer.pytest
           c == answer.coverage
           correlates == CoverageCorrelates(check, r, c, cdep, lost)
<1>1. /\ owner.version = "supported" /\ r.version = "supported"
      /\ process.outcome = "spawn_failed" => NotRun(r) /\ r.error = "spawn_failed"
      /\ process.outcome = "signaled" => NotRun(r) /\ r.error = "terminated_by_signal"
      /\ process.outcome = "exited" => r.exitCode = process.code /\ PytestFitsExit(r, process.code)
  BY RanResultIs
<1>2. /\ check.processes = o.processes /\ check.start = o.start /\ ~check.authority
      /\ Head(check.processes) = process /\ PytestCheckAgrees(check, r, process)
  BY RanCheckIs
<1>3. /\ o.processes # <<>>
      /\ process.outcome = "spawn_failed" => o.start = "none"
  BY DEF RanPytest
<1>4. CoverageJson(check) # NoProcess => cdep.status = "available"
  OBVIOUS
<1> HIDE DEF check, r, c, correlates
<1>5. StartedPytestAgrees(check, r, owner, c, cdep, lost) <=> (c # NoCoverageResult => correlates)
  BY <1>1, <1>2, <1>3 DEF StartedPytestAgrees, correlates
<1>6. PytestAgrees(check, r, owner, c, cdep, lost) <=> StartedPytestAgrees(check, r, owner, c, cdep, lost)
  BY <1>1, <1>2, <1>3, <1>4 DEF PytestAgrees
<1> QED BY <1>5, <1>6 DEF check, r, c, correlates

(* The process of the conversion is the last one of its Check.             *)
LEMMA JsonIs ==
  ASSUME NEW o, NEW r, NEW process, process.role = "primary"
  PROVE  /\ o.processes = <<process>> => CoverageJson(CheckResult(o, r)) = NoProcess /\ Len(o.processes) = 1
         /\ \A json \in Conversions : o.processes = <<process, json>> =>
              CoverageJson(CheckResult(o, r)) = json /\ Len(o.processes) = 2
<1> DEFINE check == CheckResult(o, r)
<1>1. check.processes = o.processes
  BY DEF CheckResult
<1> HIDE DEF check
<1>2. ASSUME o.processes = <<process>>
      PROVE  CoverageJson(check) = NoProcess /\ Len(o.processes) = 1
  <2> DEFINE s == o.processes
  <2>1. Len(s) = 1 /\ s[1] = process /\ s # <<>>
    BY <1>2
  <2> HIDE DEF s
  <2>2. Last(s).role # "coverage_json"
    BY <2>1 DEF Last
  <2> QED BY <1>1, <2>1, <2>2 DEF CoverageJson, s
<1>3. ASSUME NEW json \in Conversions, o.processes = <<process, json>>
      PROVE  CoverageJson(check) = json /\ Len(o.processes) = 2
  <2> DEFINE s == o.processes
  <2>1. Len(s) = 2 /\ s[2] = json /\ s # <<>>
    BY <1>3
  <2>2. json.role = "coverage_json"
    BY DEF Conversions, NotSpawned, Signaled, Exited, Process
  <2> HIDE DEF s
  <2>3. Last(s) = json
    BY <2>1 DEF Last
  <2> QED BY <1>1, <2>1, <2>2, <2>3 DEF CoverageJson, s
<1> QED BY <1>2, <1>3 DEF check

\* The disagreements about a pytest that was launched.
Hidden(answer, o, cowner) ==
  /\ CoverageRequested(answer.plan) /\ cowner.status = "available"
  /\ Primary(o).code \in {2, 3, 4} /\ o.error # "check_execution_failed"
TooMuch(answer, o) ==
  /\ Len(o.processes) = 2 /\ Primary(o).code \notin {2, 3, 4}
  /\ ~answer.pytest.complete /\ answer.pytest.error # "session_incomplete"
Unstaged(o, lost) ==
  /\ o.coverage # NoCoverage /\ o.coverage.artifact = "generation_failed" /\ Len(o.processes) = 1
  /\ ~lost

(* pytest was launched, and its coverage is not measured.                  *)
LEMMA UnmeasuredAgrees ==
  ASSUME NEW answer, NEW o, NEW owner, NEW cowner, AboutPytest(answer, o, owner, cowner),
         NEW process, NEW started, NEW artifact, RanPytest(answer, o, owner, process, started, artifact),
         NEW d, DependencyOf(d, "coverage") = cowner, ~Measured(answer.plan, d),
         o.processes = <<process>>, o.coverage = CoverageBefore(answer.plan, d), NEW lost
  PROVE  /\ SoundResults(answer)
         /\ PytestAgrees(CheckResult(o, answer.pytest), answer.pytest, owner, answer.coverage,
                         CoverageDependency(answer.plan, cowner), lost)
         /\ ~Hidden(answer, o, cowner) /\ ~TooMuch(answer, o) /\ ~Unstaged(o, lost)
<1> DEFINE p == answer.plan
           r == answer.pytest
           c == answer.coverage
           check == CheckResult(o, r)
           cdep == CoverageDependency(p, cowner)
           error == PreflightError(cowner.status)
           version == IF cowner.status = "incompatible" /\ cowner.version # "prerelease"
                      THEN cowner.version ELSE "none"
<1>1. process.role = "primary"
  BY PrimaryCodes DEF RanPytest
<1>2. CoverageJson(check) = NoProcess /\ Len(o.processes) = 1
  BY <1>1, JsonIs
<1>3. r # NoPytestResult /\ PytestIsSound(r, p)
  BY RanResultIs
<1>4. Head(check.processes) = process
  BY RanCheckIs
<1>5. CoverageRequested(p) => cowner.status # "available"
  BY DEF Measured
<1>6. ~CoverageRequested(p) => c = NoCoverageResult /\ o.coverage = NoCoverage
  BY DEF AboutPytest, CoverageBefore
<1>7. CoverageRequested(p) =>
        /\ c = CoverageErrorResult(p, version, error) /\ MayAccompany(version, error)
        /\ c.status = "error" /\ c.error = error /\ c.version = version
        /\ o.coverage # NoCoverage => o.coverage.artifact = "not_attempted"
  <2> HIDE DEF r, check, cdep
  <2> QED BY <1>5, NotMeasuredIs
<1>8. CoverageRequested(p) => cdep = cowner
  BY DEF CoverageDependency
<1>9. PytestAgrees(check, r, owner, c, cdep, lost)
        <=> (c # NoCoverageResult => CoverageCorrelates(check, r, c, cdep, lost))
  BY <1>2, RanRulesAre
<1> HIDE DEF r, c, check, cdep, p, error
<1>10. version \in {"none", cowner.version}
  OBVIOUS
<1> HIDE DEF version
<1>11. c # NoCoverageResult => CoverageCorrelates(check, r, c, cdep, lost)
  BY <1>2, <1>5, <1>6, <1>7, <1>8, <1>10 DEF CoverageCorrelates, error
<1>12. SoundResults(answer)
  BY <1>3, <1>6, <1>7, SoundWithoutData DEF r, c, p
<1>13. ~Hidden(answer, o, cowner) /\ ~TooMuch(answer, o) /\ ~Unstaged(o, lost)
  BY <1>2, <1>5, <1>6, <1>7 DEF Hidden, TooMuch, Unstaged, p
<1> QED BY <1>9, <1>11, <1>12, <1>13 DEF r, c, check, cdep, p

(* The exit codes of pytest after which its data are trusted.              *)
LEMMA KnownExit ==
  ASSUME NEW process \in PrimaryEnds({0, 1, 2, 5, 6})
  PROVE  /\ process.role = "primary"
         /\ (process.outcome # "exited" \/ process.code \notin 0 .. 5) <=> process.code \notin {0, 1, 2, 5}
         /\ process.code \in {2, 3, 4} <=> process.code = 2
<1>1. /\ process.role = "primary"
      /\ \/ process.outcome = "exited" /\ process.code \in {0, 1, 2, 5, 6}
         \/ process.outcome \in {"spawn_failed", "signaled"} /\ process.code = NoCode
  BY PrimaryCodes
<1>2. \A n \in {0, 1, 2, 5, 6} : (n \notin 0 .. 5 <=> n \notin {0, 1, 2, 5}) /\ (n \in {2, 3, 4} <=> n = 2)
  OBVIOUS
<1>3. NoCode \notin {0, 1, 2, 3, 4, 5}
  BY DEF NoCode
<1> QED BY <1>1, <1>2, <1>3

(* pytest was launched, and its data were not converted.                   *)
LEMMA LeftAgrees ==
  ASSUME NEW answer, NEW o, NEW owner, NEW cowner, AboutPytest(answer, o, owner, cowner),
         NEW process, NEW started, NEW artifact, RanPytest(answer, o, owner, process, started, artifact),
         CoverageRequested(answer.plan), cowner.status = "available",
         o.processes = <<process>>, NEW left \in LeftArtifact(process, started, artifact),
         o.coverage = CoverageObservation("supported", left), NEW lost
  PROVE  /\ SoundResults(answer)
         /\ PytestAgrees(CheckResult(o, answer.pytest), answer.pytest, owner, answer.coverage,
                         CoverageDependency(answer.plan, cowner), lost)
              <=> ~Hidden(answer, o, cowner) /\ ~Unstaged(o, lost)
         /\ ~TooMuch(answer, o)
<1> DEFINE p == answer.plan
           r == answer.pytest
           c == answer.coverage
           check == CheckResult(o, r)
           cdep == CoverageDependency(p, cowner)
<1>1. process \in PrimaryEnds({0, 1, 2, 5, 6}) /\ Primary(o) = process
  BY DEF RanPytest
<1>2. /\ process.role = "primary"
      /\ (process.outcome # "exited" \/ process.code \notin 0 .. 5) <=> process.code \notin {0, 1, 2, 5}
      /\ process.code \in {2, 3, 4} <=> process.code = 2
  BY <1>1, KnownExit
<1>3. CoverageJson(check) = NoProcess /\ Len(o.processes) = 1
  BY <1>2, JsonIs
<1>4. r # NoPytestResult /\ PytestIsSound(r, p)
  BY RanResultIs
<1>5. /\ Head(check.processes) = process
      /\ (check.error = "check_execution_failed") <=> (o.error = "check_execution_failed")
  BY RanCheckIs
<1>6. /\ left \in {"data_missing", "unsupported_parallelism", "unexpected_parallel_data", "generation_failed"}
      /\ process.code \notin {0, 1, 2, 5} => left = "data_missing"
  BY DEF LeftArtifact
<1>7. cowner.version = "supported" /\ cdep = cowner
  BY SeenAre DEF AboutPytest, CoverageDependency
<1>8. /\ c = CoverageErrorResult(p, "supported", left) /\ MayAccompany("supported", left)
      /\ c.status = "error" /\ c.error = left /\ c.version = "supported" /\ c # NoCoverageResult
  <2>1. c = BuildCoverageResult(p, r, o.coverage, "supported")
    BY <1>7 DEF AboutPytest
  <2>2. c = CoverageErrorResult(p, "supported", left)
    <3> HIDE DEF c, r, p
    <3> QED BY <1>6, <2>1, UnconvertedIs
  <2>3. MayAccompany("supported", left)
    BY <1>6 DEF MayAccompany
  <2> QED BY <2>2, <2>3, CoverageErrorIs
<1>9. o.coverage # NoCoverage /\ o.coverage.artifact = left
  <2>1. /\ o.coverage.classification = "supported" /\ o.coverage.artifact = left
        /\ NoCoverage.classification = "none"
    BY DEF CoverageObservation, NoCoverage
  <2> QED BY <2>1
<1>10. PytestAgrees(check, r, owner, c, cdep, lost)
         <=> (c # NoCoverageResult => CoverageCorrelates(check, r, c, cdep, lost))
  BY <1>3, RanRulesAre
<1>11. SoundResults(answer)
  BY <1>4, <1>8, SoundWithoutData
<1> HIDE DEF r, c, check, cdep
<1>12. CASE process.code \notin {0, 1, 2, 5}
  <2>1. CoverageCorrelates(check, r, c, cdep, lost)
    BY <1>2, <1>3, <1>5, <1>6, <1>7, <1>8, <1>12 DEF CoverageCorrelates
  <2>2. process.code \notin {2, 3, 4}
    BY <1>2, <1>12
  <2>3. ~Hidden(answer, o, cowner) /\ ~Unstaged(o, lost) /\ ~TooMuch(answer, o)
    BY <1>1, <1>3, <1>6, <1>9, <1>12, <2>2 DEF Hidden, Unstaged, TooMuch
  <2> QED BY <1>10, <1>11, <2>1, <2>3 DEF r, c, check, cdep
<1>13. CASE process.code \in {0, 1, 2, 5}
  <2>1. CoverageCorrelates(check, r, c, cdep, lost) <=> MeasurementAgrees(check, r, c, lost)
    BY <1>2, <1>5, <1>7, <1>8, <1>13 DEF CoverageCorrelates
  <2>2. MeasurementAgrees(check, r, c, lost) <=>
          /\ process.code \in {2, 3, 4} => o.error = "check_execution_failed"
          /\ left = "generation_failed" => lost
    BY <1>3, <1>5, <1>6, <1>8 DEF MeasurementAgrees
  <2>3. Hidden(answer, o, cowner) <=> (process.code \in {2, 3, 4} /\ o.error # "check_execution_failed")
    BY <1>1 DEF Hidden
  <2>4. Unstaged(o, lost) <=> (left = "generation_failed" /\ ~lost)
    BY <1>3, <1>9 DEF Unstaged
  <2>5. ~TooMuch(answer, o)
    BY <1>3 DEF TooMuch
  <2> QED BY <1>8, <1>10, <1>11, <2>1, <2>2, <2>3, <2>4, <2>5 DEF r, c, check, cdep
<1> QED BY <1>12, <1>13

(* pytest was launched, and its data were converted.                       *)
LEMMA ConvertedAgrees ==
  ASSUME NEW answer, NEW o, NEW owner, NEW cowner, AboutPytest(answer, o, owner, cowner),
         NEW process, NEW started, NEW artifact, RanPytest(answer, o, owner, process, started, artifact),
         CoverageRequested(answer.plan), cowner.status = "available", process.code \in {0, 1, 2, 5},
         NEW json \in Conversions, NEW converted \in CoverageArtifact, NEW wellFormed \in BOOLEAN,
         o.processes = <<process, json>>, ConvertedTo(json, converted),
         o.coverage = Conversion(converted, json.code, wellFormed), NEW lost
  PROVE  /\ SoundResults(answer)
         /\ PytestAgrees(CheckResult(o, answer.pytest), answer.pytest, owner, answer.coverage,
                         CoverageDependency(answer.plan, cowner), lost)
              <=> ~Hidden(answer, o, cowner) /\ ~TooMuch(answer, o)
         /\ ~Unstaged(o, lost)
<1> DEFINE p == answer.plan
           r == answer.pytest
           c == answer.coverage
           check == CheckResult(o, r)
           cdep == CoverageDependency(p, cowner)
<1>1. process \in PrimaryEnds({0, 1, 2, 5, 6}) /\ Primary(o) = process
  BY DEF RanPytest
<1>2. /\ process.role = "primary"
      /\ (process.outcome # "exited" \/ process.code \notin 0 .. 5) <=> process.code \notin {0, 1, 2, 5}
  BY <1>1, KnownExit
<1>3. CoverageJson(check) = json /\ Len(o.processes) = 2
  BY <1>2, JsonIs
<1>4. r # NoPytestResult /\ PytestIsSound(r, p)
  BY RanResultIs
<1>5. /\ Head(check.processes) = process
      /\ (check.error = "check_execution_failed") <=> (o.error = "check_execution_failed")
  BY RanCheckIs
<1>6. /\ json # NoProcess
      /\ \/ json.outcome = "exited" /\ json.code \in {0, 1, 2}
         \/ json.outcome \in {"spawn_failed", "signaled"} /\ json.code = NoCode
  BY DEF Conversions, NotSpawned, Signaled, Exited, Process, NoProcess
<1>7. cowner.version = "supported" /\ cdep = cowner
  BY SeenAre DEF AboutPytest, CoverageDependency
<1>8. converted # "not_attempted" /\ converted \in CoverageArtifact
  BY <1>6 DEF ConvertedTo
<1>9. c = BuildCoverageResult(p, r, o.coverage, "supported")
  BY <1>7 DEF AboutPytest
<1>10. CoverageRequested(p) /\ ReportablePlan(p)
  BY DEF AboutPytest
<1>11. /\ converted = "snapshot" => json.outcome = "exited"
       /\ converted = "spawn_failed" => json.outcome = "spawn_failed"
       /\ converted = "terminated_by_signal" => json.outcome = "signaled"
       /\ converted = "generation_failed" => json.outcome = "exited" /\ json.code # 0
       /\ converted \in {"unexpected_parallel_data", "artifact_missing", "artifact_invalid"} => json.outcome = "exited"
       /\ converted \in {"snapshot", "spawn_failed", "terminated_by_signal", "generation_failed",
                         "unexpected_parallel_data", "artifact_missing", "artifact_invalid"}
  BY <1>6 DEF ConvertedTo
\* What is reported: an error that the conversion explains, or a measurement.
<1> DEFINE explained(error) == /\ c = CoverageErrorResult(p, "supported", error) /\ MayAccompany("supported", error)
                               /\ c.status = "error" /\ c.error = error /\ c.version = "supported"
                               /\ c # NoCoverageResult /\ JsonErrorAgrees(error, json)
           measured == /\ c.status \notin {"none", "error"} /\ c.version = "supported" /\ CoverageIsSound(c)
                       /\ CoverageFitsContext(answer) /\ json.outcome = "exited"
                       /\ json.code = IF c.status = "failed" THEN 2 ELSE 0
<1>12. ASSUME NEW error \in {"spawn_failed", "terminated_by_signal", "generation_failed",
                             "unexpected_parallel_data", "artifact_missing", "artifact_invalid"},
              c = CoverageErrorResult(p, "supported", error),
              error = "spawn_failed" => json.outcome = "spawn_failed",
              error = "terminated_by_signal" => json.outcome = "signaled",
              error = "generation_failed" => json.outcome = "exited" /\ json.code # 0,
              error \in {"unexpected_parallel_data", "artifact_missing", "artifact_invalid"} => json.outcome = "exited"
       PROVE  explained(error)
  <2>1. MayAccompany("supported", error)
    BY DEF MayAccompany
  <2>2. c.status = "error" /\ c.error = error /\ c.version = "supported" /\ c # NoCoverageResult
    BY <1>12, <2>1, CoverageErrorIs
  <2>3. JsonErrorAgrees(error, json)
    <3>1. json.outcome = "exited" /\ json.code # 0 => json.code > 0
      BY <1>6
    <3> QED BY <1>12, <3>1 DEF JsonErrorAgrees
  <2> QED BY <1>12, <2>1, <2>2, <2>3
<1>13. (\E error : explained(error)) \/ measured
  <2>1. CASE converted # "snapshot"
    <3>1. c = CoverageErrorResult(p, "supported", converted)
      <4> HIDE DEF c, r, p
      <4> QED BY <1>8, <1>9, <2>1, ConvertedIs
    <3>2. explained(converted)
      BY <1>11, <1>12, <2>1, <3>1
    <3> QED BY <3>2
  <2>2. CASE converted = "snapshot"
    <3> DEFINE kept == Conversion(converted, json.code, wellFormed)
    <3>1. json.outcome = "exited" /\ json.code \in {0, 1, 2}
      BY <1>6, <1>11, <2>2
    <3>2. kept.jsonExit = json.code /\ kept.jsonExit \in {0, 1, 2}
      BY <3>1 DEF Conversion
    <3>3. c = MeasuredCoverage(p, r, kept, "supported")
      <4> HIDE DEF c, r, p
      <4> QED BY <1>8, <1>9, <2>2, ConvertedIs
    <3> HIDE DEF kept
    <3>4. \/ c = CoverageErrorResult(p, "supported", "generation_failed") /\ kept.jsonExit # 0
          \/ c = CoverageErrorResult(p, "supported", "artifact_invalid")
          \/ /\ c.status \notin {"none", "error"} /\ c.version = "supported" /\ CoverageIsSound(c)
             /\ CoverageFitsContext(answer)
             /\ kept.jsonExit = IF c.status = "failed" THEN 2 ELSE 0
      BY <1>10, <3>2, <3>3, MeasuredIs
    <3>5. c = CoverageErrorResult(p, "supported", "generation_failed") /\ json.code # 0
            => explained("generation_failed")
      BY <1>12, <3>1
    <3>6. c = CoverageErrorResult(p, "supported", "artifact_invalid") => explained("artifact_invalid")
      BY <1>12, <3>1
    <3> QED BY <3>1, <3>2, <3>4, <3>5, <3>6
  <2> QED BY <2>1, <2>2
<1>14. o.coverage # NoCoverage
  <2>1. o.coverage.classification = "supported" /\ NoCoverage.classification = "none"
    BY DEF Conversion, NoCoverage
  <2> QED BY <2>1
<1>15. PytestAgrees(check, r, owner, c, cdep, lost)
         <=> (c # NoCoverageResult => CoverageCorrelates(check, r, c, cdep, lost))
  BY <1>3, <1>7, RanRulesAre
<1>16. c # NoCoverageResult /\ c.version = "supported"
  <2>1. NoCoverageResult.status = "none"
    BY DEF NoCoverageResult, CoverageResult
  <2> QED BY <1>13, <2>1
<1>17. SoundResults(answer)
  <2>1. CASE \E error : explained(error)
    BY <1>4, <1>10, <2>1, SoundWithoutData
  <2>2. CASE measured
    BY <1>4, <1>10, <1>16, <2>2 DEF SoundResults
  <2> QED BY <1>13, <2>1, <2>2
<1>18. /\ c.status # "error" => json.outcome = "exited" /\ json.code = (IF c.status = "failed" THEN 2 ELSE 0)
       /\ c.status = "error" => JsonErrorAgrees(c.error, json)
  <2>1. CASE \E error : explained(error)
    BY <2>1
  <2>2. CASE measured
    BY <2>2
  <2> QED BY <1>13, <2>1, <2>2
<1> HIDE DEF r, c, check, cdep, explained, measured
<1>19. CoverageCorrelates(check, r, c, cdep, lost) <=> MeasurementAgrees(check, r, c, lost)
  BY <1>2, <1>5, <1>7, <1>16 DEF CoverageCorrelates
<1>20. MeasurementAgrees(check, r, c, lost) <=>
         /\ process.code \in {2, 3, 4} => o.error = "check_execution_failed"
         /\ ~(~r.complete /\ r.error # "session_incomplete" /\ process.code \notin {2, 3, 4})
  BY <1>3, <1>5, <1>6, <1>18 DEF MeasurementAgrees
<1>21. Hidden(answer, o, cowner) <=> (process.code \in {2, 3, 4} /\ o.error # "check_execution_failed")
  BY <1>1 DEF Hidden
<1>22. TooMuch(answer, o) <=> (process.code \notin {2, 3, 4} /\ ~r.complete /\ r.error # "session_incomplete")
  BY <1>1, <1>3 DEF TooMuch, r
<1>23. ~Unstaged(o, lost)
  BY <1>3 DEF Unstaged
<1> QED BY <1>15, <1>16, <1>17, <1>19, <1>20, <1>21, <1>22, <1>23 DEF r, c, check, cdep

(* pytest was launched.                                                    *)
LEMMA RanAgrees ==
  ASSUME NEW answer, NEW o, NEW owner, NEW cowner, AboutPytest(answer, o, owner, cowner),
         owner.status = "available", NEW d, DependencyOf(d, "coverage") = cowner,
         PytestRan(answer.plan, d, o), NEW lost
  PROVE  /\ SoundResults(answer)
         /\ PytestAgrees(CheckResult(o, answer.pytest), answer.pytest, owner, answer.coverage,
                         CoverageDependency(answer.plan, cowner), lost)
              <=> ~Hidden(answer, o, cowner) /\ ~TooMuch(answer, o) /\ ~Unstaged(o, lost)
         /\ o.processes # <<>> /\ o.pytest # NoPytest /\ o.error # "repository_environment_unavailable"
         /\ o.start # "none" => o.start = IF Measured(answer.plan, d) THEN "coverage" ELSE "pytest"
<1> DEFINE p == answer.plan
<1>1. PICK process \in PrimaryEnds({0, 1, 2, 5, 6}), started \in BOOLEAN, artifact \in Artifacts :
        /\ Launched(p, d, o, process, started, artifact)
        /\ FailsWith(o, PrimaryError(process, started, {0, 1, 5}))
        /\ CoverageLeft(p, d, o, process, started, artifact)
  BY DEF PytestRan
<1>2. /\ process.outcome = "spawn_failed" => ~started
      /\ process.outcome # "exited" => artifact[1] = "missing"
      /\ o.start = IF started THEN (IF Measured(p, d) THEN "coverage" ELSE "pytest") ELSE "none"
      /\ ~o.authority
      /\ o.pytest = PytestObservation("supported", "supported", artifact[1], artifact[2])
  BY <1>1 DEF Launched
<1>3. Primary(o) = process /\ o.processes # <<>>
  <2>1. \/ o.processes = <<process>>
        \/ \E json \in Conversions : o.processes = <<process, json>>
    BY <1>1 DEF CoverageLeft
  <2>2. \A a, b : /\ <<a>> # <<>> /\ Head(<<a>>) = a
                 /\ <<a, b>> # <<>> /\ Head(<<a, b>>) = a
    OBVIOUS
  <2>3. o.processes # <<>> /\ Head(o.processes) = process
    BY <2>1, <2>2, Zenon
  <2> QED BY <2>3 DEF Primary
<1>4. RanPytest(answer, o, owner, process, started, artifact)
  <2>1. (o.start # "none") <=> started
    BY <1>2
  <2> QED BY <1>1, <1>2, <1>3, <2>1 DEF RanPytest
<1>5. o.pytest # NoPytest
  <2>1. o.pytest.classification = "supported" /\ NoPytest.classification = "none"
    BY <1>2 DEF PytestObservation, NoPytest
  <2> QED BY <2>1
<1>6. o.error # "repository_environment_unavailable"
  BY <1>1 DEF FailsWith, PrimaryError, PrimaryEnds, NotSpawned, Signaled, Exited, Process
<1>7. o.start # "none" => o.start = IF Measured(p, d) THEN "coverage" ELSE "pytest"
  BY <1>2
<1> DEFINE agrees == PytestAgrees(CheckResult(o, answer.pytest), answer.pytest, owner, answer.coverage,
                                  CoverageDependency(answer.plan, cowner), lost)
           result == /\ SoundResults(answer)
                     /\ agrees <=> ~Hidden(answer, o, cowner) /\ ~TooMuch(answer, o) /\ ~Unstaged(o, lost)
<1>8. CASE ~Measured(p, d) /\ o.processes = <<process>> /\ o.coverage = CoverageBefore(p, d)
  <2>1. SoundResults(answer) /\ agrees /\ ~Hidden(answer, o, cowner) /\ ~TooMuch(answer, o) /\ ~Unstaged(o, lost)
    BY <1>4, <1>8, UnmeasuredAgrees
  <2> QED BY <1>3, <1>5, <1>6, <1>7, <2>1
<1>9. Measured(p, d) <=> (CoverageRequested(p) /\ cowner.status = "available")
  BY DEF Measured
<1>10. ASSUME Measured(p, d), o.processes = <<process>>,
              NEW left \in LeftArtifact(process, started, artifact),
              o.coverage = CoverageObservation("supported", left)
       PROVE  result
  <2>1. /\ SoundResults(answer) /\ ~TooMuch(answer, o)
        /\ agrees <=> ~Hidden(answer, o, cowner) /\ ~Unstaged(o, lost)
    BY <1>4, <1>9, <1>10, LeftAgrees
  <2> QED BY <2>1
<1>11. ASSUME Measured(p, d), Trusted(process, started, artifact),
              NEW json \in Conversions, NEW converted \in CoverageArtifact, NEW wellFormed \in BOOLEAN,
              o.processes = <<process, json>>, ConvertedTo(json, converted),
              o.coverage = [classification |-> "supported", artifact |-> converted,
                            jsonExit |-> json.code, wellFormed |-> wellFormed]
       PROVE  result
  <2>1. o.coverage = Conversion(converted, json.code, wellFormed)
    BY <1>11 DEF Conversion
  <2>2. process.code \in {0, 1, 2, 5}
    BY <1>11 DEF Trusted
  <2>3. /\ SoundResults(answer) /\ ~Unstaged(o, lost)
        /\ agrees <=> ~Hidden(answer, o, cowner) /\ ~TooMuch(answer, o)
    BY <1>4, <1>9, <1>11, <2>1, <2>2, ConvertedAgrees
  <2> QED BY <2>3
<1>12. CASE Measured(p, d)
  <2>1. \/ \E left \in LeftArtifact(process, started, artifact) :
              o.processes = <<process>> /\ o.coverage = CoverageObservation("supported", left)
        \/ /\ Trusted(process, started, artifact)
           /\ \E json \in Conversions, converted \in CoverageArtifact, wellFormed \in BOOLEAN :
                 /\ o.processes = <<process, json>> /\ ConvertedTo(json, converted)
                 /\ o.coverage = [classification |-> "supported", artifact |-> converted,
                                  jsonExit |-> json.code, wellFormed |-> wellFormed]
    BY <1>1, <1>12 DEF CoverageLeft
  <2> HIDE DEF result
  <2>2. result
    BY <1>10, <1>11, <1>12, <2>1
  <2> QED BY <1>3, <1>5, <1>6, <1>7, <2>2 DEF result
<1> QED BY <1>1, <1>8, <1>12 DEF CoverageLeft

-----------------------------------------------------------------------------
(* The Checks that were given up *)

LEMMA AbandonedAgrees ==
  ASSUME NEW answer, NEW o, Abandoned(o), EnvironmentFailed(answer.env),
         o.name = "pytest" =>
           SynthesizedPytestAgrees(answer.pytest, answer.coverage, DependencyOf(answer.deps, "pytest"), TRUE)
  PROVE  CheckAgrees(answer, CheckResult(o, answer.pytest))
<1> DEFINE check == CheckResult(o, answer.pytest)
           lost == UnsafeAfterPreparation(answer.env)
           failed == EnvironmentFailed(answer.env)
           whole == check.name = "pytest" =>
                      SynthesizedPytestAgrees(answer.pytest, answer.coverage,
                                              DependencyOf(answer.deps, DependencyNameForCheck(check.name)), TRUE)
<1>1. Unstarted(o) /\ o.error = "repository_environment_unavailable" /\ o.error # "none"
  BY DEF Abandoned
<1>2. /\ check.name = o.name /\ check.error = "repository_environment_unavailable"
      /\ check.start = "none" /\ Synthesized(check)
  BY <1>1, UnstartedCheckIs
<1>3. whole
  BY <1>2 DEF DependencyNameForCheck
<1>4. failed
  OBVIOUS
<1> HIDE DEF check, lost, failed, whole
<1>5. CASE lost
  BY <1>2, <1>3, <1>4, <1>5 DEF CheckAgrees, lost, failed, whole, check
<1>6. CASE ~lost
  BY <1>2, <1>3, <1>4, <1>6 DEF CheckAgrees, lost, failed, whole, check
<1> QED BY <1>5, <1>6

(* What is reported of a pytest that was given up.                         *)
LEMMA AbandonedPytestIs ==
  ASSUME NEW answer, NEW o, Abandoned(o), EnvironmentFailed(answer.env), NEW owner, NEW version,
         answer.pytest = ReportedPytest(answer.plan, answer.env, o, owner),
         answer.coverage = IF CoverageRequested(answer.plan)
                           THEN BuildCoverageResult(answer.plan, answer.pytest, o.coverage, version)
                           ELSE NoCoverageResult
  PROVE  /\ SoundResults(answer)
         /\ \A d : SynthesizedPytestAgrees(answer.pytest, answer.coverage, d, TRUE)
<1> DEFINE p == answer.plan
           r == answer.pytest
           c == answer.coverage
<1>1. o.pytest = NoPytest /\ o.coverage = NoCoverage
  BY DEF Abandoned, Bare
<1>2. r = PytestFailure(p, "preflight_invalid", "none", NoCode)
  BY <1>1 DEF ReportedPytest
<1>3. /\ r.error = "preflight_invalid" /\ r.version = "none" /\ NotRun(r)
      /\ r # NoPytestResult /\ PytestIsSound(r, p)
  BY <1>2, FailureIs
<1>4. CoverageRequested(p) => c = CoverageErrorResult(p, "none", "preflight_invalid")
  BY <1>1, UnconvertedIs
<1>5. MayAccompany("none", "preflight_invalid")
  BY DEF MayAccompany
<1>6. ~CoverageRequested(p) => c = NoCoverageResult
  OBVIOUS
<1>7. SoundResults(answer)
  BY <1>3, <1>4, <1>5, <1>6, SoundWithoutData
<1>8. CoverageRequested(p) => c.status = "error" /\ c.error = "preflight_invalid"
  BY <1>4, <1>5, CoverageErrorIs
<1> HIDE DEF r, c, p
<1>9. \A d : SynthesizedPytestAgrees(r, c, d, TRUE)
  BY <1>3, <1>6, <1>8 DEF SynthesizedPytestAgrees
<1> QED BY <1>7, <1>9 DEF r, c

\* What the rules disagree with of a Check of pytest.
OddVersions(answer, o, owner, cowner) ==
  \/ o.pytest # NoPytest /\ owner.status = "incompatible" /\ owner.version # "three_numbers"
  \/ /\ o.processes = <<>> /\ o.pytest.classification = "supported"
     /\ CoverageRequested(answer.plan) /\ cowner.status = "incompatible" /\ cowner.version = "prerelease"
LostAtSetup(answer, o, owner) ==
  /\ answer.env.error = "unsafe_repository_environment" /\ o.pytest = NoPytest /\ ~GivenUp(o)
  /\ owner.status \notin {"shadowed", "unusable", "unobserved"}
PytestTrouble(answer, o, owner, cowner) ==
  \/ Hidden(answer, o, cowner) \/ TooMuch(answer, o)
  \/ Unstaged(o, UnsafeAfterPreparation(answer.env))
  \/ OddVersions(answer, o, owner, cowner) \/ LostAtSetup(answer, o, owner)

\* A run that had a usable environment and keeps its reasons.
UsableEnd(e) ==
  /\ Observed(e)
  /\ UnsafeAfterPreparation(e) <=> e.error = "unsafe_repository_environment"
  /\ EnvironmentFailed(e) <=> e.error = "unsafe_repository_environment"

(* The rules for the Check of pytest are obeyed unless there is trouble.   *)
LEMMA PytestEvidenceAgrees ==
  ASSUME NEW answer, NEW o, NEW owner, NEW cowner, AboutPytest(answer, o, owner, cowner),
         owner = DependencyOf(answer.deps, "pytest"), cowner = DependencyOf(answer.deps, "coverage"),
         UsableEnd(answer.env), PytestEvidence(answer.plan, answer.deps, o)
  PROVE  /\ SoundResults(answer)
         /\ CheckAgrees(answer, CheckResult(o, answer.pytest)) <=> ~PytestTrouble(answer, o, owner, cowner)
         /\ o.error # "repository_environment_unavailable"
<1> DEFINE p == answer.plan
           r == answer.pytest
           c == answer.coverage
           lost == UnsafeAfterPreparation(answer.env)
           check == CheckResult(o, r)
           cdep == CoverageDependency(p, cowner)
           rules == PytestRules(answer, check)
           agrees == CheckAgrees(answer, check)
<1>1. /\ Observed(answer.env) /\ (EnvironmentFailed(answer.env) => lost)
      /\ answer.env.error = "repository_state_changed" => ~lost
  BY DEF UsableEnd
<1>2. o.name = "pytest" /\ Seen(owner)
  BY DEF AboutPytest
<1>3. check.name = "pytest" /\ check.processes = o.processes /\ check.start = o.start
  BY <1>2 DEF CheckResult
<1>4. rules <=> PytestAgrees(check, r, owner, c, cdep, lost)
  BY DEF PytestRules
<1>5. /\ owner.status \in {"unobserved", "available", "incompatible", "missing", "shadowed", "unusable"}
      /\ owner.error # "none" => owner.error \in DependencyError
      /\ owner.error = "none" => owner.status = "available"
  BY <1>2, SeenAre
<1>6. NoPytest.classification = "none"
  BY DEF NoPytest
<1>7. \/ Primary(o).code = NoCode /\ Len(o.processes) = 0 /\ NoCode \notin {2, 3, 4}
      \/ o.processes # <<>>
  BY DEF Primary, NoProcess, Process, NoCode
<1>8. Unstarted(o) => /\ ~Hidden(answer, o, cowner) /\ ~TooMuch(answer, o) /\ ~Unstaged(o, lost)
                      /\ o.processes = <<>> /\ o.start = "none"
  BY <1>7 DEF Unstarted, Hidden, TooMuch, Unstaged
<1> HIDE DEF check, lost, cdep, rules, agrees, r, c, p
<1>9. ASSUME o.start # "none" => check.processes # <<>> /\ check.start = ExpectedModule(answer, check)
      PROVE  LET unavailable == check.error = "repository_environment_unavailable"
             IN /\ ~unavailable /\ owner.status = "available" => (agrees <=> rules)
                /\ (/\ ~unavailable /\ owner.status # "available" /\ check.processes = <<>>
                    /\ check.error \in {"cleanup_failed", "platform_safety_unavailable"})
                     => (agrees <=> rules)
                /\ (/\ ~unavailable /\ owner.status # "available"
                    /\ check.error \notin {"cleanup_failed", "platform_safety_unavailable"}
                    /\ owner.error # "none" /\ check.error = owner.error /\ Synthesized(check))
                     => (agrees <=> SynthesizedPytestAgrees(r, c, owner, FALSE))
  <2>1. check.start # "none" => check.processes # <<>> /\ check.start = ExpectedModule(answer, check)
    BY <1>3, <1>9
  <2> QED BY <1>1, <1>3, <2>1, PytestCheckIs DEF lost, agrees, rules, r, c
<1>10. CASE NoWorkspace(o)
  <2>1. /\ SoundResults(answer)
        /\ PytestAgrees(check, r, owner, c, cdep, lost)
             <=> ~(EnvironmentFailed(answer.env) /\ owner.status \notin {"shadowed", "unusable", "unobserved"})
    BY <1>10, NoWorkspaceAgrees DEF check, r, c
  <2>2. /\ Unstarted(o) /\ o.pytest = NoPytest
        /\ o.error \in {"platform_safety_unavailable", "cleanup_failed"} /\ o.error # "none"
        /\ o.error # "repository_environment_unavailable"
    BY <1>10 DEF NoWorkspace, Bare
  <2>3. check.error = o.error /\ check.processes = <<>> /\ check.start = "none"
    BY <2>2, UnstartedCheckIs DEF check
  <2>4. agrees <=> rules
    BY <1>3, <1>9, <2>2, <2>3
  <2>5. ~OddVersions(answer, o, owner, cowner)
    BY <1>6, <2>2 DEF OddVersions
  <2>6. LostAtSetup(answer, o, owner)
          <=> (EnvironmentFailed(answer.env) /\ owner.status \notin {"shadowed", "unusable", "unobserved"})
    BY <2>2 DEF LostAtSetup, GivenUp, UsableEnd
  <2> QED BY <1>4, <1>8, <2>1, <2>2, <2>4, <2>5, <2>6 DEF PytestTrouble, agrees, check, r, lost
<1>11. CASE /\ owner.status # "available" /\ Unstarted(o) /\ FailsWith(o, owner.error)
            /\ o.pytest = PreflightOf(owner) /\ o.coverage = CoverageWithout(p)
  <2> DEFINE odd == owner.status = "incompatible" /\ owner.version # "three_numbers"
  <2>1. /\ owner.error # "none" /\ o.error # "none" /\ o.error \in {owner.error, "cleanup_failed"}
        /\ o.error # "repository_environment_unavailable"
        /\ owner.error \notin {"cleanup_failed", "platform_safety_unavailable"}
    BY <1>5, <1>11 DEF FailsWith, DependencyError
  <2>2. /\ SoundResults(answer)
        /\ SynthesizedPytestAgrees(r, c, owner, FALSE) <=> ~odd
        /\ o.error = "cleanup_failed" => (PytestAgrees(check, r, owner, c, cdep, lost) <=> ~odd)
    BY <1>11, <2>1, UnavailableAgrees DEF check, r, c, p
  <2>3. /\ check.error = o.error /\ check.processes = <<>> /\ check.start = "none" /\ Synthesized(check)
    BY <1>11, <2>1, UnstartedCheckIs DEF check
  <2>4. o.pytest # NoPytest /\ o.pytest.classification # "supported"
    <3>1. o.pytest.classification \in {"module_unavailable", "unsupported_version", "preflight_invalid"}
      BY <1>11 DEF PreflightOf, PytestObservation
    <3> QED BY <1>6, <3>1
  <2>5. (OddVersions(answer, o, owner, cowner) <=> odd) /\ ~LostAtSetup(answer, o, owner)
    BY <2>4 DEF OddVersions, LostAtSetup
  <2> HIDE DEF odd
  <2>6. agrees <=> ~odd
    <3>1. CASE o.error = "cleanup_failed"
      BY <1>3, <1>4, <1>9, <1>11, <2>1, <2>2, <2>3, <3>1
    <3>2. CASE o.error # "cleanup_failed"
      BY <1>3, <1>9, <1>11, <2>1, <2>2, <2>3, <3>2
    <3> QED BY <3>1, <3>2
  <2> QED BY <1>8, <1>11, <2>1, <2>2, <2>5, <2>6 DEF PytestTrouble, agrees, check, r, lost
<1>12. CASE /\ owner.status = "available" /\ Unstarted(o) /\ FailsWith(o, "pytest_evidence_error")
            /\ o.pytest = PytestObservation("not_started", "none", "missing", NoSession)
            /\ o.coverage = CoverageWithout(p)
  <2>1. SoundResults(answer) /\ PytestAgrees(check, r, owner, c, cdep, lost)
    BY <1>12, UnstagedAgrees DEF check, r, c, p
  <2>2. o.error \in {"pytest_evidence_error", "cleanup_failed"} /\ o.error # "none"
    BY <1>12 DEF FailsWith
  <2>3. check.error = o.error /\ check.processes = <<>> /\ check.start = "none"
    BY <1>12, <2>2, UnstartedCheckIs DEF check
  <2>4. agrees <=> rules
    BY <1>3, <1>9, <1>12, <2>2, <2>3
  <2>5. o.pytest.classification = "not_started"
    BY <1>12 DEF PytestObservation
  <2>6. ~OddVersions(answer, o, owner, cowner) /\ ~LostAtSetup(answer, o, owner)
    BY <1>6, <1>12, <2>5 DEF OddVersions, LostAtSetup
  <2> QED BY <1>4, <1>8, <1>12, <2>1, <2>2, <2>4, <2>6 DEF PytestTrouble, agrees, check, r, lost
<1>13. CASE /\ owner.status = "available" /\ Unstarted(o) /\ FailsWith(o, "check_start_evidence_invalid")
            /\ o.pytest = PreflightOf(owner) /\ o.coverage = CoverageBefore(p, answer.deps)
  <2> DEFINE odd == CoverageRequested(p) /\ cowner.status = "incompatible" /\ cowner.version = "prerelease"
  <2>1. /\ SoundResults(answer)
        /\ PytestAgrees(check, r, owner, c, cdep, lost) <=> ~odd
        /\ o.pytest.classification = "supported"
    BY <1>13, UnpreparedAgrees DEF check, r, c, p, cdep
  <2>2. o.error \in {"check_start_evidence_invalid", "cleanup_failed"} /\ o.error # "none"
    BY <1>13 DEF FailsWith
  <2>3. check.error = o.error /\ check.processes = <<>> /\ check.start = "none"
    BY <1>13, <2>2, UnstartedCheckIs DEF check
  <2>4. agrees <=> rules
    BY <1>3, <1>9, <1>13, <2>2, <2>3
  <2>5. OddVersions(answer, o, owner, cowner) <=> odd
    BY <1>6, <1>8, <1>13, <2>1 DEF OddVersions, p
  <2>6. ~LostAtSetup(answer, o, owner)
    BY <1>6, <2>1 DEF LostAtSetup
  <2> QED BY <1>4, <1>8, <1>13, <2>1, <2>2, <2>4, <2>5, <2>6 DEF PytestTrouble, agrees, check, r, lost
<1>14. CASE owner.status = "available" /\ PytestRan(p, answer.deps, o)
  <2>1. /\ SoundResults(answer)
        /\ PytestAgrees(check, r, owner, c, cdep, lost)
             <=> ~Hidden(answer, o, cowner) /\ ~TooMuch(answer, o) /\ ~Unstaged(o, lost)
        /\ o.processes # <<>> /\ o.pytest # NoPytest /\ o.error # "repository_environment_unavailable"
        /\ o.start # "none" => o.start = IF Measured(p, answer.deps) THEN "coverage" ELSE "pytest"
    BY <1>14, RanAgrees DEF check, r, c, p, cdep
  <2>2. check.error # "repository_environment_unavailable"
    BY <2>1 DEF check, CheckResult
  <2>3. ExpectedModule(answer, check) = IF Measured(p, answer.deps) THEN "coverage" ELSE "pytest"
    BY <1>3 DEF ExpectedModule, Measured, DependencyNameForCheck, p
  <2>4. agrees <=> rules
    BY <1>3, <1>9, <1>14, <2>1, <2>2, <2>3
  <2>5. ~OddVersions(answer, o, owner, cowner) /\ ~LostAtSetup(answer, o, owner)
    BY <1>14, <2>1 DEF OddVersions, LostAtSetup
  <2> QED BY <1>4, <2>1, <2>4, <2>5 DEF PytestTrouble, agrees, check, r, lost
<1> QED BY <1>10, <1>11, <1>12, <1>13, <1>14 DEF PytestEvidence, p

(* What is asked of an ordinary Check once the environment was usable.     *)
LEMMA OrdinaryCheckIs ==
  ASSUME NEW answer, NEW check, check.name # "pytest", UsableEnd(answer.env),
         check.error # "repository_environment_unavailable",
         check.start # "none" =>
           check.processes # <<>> /\ check.start = DependencyNameForCheck(check.name)
  PROVE  LET owner == DependencyOf(answer.deps, DependencyNameForCheck(check.name))
         IN /\ owner.status # "available" =>
                 (CheckAgrees(answer, check) <=>
                    owner.error # "none" /\ check.error = owner.error /\ Synthesized(check))
            /\ owner.status = "available" =>
                 (CheckAgrees(answer, check) <=> OrdinaryCheckAgrees(check))
<1> DEFINE owner == DependencyOf(answer.deps, DependencyNameForCheck(check.name))
           lost == UnsafeAfterPreparation(answer.env)
           its == answer.env
           unavailable == check.error = "repository_environment_unavailable"
           broken == EnvironmentFailed(its) /\ ~lost
           synthesized == Synthesized(check)
           changed == its.error = "repository_state_changed"
           started == check.start # "none" =>
                        /\ check.processes # <<>> /\ check.start = ExpectedModule(answer, check)
                        /\ Observed(its)
           available == owner.status = "available"
           sameError == owner.error # "none" /\ check.error = owner.error
           rules == OrdinaryCheckAgrees(check)
<1>1. CheckAgrees(answer, check) <=>
        /\ started
        /\ IF broken THEN unavailable /\ synthesized
           ELSE IF lost /\ unavailable /\ synthesized THEN TRUE
           ELSE IF changed /\ unavailable THEN FALSE
           ELSE IF ~available THEN sameError /\ synthesized
           ELSE rules
  <2> HIDE DEF owner, lost, unavailable, synthesized, broken, changed, started, available, sameError, rules
  <2> QED BY DEF CheckAgrees, owner, lost, unavailable, synthesized, broken, changed, started, available, sameError, rules
<1>2. started
  <2>1. ExpectedModule(answer, check) = DependencyNameForCheck(check.name)
    BY DEF ExpectedModule
  <2> QED BY <2>1 DEF UsableEnd
<1>3. ~broken /\ ~unavailable
  BY DEF UsableEnd
<1> HIDE DEF owner, lost, unavailable, synthesized, broken, changed, started, available, sameError, rules
<1>4. CheckAgrees(answer, check) <=> IF ~available THEN sameError /\ synthesized ELSE rules
  BY <1>1, <1>2, <1>3
<1> QED BY <1>4 DEF owner, available, sameError, synthesized, rules

(* An ordinary Check that was launched obeys its rules.                    *)
LEMMA OrdinaryRanAgrees ==
  ASSUME NEW o, o.name \in CheckName \ {"pytest"}, OrdinaryRan(o), NEW r
  PROVE  /\ OrdinaryCheckAgrees(CheckResult(o, r))
         /\ o.processes # <<>> /\ o.error # "repository_environment_unavailable"
         /\ o.start # "none" => o.start = DependencyNameForCheck(o.name)
<1> DEFINE module == DependencyNameForCheck(o.name)
           check == CheckResult(o, r)
<1>1. PICK process \in PrimaryEnds({0, 1, 2}), started \in BOOLEAN :
        /\ process.outcome = "spawn_failed" => ~started
        /\ o.processes = <<process>>
        /\ o.start = IF started THEN module ELSE "none"
        /\ o.authority = /\ started /\ process.code \in {0, 1} /\ module \in {"ruff", "ty"}
        /\ FailsWith(o, PrimaryError(process, started, {0, 1}))
  BY DEF OrdinaryRan
<1>2. module # "none"
  BY OwnerOfCheck DEF Owners
<1>3. /\ process # NoProcess
      /\ \/ process.outcome = "exited" /\ process.code \in {0, 1, 2}
         \/ process.outcome \in {"spawn_failed", "signaled"} /\ process.code = NoCode
  BY <1>1 DEF PrimaryEnds, NotSpawned, Signaled, Exited, Process, NoProcess
<1>4. Primary(o) = process /\ o.processes # <<>>
  BY <1>1 DEF Primary
<1>5. /\ check.name = o.name /\ check.error = o.error /\ check.start = o.start
      /\ check.authority = o.authority /\ Primary(check) = process
      /\ check.status = IF o.error # "none" THEN "error"
                        ELSE IF process.code = 0 THEN "passed" ELSE "failed"
  <2>1. o.name # "pytest"
    OBVIOUS
  <2>2. check.processes = o.processes
    BY DEF CheckResult
  <2> QED BY <1>4, <2>1, <2>2 DEF CheckResult, Primary
<1> DEFINE error == PrimaryError(process, started, {0, 1})
<1>6. error = IF process.outcome = "spawn_failed" THEN "spawn_failed"
              ELSE IF ~started THEN "check_start_evidence_invalid"
              ELSE IF process.outcome = "signaled" THEN "terminated_by_signal"
              ELSE IF process.code \in {0, 1} THEN "none" ELSE "check_execution_failed"
  BY <1>1, <1>3 DEF PrimaryError
<1>7. o.error \in {error, "cleanup_failed"}
  BY <1>1 DEF FailsWith
<1>8. o.error # "repository_environment_unavailable" /\ (o.start # "none" => o.start = module)
  BY <1>1, <1>6, <1>7
<1>9. /\ (check.start # "none") <=> started
      /\ check.authority <=> started /\ process.code \in {0, 1} /\ module \in {"ruff", "ty"}
      /\ DependencyNameForCheck(check.name) = module
      /\ NoCode \notin {0, 1, 2}
  BY <1>1, <1>2, <1>5 DEF NoCode
<1> HIDE DEF check, error, module
<1>10. OrdinaryCheckAgrees(check)
  <2>1. CASE process.outcome = "spawn_failed"
    BY <1>1, <1>3, <1>5, <1>6, <1>7, <1>9, <2>1 DEF OrdinaryCheckAgrees
  <2>2. CASE process.outcome # "spawn_failed" /\ ~started
    BY <1>1, <1>3, <1>5, <1>6, <1>7, <1>9, <2>2 DEF OrdinaryCheckAgrees
  <2>3. CASE process.outcome = "signaled" /\ started
    BY <1>1, <1>3, <1>5, <1>6, <1>7, <1>9, <2>3 DEF OrdinaryCheckAgrees
  <2>4. CASE process.outcome = "exited" /\ started
    BY <1>1, <1>3, <1>5, <1>6, <1>7, <1>9, <2>4 DEF OrdinaryCheckAgrees
  <2> QED BY <1>3, <2>1, <2>2, <2>3, <2>4
<1> QED BY <1>4, <1>8, <1>10 DEF check, module

(* The rules for an ordinary Check are always obeyed.                      *)
LEMMA OrdinaryEvidenceAgrees ==
  ASSUME NEW answer, NEW o \in ObservationState, o.name # "pytest", UsableEnd(answer.env),
         OrdinaryEvidence(answer.deps, o),
         Seen(DependencyOf(answer.deps, DependencyNameForCheck(o.name))), NEW r
  PROVE  /\ CheckAgrees(answer, CheckResult(o, r))
         /\ o.error # "repository_environment_unavailable"
<1> DEFINE owner == DependencyOf(answer.deps, DependencyNameForCheck(o.name))
           check == CheckResult(o, r)
<1>1. /\ owner.error = "none" => owner.status = "available"
      /\ owner.error # "none" => owner.error \in DependencyError
      /\ "repository_environment_unavailable" \notin DependencyError
  BY SeenAre DEF DependencyError
<1>2. /\ check.name = o.name /\ check.error = o.error /\ check.start = o.start
      /\ check.processes = o.processes /\ check.authority = o.authority
  BY DEF CheckResult
<1>3. o.name \in CheckName \ {"pytest"}
  BY DEF ObservationState
<1>4. ASSUME Unstarted(o), o.error # "none"
      PROVE  /\ Synthesized(check) /\ check.status = "error"
             /\ check.error = o.error /\ check.start = "none" /\ check.processes = <<>>
             /\ ~check.authority
  BY <1>4, UnstartedCheckIs
<1> HIDE DEF check
<1>5. CASE owner.status # "available" /\ Unstarted(o) /\ o.error = owner.error
  <2>1. owner.error # "none" /\ o.error # "repository_environment_unavailable"
    BY <1>1, <1>5
  <2>2. Synthesized(check) /\ check.start = "none"
    BY <1>4, <1>5, <2>1
  <2>3. CheckAgrees(answer, check)
    BY <1>2, <1>5, <2>1, <2>2, OrdinaryCheckIs
  <2> QED BY <2>1, <2>3 DEF check
<1>6. ASSUME owner.status = "available", Unstarted(o),
             o.error \in {"platform_safety_unavailable", "cleanup_failed", "check_start_evidence_invalid"}
      PROVE  CheckAgrees(answer, check) /\ o.error # "repository_environment_unavailable"
  <2>1. o.error # "repository_environment_unavailable" /\ o.error # "none"
    BY <1>6
  <2>2. /\ check.status = "error" /\ check.error = o.error /\ check.start = "none"
        /\ ~check.authority /\ Primary(check) = NoProcess
    BY <1>4, <1>6, <2>1 DEF Primary
  <2>3. OrdinaryCheckAgrees(check)
    BY <1>6, <2>2 DEF OrdinaryCheckAgrees, NoProcess, Process
  <2> QED BY <1>2, <1>6, <2>1, <2>2, <2>3, OrdinaryCheckIs
<1>7. CASE owner.status = "available" /\ NoWorkspace(o)
  <2>1. Unstarted(o) /\ o.error \in {"platform_safety_unavailable", "cleanup_failed"}
    BY <1>7 DEF NoWorkspace
  <2> QED BY <1>6, <1>7, <2>1 DEF check
<1>8. CASE owner.status = "available" /\ Unstarted(o) /\ FailsWith(o, "check_start_evidence_invalid")
  <2>1. o.error \in {"check_start_evidence_invalid", "cleanup_failed"}
    BY <1>8 DEF FailsWith
  <2> QED BY <1>6, <1>8, <2>1 DEF check
<1>9. CASE owner.status = "available" /\ OrdinaryRan(o)
  <2>1. /\ OrdinaryCheckAgrees(check)
        /\ o.processes # <<>> /\ o.error # "repository_environment_unavailable"
        /\ o.start # "none" => o.start = DependencyNameForCheck(o.name)
    BY <1>3, <1>9, OrdinaryRanAgrees DEF check
  <2>2. CheckAgrees(answer, check)
    BY <1>2, <1>9, <2>1, OrdinaryCheckIs
  <2> QED BY <2>1, <2>2 DEF check
<1> QED BY <1>5, <1>7, <1>8, <1>9 DEF OrdinaryEvidence

-----------------------------------------------------------------------------
(* The report of a run that has ended *)

LEMMA NamesAre ==
  ASSUME NEW S, NEW T, NEW s \in Seq(S), NEW t \in Seq(T), Len(s) = Len(t),
         \A i \in 1 .. Len(s) : s[i].name = t[i]
  PROVE  [i \in DOMAIN s |-> s[i].name] = t
<1> DEFINE names == [i \in DOMAIN s |-> s[i].name]
<1>1. DOMAIN s = 1 .. Len(s) /\ Len(s) \in Nat /\ \A i \in 1 .. Len(t) : t[i] \in T
  OBVIOUS
<1>2. names \in Seq(T) /\ Len(names) = Len(t) /\ \A i \in 1 .. Len(names) : names[i] = t[i]
  BY <1>1
<1> HIDE DEF names
<1>3. names = t
  BY <1>2, SeqEqual
<1> QED BY <1>3 DEF names

\* The run was planned, and everything was observed.
Ended == SafeInv /\ pc = "done" /\ ~Refused

LEMMA AtTheEnd ==
  ASSUME Ended
  PROVE  /\ SoundPlan(plan) /\ env \in EnvironmentState
         /\ checks \in Seq(ObservationState) /\ Len(checks) = Len(plan.checks)
         /\ \A i \in 1 .. Len(checks) : checks[i].name = plan.checks[i]
         /\ deps \in Seq(DependencyState) /\ Len(deps) = Len(RequiredDependencies(plan))
         /\ \A i \in 1 .. Len(deps) : deps[i].name = RequiredDependencies(plan)[i]
<1>1. pc \in Ending /\ pc \notin Early /\ pc # "plan"
  BY DEF Ended, Ending, Early
<1> QED BY <1>1 DEF Ended, SafeInv, TypeInv, PlanInv, DepsInv, OrderInv

(* The Checks and the dependencies of the report are those of the plan.    *)
LEMMA ReportFollowsPlan ==
  ASSUME Ended
  PROVE  /\ Built.plan = plan /\ Built.env = env /\ Built.deps = deps
         /\ [i \in DOMAIN Built.checks |-> Built.checks[i].name] = plan.checks
         /\ [i \in DOMAIN deps |-> deps[i].name] = RequiredDependencies(plan)
         /\ Range(deps) = {deps[i] : i \in 1 .. Len(deps)}
         /\ Range(Built.checks) = {CheckResult(checks[i], Built.pytest) : i \in 1 .. Len(checks)}
<1>1. /\ SoundPlan(plan) /\ checks \in Seq(ObservationState) /\ Len(checks) = Len(plan.checks)
      /\ \A i \in 1 .. Len(checks) : checks[i].name = plan.checks[i]
      /\ deps \in Seq(DependencyState) /\ Len(deps) = Len(RequiredDependencies(plan))
      /\ \A i \in 1 .. Len(deps) : deps[i].name = RequiredDependencies(plan)[i]
  BY AtTheEnd
<1>2. Built.plan = plan /\ Built.env = env /\ Built.deps = deps
      /\ Built.checks = [i \in DOMAIN checks |-> CheckResult(checks[i], Built.pytest)]
  BY RestOfReport DEF Built
<1>3. Range(Built.checks) = {CheckResult(checks[i], Built.pytest) : i \in 1 .. Len(checks)}
  BY ResultsInReport DEF Ended
<1> DEFINE r == Built.pytest
           shown == Built.checks
<1>4. shown = [i \in DOMAIN checks |-> CheckResult(checks[i], r)]
  BY <1>2
<1> HIDE DEF r, shown
<1>5. \A i \in DOMAIN checks : CheckResult(checks[i], r).name = checks[i].name
  BY DEF CheckResult
<1>6. [i \in DOMAIN shown |-> shown[i].name] = [i \in DOMAIN checks |-> checks[i].name]
  BY <1>4, <1>5
<1>7. [i \in DOMAIN checks |-> checks[i].name] = plan.checks
  <2> DEFINE order == plan.checks
  <2>1. /\ order \in Seq(CheckName) /\ checks \in Seq(ObservationState) /\ Len(checks) = Len(order)
        /\ \A i \in 1 .. Len(checks) : checks[i].name = order[i]
    BY <1>1 DEF SoundPlan
  <2> HIDE DEF order
  <2>2. [i \in DOMAIN checks |-> checks[i].name] = order
    BY <2>1, NamesAre
  <2> QED BY <2>2 DEF order
<1>8. RequiredDependencies(plan) \in Seq(Owners \cup {"coverage"})
  BY <1>1, RequiredAre
<1>9. [i \in DOMAIN deps |-> deps[i].name] = RequiredDependencies(plan)
  BY <1>1, <1>8, NamesAre
<1>10. Range(deps) = {deps[i] : i \in 1 .. Len(deps)}
  BY <1>1 DEF Range
<1> QED BY <1>2, <1>3, <1>6, <1>7, <1>9, <1>10 DEF shown

(* pytest is in the report if it was planned.                              *)
LEMMA PytestIsReported ==
  ASSUME Ended
  PROVE  \/ /\ "pytest" \in Range(plan.checks)
            /\ \E i \in 1 .. Len(checks) : IsThePytest(checks, i)
         \/ /\ "pytest" \notin Range(plan.checks) /\ ~CoverageRequested(plan)
            /\ \A i \in 1 .. Len(checks) : checks[i].name # "pytest"
            /\ Built.pytest = NoPytestResult /\ Built.coverage = NoCoverageResult
<1>1. /\ SoundPlan(plan) /\ checks \in Seq(ObservationState) /\ Len(checks) = Len(plan.checks)
      /\ \A i \in 1 .. Len(checks) : checks[i].name = plan.checks[i]
  BY AtTheEnd
<1>2. Range(plan.checks) = {plan.checks[i] : i \in 1 .. Len(checks)} /\ Len(checks) \in Nat
  BY <1>1 DEF SoundPlan, Range
<1>3. CASE "pytest" \in Range(plan.checks)
  <2>1. PICK i \in 1 .. Len(checks) : checks[i].name = "pytest"
    BY <1>1, <1>2, <1>3
  <2>2. IsThePytest(checks, i)
    BY <1>1, <2>1 DEF IsThePytest, SoundPlan, Distinct
  <2> QED BY <1>3, <2>2
<1>4. CASE "pytest" \notin Range(plan.checks)
  <2>1. \A i \in 1 .. Len(checks) : checks[i].name # "pytest"
    BY <1>1, <1>2, <1>4
  <2>2. ~CoverageRequested(plan)
    BY <1>1, <1>2, <1>4 DEF SoundPlan
  <2>3. Built.pytest = NoPytestResult
    BY <2>1, ReportWithoutPytest DEF Built
  <2>4. Built.coverage = NoCoverageResult
    BY <2>2, UnrequestedCoverage DEF Built
  <2> QED BY <1>4, <2>1, <2>2, <2>3, <2>4
<1> QED BY <1>3, <1>4

\* What remains to be asked of a report whose results are sound.
Agreed ==
  /\ StageAgrees(env) /\ EnvironmentAgrees(env)
  /\ NothingProbed(env, deps) /\ LossLeavesSuffixes(Built)
  /\ \A i \in 1 .. Len(deps) : DependencyAgrees(deps[i], EnvironmentFailed(env))
  /\ \A i \in 1 .. Len(checks) : CheckAgrees(Built, CheckResult(checks[i], Built.pytest))

(* A report is valid if its evidence agrees.                               *)
LEMMA ValidIfAgreed ==
  ASSUME Ended, ReportablePlan(plan), OrderedProcesses(env),
         "pytest" \in Range(plan.checks) => SoundResults(Built)
  PROVE  ValidReport(Built) <=> Agreed
<1>1. /\ Built.plan = plan /\ Built.env = env /\ Built.deps = deps
      /\ [i \in DOMAIN Built.checks |-> Built.checks[i].name] = plan.checks
      /\ [i \in DOMAIN deps |-> deps[i].name] = RequiredDependencies(plan)
      /\ Range(deps) = {deps[i] : i \in 1 .. Len(deps)}
      /\ Range(Built.checks) = {CheckResult(checks[i], Built.pytest) : i \in 1 .. Len(checks)}
  BY ReportFollowsPlan
<1> DEFINE b == Built
           depsAgree == \A dependency \in Range(deps) : DependencyAgrees(dependency, EnvironmentFailed(env))
           checksAgree == \A check \in Range(b.checks) : CheckAgrees(b, check)
           sound == /\ ("pytest" \in Range(plan.checks)) <=> (b.pytest # NoPytestResult)
                    /\ b.pytest # NoPytestResult => PytestIsSound(b.pytest, plan)
                    /\ CoverageRequested(plan) <=> (b.coverage # NoCoverageResult)
                    /\ b.coverage # NoCoverageResult =>
                         /\ CoverageIsSound(b.coverage) /\ b.pytest # NoPytestResult
                         /\ CoverageFitsContext(b)
<1>2. depsAgree <=> \A i \in 1 .. Len(deps) : DependencyAgrees(deps[i], EnvironmentFailed(env))
  <2> DEFINE failed == EnvironmentFailed(env)
  <2> HIDE DEF failed
  <2>1. (\A dependency \in Range(deps) : DependencyAgrees(dependency, failed))
          <=> \A i \in 1 .. Len(deps) : DependencyAgrees(deps[i], failed)
    BY <1>1, Zenon
  <2> QED BY <2>1 DEF failed
<1>3. checksAgree <=> \A i \in 1 .. Len(checks) : CheckAgrees(b, CheckResult(checks[i], b.pytest))
  <2> HIDE DEF b
  <2>1. Range(b.checks) = {CheckResult(checks[i], b.pytest) : i \in 1 .. Len(checks)}
    BY <1>1 DEF b
  <2> QED BY <2>1, Zenon
<1>4. sound
  BY <1>1, PytestIsReported DEF SoundResults
<1>5. /\ (plan.mode = "focused") => plan.coverageScope # "unavailable"
      /\ (plan.mode = "strict_aggregate") => plan.coverageScope # "not_requested"
  BY DEF ReportablePlan
<1> HIDE DEF b, depsAgree, checksAgree, sound
<1>6. ValidReport(b) <=>
        /\ StageAgrees(env) /\ EnvironmentAgrees(env)
        /\ NothingProbed(env, deps) /\ LossLeavesSuffixes(b) /\ depsAgree /\ checksAgree
  <2>1. b.plan = plan /\ b.env = env /\ b.deps = deps
        /\ [i \in DOMAIN b.checks |-> b.checks[i].name] = plan.checks
        /\ [i \in DOMAIN deps |-> deps[i].name] = RequiredDependencies(plan)
    BY <1>1 DEF b
  <2> QED BY <1>4, <1>5, <2>1 DEF ValidReport, depsAgree, checksAgree, sound
<1> QED BY <1>2, <1>3, <1>6 DEF Agreed, b

\* The circumstances of the Check of pytest in which it is not shown.
PytestDisagrees ==
  ReservedExitHidden \/ ConvertedTooMuch \/ UnstagedCoverage \/ OddVersion \/ SetupAndHelperLost

LEMMA NoPytestNoTrouble ==
  ASSUME \A i \in DOMAIN checks : checks[i].name # "pytest"
  PROVE  ~PytestDisagrees
<1>1. ~ReservedExitHidden
  BY DEF ReservedExitHidden, PytestObserved
<1>2. ~ConvertedTooMuch
  BY DEF ConvertedTooMuch, PytestObserved
<1>3. ~UnstagedCoverage
  BY DEF UnstagedCoverage, PytestObserved
<1>4. ~OddVersion
  BY DEF OddVersion, PytestObserved
<1>5. ~SetupAndHelperLost
  BY DEF SetupAndHelperLost, PytestObserved
<1> QED BY <1>1, <1>2, <1>3, <1>4, <1>5 DEF PytestDisagrees

(* They are about the one Check of pytest.                                 *)
LEMMA TroubleIsItsOwn ==
  ASSUME NEW i, IsThePytest(checks, i), DOMAIN checks = 1 .. Len(checks)
  PROVE  PytestDisagrees <=> PytestTrouble(Built, checks[i], PytestOwner, CoverageOwner)
<1> DEFINE o == checks[i]
           lost == UnsafeAfterPreparation(env)
           b == Built
<1>1. /\ i \in DOMAIN checks /\ o.name = "pytest"
      /\ \A j \in DOMAIN checks : checks[j].name = "pytest" => checks[j] = o
  BY DEF IsThePytest
<1>2. b.plan = plan /\ b.env = env
  <2>1. /\ Built.plan = plan /\ Built.env = env /\ Built.deps = deps
        /\ Built.checks = [j \in DOMAIN checks |-> CheckResult(checks[j], Built.pytest)]
    BY RestOfReport DEF Built
  <2> QED BY <2>1
<1> HIDE DEF o, b
<1>3. ReservedExitHidden <=> Hidden(b, o, CoverageOwner)
  <2>1. ReservedExitHidden <=>
          \E j \in DOMAIN checks : checks[j].name = "pytest" /\
            (/\ CoverageRequested(plan) /\ CoverageOwner.status = "available"
             /\ Primary(checks[j]).code \in {2, 3, 4} /\ checks[j].error # "check_execution_failed")
    BY DEF ReservedExitHidden, PytestObserved
  <2>2. (\E j \in DOMAIN checks : checks[j].name = "pytest" /\
            (/\ CoverageRequested(plan) /\ CoverageOwner.status = "available"
             /\ Primary(checks[j]).code \in {2, 3, 4} /\ checks[j].error # "check_execution_failed"))
          <=> (/\ CoverageRequested(plan) /\ CoverageOwner.status = "available"
               /\ Primary(o).code \in {2, 3, 4} /\ o.error # "check_execution_failed")
    BY <1>1 DEF o
  <2> QED BY <1>2, <2>1, <2>2 DEF Hidden
<1>4. ConvertedTooMuch <=> TooMuch(b, o)
  <2>1. ConvertedTooMuch <=>
          \E j \in DOMAIN checks : checks[j].name = "pytest" /\
            (/\ Len(checks[j].processes) = 2 /\ Primary(checks[j]).code \notin {2, 3, 4}
             /\ ~b.pytest.complete /\ b.pytest.error # "session_incomplete")
    BY DEF ConvertedTooMuch, PytestObserved, b
  <2>2. (\E j \in DOMAIN checks : checks[j].name = "pytest" /\
            (/\ Len(checks[j].processes) = 2 /\ Primary(checks[j]).code \notin {2, 3, 4}
             /\ ~b.pytest.complete /\ b.pytest.error # "session_incomplete"))
          <=> (/\ Len(o.processes) = 2 /\ Primary(o).code \notin {2, 3, 4}
               /\ ~b.pytest.complete /\ b.pytest.error # "session_incomplete")
    BY <1>1 DEF o
  <2> QED BY <2>1, <2>2 DEF TooMuch
<1>5. UnstagedCoverage <=> Unstaged(o, lost)
  <2> HIDE DEF lost
  <2>1. UnstagedCoverage <=>
          (\E j \in DOMAIN checks : checks[j].name = "pytest" /\
            (/\ checks[j].coverage # NoCoverage /\ checks[j].coverage.artifact = "generation_failed"
             /\ Len(checks[j].processes) = 1)) /\ ~lost
    BY DEF UnstagedCoverage, PytestObserved, lost
  <2>2. (\E j \in DOMAIN checks : checks[j].name = "pytest" /\
            (/\ checks[j].coverage # NoCoverage /\ checks[j].coverage.artifact = "generation_failed"
             /\ Len(checks[j].processes) = 1))
          <=> (/\ o.coverage # NoCoverage /\ o.coverage.artifact = "generation_failed"
               /\ Len(o.processes) = 1)
    BY <1>1 DEF o
  <2> QED BY <2>1, <2>2 DEF Unstaged
<1>6. OddVersion <=> OddVersions(b, o, PytestOwner, CoverageOwner)
  <2>1. OddVersion <=>
          \/ /\ \E j \in DOMAIN checks : checks[j].name = "pytest" /\ checks[j].pytest # NoPytest
             /\ PytestOwner.status = "incompatible" /\ PytestOwner.version # "three_numbers"
          \/ /\ \E j \in DOMAIN checks : checks[j].name = "pytest" /\
                  (checks[j].processes = <<>> /\ checks[j].pytest.classification = "supported")
             /\ CoverageRequested(plan) /\ CoverageOwner.status = "incompatible"
             /\ CoverageOwner.version = "prerelease"
    BY DEF OddVersion, PytestObserved
  <2>2. (\E j \in DOMAIN checks : checks[j].name = "pytest" /\ checks[j].pytest # NoPytest)
          <=> o.pytest # NoPytest
    BY <1>1 DEF o
  <2>3. (\E j \in DOMAIN checks : checks[j].name = "pytest" /\
                  (checks[j].processes = <<>> /\ checks[j].pytest.classification = "supported"))
          <=> (o.processes = <<>> /\ o.pytest.classification = "supported")
    BY <1>1 DEF o
  <2> QED BY <1>2, <2>1, <2>2, <2>3 DEF OddVersions
<1>7. SetupAndHelperLost <=> LostAtSetup(b, o, PytestOwner)
  <2>1. SetupAndHelperLost <=>
          /\ env.error = "unsafe_repository_environment"
          /\ \E j \in DOMAIN checks : checks[j].name = "pytest" /\
                (checks[j].pytest = NoPytest /\ ~GivenUp(checks[j]))
          /\ PytestOwner.status \notin {"shadowed", "unusable", "unobserved"}
    BY DEF SetupAndHelperLost, PytestObserved
  <2>2. (\E j \in DOMAIN checks : checks[j].name = "pytest" /\
                (checks[j].pytest = NoPytest /\ ~GivenUp(checks[j])))
          <=> (o.pytest = NoPytest /\ ~GivenUp(o))
    BY <1>1 DEF o
  <2> QED BY <1>2, <2>1, <2>2 DEF LostAtSetup
<1> QED BY <1>2, <1>3, <1>4, <1>5, <1>6, <1>7 DEF PytestDisagrees, PytestTrouble, o, b, lost

(* The dependencies of the Checks are among those of the report.           *)
LEMMA OwnersAreFound ==
  ASSUME Ended
  PROVE  /\ \A i \in 1 .. Len(checks) :
              \E j \in 1 .. Len(deps) : DependencyOf(deps, DependencyNameForCheck(checks[i].name)) = deps[j]
         /\ CoverageRequested(plan) => \E j \in 1 .. Len(deps) : CoverageOwner = deps[j]
<1> DEFINE R == RequiredDependencies(plan)
<1>1. /\ SoundPlan(plan) /\ Len(checks) = Len(plan.checks)
      /\ \A i \in 1 .. Len(checks) : checks[i].name = plan.checks[i]
      /\ deps \in Seq(DependencyState) /\ Len(deps) = Len(R)
      /\ \A i \in 1 .. Len(deps) : deps[i].name = R[i]
  BY AtTheEnd
<1>2. /\ \A i \in 1 .. Len(plan.checks) :
           \E j \in 1 .. Len(R) : R[j] = DependencyNameForCheck(plan.checks[i])
      /\ CoverageRequested(plan) => \E j \in 1 .. Len(R) : R[j] = "coverage"
  BY <1>1, RequiredAre
<1> HIDE DEF R
<1>3. DOMAIN deps = 1 .. Len(deps) /\ Range(deps) = {deps[j] : j \in 1 .. Len(deps)}
  BY <1>1 DEF Range
<1>4. ASSUME NEW name, NEW k \in 1 .. Len(deps), deps[k].name = name
      PROVE  \E j \in 1 .. Len(deps) : DependencyOf(deps, name) = deps[j]
  <2>1. DependencyOf(deps, deps[k].name) \in Range(deps)
    BY <1>3, DependencyIsFound
  <2> QED BY <1>3, <1>4, <2>1
<1>5. \A i \in 1 .. Len(checks) :
        \E k \in 1 .. Len(deps) : deps[k].name = DependencyNameForCheck(checks[i].name)
  BY <1>1, <1>2
<1>6. CoverageRequested(plan) => \E k \in 1 .. Len(deps) : deps[k].name = "coverage"
  BY <1>1, <1>2
<1> QED BY <1>4, <1>5, <1>6 DEF CoverageOwner

LEMMA AbandonedNoTrouble ==
  ASSUME NEW b, NEW o, Abandoned(o), NEW owner, NEW cowner
  PROVE  ~PytestTrouble(b, o, owner, cowner) /\ GivenUp(o)
<1>1. /\ o.processes = <<>> /\ o.start = "none" /\ o.pytest = NoPytest /\ o.coverage = NoCoverage
      /\ o.error = "repository_environment_unavailable"
  BY DEF Abandoned, Unstarted, Bare
<1>2. GivenUp(o)
  BY <1>1 DEF GivenUp
<1>3. Len(o.processes) = 0 /\ Primary(o).code \notin {2, 3, 4}
  BY <1>1 DEF Primary, NoProcess, Process, NoCode
<1>4. o.pytest.classification # "supported"
  BY <1>1 DEF NoPytest
<1>5. ~Hidden(b, o, cowner) /\ ~TooMuch(b, o) /\ ~Unstaged(o, UnsafeAfterPreparation(b.env))
  BY <1>1, <1>3 DEF Hidden, TooMuch, Unstaged
<1>6. ~OddVersions(b, o, owner, cowner) /\ ~LostAtSetup(b, o, owner)
  BY <1>1, <1>2, <1>4 DEF OddVersions, LostAtSetup
<1> QED BY <1>2, <1>5, <1>6 DEF PytestTrouble

LEMMA ResultOfGivenUp ==
  ASSUME NEW o, NEW r
  PROVE  GivenUp(CheckResult(o, r)) <=> GivenUp(o)
<1> DEFINE check == CheckResult(o, r)
<1>1. /\ check.processes = o.processes /\ check.start = o.start
      /\ (check.error = "repository_environment_unavailable") <=> (o.error = "repository_environment_unavailable")
  BY DEF CheckResult
<1> QED BY <1>1 DEF GivenUp

(* A report that lost the reason why Checks were given up is refused.      *)
LEMMA ReplacedIsRefused ==
  ASSUME Ended, ReasonReplaced
  PROVE  ~ValidReport(Built)
<1>1. PICK i \in DOMAIN checks : GivenUp(checks[i])
  BY DEF ReasonReplaced
<1>2. env.error = "repository_state_changed"
  BY DEF ReasonReplaced
<1> DEFINE b == Built
           check == CheckResult(checks[i], b.pytest)
<1>3. b.env = env /\ check \in Range(b.checks)
  <2>1. DOMAIN checks = 1 .. Len(checks)
    BY AtTheEnd
  <2>2. /\ Built.env = env
        /\ Range(Built.checks) = {CheckResult(checks[k], Built.pytest) : k \in 1 .. Len(checks)}
    BY ResultsInReport DEF Ended
  <2> QED BY <2>1, <2>2
<1>4. check.error = "repository_environment_unavailable"
  BY <1>1, ResultOfGivenUp DEF GivenUp
<1> HIDE DEF b, check
<1>5. ~EnvironmentFailed(b.env) /\ ~UnsafeAfterPreparation(b.env)
  BY <1>2, <1>3 DEF EnvironmentFailed, UnsafeAfterPreparation
<1>6. ~CheckAgrees(b, check)
  BY <1>2, <1>3, <1>4, <1>5 DEF CheckAgrees
<1> QED BY <1>3, <1>6 DEF ValidReport, b

(* What is reported of pytest.                                             *)
LEMMA PytestIsBuilt ==
  ASSUME Ended, NEW i \in 1 .. Len(checks), IsThePytest(checks, i)
  PROVE  /\ Built.plan = plan /\ Built.env = env /\ Built.deps = deps
         /\ Built.pytest = ReportedPytest(plan, env, checks[i], PytestOwner)
         /\ Built.coverage = IF CoverageRequested(plan)
                             THEN BuildCoverageResult(plan, Built.pytest, checks[i].coverage, CoverageOwner.version)
                             ELSE NoCoverageResult
<1>1. Built.plan = plan /\ Built.env = env /\ Built.deps = deps
  BY ReportFollowsPlan
<1>2. /\ Built.pytest = ReportedPytest(plan, env, checks[i], PytestOwner)
      /\ Built.coverage = IF ~CoverageRequested(plan) THEN NoCoverageResult
                          ELSE BuildCoverageResult(plan, Built.pytest, checks[i].coverage, CoverageOwner.version)
  BY PytestOfReport DEF Built, PytestOwner, CoverageOwner
<1> HIDE DEF Built
<1> QED BY <1>1, <1>2

(* A Check that was given up is reported as the rules want it.             *)
LEMMA GivenUpAgrees ==
  ASSUME Ended, EnvironmentFailed(env), NEW i \in 1 .. Len(checks), Abandoned(checks[i])
  PROVE  /\ CheckAgrees(Built, CheckResult(checks[i], Built.pytest))
         /\ IsThePytest(checks, i) => SoundResults(Built) /\ ~PytestDisagrees
<1> DEFINE b == Built
           o == checks[i]
<1>1. b.plan = plan /\ b.env = env /\ b.deps = deps
  <2>1. Built.plan = plan /\ Built.env = env /\ Built.deps = deps
    BY ReportFollowsPlan
  <2> QED BY <2>1
<1>2. DOMAIN checks = 1 .. Len(checks)
  BY AtTheEnd
<1>3. ASSUME IsThePytest(checks, i)
      PROVE  /\ SoundResults(b) /\ ~PytestDisagrees
             /\ SynthesizedPytestAgrees(b.pytest, b.coverage, DependencyOf(b.deps, "pytest"), TRUE)
  <2>1. /\ Built.pytest = ReportedPytest(plan, env, o, PytestOwner)
        /\ Built.coverage = IF CoverageRequested(plan)
                            THEN BuildCoverageResult(plan, Built.pytest, o.coverage, CoverageOwner.version)
                            ELSE NoCoverageResult
    BY <1>3, PytestIsBuilt
  <2>2. ~PytestDisagrees
    <3>1. PytestDisagrees <=> PytestTrouble(Built, checks[i], PytestOwner, CoverageOwner)
      BY <1>2, <1>3, TroubleIsItsOwn
    <3> QED BY <3>1, AbandonedNoTrouble
  <2> HIDE DEF o
  <2>3. /\ b.pytest = ReportedPytest(b.plan, b.env, o, PytestOwner)
        /\ b.coverage = IF CoverageRequested(b.plan)
                        THEN BuildCoverageResult(b.plan, b.pytest, o.coverage, CoverageOwner.version)
                        ELSE NoCoverageResult
        /\ Abandoned(o) /\ EnvironmentFailed(b.env)
    BY <1>1, <2>1 DEF o
  <2> HIDE DEF b
  <2>4. /\ SoundResults(b)
        /\ \A d : SynthesizedPytestAgrees(b.pytest, b.coverage, d, TRUE)
    BY <2>3, AbandonedPytestIs
  <2> QED BY <2>2, <2>4
<1>4. o.name = "pytest" => IsThePytest(checks, i)
  <2>1. /\ SoundPlan(plan) /\ Len(checks) = Len(plan.checks)
        /\ \A j \in 1 .. Len(checks) : checks[j].name = plan.checks[j]
    BY AtTheEnd
  <2> QED BY <2>1 DEF IsThePytest, SoundPlan, Distinct
<1> HIDE DEF b, o
<1>5. CheckAgrees(b, CheckResult(o, b.pytest))
  <2>1. Abandoned(o) /\ EnvironmentFailed(b.env)
    BY <1>1 DEF o
  <2> QED BY <1>3, <1>4, <2>1, AbandonedAgrees
<1> QED BY <1>3, <1>5 DEF b, o

(* When the preparation failed, the report is refused for what it says of  *)
(* the environment only.                                                   *)
LEMMA StoppedReport ==
  ASSUME Ended, ReportablePlan(plan), NEW core \in Cores, NEW tail \in Tails,
         Laid(env.processes, core, tail), NEW error, Stopped(env, core, error),
         Verified(env, error, tail), Reached(plan, deps, checks, 0, 0)
  PROVE  ValidReport(Built) <=> ~Disagreement
<1>1. /\ SoundPlan(plan) /\ env \in EnvironmentState
      /\ checks \in Seq(ObservationState) /\ Len(checks) = Len(plan.checks)
      /\ deps \in Seq(DependencyState)
  BY AtTheEnd
<1>2. /\ DOMAIN checks = 1 .. Len(checks) /\ DOMAIN deps = 1 .. Len(deps)
      /\ 1 \in 1 .. Len(checks)
  BY <1>1 DEF SoundPlan
<1>3. /\ \A i \in 1 .. Len(deps) : LeftOut(deps[i])
      /\ \A i \in 1 .. Len(checks) : Abandoned(checks[i])
  BY <1>1 DEF Reached
<1>4. \A i \in 1 .. Len(checks) : GivenUp(checks[i])
  BY <1>3, AbandonedNoTrouble
<1>5. CASE env.error = "repository_state_changed"
  <2>1. ReasonReplaced
    BY <1>2, <1>4, <1>5 DEF ReasonReplaced
  <2> QED BY <2>1, ReplacedIsRefused DEF Disagreement
<1>6. CASE env.error # "repository_state_changed"
  <2>1. /\ EnvironmentFailed(env)
        /\ (StageAgrees(env) /\ EnvironmentAgrees(env)) <=>
              ~(\/ env.manager /\ Cut(UvVersion(env))
                \/ Observed(env) /\ Cut(Probe(env))
                \/ NoUvToRun \/ LostHalfway)
    BY <1>1, <1>6, StoppedEnvironment
  <2>2. \A i \in 1 .. Len(checks) :
           /\ CheckAgrees(Built, CheckResult(checks[i], Built.pytest))
           /\ IsThePytest(checks, i) => SoundResults(Built) /\ ~PytestDisagrees
    BY <1>3, <2>1, GivenUpAgrees
  <2>3. ("pytest" \in Range(plan.checks) => SoundResults(Built)) /\ ~PytestDisagrees
    BY <1>2, <2>2, PytestIsReported, NoPytestNoTrouble
  <2>4. OrderedProcesses(env)
    BY <1>1, ProcessesInOrder
  <2>5. ValidReport(Built) <=> Agreed
    BY <2>3, <2>4, ValidIfAgreed
  <2>6. \A i \in 1 .. Len(deps) :
           /\ deps[i].status = "unobserved" /\ deps[i].process = NoProcess
           /\ deps[i] = Unattempted(deps[i].name)
           /\ DependencyAgrees(deps[i], EnvironmentFailed(env))
    BY <1>3, <2>1, LeftOutAgrees
  <2>7. Range(deps) = {deps[i] : i \in 1 .. Len(deps)}
    BY <1>1 DEF Range
  <2>8. NothingProbed(env, deps)
    BY <2>6, <2>7 DEF NothingProbed
  <2>9. LossLeavesSuffixes(Built)
    <3>1. /\ Built.env = env /\ Built.deps = deps
          /\ Built.checks = [i \in DOMAIN checks |-> CheckResult(checks[i], Built.pytest)]
      BY RestOfReport DEF Built
    <3>2. \A i \in 1 .. Len(checks) : GivenUp(CheckResult(checks[i], Built.pytest))
      BY <1>4, ResultOfGivenUp
    <3> DEFINE shown == Built.checks
    <3>3. DOMAIN shown = 1 .. Len(checks) /\ \A i \in 1 .. Len(checks) : GivenUp(shown[i])
      BY <1>2, <3>1, <3>2
    <3> HIDE DEF Built
    <3> QED BY <1>2, <2>6, <3>1, <3>3 DEF LossLeavesSuffixes, OnlyASuffix
  <2>10. Agreed <=> StageAgrees(env) /\ EnvironmentAgrees(env)
    BY <2>2, <2>6, <2>8, <2>9 DEF Agreed
  <2>11. ~ReasonReplaced
    BY <1>6 DEF ReasonReplaced
  <2>12. CutDiagnostics <=> (env.manager /\ Cut(UvVersion(env))) \/ (Observed(env) /\ Cut(Probe(env)))
    BY <1>2, <2>6 DEF CutDiagnostics
  <2> QED BY <2>1, <2>3, <2>5, <2>10, <2>11, <2>12 DEF Disagreement, PytestDisagrees
<1> QED BY <1>5, <1>6

(* A Check that was reached is reported as the rules want it, unless there *)
(* is trouble with pytest.                                                 *)
LEMMA ReachedAgrees ==
  ASSUME Ended, ReportablePlan(plan), UsableEnd(env), \A j \in 1 .. Len(deps) : Seen(deps[j]),
         NEW i \in 1 .. Len(checks), CheckEvidence(plan, deps, checks[i])
  PROVE  /\ checks[i].error # "repository_environment_unavailable"
         /\ checks[i].name # "pytest" => CheckAgrees(Built, CheckResult(checks[i], Built.pytest))
         /\ checks[i].name = "pytest" =>
              /\ SoundResults(Built)
              /\ CheckAgrees(Built, CheckResult(checks[i], Built.pytest)) <=> ~PytestDisagrees
<1> DEFINE b == Built
           o == checks[i]
<1>1. b.plan = plan /\ b.env = env /\ b.deps = deps
  <2>1. Built.plan = plan /\ Built.env = env /\ Built.deps = deps
    BY ReportFollowsPlan
  <2> QED BY <2>1
<1>2. /\ SoundPlan(plan) /\ checks \in Seq(ObservationState) /\ Len(checks) = Len(plan.checks)
      /\ \A j \in 1 .. Len(checks) : checks[j].name = plan.checks[j]
  BY AtTheEnd
<1>3. o \in ObservationState /\ DOMAIN checks = 1 .. Len(checks)
  BY <1>2
<1>4. /\ Seen(DependencyOf(deps, DependencyNameForCheck(o.name)))
      /\ CoverageRequested(plan) => Seen(CoverageOwner)
  BY OwnersAreFound
<1>5. CASE o.name # "pytest"
  <2>1. OrdinaryEvidence(deps, o)
    BY <1>5 DEF CheckEvidence
  <2> HIDE DEF b, o
  <2>2. /\ UsableEnd(b.env) /\ OrdinaryEvidence(b.deps, o)
        /\ Seen(DependencyOf(b.deps, DependencyNameForCheck(o.name)))
    BY <1>1, <1>4, <2>1
  <2>3. /\ CheckAgrees(b, CheckResult(o, b.pytest))
        /\ o.error # "repository_environment_unavailable"
    BY <1>3, <1>5, <2>2, OrdinaryEvidenceAgrees
  <2> QED BY <1>5, <2>3 DEF b, o
<1>6. CASE o.name = "pytest"
  <2>1. IsThePytest(checks, i)
    BY <1>2, <1>6 DEF IsThePytest, SoundPlan, Distinct
  <2>2. PytestEvidence(plan, deps, o)
    BY <1>6 DEF CheckEvidence
  <2>3. Seen(PytestOwner)
    BY <1>4, <1>6 DEF PytestOwner, DependencyNameForCheck
  <2>4. /\ Built.pytest = ReportedPytest(plan, env, o, PytestOwner)
        /\ Built.coverage = IF CoverageRequested(plan)
                            THEN BuildCoverageResult(plan, Built.pytest, o.coverage, CoverageOwner.version)
                            ELSE NoCoverageResult
    BY <2>1, PytestIsBuilt
  <2>5. PytestDisagrees <=> PytestTrouble(Built, checks[i], PytestOwner, CoverageOwner)
    BY <1>3, <2>1, TroubleIsItsOwn
  <2> HIDE DEF o
  <2>6. AboutPytest(b, o, PytestOwner, CoverageOwner)
    BY <1>1, <1>3, <1>4, <1>6, <2>3, <2>4 DEF AboutPytest
  <2> HIDE DEF b
  <2>7. /\ PytestOwner = DependencyOf(b.deps, "pytest") /\ CoverageOwner = DependencyOf(b.deps, "coverage")
        /\ UsableEnd(b.env) /\ PytestEvidence(b.plan, b.deps, o)
    BY <1>1, <2>2 DEF PytestOwner, CoverageOwner
  <2>8. /\ SoundResults(b)
        /\ CheckAgrees(b, CheckResult(o, b.pytest)) <=> ~PytestTrouble(b, o, PytestOwner, CoverageOwner)
        /\ o.error # "repository_environment_unavailable"
    BY <2>6, <2>7, PytestEvidenceAgrees
  <2> QED BY <1>6, <2>5, <2>8 DEF b, o
<1> QED BY <1>5, <1>6

(* In a run whose environment was usable the first m dependencies were     *)
(* observed and the first l Checks were executed.                          *)
Proceeded(m, l) ==
  /\ ReportablePlan(plan) /\ UsableEnd(env) /\ Reached(plan, deps, checks, m, l)
  /\ l < Len(checks) => EnvironmentFailed(env)

LEMMA ChecksAgree ==
  ASSUME Ended, NEW m \in Nat, NEW l \in Nat, Proceeded(m, l)
  PROVE  /\ "pytest" \in Range(plan.checks) => SoundResults(Built)
         /\ (\A i \in 1 .. Len(checks) : CheckAgrees(Built, CheckResult(checks[i], Built.pytest)))
              <=> ~PytestDisagrees
         /\ \A i \in 1 .. l : ~GivenUp(checks[i])
<1>1. /\ SoundPlan(plan) /\ checks \in Seq(ObservationState) /\ Len(checks) = Len(plan.checks)
      /\ \A j \in 1 .. Len(checks) : checks[j].name = plan.checks[j]
      /\ deps \in Seq(DependencyState)
  BY AtTheEnd
<1>2. Len(checks) \in Nat /\ Len(deps) \in Nat /\ DOMAIN checks = 1 .. Len(checks) /\ l \in 0 .. Len(checks)
      /\ m \in 0 .. Len(deps)
  BY <1>1 DEF Proceeded, Reached
<1>3. ASSUME NEW i \in 1 .. l
      PROVE  /\ checks[i].error # "repository_environment_unavailable"
             /\ checks[i].name # "pytest" => CheckAgrees(Built, CheckResult(checks[i], Built.pytest))
             /\ checks[i].name = "pytest" =>
                  /\ SoundResults(Built)
                  /\ CheckAgrees(Built, CheckResult(checks[i], Built.pytest)) <=> ~PytestDisagrees
  <2>1. m = Len(deps) /\ i \in 1 .. Len(checks)
    BY <1>2 DEF Proceeded, Reached
  <2>2. /\ \A j \in 1 .. Len(deps) : Seen(deps[j])
        /\ CheckEvidence(plan, deps, checks[i]) /\ ReportablePlan(plan) /\ UsableEnd(env)
    BY <2>1 DEF Proceeded, Reached
  <2> QED BY <2>1, <2>2, ReachedAgrees
<1>4. ASSUME NEW i \in l + 1 .. Len(checks)
      PROVE  /\ CheckAgrees(Built, CheckResult(checks[i], Built.pytest))
             /\ IsThePytest(checks, i) => SoundResults(Built) /\ ~PytestDisagrees
  <2>1. l < Len(checks) /\ i \in 1 .. Len(checks) /\ Abandoned(checks[i])
    BY <1>2 DEF Proceeded, Reached
  <2>2. EnvironmentFailed(env)
    BY <2>1 DEF Proceeded
  <2> QED BY <2>1, <2>2, GivenUpAgrees
<1>5. \A i \in 1 .. l : ~GivenUp(checks[i])
  BY <1>3 DEF GivenUp
<1>6. \A i \in 1 .. Len(checks) : i \in 1 .. l \/ i \in l + 1 .. Len(checks)
  BY <1>2
<1>7. CASE \E k \in 1 .. Len(checks) : IsThePytest(checks, k)
  <2>1. PICK k \in 1 .. Len(checks) : IsThePytest(checks, k)
    BY <1>7
  <2>2. /\ checks[k].name = "pytest"
        /\ \A i \in 1 .. Len(checks) : i # k => checks[i].name # "pytest"
    BY <2>1 DEF IsThePytest
  <2>3. /\ SoundResults(Built)
        /\ CheckAgrees(Built, CheckResult(checks[k], Built.pytest)) <=> ~PytestDisagrees
    BY <1>3, <1>4, <1>6, <2>1, <2>2
  <2>4. \A i \in 1 .. Len(checks) : i # k => CheckAgrees(Built, CheckResult(checks[i], Built.pytest))
    BY <1>3, <1>4, <1>6, <2>2
  <2> QED BY <1>5, <2>1, <2>3, <2>4
<1>8. CASE ~\E k \in 1 .. Len(checks) : IsThePytest(checks, k)
  <2>1. "pytest" \notin Range(plan.checks) /\ \A i \in 1 .. Len(checks) : checks[i].name # "pytest"
    BY <1>8, PytestIsReported
  <2>2. ~PytestDisagrees
    BY <1>2, <2>1, NoPytestNoTrouble
  <2>3. \A i \in 1 .. Len(checks) : CheckAgrees(Built, CheckResult(checks[i], Built.pytest))
    BY <1>3, <1>4, <1>6, <2>1
  <2> QED BY <1>5, <2>1, <2>2, <2>3
<1> QED BY <1>7, <1>8

LEMMA DependenciesAgree ==
  ASSUME Ended, NEW m \in Nat, NEW l \in Nat, Proceeded(m, l)
  PROVE  /\ (\A i \in 1 .. Len(deps) : DependencyAgrees(deps[i], EnvironmentFailed(env)))
              <=> ~\E i \in DOMAIN deps : deps[i].status # "unobserved" /\ Cut(deps[i].process)
         /\ \A i \in 1 .. m : deps[i].process # NoProcess
         /\ \A i \in m + 1 .. Len(deps) : deps[i].status = "unobserved" /\ deps[i].process = NoProcess
<1>1. /\ SoundPlan(plan) /\ Len(checks) = Len(plan.checks) /\ deps \in Seq(DependencyState)
  BY AtTheEnd
<1>2. Len(deps) \in Nat /\ DOMAIN deps = 1 .. Len(deps) /\ m \in 0 .. Len(deps)
  BY <1>1 DEF Proceeded, Reached
<1>3. m < Len(deps) => EnvironmentFailed(env)
  <2>1. Len(checks) > 0
    BY <1>1 DEF SoundPlan
  <2> QED BY <2>1 DEF Proceeded, Reached
<1> DEFINE agrees(i) == DependencyAgrees(deps[i], EnvironmentFailed(env))
           cut(i) == deps[i].status # "unobserved" /\ Cut(deps[i].process)
<1>4. \A i \in 1 .. m : deps[i].process # NoProcess /\ (agrees(i) <=> ~cut(i))
  <2>1. \A i \in 1 .. m : Seen(deps[i])
    BY DEF Proceeded, Reached
  <2> QED BY <2>1, SeenAre, SeenAgrees
<1>5. \A i \in m + 1 .. Len(deps) :
         deps[i].status = "unobserved" /\ deps[i].process = NoProcess /\ agrees(i)
  <2> SUFFICES ASSUME NEW i \in m + 1 .. Len(deps)
               PROVE  deps[i].status = "unobserved" /\ deps[i].process = NoProcess /\ agrees(i)
    OBVIOUS
  <2>1. EnvironmentFailed(env) /\ LeftOut(deps[i])
    BY <1>2, <1>3 DEF Proceeded, Reached
  <2> QED BY <2>1, LeftOutAgrees
<1>6. \A i \in m + 1 .. Len(deps) : ~cut(i)
  BY <1>5
<1> HIDE DEF agrees, cut
<1>7. \A i \in 1 .. Len(deps) : i \in 1 .. m \/ i \in m + 1 .. Len(deps)
  BY <1>2
<1>8. \A i \in 1 .. Len(deps) : agrees(i) <=> ~cut(i)
  BY <1>4, <1>5, <1>6, <1>7
<1>9. (\A i \in 1 .. Len(deps) : agrees(i)) <=> ~\E i \in DOMAIN deps : cut(i)
  BY <1>2, <1>8
<1> QED BY <1>4, <1>5, <1>9 DEF agrees, cut

(* What was not attempted follows what was.                                *)
LEMMA SuffixesAreLeft ==
  ASSUME Ended, NEW m \in Nat, NEW l \in Nat, Proceeded(m, l)
  PROVE  LossLeavesSuffixes(Built)
<1>1. /\ checks \in Seq(ObservationState) /\ deps \in Seq(DependencyState)
  BY AtTheEnd
<1>2. /\ Len(deps) \in Nat /\ DOMAIN deps = 1 .. Len(deps) /\ m \in 0 .. Len(deps)
      /\ Len(checks) \in Nat /\ DOMAIN checks = 1 .. Len(checks) /\ l \in 0 .. Len(checks)
  BY <1>1 DEF Proceeded, Reached
<1>3. /\ \A i \in 1 .. m : deps[i].process # NoProcess
      /\ \A i \in m + 1 .. Len(deps) : deps[i].status = "unobserved" /\ deps[i].process = NoProcess
  BY DependenciesAgree
<1>4. \A i, j \in DOMAIN deps :
        (i < j /\ deps[i].status = "unobserved" /\ deps[i].process = NoProcess)
          => deps[j].status = "unobserved" /\ deps[j].process = NoProcess
  <2>1. \A i, j \in 1 .. Len(deps) : i < j => i \in 1 .. m \/ j \in m + 1 .. Len(deps)
    BY <1>2
  <2> QED BY <1>2, <1>3, <2>1
<1>5. \A i \in 1 .. l : ~GivenUp(checks[i])
  BY ChecksAgree
<1>6. \A i \in l + 1 .. Len(checks) : GivenUp(checks[i])
  BY AbandonedNoTrouble DEF Proceeded, Reached
<1>7. /\ Built.env = env /\ Built.deps = deps
      /\ Built.checks = [i \in DOMAIN checks |-> CheckResult(checks[i], Built.pytest)]
  BY RestOfReport DEF Built
<1> DEFINE b == Built
           shown == b.checks
           r == b.pytest
<1>8. /\ b.env = env /\ b.deps = deps
      /\ shown = [i \in DOMAIN checks |-> CheckResult(checks[i], r)]
  BY <1>7
<1> HIDE DEF r, shown, b
<1>9. DOMAIN shown = 1 .. Len(checks) /\ \A i \in 1 .. Len(checks) : GivenUp(shown[i]) <=> GivenUp(checks[i])
  BY <1>2, <1>8, ResultOfGivenUp
<1>10. \A i, j \in DOMAIN shown : i < j /\ GivenUp(shown[i]) => GivenUp(shown[j])
  <2>1. \A i, j \in 1 .. Len(checks) : i < j => i \in 1 .. l \/ j \in l + 1 .. Len(checks)
    BY <1>2
  <2> QED BY <1>5, <1>6, <1>9, <2>1
<1>11. LossLeavesSuffixes(b)
  BY <1>4, <1>8, <1>10 DEF LossLeavesSuffixes, OnlyASuffix, shown
<1> QED BY <1>11 DEF b

(* When the environment was usable, the report is refused for what was     *)
(* observed of it, of the dependencies and of the Check of pytest.         *)
LEMMA UsableReport ==
  ASSUME Ended, ReportablePlan(plan), NEW core \in Cores, NEW tail \in Tails,
         Laid(env.processes, core, tail), NEW error, Usable(env, core, error),
         Verified(env, error, tail), NEW m \in Nat, NEW l \in Nat, Reached(plan, deps, checks, m, l),
         l < Len(checks) => error # "none"
  PROVE  ValidReport(Built) <=> ~Disagreement
<1>1. /\ env \in EnvironmentState /\ checks \in Seq(ObservationState)
  BY AtTheEnd
<1>2. /\ env.error \in {"none", "repository_state_changed", "unsafe_repository_environment"}
      /\ error # "none" => env.error # "none"
      /\ StageAgrees(env) /\ env.manager /\ Observed(env) /\ ~NoUvToRun /\ ~LostHalfway
      /\ UnsafeAfterPreparation(env) <=> env.error = "unsafe_repository_environment"
      /\ EnvironmentFailed(env) <=> env.error = "unsafe_repository_environment"
      /\ EnvironmentAgrees(env) <=> (~Cut(UvVersion(env)) /\ ~Cut(Probe(env)))
  BY <1>1, UsableEnvironment
<1>3. CASE ReasonReplaced
  BY <1>3, ReplacedIsRefused DEF Disagreement
<1>4. CASE ~ReasonReplaced
  <2>1. UsableEnd(env)
    BY <1>2 DEF UsableEnd
  <2>2. l < Len(checks) => EnvironmentFailed(env)
    <3> SUFFICES ASSUME l < Len(checks)
                 PROVE  EnvironmentFailed(env)
      OBVIOUS
    <3>1. Len(checks) \in Nat /\ DOMAIN checks = 1 .. Len(checks)
      BY <1>1
    <3>2. Len(checks) \in l + 1 .. Len(checks) /\ Len(checks) \in DOMAIN checks
      BY <3>1
    <3>3. GivenUp(checks[Len(checks)])
      BY <3>2, AbandonedNoTrouble DEF Reached
    <3>4. env.error # "repository_state_changed"
      BY <1>4, <3>2, <3>3 DEF ReasonReplaced
    <3> QED BY <1>2, <3>4
  <2>3. Proceeded(m, l)
    BY <2>1, <2>2 DEF Proceeded
  <2>4. /\ "pytest" \in Range(plan.checks) => SoundResults(Built)
        /\ (\A i \in 1 .. Len(checks) : CheckAgrees(Built, CheckResult(checks[i], Built.pytest)))
             <=> ~PytestDisagrees
    BY <2>3, ChecksAgree
  <2>5. (\A i \in 1 .. Len(deps) : DependencyAgrees(deps[i], EnvironmentFailed(env)))
          <=> ~\E i \in DOMAIN deps : deps[i].status # "unobserved" /\ Cut(deps[i].process)
    BY <2>3, DependenciesAgree
  <2>6. LossLeavesSuffixes(Built)
    BY <2>3, SuffixesAreLeft
  <2>7. NothingProbed(env, deps)
    BY <1>2 DEF NothingProbed
  <2>8. OrderedProcesses(env)
    BY <1>1, ProcessesInOrder
  <2>9. ValidReport(Built) <=> Agreed
    BY <2>4, <2>8, ValidIfAgreed
  <2> DEFINE cutDeps == \E i \in DOMAIN deps : deps[i].status # "unobserved" /\ Cut(deps[i].process)
  <2>10. CutDiagnostics <=> Cut(UvVersion(env)) \/ Cut(Probe(env)) \/ cutDeps
    BY <1>2 DEF CutDiagnostics
  <2>11. Agreed <=> ~Cut(UvVersion(env)) /\ ~Cut(Probe(env)) /\ ~cutDeps /\ ~PytestDisagrees
    BY <1>2, <2>4, <2>5, <2>6, <2>7 DEF Agreed
  <2> HIDE DEF cutDeps
  <2> QED BY <1>2, <1>4, <2>9, <2>10, <2>11 DEF Disagreement, PytestDisagrees
<1> QED BY <1>3, <1>4

(* Every evidence is accounted for.                                        *)
LEMMA EvidenceIsAccountedFor ==
  ASSUME SafeInv, EvidenceInv
  PROVE  RefusalIsExplained
<1> SUFFICES ASSUME report \in {"shown", "refused"}
             PROVE  (report = "refused") <=> Disagreement
  BY DEF RefusalIsExplained
<1>1. Ended
  BY DEF Ended, SafeInv, ExitInv, Refused
<1>2. /\ ReportablePlan(plan) /\ Reporting(plan, env, deps, checks)
      /\ report = IF ValidReport(Built) THEN "shown" ELSE "refused"
  BY <1>1 DEF Ended, EvidenceInv, Evidence
<1>3. checks \in Seq(ObservationState) /\ deps \in Seq(DependencyState)
  BY <1>1, AtTheEnd
<1>4. PICK core \in Cores, tail \in Tails : Laid(env.processes, core, tail) /\
        \E error \in EnvironmentError, m \in 0 .. Len(deps), l \in 0 .. Len(checks) :
          Outcome(plan, env, deps, checks, core, error, m, l) /\ Verified(env, error, tail)
  BY <1>2 DEF Reporting
<1>5. PICK error \in EnvironmentError, m \in 0 .. Len(deps), l \in 0 .. Len(checks) :
        Outcome(plan, env, deps, checks, core, error, m, l) /\ Verified(env, error, tail)
  BY <1>4
<1>6. /\ Reached(plan, deps, checks, m, l)
      /\ \/ Stopped(env, core, error) /\ m = 0 /\ l = 0
         \/ Usable(env, core, error) /\ (l < Len(checks) => error # "none")
  BY <1>5 DEF Outcome
<1>7. ValidReport(Built) <=> ~Disagreement
  <2>1. CASE Stopped(env, core, error) /\ m = 0 /\ l = 0
    BY <1>1, <1>2, <1>4, <1>5, <1>6, <2>1, StoppedReport
  <2>2. CASE Usable(env, core, error) /\ (l < Len(checks) => error # "none")
    <3>1. m \in Nat /\ l \in Nat
      BY <1>3
    <3> QED BY <1>1, <1>2, <1>4, <1>5, <1>6, <2>2, <3>1, UsableReport
  <2> QED BY <1>6, <2>1, <2>2
<1> QED BY <1>2, <1>7

(* The report is refused exactly in the circumstances that are named, in   *)
(* every run of every plan.                                                *)
THEOREM RefusalIsAccountedFor == Spec => []RefusalIsExplained
<1>1. SafeInv /\ EvidenceInv => RefusalIsExplained
  BY EvidenceIsAccountedFor
<1> QED BY SpecHasEvidence, <1>1, PTL

=============================================================================
