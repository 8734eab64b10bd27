# A verification development for pyrepo-check

pyrepo-check runs a project's Checks (ruff, annotations, ty, bandit, pytest) in
the project's own locked environment and reports what happened. What makes it
hard is not the Checks but the promises around them: a result is either complete
or it is an error, no evidence of a process that ran is ever lost, nothing is
deleted that was not validated, and a change of the repository does not go
unnoticed. These promises are kept by code that watches child processes with
threads, that takes file identities before and after each use, and in which
almost every step may fail. This directory holds TLA+ models of that code, TLC
configurations that check them on small instances, and TLAPS proofs of the
results that matter most for every instance.

Source paths below are relative to `src/src/pyrepo_check/`; "design" is
`src/docs/superpowers/specs/2026-08-24-agent-guidance-reporting-design.md`.

## 1. Inventory

| Component (source) | State it keeps | Operations | Talks to |
|---|---|---|---|
| Process execution (`execution.py`) | child, two pipes, two reader threads, result queue, tail accumulators | `execute_process`, `_run_bounded_process`, `_drain_pipe`, `_cleanup_failed_process` | everything that runs a process |
| Repository run (`repository_executor.py`) | the Check at hand, observations, first repository error | `execute_repository_plan`, one Check, its conclusion, the verification | all of the components below |
| Repository safety (`repository_safety.py`) | baseline snapshot, incremental index parser | capture, parse `git ls-files`, verify | executor, process execution (as a stdout consumer) |
| Execution workspaces (`execution_workspace.py`) | run directory, held descriptor, manifest, quarantine | create, open, verify, remove | executor |
| Controller helpers (`controller_tools.py`) | pinned identities of uv and git | resolve, `path_for_use` | executor, environment, safety |
| Repository Environment (`repository_environment.py`) | lock, storage boundaries, probed Python and dependencies | inspect lock, prepare, probe | executor |
| Check launching (`check_launcher.py`, `_check_launcher.py`) | staged launcher, start marker | stage, revalidate, publish (inner process), validate | executor, inner process |
| Prepared pytest (`pytest_execution.py`) | report and coverage artifacts, writer markers | run, snapshot artifacts, generate coverage JSON | executor, plugin |
| Reporter plugin (`_pytest_report_plugin.py`) | session evidence, writer registration | pytest hooks, publish | pytest, `pytest_evidence.py` |
| pytest evidence (`pytest_evidence.py`) | none | validate, consolidate, classify the exit | executor, reporting |
| Coverage (`coverage_execution.py`, `coverage_dependency.py`, `coverage_evidence.py`, `_coverage_json_launcher.py`) | data snapshot, staged dependency | snapshot, verify, convert, validate | prepared pytest |
| Safe reads and copies (`artifact_safety.py`, `filesystem.py`) | an open descriptor | bounded read, digest, copy | all that read files |
| Planning and configuration (`planning.py`, `config.py`) | none | select Checks, order, targets | command line |
| Command line and reporting (`cli.py`, `runner.py`, `reporting.py`, `reporting_schema.py`) | none | parse, execute, build and validate the report, render, exit code | user |
| Windows support (`_windows_files.py`, `_windows_workspace.py`) | handles | private files, removal | workspaces |

The behaviours that are hard, and what makes each component correct:

- *Process execution.* Three threads of the program, the child, its descendants
  and the kernel interleave; every call may raise; a shared 200 ms deadline
  races with a child that ignores SIGTERM. Correct when a return code is never
  handed out with a part of the output, when a failed call tries everything it
  has to end a live child, whatever of it raises, when each pipe is closed by one
  thread, and when the call always comes back.
- *Repository run.* Helpers and files may be replaced and put back between any
  two steps, every step may fail, and exceptions travel through two `finally`
  blocks. Correct when each Check has exactly one observation in plan order,
  started processes stay in it, Checks do not affect each other, errors are not
  overwritten, and a baseline that exists is always compared.
- *Index parser.* Chunks cut records anywhere. Correct when the cut does not
  matter and a listing is published entirely or not at all.
- *Workspace removal.* Anyone may rename objects between a check and the system
  call that relies on it. Correct when nothing is unlinked that was not
  validated, when success means that exactly the validated tree is gone, and
  when what stays behind is reported.
- *Start evidence.* The inner process may be killed in the middle of writing
  its marker. Correct when only the complete marker of this invocation is
  accepted, so that findings are never made out of a failure of uv.
- *pytest evidence.* The plugin lives in a process that the consumer's code
  shares: it may die, be called out of order, be given other options, end with
  another exit code than it recorded, or be loaded by a second process. Correct
  when an accepted artifact is the whole session, when "complete" means that
  every test was run, and when an ordinary session is never refused.
- *Reads of artifacts and coverage data.* Files change while they are read, by
  a launcher that outlives uv or by processes that the tests left behind.
  Correct when what is accepted is one state the file really had, and when a
  coverage document was converted from the data that were looked at.
- *Planning and reporting.* No concurrency, but many cases that meet: the
  planner combines six options; the report repeats, in 1,100 lines of rules,
  what the controller may observe, and refuses what it does not expect. Correct
  when the plan does what was asked for, when exit codes 0 and 1 rest on
  evidence of everything, when no error is lost, and when every observation of
  the controller can be reported.

## 2. Plan

In order of importance; done modules are marked.

1. `CaptureContract`, `BoundedProcess`, `BoundedProcessProofs` (done): the concurrency every other part rests on.
2. `TailCapture`, `IndexParser`, `IndexListing` and `IndexListingProofs` (done):
   the two consumers of a stream cut into chunks, and their composition behind
   one pipe.
3. `RunContract`, `RepositoryRun` (done): the orchestration; it takes an outcome
   of a process, a marker or a cleanup where the other modules say how that
   outcome comes about.
4. `WorkspaceCleanup`, `WorkspaceCleanupProofs` (done): the removal
   `RepositoryRun` treats as one step.
5. `EvidenceFiles`, `EvidenceFilesProofs` (done): the marker
   protocol, the bounded reads and the conversion of coverage data, in one
   workspace that others may write to.
6. `PytestEvidence`, `PytestReporter`, `PytestReporterProofs` (done): the plugin in a pytest session that
   its consumer may disturb, and `pytest_evidence.py` as its reader.
7. `Planning`, `RunEvidence`, `ReportBuilder`, `ReportRules`, `ReportedRun`,
   `ReportedRunProofs`, `ReportedRunEvidence` (done): the pure parts as operators, a
   run from the request to the exit code that is composed of them, and, for every
   set of invocations, what its exit code rests on and when its report is refused.
8. The file-by-file capture and verification of `repository_safety.py`.
9. The uv storage boundaries of `repository_environment.py`.
10. A Windows counterpart of `WorkspaceCleanup`.
11. `RepositoryRunProofs` (done): the orchestration for every
    set of plans.

## 3. The modules

### CaptureContract and BoundedProcess: one child process

`CaptureContract` is what callers of `execute_process` rely on: one call ends
either with an account of every byte the child's family ever wrote, after which
nobody writes any more, or as a failure without any output.

`BoundedProcess` is `_run_bounded_process` and `_cleanup_failed_process`. Actors
and their actions:

- the calling thread (`pc`): `Spawn`, `ConstructReader`, `StartReader`,
  `AppendReader` (three separate steps, because a failure or an interrupt may
  come between any two of them), `GetResult`, `JoinReaders`, `WaitChild`, and the
  cleanup `Terminate`, `WaitReaps` or `WaitExpires`, `Kill`, the same wait again,
  `ClosePipe`, `PipesClosed`, `ReturnFailure`; where a call of the code can raise
  outside of the cleanup there is a fault (`SpawnFault`, `ReaderFault`, `WaitFault`);
- the failures of the cleanup itself: `terminate`, `wait`, `kill`, `close` and
  `join` are wrapped in `except BaseException` and passed over
  (`execution.py:554-588`), and `tests/test_execution.py` injects such failures.
  `TerminateRaises`, `KillRaises`, `WaitRaises`, `CloseRaises` and `JoinRaises` are
  these failures: a signal may have been sent before its call raised or not, a wait
  may have reaped the child or not, a pipe may be closed or not, and the next call is
  made as if nothing had happened. The history variable `lapses` remembers what
  raised, and the properties on what a failed call leaves behind say exactly what a
  lapse excuses;
- KeyboardInterrupt, which reaches the calling thread at one of three kinds of
  places: inside the `try` block, where the cleanup follows (`Interrupt`); inside a
  call of the cleanup, where it is one of the exceptions that are passed over; and
  where no handler is, from `Popen` to the `try` block and between the calls of the
  cleanup, where the call ends at once (`InterruptUnguarded`), or after the last
  `wait`, with the child reaped and nothing handed out (`InterruptReturn`);
- a reader thread per captured pipe (`_drain_pipe`): `readinto` fills the buffer
  (`ReaderTake`, `ReaderChunk`) or finds the end (`ReaderEof`), `ReaderFeed` feeds
  the accumulator and the consumer, `ReaderClose` is the `finally` block and
  `ReaderPut` the result; the read and the consumer may raise (`DrainFault`,
  `ConsumerFault`), and a read from a pipe that the main thread closed does
  (`DrainClosed`);
- the child and a descendant that inherited the pipes: they write, block on a
  full pipe, exit, fork, react to signals or ignore SIGTERM;
- time: the shared cleanup deadline expires at any moment of the cleanup.

A unit of output stands for a byte. Which bytes are retained is the subject of
`TailCapture`. The three values of `mode` are the three ways the callers use the
code: output inherited by the child (terminal), captured, and captured with a
stdout consumer (`git ls-files`).

### TailCapture: the bytes that are kept

`_TailAccumulator` (`Feed`, `Finish`) next to `_normalize_buffered_output`, the
cut an injected runner's output gets; the history variable `stream` is what was
fed.

### IndexParser and IndexListing: `git ls-files` in chunks

`IndexParser` is `_TrackedIndexParser` with `feed`, `_consume_record` and
`finish`. Its loops are recursive functions, so that they can be reasoned about.
A record is a sequence of symbols between two NULs; path symbols, a stage other
than 0 and anything the pattern or the path rules reject are told apart. The
reference `Listing` reads the whole stream at once.

`IndexListing` composes it with `TailCapture` the way `_drain_pipe` does: `Drain`
feeds a chunk to the accumulator, `Hand` gives the same chunk to the parser,
`GitEnds` lets git exit or be killed after any part of its listing,
`CaptureFails` stands for a reader that raised between the two, and `Parse` is
the controller, which compares the number of bytes the parser saw with the tail
and the omitted bytes of the process. In the composition this comparison never
fails: it guards against an accumulator that counts wrongly, which the mutants
show. An injected runner's output goes to the same consumer in the same chunks
and through the same cut (`execution.py:400-412`).

### RunContract and RepositoryRun: the orchestration

`RunContract`: one observation per planned Check, in plan order, none withdrawn,
and a report only when all are in. `RepositoryRun` is `execute_repository_plan`
with `prepare_safe_repository`, `execute_invocation`, `_execute_in_workspace`,
`execute_prepared_pytest` and `verify_repository_state` as far as they decide
the fate of a Check:

- preparation: `LockPresent`/`LockAbsent`, `CaptureProtected`, `CaptureTracked`,
  `Prepare`, `ProbeDependency`, with their failures and the loss of a helper;
- a Check: `BeginCheck` or `DependencyUnavailable`, `CreateWorkspace`,
  `OpenWorkspace`, `StageLauncher`, `Launch`, `ProcessEnds`, `CoverageJson`, then
  the `finally` block `CloseWorkspace`, `RemoveWorkspace` and one of the four
  `Conclude...` actions, one per way out of `_execute_in_workspace`;
- the outer `finally`: `VerifyProtected`, `VerifyTarget`, `VerifyElsewhere`,
  `Compare`, `Finish`;
- the rest of the world: `HelperReplaced`/`HelperRestored` (a path that stops
  or resumes to lead to the pinned file), `Mutate`/`Restore` (a part of the
  repository that differs from its baseline), `InnerStarts` (the inner process
  publishes its marker) and `Interrupt`.

A return code is a small number because a Check takes 0 and 1 (pytest 5 as well)
for findings. `Part` groups files by what the verification does with them:
protected files, the targets annotations-fix may rewrite, the rest.

### Planning, RunEvidence, ReportBuilder, ReportRules and ReportedRun: from the request to the exit code

`Planning` is `plan_run`: the refusals in their order, the selection and the
scopes. `RunEvidence` has the processes and what
`repository_environment.py` reads out of them. `ReportBuilder` is
`build_pytest_result`, `build_coverage_result` with its gate and threshold,
`build_run_report` and `select_exit_code`. `ReportRules` is
`_validate_run_report_v2` with the rules it calls, translated apart from the
builder because the code has them apart as well.

`ReportedRun` drives these operators through a run with `--format json`:
`Refuse` or `Plan`, the preparation (`LockPresent`, `CaptureBaseline`,
`RunUvVersion`, `RunProbe`, `ProbeDependency` and the ways they fail), each Check
(`EnterWorkspace`, `RunOrdinary` or `RunPytest`, the decision on coverage and
`Convert`, `CloseWorkspace`), `Verify` with the precedence of errors in the
`finally` block, and `Report`. Where `RepositoryRun` interleaves these steps with
the rest of the world, `ReportedRun` keeps the evidence that each of them leaves:
the role, outcome, exit code and truncation of every process, the status and
version of every dependency, the session and artifact of pytest, the conversion
of its coverage. A step *departs* when it does not end as in a git worktree
where all is well, and `DeviationBound` is the number of departures of one run.
The properties that say what the user is told are stated over both the
observations and the report.

The translation was compared with the code itself: for every final state of a
run (19,701 with one departure over 192 invocations, 58,656 with two over four
plans) the observations were turned into the objects of the code and handed to
the real `plan_run`, `build_run_report`, `validate_report_v2` and
`select_exit_code`. Plan, refusal, report status and exit code agreed in all of
them.

Left out: advisories, captured bytes and their digests, durations and paths
(the builder and the rules only copy and compare them), and the failure of the
terminal progress output (`cli.py:180-202`), which needs `--format terminal`.

### EvidenceFiles: what a Check leaves in its workspace

The controller's way through the files of one instrumented pytest Check: the
start marker (`OpenFile`, `ReadBlock`, `JudgeMarker`, `UnlinkMarker`), the
snapshot of the coverage data (`Scan`, `Identify`, `Digest`, `Copy`), its
verification twice before and once after the conversion (`Surroundings`,
`Verify`, `Reidentify`), `Destination`, `EnsureStaged`, the conversion, and the
document (`Classify`, `ReadDocument`). Every read is `OpenFile`, a `ReadBlock` per
block and the comparison of `fstat` with the one at the start (`Unchanged`).
Against it run the launcher (`PublishStart`, `PublishRest`), which goes on when
uv was killed and it was not, and the processes that the tests left behind
(`WriteData`, `ReplaceOrRemoveData`, `RivalData`, `DamageInput`,
`DamageDocument`): they may change, cut, replace or remove the coverage data,
damage the copy or the staged Coverage.py and put them right again, and create,
rewrite, replace or remove `coverage.json`, before, during and after the
conversion. A file has an inode number, which may be used again, a time stamp and
its blocks; under a coarse clock two writes may bear the same stamp.

The code cannot detect all of this. It holds no identity of `coverage.json`
between the conversion and `snapshot_coverage_json` (`coverage_execution.py:483-507`);
it looks at the staged Coverage.py before and after the conversion and at the copy
in the verifications, and what is changed in between and put back shows in neither
look; and a change of the data that keeps their size within one tick of the clock
shows only if another read differs. The history variable `unseen` records each of
these four, `"json"`, `"staged"`, `"copy"` and `"data"`, at the step that makes it
undetectable; nothing of the code reads it. A changed Coverage.py may write
anything (`ConverterCloses`).

### WorkspaceCleanup: removing a run directory

`remove_run_workspace` on POSIX: validation walk, deletion walk, the leaf's
rename into the quarantine with a second look, `rmdir` with its proof, and the
report of what stays behind. An object is an inode, `home` is where it is
linked; directory descriptors are objects, so that a descriptor goes on
denoting a directory that was moved. `TakeAway`, `PutInPlace` and
`PutParentBack` are what other processes do between two system calls. A system
call of the setup, of the walks and of the deletion may raise
(`SystemCallFails`), and the five-second deadline may pass (`DeadlinePasses`,
noticed where the code looks: `BudgetExceeded`). The report of what stays behind
is six calls of `stat`, three for the run directory and three for the quarantine
(`ObserveRun`, `RelativeRun`, `LexicalRun`, `ObserveQuarantine`,
`RelativeQuarantine`, `LexicalQuarantine`); others may act between any two of them,
and each may raise (`LookFails`), upon which the code reports nothing of this
directory (`execution_workspace.py:969-970,1008-1009`). The history variable
`missed` remembers that a look at the quarantine raised, or that the quarantine or
the parent was moved after the first of its three calls. `Finish` closes the
descriptors. Simplified: objects have one link, all directories are on one device, and others do not look
into the quarantine, whose name is random and which only the user may enter.
The name-by-name deletion order is any order, as `scandir` promises none.

### PytestEvidence and PytestReporter: one pytest session and its judge

`PytestEvidence` holds the operators of `pytest_evidence.py`: `Verdict` with its
order of defects, the validation of the collection and of the reports (`Sound`),
the outcome of a test (`Consolidated`), and when a session is complete.

`PytestReporter` is the plugin: one action per hook, a wrapper hook being two
where other plugins act in its middle (`ModifyBegin`/`ModifyEnd`,
`FinishBegin`/`FinishEnd`), the terminal publication from its exit handler
(`Finalize`), and then pyrepo-check's `TakeInventory` of the writer markers and
`ReadArtifact`, in this order. `Hook` is `observe_hook`: what a hook does while
the plugin is open, and the withdrawal of the artifact by any hook after it
closed. What a hook looks at is what its function reads: `remember_args` the
arguments (`ArgsRemembered`), `remember_config` the options only
(`ConfigRemembered`: `pytest_configure`, `pytest_sessionstart`, the node hooks of
`pytest_xdist_setupnodes`, the first halves of the two wrappers), `refresh_scope`
both (`Refreshed`). `observed` collects only what was looked at. External, and
modelled from how the plugin depends on it, is pytest: the
order of its hooks, which ones it still calls when a session is cut short
(`pytest_collection_finish` always, `pytest_sessionfinish` only after
`pytest_sessionstart` returned), and its exit codes. The consumer's irregular
steps are in `Stray`: options that change, reports that are replayed, hooks called
early or late, exceptions, tests that are not run, another exit status, the end of
the process (`EndBeforeStart` before the plugin registered a session), and a second
process with the plugin, which registers its marker and publishes a document that
is unfinished, finished without tests, or a collected and finished session of its
own (`OtherDocument`). `pytest_evidence.py` is modelled as it is: it compares the
writer of the artifact with the sole marker and does not know which process was run. Of the options the model has
the arguments and one keyword expression; lists and flags only ever grow in the
code. Node IDs are unique. Not in the model: a process forked by a test that goes
on running pytest under the same writer ID, and a second session in one process.

## 4. The runs

| Run | What it shows |
|---|---|
| `capture` | with a fault or an interrupt and two calls of the cleanup that raise: completeness of accepted output, the sole closer of a registered reader, the kill of an abandoned child, what an early cleanup may leave behind, no late consumer, the refinement of `CaptureContract`, and the liveness of a call and of a failure (389 thousand states) |
| `capture_interrupt_closer` | **violated**: finding 1 |
| `index_listing` | the tail is the suffix of the stream, streamed equals buffered, and the parser agrees with a reading of the whole listing (466 thousand states) |
| `repository_run` | fate of Checks, evidence, errors, workspaces and repository, the refinement of `RunContract`, that a captured baseline is always compared, and that a run ends (1.5 million states) |
| `repository_run_retained` | **violated**: finding 2 |
| `workspace_cleanup` | what the removal unlinks, when it may report success, what it reports unless its last look fails or is disturbed, that it ends (987 thousand states) |
| `pytest_session` | an accepted artifact of the process that was run is its whole session, and a late hook is never overlooked; one of another process is accepted only if the first never registered; a complete session in full scope ran every test; an undisturbed session is judged on its merits (4.0 million states) |
| `pytest_cut_collection` | **violated**: finding 3 |
| `reported_run` | the plan answers the request; exit codes 0 and 1 rest on whole evidence; the threshold that is reported is the one that was applied; nothing observed is forgotten; and the extent of finding 5: the report refuses its own evidence exactly in nine circumstances (384 thousand states) |
| `reported_run_fix_alone` | **violated**: finding 4 |
| `reported_run_document` | **violated**: finding 5 |
| `evidence_files` | a bounded read is one moment of the file; an accepted marker is whole; an accepted coverage document is the conversion of the data that were digested, but for the changes that no later look can tell (4.1 million states) |

`CHECK_DEADLOCK FALSE` is given wherever the system stops for good: a call that
returned, a stream that was finished, a run that reported.

**Bounds and why they are enough.**

- `BoundedProcess`: pipes of one unit and a buffer of two, so that a child blocks
  on a full pipe and `readinto` blocks half-way; two units per stream make a
  full buffer, a short one at end of file and an empty one. One fault or
  interrupt brings the call into its cleanup; two lapses let both waits raise, or
  a signal and a close, or a call and then an interrupt that ends the cleanup.
  The mode without a consumer differs from that with one in a count only and is
  left to the proofs.
- `IndexListing`: limit three, chunks of one to four and listings of up to six
  symbols: chunks below, at and above the limit that underfill, fill exactly
  and overflow the tail; records of up to two symbols: a record too long by one,
  a path twice, merged and unmerged, and all cuts.
- `RepositoryRun`: three plans (annotations-fix alone, two Checks that share a
  dependency, bandit and pytest with coverage); two disturbances, so that
  something is replaced and put back, or two helpers, or a helper and a file, are
  affected.
- `WorkspaceCleanup`: a file, a subdirectory with a file, a foreign file and a
  foreign directory; three moves by others (swap an object and swap it back
  needs two, a swap of the parent as well three), one failing system call, and
  as many entries allowed as there are at first, so that the tree fits and an
  addition does not. A failing look counts as the failing call.
- `PytestReporter`: two tests, one of which may fail in its setup or, expectedly,
  later; scopes of which one extends another and of which two disagree; two
  irregular steps, so that an option is set and reset, or a second process
  registers and publishes, or one disturbance covers up another. A process that
  ends before it registers needs no irregular step (`EndBeforeStart`), so that two
  suffice for another process's session to be the one that is accepted. The exit codes
  that a consumer chooses are 0 and 3: the one that means success, and the one
  for which the forced exit has to evade. The two arguments and the two keyword
  expressions are model values under symmetry: only equality and the empty one matter.
- `ReportedRun`: all combinations of Checks, targets, `--all`, a shortcut and
  `--coverage` are planned (the options that only refuse are enumerated with
  the others at their defaults). Six plans are followed: a fix, two Checks that
  share a dependency, pytest narrowed under coverage, pytest alone under coverage
  with and without a threshold, and the strict run. Two departures are what it
  takes for one error to meet another; `RefusalIsExplained` was checked once with
  three (12.2 million states, four of the plans).
- `EvidenceFiles`: files of two blocks, so that a read may be torn and may fall
  short or run over; two steps of interference, so that a file is changed and
  changed back, or a rival comes and goes; a coarse clock. Two steps reach an
  accepted document that was replaced after its conversion, one written by a
  changed Coverage.py, and one of a copy that was changed and put back. The torn
  reads that all agree (`"data"` in `unseen`) take more; the theorem covers them.

**Fairness and why the code justifies it.**

- `BoundedProcess`: `ProgramFairness` is weak fairness of the program's threads,
  which the operating system schedules, and of time; `KernelFairness` says that
  a child that was sent SIGKILL dies; a child may ignore SIGTERM for ever. Nothing is assumed of the child and its
  descendants for `FailureEndsAll`.
  `EveryCallEnds` needs `FamilyFairness` (the child and its
  descendant finish and exit) and states it as its hypothesis: `results.get()`
  and `process.wait()` have no timeout in the code, so that a child which never
  ends keeps a successful call from ending, by design.
- `RepositoryRun` and `WorkspaceCleanup`: weak fairness of the controller's one
  thread, the end of the processes it waits for included; what others do is not
  fair and may stop.

## 5. The proofs

`tlapm` checks every proof to its leaves. The assumptions are those on the
constants (`BoundedProcessAssumption`, `TailCaptureAssumption`,
`PlansAssumption`, `PytestReporterAssumption` and so on), which TLC evaluates in the runs.

`BoundedProcessProofs`, for every pipe capacity, buffer size, amount of output
and number of faults and of calls of the cleanup that raise, with interrupts and without:

- `TypeCorrect` and `OutputIsComplete`. `AcceptedOutputIsComplete` is not
  inductive: it speaks of the end of the call only. The invariant `IInv` adds
  what holds on the way: `Conservation` (every unit written is in the pipe, in a
  reader's buffer or fed), `ConsumerInStep` (the consumer was handed what was
  fed), `Quiet` and `Starting` (what exists before the child and which reader at
  which position of the calling thread), `CleanEnd` (a reader that ended without
  an error saw the end of its pipe, which nobody can write to any more),
  `Results` (each reader puts exactly one result, which tells what became of
  it), `BothGood` (past the queue both results were good) and `OutcomeMatches`
  (how the outcome belongs to the position). One lemma per part and group of actions keeps the leaves small.
- `NoChildIsSpared`: `AbandonedChildIsKilled` from `KillSent` (past `kill` a
  child that still runs was sent SIGKILL, unless `kill` itself raised or the
  cleanup was cut short). A `terminate` or a `wait` that raises is no excuse.
- `ReaderIsSoleCloser`: `SoleCloserWhenRegistered` from `MainCloses` (only the
  cleanup closes a pipe from the calling thread) and `Registered` (a reader that runs
  is in `started_threads`, except between `start()` and `append`, which only an
  interrupt can leave without the append). That exception is real: the run
  `capture_interrupt_closer`.
- `CallImplementsContract`: `Spec => ContractSpec`. A write is a `Produce`, the
  successful return is `Complete` (by `CleanEnd` and `BothGood`), a failure is
  `Fail`, and all else stutters; after completion nobody is left to write.

- `CleanupLeavesNothing` (`EarlyCleanupIsComplete`) and `ConsumerIsLeftAlone`
  (`NoLateConsumer`): before its deadline a cleanup leaves no child, no reader and no
  open pipe behind but what one of its own calls that raised should have seen to.
  The invariant `LeftInv` adds `Reaped` (a wait of the cleanup ends with a reaped
  child, at the deadline or with an exception), `ClosedFirst` (a reader closes its
  pipe before it puts its result), `Unread` (the calling thread closed the pipes
  nobody reads, but where `close` raised) and `AllJoined` (a cleanup within its
  deadline saw its readers end, but where `join` raised).

The principles of induction of the library take an operator, which the provers here
cannot instantiate. Those at the head of `IndexListingProofs` take a set of numbers
(`SetInduction`, from the well-foundedness of `<`) or of sequences
(`SequenceInduction`), and a function for the step of a recursion
(`IterationExists`); `ReportedRunProofs` has the first as well.

`IndexListingProofs`, for every limit, chunk size, record size and alphabet:

- `TailIsAlwaysSuffix` and `StreamingIsExact`, of `TailCapture`. The heart is a lemma
  on sequences: cutting a kept tail and appending a chunk gives the tail of the
  longer stream, in both cases of `Fed`. The invariant adds `total = Len(stream)`.
- `SnapshotIsExact` and `ListingIsTyped`, of `IndexListing`: the parser, which sees the
  stream in chunks, comes to what `Listing` says of the whole, for every listing and
  every way to cut it. `Split`, `ConsumeRecords` and `Staged` are loops over a
  sequence; `RunIs` and `RunResumes` say what any such loop does with one element
  more and with a second sequence. From there: a stream may be cut anywhere
  (`SplitResumes`), and the loop over the records accepts exactly the records of a
  well-formed listing and then holds their paths and the unmerged flag
  (`ConsumeAgrees`). The core of the invariant `ListingIInv` is `Knows`: a parser that
  is not invalid has in `_pending` the open piece of what it was fed and in `_entries`
  what its complete records say; one that is invalid has seen what no continuation
  can repair, a refused record (`RefusedIsHopeless`) or an open piece that is too long
  for a record (`TooLongIsHopeless`) - the check of `_pending` refuses before the
  record is complete, and would be wrong if a piece could become shorter
  (`FirstPieceGrows`).
- `ListingIsCaptured`: `ListingSpec` implements `Spec` of `TailCapture`, so that the two
  theorems on the tail hold of git's output, too.

`RepositoryRunProofs`, for every set of plans that satisfies `PlansAssumption` and
every number of disturbances:

- `RepositoryVerification`: what a run says of the repository. `RepoInv` is
  inductive by itself and speaks of sets only: a baseline has all that there is to
  compare and exists wherever the verification needs it (`BaselineInv`), each step
  of the verification has seen the lasting changes of the parts behind it
  (`SeenInv`), and from the comparison on a change that stands is either allowed or
  an error (`VerifiedInv`).
- `TypeCorrect`: `TypeParts` cuts `TypeOK` into parts that different steps disturb,
  and adds where the controller is when an index, an observation or an empty
  list of observations is relied on.
- `EvidenceOfChecks` and `WorkspacesAreAccountedFor`: both speak of a run that
  returned. On the way `AtHandInv` says what is known of the Check at hand
  (whether its process was started, whether an observation has to carry it,
  whether its directory stays behind, which exception is on its way out),
  `LoopInv` that the observations so far are those of the Checks before it and
  keep their evidence, and `OverInv` that past the loop they are those of all
  Checks, evidence up to some Check and unavailable ones after it.

The refinement, in the same module, rests on these invariants and adds `OwnInv` (what is recorded of a
Check carries its name and no missing dependency but its own):

- `RunImplementsContract`: a step that records Checks, one or the rest of them at
  once, is an `Observe`, the end of the run is `Report` or `Raise`, all else
  stutters.
- `IndependenceOfChecks`: what was started has its dependency (`SpawnedInv`), and a
  Check is given up only together with an error of the repository, which no later
  step undoes (`SettledInv`).

`WorkspaceCleanupProofs`, for every tree the run directory may hold, all limits
and any number of moves by others and of failing system calls: `TypeCorrect`,
`ForeignFilesSurvive`, `ReportedSuccessIsExact`, `QuarantineIsReported` and
`NothingIsDeletedAfterFailure`, the safety properties of the module's
passing run. The lemma `RaisesPreserves` treats every failure once and for all,
so that each action only has to be followed where it succeeds. The invariant
`Safe` says

- where objects can be (`HomeInv`: one object at most in the quarantine, and only
  while a leaf is deleted or after a failure to), and how failure, quarantine and
  pass belong to the position (`ControlInv`);
- that the manifest has one entry for a place, and that the directories of a walk
  are on it (`ManifestInv`, `StackInv`);
- that exactly what was unlinked is gone (`GoneInv`), that the second walk has
  unlinked an entry, has yet to, or is at it (`CompleteInv`), and that it unlinked
  nothing else (`ExactInv`). The last part has one exception, which is the reason
  for the check after `rmdir`: between the two, another directory may have been
  hit. `RemovalInv` gives the argument for the check: the directory held open was
  linked before the `rmdir`, so if it is gone after it, it was the one;
- that a quarantine which is in its place when the looks are over was reported,
  unless `missed` says why not (`ReportInv`).

That the cleanup comes to an end (`CleanupReturns`) needs fairness and stays with
TLC.

`EvidenceFilesProofs` proves the four properties of `EvidenceFiles` for every limit,
any number of interferences and both clocks: `TypeCorrect`,
`AcceptedReadIsOneMoment`, `StartIsWhole` and `AcceptedDocumentIsConversion`. That a
read is of one moment is not inductive: what makes it true is how the file has
changed since it was opened.

- `ReadInv` says that the stamps of a file only grow, so that a read which ends with
  the stamp it began with has seen no other; and that, while all moments since the
  open bear that stamp and no two of them have one size, they form a chain of
  prefixes with consecutive sizes, and the blocks read so far are the beginning of
  one of them (`ChainGrows`, `ReadingContinues`). A read that reaches the end of the file is
  then one of the moments (`WholeReadIsAMoment`).
- `FilesInv` keeps every file within the bound and every name to a file of its own,
  `ControlInv` the steps in order, and `StartInv` says how far the launcher has
  come when its marker is judged.

`AcceptedDocumentIsConversion` says of an accepted document what it was converted
from, and names what it may not be, on account of `unseen`, and nothing else.
`DocumentInv` adds to the invariant that a document that was closed, or put in its
place, has both its blocks, and `EvidenceParts`

- `VersionsInv`: what the data have been, and that what was digested is one of it,
  unless `unseen` says that no read of them told its moments apart;
- `ConversionInv`: in the `Window` between the second verification and the
  converter's read the copy holds the digested data or was changed unseen, so that
  the converter read what was digested; and what it wrote is what is read, as long
  as nobody touched the staged Coverage.py or the document since;
- `QuietInv`: what the last verification saw still stands if nothing happened
  since;
- `UndisturbedInv`: without interference no look at the evidence ever fails.

`PytestReporterProofs` proves the four properties of the module's passing run for
every set of tests and scopes, whatever outcomes the tests may have, and for any
number of irregular steps of the consumer, the system and other processes:
`TypeCorrect`, `AcceptedIsWhole`, `FullScopeIsWhole` and `UndisturbedIsJudged`. The
assumption says of a scope that it has arguments, a sequence, and a keyword
expression, and that a test without interference makes no report that pytest does
not make.

- `TrustInv`: as long as the plugin trusts itself (it is not `invalid`), it holds
  exactly the reports that pytest made and the items that were gathered, no hook
  was late, and what a hook looked at, arguments or options, is part of what is
  remembered; what nobody looked at is not claimed.
  For the scopes the argument is about subsequences: a refresh that does not raise
  distrust keeps what was remembered as a subsequence of what is remembered now
  (`SubsequenceTransitive`, `RefreshedKeeps`), and only the empty arguments are part of
  the empty ones (`OnlyEmptyInEmpty`), so that a full scope at the end was one all along.
- `FinalInv`: a terminal publication is what the plugin held at that moment; if a
  hook comes after it, the artifact cannot be written any more, and then the exit
  code of the process is one the artifact does not have (`ForcedExit`). An accepted
  artifact of the process that was run therefore comes from a plugin that never lost
  its trust.
- `MarkerInv`: a plugin that started a session has its marker on disk, and
  pyrepo-check finds it. Two writers are refused, so that a document of
  another process is accepted only if the process that was run never registered.
- `UndisturbedInv`: without interference the plugin keeps its trust and the files
  are its own (`CalmInv`, `DiskInv`), or no session started and there is no artifact
  (`NeverStarted`), the accounts of the collection are balanced
  (`CollectionInv`), and the reports so far are a beginning of the trace that the
  reader accepts (`TraceInv`, `RunInv`). `ResultInv` adds that the verdict is a function
  of what was read.

`ReportedRunProofs` proves five of the six properties of `ReportedRun`, for every set
of invocations (`InvocationsAssumption`: their requests and configurations are such)
and every number of departures (`DeviationAssumption`: it is a number):

- `PlanIsTheAnswer`: that the plan is what was asked for is a fact about `PlanRun`
  alone (`PlanAnswers`), for all requests that are not refused: the Checks that are
  named and no other, or with `--all` the five of `CheckOrder` whatever is named
  besides (finding 4). Both the selected
  Checks and the required dependencies are elements of a sequence picked in their
  order; `PickedIs` says so by naming the positions they came from, by induction
  over the length.
- `TypeCorrect`, `ObservationsStay`, `VerdictIsBacked` and `ThresholdIsApplied` rest
  on `SafeInv`, which each of the 29 actions keeps (`SpecIsSafe`). `PlanInv`,
  `DepsInv` and `OrderInv` say what has been observed at which step, and that it
  is in order; `EnvInv` that an environment without an error was verified as far
  as the step is. `SoundInv` is the core: a Check that ended without an error was
  seen to start and its process ended with a code for findings (`Ran`), and a
  coverage snapshot comes from a conversion that was the last process, whose exit
  code is recorded and whose threshold was set to 0 exactly if the pytest result
  was not eligible (`Converted`). The last part speaks of the interim result
  at the conversion; that the report decides by the same one is
  `SameEvidenceSameResult`: a result depends on the primary process only, and the
  conversion adds another.
- The report is then read backwards. Exit code 0 or 1 means `RunComplete`, no status
  is an error, so that no Check has an error and `Ran` holds (`ChecksAreWhole`), and
  a result of pytest or coverage that is not an error comes from an artifact that
  was valid and from a snapshot (`PytestResultIs`, `CoverageResultIs`). An exit code
  of a process other than 0 is a status `failed` and the reverse (`FindingsAreCodes`).

`ReportedRunEvidence` proves the sixth, `RefusalIsAccountedFor`: the validation
refuses a report that `build_run_report` made exactly in the nine circumstances of
`Disagreement` (finding 5). Both directions matter: in each circumstance a rule of
`reporting.py` is broken, and in all other runs every rule is obeyed.

- `SafeInv` is too weak for it, as it says what a good verdict rests on and little of
  the evidence of a run that failed. `EvidenceInv` names the kinds of evidence that a
  step may have left, and is inductive together with `SafeInv` (`SpecHasEvidence`).
  `Reached` says how far the run came: each dependency was seen or left out, each Check
  executed (`CheckEvidence`) or given up (`Abandoned`). `Stopped` and `Usable` are the
  two ways in which the preparation ends, `Laid` says which processes are listed,
  and in which order, and `Verified` what the comparison of the repository may
  change afterwards. `CheckEvidence` relates the
  process, the start, the artifact, the conversion and the error of one Check.
- It depends on the plan in one place, `ReportablePlan`: what a plan says of the coverage
  scope in each mode, a fact about `PlanRun` alone.
- Each rule of `ReportRules` is then compared with each kind of evidence. Rules on the
  environment are read off `Stopped` and `Usable` (`StoppedReport`, `UsableReport`);
  those on one Check from its kind (`OrdinaryEvidenceAgrees`,
  `PytestEvidenceAgrees`), where five of the nine circumstances belong to pytest. An
  error of the environment that was replaced after Checks were given up is always
  refused (`ReplacedIsRefused`), and what agrees in all of its parts is valid
  (`ValidIfAgreed`).

What is left to TLC is liveness under fairness, which the prover does not handle
here, and what the earlier paragraphs of this section say of each module.

## 6. Findings

1. **A reader may lose its pipe to the main thread** (`SoleCloser`,
   `execution.py:498`). `started_threads.append` comes after `reader.start()`
   returned. A KeyboardInterrupt in between leaves a running reader that is not
   in the list, and the cleanup closes its pipe from the main thread, where the
   design says that a started reader is the sole closer.
2. **A retained run directory may go unmentioned** (`RetainedDirectoryIsReported`,
   `repository_executor.py:533`). When uv loses its identity just before a launch,
   the exception passes by the code that would turn the failed cleanup into
   `cleanup_failed`. For Checks whose process was started the promise holds
   (`WorkspaceIsAccountedFor`).
3. **A collection that was cut short may pass for a complete session**
   (`CompleteMeansCollected`, `_pytest_report_plugin.py:353`). pytest calls
   `pytest_collection_finish` in a `finally` clause. If a hook of the consumer calls
   `pytest.exit` with exit code 0 while pytest collects, the plugin records a
   completed collection of no tests, nothing was left unrun, and the session is
   reported complete and passed. While the items are modified (`CutModify`) the
   accounts of the collection no longer add up and the artifact is refused.

4. **A fix that is named with `--all` is dropped** (`FixIsSelectedAlone`,
   `planning.py:198`). `src/README.md:115-116` says that `annotations-fix` "must be
   explicitly authorized and selected alone", and the planner's hint
   (`planning.py:203`) is to run it "without --all or another check name". It looks
   for the fix among the Checks that were selected, and `--all` selects five that do
   not include it: the request is neither refused nor is the fix run.
5. **The report refuses evidence that the controller may observe**
   (`OneDocumentIsEmitted`, `reporting.py:441`). `src/README.md:149` says "`--format
   json` emits exactly one schema version 2 document plus a trailing newline."
   When `_validate_run_report_v2` refuses the report that `build_run_report`
   just made, `main` writes a line to standard error, leaves standard output
   empty and exits with 2 (`cli.py:203-217`). The counterexample of the run is a
   machine without a safe uv. `RefusalIsExplained` gives the whole extent, for every
   run: it happens exactly in the nine circumstances of `Disagreement`: (a) no
   safe uv was found, so that no `uv --version` was run, where the rules want the
   failed one; (b) standard error of a preparation command was cut, where the
   observing code reads standard output only; (c) a helper was lost when only a
   part of the environment had been observed; (d) `repository_state_changed`
   replaced the error on account of which Checks were given up; (e) pytest under
   coverage exits with 2, 3 or 4 and its Check has another error, such as
   `cleanup_failed`; (f) data were converted although the session is no complete
   evidence; (g) the staged Coverage.py changed before the conversion; (h) an
   unsupported version has not exactly three numbers; (i) the workspace of
   pytest failed and a helper was lost as well. The first is the everyday one:
   a machine without uv gets exit code 2 and no document. In each of them the
   exit code is 2, as it would be with the document, so that no verdict is
   wrong.

A remark that is no finding of a run: between `mkdir` of the quarantine and its first
`stat` (`execution_workspace.py:639`) an error or the deadline leaves an empty
quarantine behind that nothing reports, although the design (738-741) has retained
quarantine paths reported. `KnownQuarantineIsReported` is about a quarantine
that was looked at once.

## 7. What is not modelled

- Wording, layout, terminal banners, the JSON schema and its rendering, and
  advisories: no property is about them.
- The arithmetic of `coverage.json` (`validate_coverage_json`): pure comparisons
  of numbers, which unit tests reach well. The parsing of `pyproject.toml` and of
  the command line: their results are the inputs of `Planning`.
- `_validate_process`-style value checks of the injected runner, and the legacy
  command loop of `execution.py`: sequential code around the modelled call.
- `KeyboardInterrupt` in `RepositoryRun` other than while a Check's process runs,
  where a run spends its time. In `BoundedProcess` it comes at each place between two
  of the modelled steps and inside the calls of the cleanup (section 3).
- Hard links and mount points inside a run directory: the code rejects them by
  fields of `stat` which the objects of `WorkspaceCleanup` do not have.
- File contents in `RepositoryRun`, which has parts that differ or not, so that
  the byte-level reads of `repository_safety.py` are one step per part.
  `EvidenceFiles` justifies this step for one file, module 8 of the plan would
  for all of them.
- The discovery of the uv storage boundaries (`repository_environment.py:614`),
  one choice in `UvRejected`. Between this check and the writes of uv lies a
  window that no state of the program tells anything about.
- Windows: its guarantees are those of kernel handles, of which the source only
  shows the calls. PROJECT.json lists each component with its status.
