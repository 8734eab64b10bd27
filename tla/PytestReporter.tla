--------------------------- MODULE PytestReporter ---------------------------
(***************************************************************************)
(* One pytest session as the reporter plugin sees it, and what pyrepo-check*)
(* makes of it: _pytest_report_plugin.py, the snapshot that                *)
(* pytest_execution.py takes of its files, and pytest_evidence.py.         *)
(*                                                                         *)
(* pytest itself is external: it calls the hooks in its order and chooses  *)
(* the exit status.  So is the consumer repository, whose tests, conftest  *)
(* files and plugins run in the same process.  Besides failing tests it can*)
(* change the options, end the session, or call hooks out of order, also   *)
(* from exit handlers.  A second pytest process of the consumer may load   *)
(* the plugin as well; it has a writer ID of its own.                      *)
(*                                                                         *)
(* A hook is one step except where others act in its middle, and of the    *)
(* options the model has two: the arguments, which may only grow, and the  *)
(* keyword expression, which may not change once there is one.             *)
(***************************************************************************)
EXTENDS PytestEvidence

CONSTANTS
  Scope,       \* the arguments that are not neutral to the scope, and keyword expressions
  Made,        \* the outcomes that each phase of each test may have
  Chosen,      \* exit codes that the consumer chooses
  StrayBound   \* bound: irregular steps of the consumer, of the system or of others

Unnarrowed == [args |-> << >>, keyword |-> ""]

ASSUME PytestReporterAssumption ==
  /\ Unnarrowed \in Scope
  /\ \A s \in Scope : /\ s = [args |-> s.args, keyword |-> s.keyword]
                      /\ s.args \in Seq({s.args[i] : i \in DOMAIN s.args})
  /\ \A s \in Scope : [s EXCEPT !.keyword = ""] \in Scope /\ [s EXCEPT !.args = << >>] \in Scope
  /\ Made \in [Node -> [Phase -> SUBSET (Outcome \ {"rerun"})]]
  /\ \A n \in Node, when \in {"setup", "teardown"} :
       Made[n][when] \cap {"xpassed", "strict"} = {}
  /\ Chosen \subseteq ExitCode
  /\ StrayBound \in Nat

VARIABLES
  pc,         \* where pytest is
  live,       \* the arguments and options as they are now
  plugin,     \* the fields of _EVIDENCE
  active,     \* what observe_hook returned to the hook in progress
  artifact,   \* the artifact file
  markers,    \* writers with a marker file
  items,      \* session.items at the end of the collection
  left,       \* items yet to run
  at,         \* the item that runs and its next phase
  status,     \* session.exitstatus, or NoStatus
  stopping,   \* session.shouldstop or session.shouldfail
  configured, \* is pytest_unconfigure still to be called?
  returncode, \* of the process, or NoStatus
  inventory,  \* the writers that pyrepo-check found
  result,     \* its verdict and the document it read
  gathered,   \* history: the tests that pytest collected
  ran,        \* history: the reports given to pytest_runtest_logreport
  observed,   \* history: the scopes that hooks of the plugin saw
  late,       \* history: was a hook called after the plugin had closed?
  cut,        \* history: where the collection was cut short, or "no"
  strays

history == <<gathered, ran, observed, late, cut>>
pytestVars == <<items, left, at, status, stopping, configured, gathered, cut>>
readerVars == <<returncode, inventory, result>>
vars == <<pc, live, plugin, active, artifact, markers, items, left, at, status, stopping,
          configured, readerVars, history, strays>>

NoStatus == 99
NoItem == [node |-> "none", when |-> "none"]

(* The fields that _Evidence.publish writes.                               *)
Published == {"starts", "finishes", "exit", "collected", "stopped", "args", "keyword",
              "initial", "final", "deselected", "uncovered", "errors", "reports",
              "parallel", "retries"}

Fresh ==
  [starts |-> 0, finishes |-> 0, exit |-> 0, collected |-> FALSE, stopped |-> FALSE,
   args |-> << >>, keyword |-> "",
   initial |-> {}, final |-> {}, deselected |-> {}, uncovered |-> {}, errors |-> FALSE,
   reports |-> << >>, parallel |-> FALSE, retries |-> FALSE,
   during |-> {}, started |-> FALSE, finishSeen |-> FALSE, forced |-> FALSE,
   closed |-> FALSE, terminal |-> FALSE, invalid |-> FALSE]

Document(p, state) ==
  [state |-> state, writer |-> "primary", content |-> [f \in Published |-> p[f]]]

(* What a second process publishes of a session of its own, which may have *)
(* collected and run tests of its own.                                     *)
OtherDocument(state, exit, collected, reports) ==
  [state |-> state, writer |-> "other",
   content |-> [f \in Published |->
                  CASE f \in {"starts", "finishes"} -> 1
                    [] f = "exit" -> exit
                    [] f = "collected" -> collected
                    [] f \in {"initial", "final"} -> {reports[i].node : i \in 1 .. Len(reports)}
                    [] f = "reports" -> reports
                    [] OTHER -> Fresh[f]]]

PassedRun(n) ==
  [i \in 1 .. 3 |->
     [node |-> n, when |-> <<"setup", "call", "teardown">>[i], outcome |-> "passed"]]

TypeOK ==
  /\ pc \in {"load", "reload", "configure", "start", "collect", "modify", "collected", "run",
             "finish", "finishing", "unconfigure", "exit", "exiting", "exited", "read", "ended"}
  /\ live \in Scope
  /\ DOMAIN plugin = DOMAIN Fresh
  /\ plugin.exit \in ExitCode
  /\ \E s, t \in Scope : plugin.args = s.args /\ plugin.keyword = t.keyword
  /\ UNION {plugin.initial, plugin.final, plugin.deselected, plugin.uncovered} \subseteq Node
  /\ plugin.reports \in Seq(Report)
  /\ plugin.terminal => plugin.closed /\ plugin.started
  /\ active \in BOOLEAN
  /\ artifact # NoDocument => artifact.state \in {"started", "finalized"}
  /\ markers \subseteq {"primary", "other"}
  /\ items \subseteq Node /\ left \subseteq items
  /\ at \in [node : Node, when : Phase] \cup {NoItem}
  /\ status \in ExitCode \cup {NoStatus}
  /\ stopping \in BOOLEAN /\ configured \in BOOLEAN
  /\ returncode \in ExitCode \cup {NoStatus, Signalled}
  /\ inventory \subseteq markers
  /\ gathered \subseteq Node /\ ran \in Seq(Report) /\ observed \subseteq Scope
  /\ late \in BOOLEAN /\ cut \in {"no", "collecting", "modifying"}
  /\ strays \in 0 .. StrayBound

Init ==
  /\ pc = "load"
  /\ live = Unnarrowed
  /\ plugin = Fresh
  /\ active = FALSE
  /\ artifact = NoDocument
  /\ markers = {}
  /\ items = {} /\ left = {} /\ at = NoItem
  /\ status = NoStatus /\ stopping = FALSE /\ configured = FALSE
  /\ returncode = NoStatus /\ inventory = {}
  /\ result = [verdict |-> "none", document |-> NoDocument]
  /\ gathered = {} /\ ran = << >> /\ observed = {} /\ late = FALSE /\ cut = "no"
  /\ strays = 0

-----------------------------------------------------------------------------
(* The plugin.                                                             *)

IsSubsequence(candidate, sequence) ==
  \E f \in [1 .. Len(candidate) -> 1 .. Len(sequence)] :
    /\ \A i, j \in 1 .. Len(candidate) : i < j => f[i] < f[j]
    /\ \A i \in 1 .. Len(candidate) : candidate[i] = sequence[f[i]]

MergeArgs(p, args) ==
  IF IsSubsequence(p.args, args) THEN [p EXCEPT !.args = args]
  ELSE IF IsSubsequence(args, p.args) THEN p
  ELSE [p EXCEPT !.invalid = TRUE]

(* Mutant: the keyword expression is the last one that was seen.           *)
MergeKeywordLast(p, keyword) == [p EXCEPT !.keyword = keyword]

MergeKeyword(p, keyword) ==
  IF keyword = "" THEN p
  ELSE IF p.keyword \in {"", keyword} THEN [p EXCEPT !.keyword = keyword]
  ELSE [p EXCEPT !.invalid = TRUE]

(* remember_args, remember_config and refresh_scope.                       *)
ArgsRemembered(p) == MergeArgs(p, live.args)
ConfigRemembered(p) == MergeKeyword(p, live.keyword)
Refreshed(p) == MergeKeyword(MergeArgs(p, live.args), live.keyword)

(* What they look at.                                                      *)
ArgsSeen == [live EXCEPT !.keyword = ""]
ConfigSeen == [live EXCEPT !.args = << >>]

Active == ~plugin.closed /\ ~plugin.invalid

(* observe_hook, and what an active hook makes of the plugin.              *)
Hook(after) ==
  /\ IF plugin.closed
     THEN /\ plugin' = [plugin EXCEPT !.invalid = TRUE]
          /\ artifact' = IF plugin.started THEN Document(plugin, "started") ELSE artifact
     ELSE /\ plugin' = IF plugin.invalid THEN plugin ELSE after
          /\ UNCHANGED artifact
  /\ late' = (late \/ plugin.closed)

(* A hook that looks at the scope, or at a part of it.                     *)
LookingHook(after, seen) ==
  /\ Hook(after)
  /\ observed' = IF Active THEN observed \cup {seen} ELSE observed

ScopeHook(after) == LookingHook(after, live)
ConfigHook(after) == LookingHook(after, ConfigSeen)

TornDown(p) == {n \in Node : \E i \in ReportsOf(p.reports, n) : p.reports[i].when = "teardown"}

StoppedEarly(p) == stopping \/ (~p.errors /\ ~(p.final \subseteq TornDown(p)))

RecordFinish(p, exit, early, forced) ==
  IF ~p.finishSeen
  THEN [p EXCEPT !.finishSeen = TRUE, !.forced = forced, !.exit = exit, !.stopped = early]
  ELSE IF p.forced /\ exit = p.exit THEN [p EXCEPT !.stopped = @ \/ early]
  ELSE [p EXCEPT !.invalid = TRUE]

Logged(p, r) ==
  LET reports == Append(p.reports, r)
  IN  [p EXCEPT !.reports = reports, !.retries = @ \/ Repeated(reports)]

(* Mutant: the forced exit does not look at the artifact.                  *)
ForcedExitAlways(p) == 3

(* Where the exit code recorded in the artifact says 3, the process ends   *)
(* with 2, and else with 3.                                                *)
ForcedExit(p) == IF p.exit = 3 THEN 2 ELSE 3

-----------------------------------------------------------------------------
(* The session.                                                            *)

(* pytest_load_initial_conftests, before and after the conftests load.     *)
Load ==
  /\ pc \in {"load", "reload"}
  /\ LookingHook(ArgsRemembered(plugin), ArgsSeen)
  /\ pc' = IF pc = "load" THEN "reload" ELSE "configure"
  /\ UNCHANGED <<live, active, markers, pytestVars, readerVars, ran, strays>>

(* pytest_configure; from here on pytest_unconfigure will be called.       *)
Configure ==
  /\ pc = "configure"
  /\ ConfigHook(ConfigRemembered(plugin))
  /\ pc' = "start"
  /\ configured' = TRUE
  /\ UNCHANGED <<live, active, markers, items, left, at, status, stopping, gathered, cut,
                 readerVars, ran, strays>>

(* A usage error (4), or a conftest file or another plugin ends the process*)
(* before the session starts.                                              *)
EndBeforeStart ==
  /\ pc \in {"reload", "configure", "start"}
  /\ status' \in Chosen \cup {4}
  /\ pc' = "unconfigure"
  /\ UNCHANGED <<live, plugin, active, artifact, markers, items, left, at, stopping, configured,
                 readerVars, history, strays>>

(* pytest_sessionstart: the marker of the writer comes first.              *)
SessionStart ==
  /\ pc = "start"
  /\ pc' = "collect"
  /\ IF Active
     THEN LET p == [ConfigRemembered(plugin) EXCEPT !.started = TRUE, !.starts = @ + 1]
          IN  /\ plugin' = p
              /\ markers' = markers \cup {"primary"}
              /\ artifact' = Document(p, "started")
              /\ observed' = observed \cup {ConfigSeen}
              /\ UNCHANGED late
     ELSE ConfigHook(plugin) /\ UNCHANGED markers
  /\ UNCHANGED <<live, active, pytestVars, readerVars, ran, strays>>

(* An OSError ends the session with an internal error and without          *)
(* pytest_sessionfinish: the marker or the first publication failed.       *)
SessionStartFails ==
  /\ pc = "start" /\ Active /\ strays < StrayBound
  /\ \/ markers' \in {markers, markers \cup {"primary"}} /\ UNCHANGED plugin
     \/ /\ markers' = markers \cup {"primary"}
        /\ plugin' = [ConfigRemembered(plugin) EXCEPT !.started = TRUE, !.starts = @ + 1]
  /\ pc' = "unconfigure" /\ status' = 3
  /\ strays' = strays + 1
  /\ UNCHANGED <<live, active, artifact, items, left, at, stopping, configured, readerVars,
                 history>>

(* pytest_xdist_setupnodes, in the pytest_sessionstart of pytest-xdist,    *)
(* with workers to start; pytest.exit leaves no pytest_sessionfinish.      *)
SetupNodes ==
  /\ pc = "collect" /\ Active /\ ~plugin.errors
  /\ ConfigHook(RecordFinish([ConfigRemembered(plugin) EXCEPT !.parallel = TRUE], 4, TRUE, TRUE))
  /\ pc' = "unconfigure" /\ status' = 4
  /\ UNCHANGED <<live, active, markers, items, left, at, stopping, configured, gathered, cut,
                 readerVars, ran, strays>>

(* pytest_collectreport of a module that cannot be collected.              *)
CollectError ==
  /\ pc = "collect" /\ ~plugin.errors
  /\ Hook([plugin EXCEPT !.errors = TRUE])
  /\ UNCHANGED <<pc, live, active, markers, pytestVars, readerVars, ran, observed, strays>>

(* Before pytest has its items: pytest.exit with any exit code, Ctrl-C (2),*)
(* an internal error (3) or a usage error (4).                             *)
CutCollection ==
  /\ pc = "collect"
  /\ pc' = "collected" /\ cut' = "collecting"
  /\ status' \in Chosen
  /\ UNCHANGED <<live, plugin, active, artifact, markers, items, left, at, stopping, configured,
                 readerVars, gathered, ran, observed, late, strays>>

(* pytest_collection_modifyitems: before the other plugins.                *)
ModifyBegin ==
  /\ pc = "collect"
  /\ \E collected \in SUBSET Node :
       /\ items' = collected /\ gathered' = collected
       /\ ConfigHook([ConfigRemembered(plugin) EXCEPT !.initial = collected, !.during = {}])
  /\ active' = Active
  /\ pc' = "modify"
  /\ UNCHANGED <<live, markers, left, at, status, stopping, configured, cut, readerVars, ran,
                 strays>>

Deselected(p, n) == [p EXCEPT !.deselected = @ \cup {n}, !.during = @ \cup {n}]

(* Another plugin removes an item and calls pytest_deselected, or does not.*)
Deselect(n) ==
  /\ pc = "modify" /\ n \in items
  /\ items' = items \ {n}
  /\ Hook(Deselected(plugin, n))
  /\ UNCHANGED <<pc, live, active, markers, left, at, status, stopping, configured, gathered, cut,
                 readerVars, ran, observed, strays>>

Remove(n) ==
  /\ pc = "modify" /\ n \in items
  /\ items' = items \ {n}
  /\ UNCHANGED <<pc, live, plugin, active, artifact, markers, left, at, status, stopping,
                 configured, readerVars, history, strays>>

(* pytest_collection_modifyitems: after the other plugins.                 *)
ModifyEnd ==
  /\ pc = "modify"
  /\ pc' = "collected"
  /\ IF active
     THEN /\ plugin' = [Refreshed(plugin) EXCEPT
                          !.final = items,
                          !.uncovered = (plugin.initial \ items) \ plugin.during]
          /\ observed' = observed \cup {live}
     ELSE UNCHANGED <<plugin, observed>>
  /\ UNCHANGED <<live, active, artifact, markers, pytestVars, readerVars, ran, late, strays>>

(* Another plugin ends the session here.                                   *)
CutModify ==
  /\ pc = "modify"
  /\ pc' = "collected" /\ cut' = "modifying"
  /\ status' \in Chosen
  /\ UNCHANGED <<live, plugin, active, artifact, markers, items, left, at, stopping, configured,
                 readerVars, gathered, ran, observed, late, strays>>

(* pytest_collection_finish, which pytest calls in a finally clause.       *)
(* Collection errors end the session unless --continue-on-collection-errors*)
(* was given.                                                              *)
CollectionFinish ==
  /\ pc = "collected"
  /\ ScopeHook([Refreshed(plugin) EXCEPT !.collected = TRUE])
  /\ \/ status # NoStatus /\ pc' = "finish" /\ UNCHANGED <<left, status>>
     \/ status = NoStatus /\ plugin.errors /\ pc' = "finish" /\ status' = 2 /\ UNCHANGED left
     \/ status = NoStatus /\ pc' = "run" /\ left' = items /\ UNCHANGED status
  /\ UNCHANGED <<live, active, markers, items, at, stopping, configured, gathered, cut, readerVars,
                 ran, strays>>

StartItem(n) ==
  /\ pc = "run" /\ at = NoItem /\ n \in left /\ ~stopping
  /\ at' = [node |-> n, when |-> "setup"]
  /\ UNCHANGED <<pc, live, plugin, active, artifact, markers, items, left, status, stopping,
                 configured, readerVars, history, strays>>

(* pytest_runtest_logreport of the phase of the item at hand.              *)
LogReport(outcome) ==
  /\ pc = "run" /\ at # NoItem /\ outcome \in Made[at.node][at.when]
  /\ LET r == [node |-> at.node, when |-> at.when, outcome |-> outcome]
     IN  Hook(Logged(plugin, r)) /\ ran' = Append(ran, r)
  /\ CASE at.when = "teardown" -> at' = NoItem /\ left' = left \ {at.node}
       [] at.when = "setup" /\ outcome = "passed" -> at' = [at EXCEPT !.when = "call"] /\ UNCHANGED left
       [] OTHER -> at' = [at EXCEPT !.when = "teardown"] /\ UNCHANGED left
  /\ UNCHANGED <<pc, live, active, markers, items, status, stopping, configured, gathered, cut,
                 readerVars, observed, strays>>

Failed == plugin.errors \/ \E i \in 1 .. Len(ran) : ran[i].outcome \in {"failed", "strict"}

(* The end of the loop over the items.  Between two items --maxfail (1) and*)
(* session.shouldstop (2) end it, --collect-only does not start it, and    *)
(* pytest.exit, Ctrl-C and internal errors end it anywhere.                *)
EndRun ==
  /\ pc = "run" /\ at = NoItem /\ left = {}
  /\ status' = IF Failed THEN 1 ELSE IF items = {} THEN 5 ELSE 0
  /\ pc' = "finish"
  /\ UNCHANGED <<live, plugin, active, artifact, markers, items, left, at, stopping, configured,
                 readerVars, history, strays>>

StopEarly ==
  /\ pc = "run" /\ at = NoItem /\ left # items
  /\ stopping' = TRUE
  /\ status' \in {2} \cup (IF Failed THEN {1} ELSE {})
  /\ left' = {}
  /\ pc' = "finish"
  /\ UNCHANGED <<live, plugin, active, artifact, markers, items, at, configured, readerVars,
                 history, strays>>

CollectOnly ==
  /\ pc = "run" /\ at = NoItem /\ left = items /\ items # {} /\ ran = << >>
  /\ status' = IF Failed THEN 1 ELSE 0
  /\ left' = {}
  /\ pc' = "finish"
  /\ UNCHANGED <<live, plugin, active, artifact, markers, items, at, stopping, configured,
                 readerVars, history, strays>>

CutRun ==
  /\ pc = "run"
  /\ status' \in Chosen
  /\ at' = NoItem /\ left' = {}
  /\ pc' = "finish"
  /\ UNCHANGED <<live, plugin, active, artifact, markers, items, stopping, configured,
                 readerVars, history, strays>>

(* pytest_sessionfinish: before the other plugins.                         *)
FinishBegin ==
  /\ pc = "finish"
  /\ ConfigHook(ConfigRemembered(plugin))
  /\ active' = Active
  /\ pc' = "finishing"
  /\ UNCHANGED <<live, markers, pytestVars, readerVars, ran, strays>>

(* pytest_sessionfinish: after the other plugins.                          *)
FinishEnd ==
  /\ pc = "finishing"
  /\ pc' = "unconfigure"
  /\ IF active
     THEN LET p == Refreshed(plugin)
          IN  /\ plugin' = RecordFinish(p, status, StoppedEarly(p), FALSE)
              /\ observed' = observed \cup {live}
     ELSE UNCHANGED <<plugin, observed>>
  /\ UNCHANGED <<live, active, artifact, markers, pytestVars, readerVars, gathered, ran, late, cut,
                 strays>>

Closed(p) == [p EXCEPT !.closed = TRUE]

(* pytest_unconfigure, once.                                               *)
Unconfigure ==
  /\ pc = "unconfigure"
  /\ pc' = "exit"
  /\ configured' = FALSE
  /\ IF configured
     THEN ScopeHook(Closed(Refreshed(plugin)))
     ELSE UNCHANGED <<plugin, artifact, late, observed>>
  /\ UNCHANGED <<live, active, markers, items, left, at, status, stopping, gathered, cut,
                 readerVars, ran, strays>>

(* Mutant: the terminal state does not wait for pytest_unconfigure.        *)
UnfinishedBeforeUnconfigure(p) == p.invalid \/ ~p.finishSeen

Unfinished(p) == p.invalid \/ ~p.finishSeen \/ ~p.closed

(* finalize_at_exit; it cannot change the exit status.                     *)
Finalize ==
  /\ pc = "exit"
  /\ pc' = "exiting"
  /\ IF ~plugin.started \/ plugin.terminal
     THEN UNCHANGED <<plugin, artifact, observed>>
     ELSE LET p == Refreshed(plugin)
          IN  /\ observed' = observed \cup {live}
              /\ IF Unfinished(p)
                 THEN plugin' = p /\ artifact' = Document(p, "started")
                 ELSE /\ plugin' = [p EXCEPT !.finishes = 1, !.terminal = TRUE]
                      /\ artifact' = Document(plugin', "finalized")
  /\ UNCHANGED <<live, active, markers, pytestVars, readerVars, ran, late, strays>>

(* The terminal publication fails.                                         *)
FinalizeFails ==
  /\ pc = "exit" /\ plugin.started /\ strays < StrayBound
  /\ pc' = "exiting"
  /\ LET p == Refreshed(plugin)
     IN  plugin' = IF Unfinished(p) THEN p ELSE [p EXCEPT !.finishes = 1]
  /\ observed' = observed \cup {live}
  /\ strays' = strays + 1
  /\ UNCHANGED <<live, active, artifact, markers, pytestVars, readerVars, ran, late>>

(* The process is gone, with what pytest kept; the plugin and the exit     *)
(* status stay as they were for the properties.                            *)
ProcessEnds(code) ==
  /\ pc' = "exited" /\ returncode' = code
  /\ live' = Unnarrowed /\ active' = FALSE
  /\ items' = {} /\ left' = {} /\ at' = NoItem /\ stopping' = FALSE /\ configured' = FALSE
  /\ UNCHANGED <<artifact, markers, status, inventory, result, gathered, ran, observed, cut>>

Exit ==
  /\ pc = "exiting"
  /\ ProcessEnds(status)
  /\ UNCHANGED <<plugin, late, strays>>

Session ==
  \/ Load \/ Configure \/ EndBeforeStart \/ SessionStart \/ SetupNodes
  \/ CollectError \/ CutCollection \/ ModifyBegin
  \/ \E n \in Node : Deselect(n) \/ Remove(n)
  \/ ModifyEnd \/ CutModify \/ CollectionFinish
  \/ \E n \in Node : StartItem(n)
  \/ \E o \in Outcome : LogReport(o)
  \/ EndRun \/ StopEarly \/ CollectOnly \/ CutRun
  \/ FinishBegin \/ FinishEnd \/ Unconfigure \/ Finalize \/ Exit

-----------------------------------------------------------------------------
(* Irregular steps.                                                        *)

Running == pc \notin {"exited", "read", "ended"}

(* The arguments or options are written to.                                *)
ChangeScope ==
  /\ Running
  /\ live' \in Scope \ {live}
  /\ UNCHANGED <<pc, plugin, active, artifact, markers, pytestVars, readerVars, ran, observed, late>>

(* Hooks that the consumer calls: a report again, perhaps as a rerun; the  *)
(* end of the session with some exit status; a deselection that comes too  *)
(* late; pytest_unconfigure.                                               *)
Replay ==
  /\ Running /\ ran # << >>
  /\ \E i \in 1 .. Len(ran), again \in BOOLEAN :
       LET r == IF again THEN [ran[i] EXCEPT !.outcome = "rerun"] ELSE ran[i]
       IN  Hook(Logged(plugin, r)) /\ ran' = Append(ran, r)
  /\ UNCHANGED <<pc, live, active, markers, pytestVars, readerVars, observed>>

ExtraFinish ==
  /\ Running /\ plugin.starts # 0
  /\ \E exit \in Chosen : LET p == Refreshed(plugin)
                           IN  ScopeHook(RecordFinish(p, exit, StoppedEarly(p), FALSE))
  /\ UNCHANGED <<pc, live, active, markers, pytestVars, readerVars, ran>>

DeselectLater ==
  /\ pc \in {"run", "finish"}
  /\ \E n \in items : Hook(Deselected(plugin, n))
  /\ UNCHANGED <<pc, live, active, markers, pytestVars, readerVars, ran, observed>>

UnconfigureEarly ==
  /\ Running /\ configured
  /\ configured' = FALSE
  /\ ScopeHook(Closed(Refreshed(plugin)))
  /\ UNCHANGED <<pc, live, active, markers, items, left, at, status, stopping, gathered, cut,
                 readerVars, ran>>

(* A hook from an exit handler, before or after the one of the plugin.     *)
HookAtExit ==
  /\ Running /\ plugin.closed
  /\ Hook(plugin)
  /\ UNCHANGED <<pc, live, active, markers, pytestVars, readerVars, ran, observed>>

(* The same, and the artifact cannot be written: a finalized one is made   *)
(* to disagree with the exit code.                                         *)
HookAtExitFails ==
  /\ Running /\ plugin.closed /\ plugin.started
  /\ plugin' = [plugin EXCEPT !.invalid = TRUE]
  /\ late' = TRUE
  /\ IF plugin.terminal
     THEN ProcessEnds(ForcedExit(plugin))
     ELSE UNCHANGED <<pc, live, active, artifact, markers, pytestVars, readerVars, ran, observed>>

(* An item runs no phase: a plugin took pytest_runtest_protocol over, or   *)
(* session.items was cut down after the collection.                        *)
Suppress ==
  /\ pc = "run" /\ at = NoItem
  /\ \E n \in left : left' = left \ {n}
  /\ UNCHANGED <<pc, live, plugin, active, artifact, markers, items, at, status, stopping,
                 configured, readerVars, history>>

(* A pytest_sessionfinish of another plugin sets session.exitstatus.       *)
OverrideStatus ==
  /\ pc = "unconfigure" /\ plugin.finishSeen
  /\ status' \in Chosen \ {status}
  /\ UNCHANGED <<pc, live, plugin, active, artifact, markers, items, left, at, stopping, configured,
                 readerVars, history>>

(* Another plugin raises in pytest_sessionfinish or pytest_unconfigure.    *)
FinishRaises ==
  /\ pc = "finishing"
  /\ pc' = "unconfigure" /\ status' = 1
  /\ UNCHANGED <<live, plugin, active, artifact, markers, items, left, at, stopping, configured,
                 readerVars, history>>

UnconfigureRaises ==
  /\ pc = "unconfigure" /\ configured
  /\ pc' = "exit" /\ status' = 1 /\ configured' = FALSE
  /\ ConfigHook(ConfigRemembered(plugin))
  /\ UNCHANGED <<live, active, markers, items, left, at, stopping, gathered, cut, readerVars, ran>>

(* A signal, or os._exit.                                                  *)
Die ==
  /\ Running
  /\ \E code \in {Signalled} \cup Chosen : ProcessEnds(code)
  /\ UNCHANGED <<plugin, late>>

(* The second process; it may outlive the first.                           *)
OtherRegisters ==
  /\ pc # "ended" /\ "other" \notin markers
  /\ markers' = markers \cup {"other"}
  /\ UNCHANGED <<pc, live, plugin, active, artifact, pytestVars, readerVars, ran, observed, late>>

OtherPublishes ==
  /\ pc # "ended" /\ "other" \in markers
  /\ \/ artifact' = OtherDocument("started", 0, FALSE, << >>)
     \/ \E exit \in Chosen, collected \in BOOLEAN :
          \/ artifact' = OtherDocument("finalized", exit, collected, << >>)
          \/ \E n \in Node : artifact' = OtherDocument("finalized", exit, collected, PassedRun(n))
  /\ UNCHANGED <<pc, live, plugin, active, markers, pytestVars, readerVars, ran, observed, late>>

Stray ==
  /\ strays < StrayBound
  /\ strays' = strays + 1
  /\ \/ ChangeScope \/ Replay \/ ExtraFinish \/ DeselectLater \/ UnconfigureEarly
     \/ HookAtExit \/ HookAtExitFails \/ Suppress \/ OverrideStatus
     \/ FinishRaises \/ UnconfigureRaises \/ Die \/ OtherRegisters \/ OtherPublishes

-----------------------------------------------------------------------------
(* pyrepo-check, after the process has exited: the writer markers first,   *)
(* then the artifact.                                                      *)

TakeInventory ==
  /\ pc = "exited"
  /\ inventory' = markers
  /\ pc' = "read"
  /\ UNCHANGED <<live, plugin, active, artifact, markers, pytestVars, returncode, result, ran,
                 observed, late, strays>>

ReadArtifact ==
  /\ pc = "read"
  /\ result' = [verdict |-> Verdict(artifact, inventory, returncode), document |-> artifact]
  /\ pc' = "ended"
  /\ UNCHANGED <<live, plugin, active, artifact, markers, pytestVars, returncode, inventory, ran,
                 observed, late, strays>>

Next == Session \/ SessionStartFails \/ FinalizeFails \/ Stray \/ TakeInventory \/ ReadArtifact

Spec == Init /\ [][Next]_vars

-----------------------------------------------------------------------------
(* Properties.                                                             *)

Accepted == result.verdict = "valid"
Own == result.document.writer = "primary"

(* What pyrepo-check accepts as the artifact of the process it ran is the  *)
(* whole session of that process: every report pytest made, in order, none *)
(* besides, its exit code, and no hook that ran after the plugin had       *)
(* closed, not even after the terminal publication, when the artifact      *)
(* cannot be written any more.  The validation knows only the writer of    *)
(* the artifact and of the one marker: a document of another process is    *)
(* accepted as well, but only if the process that was run never registered *)
(* and happened to end with the exit code of the other session.            *)
AcceptedIsWholeSession ==
  Accepted =>
    /\ result.document.content.exit = returncode
    /\ IF Own THEN result.document.content.reports = ran /\ ~late
       ELSE "primary" \notin markers /\ ~plugin.started

(* A session that the artifact of the process reports as complete in its   *)
(* full scope has run every test that pytest collected, to the end, and    *)
(* each time that a hook looked at the arguments or at the options, no     *)
(* narrowing one of them was in force.                                     *)
FullScopeMeansAllRan ==
  Accepted /\ Own /\ FullScope(result.document.content) =>
    /\ observed = {Unnarrowed}
    /\ \A n \in gathered : \E i \in ReportsOf(ran, n) : ran[i].when = "teardown"

(* A session that nobody disturbs is judged on its merits: it is accepted, *)
(* or it never started, or pytest-xdist was active, or a plugin ended it   *)
(* while the items were being modified, or one test failed expectedly in   *)
(* two phases.                                                             *)
UndisturbedIsAccepted ==
  pc = "ended" /\ strays = 0 =>
    result.verdict = IF ~plugin.started THEN "artifact_missing"
                     ELSE IF cut = "modifying" /\ ~CollectionAccounts(plugin) THEN "artifact_invalid"
                     ELSE IF ~ExpectedFailuresAgree(ran) THEN "artifact_invalid"
                     ELSE IF plugin.parallel THEN "unsupported_parallelism"
                     ELSE "valid"

(* The design: pytest.complete only when collection completed.             *)
CompleteMeansCollected ==
  Accepted /\ Own /\ Complete(result.document.content) => cut = "no"
=============================================================================
