------------------------ MODULE PytestReporterProofs ------------------------
(***************************************************************************)
(* PytestReporter for every set of tests, outcomes and scopes, and for any *)
(* number of irregular steps of the consumer, the system and other         *)
(* processes: the types, what an accepted artifact says of the session,    *)
(* and that a session nobody disturbs is judged on its merits.             *)
(***************************************************************************)
EXTENDS PytestReporter, SequenceTheorems, TLAPS

(* The arguments that there are.                                           *)
ArgLists == {s.args : s \in Scope}
Keywords == {s.keyword : s \in Scope}

PluginState ==
  [starts : Nat, finishes : Nat, exit : ExitCode, collected : BOOLEAN, stopped : BOOLEAN,
   args : ArgLists, keyword : Keywords,
   initial : SUBSET Node, final : SUBSET Node, deselected : SUBSET Node, uncovered : SUBSET Node,
   errors : BOOLEAN, reports : Seq(Report), parallel : BOOLEAN, retries : BOOLEAN,
   during : SUBSET Node, started : BOOLEAN, finishSeen : BOOLEAN, forced : BOOLEAN,
   closed : BOOLEAN, terminal : BOOLEAN, invalid : BOOLEAN]

(* Before the first item runs.                                             *)
Collecting == {"load", "reload", "configure", "start", "collect", "modify", "collected"}

(* The type of every variable, and where the exit status is known.         *)
SessionTypes ==
  /\ pc \in {"load", "reload", "configure", "start", "collect", "modify", "collected", "run",
             "finish", "finishing", "unconfigure", "exit", "exiting", "exited", "read", "ended"}
  /\ live \in Scope /\ active \in BOOLEAN
  /\ items \subseteq Node /\ left \subseteq items
  /\ pc \in Collecting => left = {} /\ at = NoItem
  /\ at \in [node : Node, when : Phase] \cup {NoItem}
  /\ status \in ExitCode \cup {NoStatus}
  /\ pc \in {"finish", "finishing"} => status \in ExitCode
  /\ stopping \in BOOLEAN /\ configured \in BOOLEAN
  /\ gathered \subseteq Node /\ ran \in Seq(Report) /\ observed \subseteq Scope
  /\ late \in BOOLEAN /\ cut \in {"no", "collecting", "modifying"}
  /\ strays \in 0 .. StrayBound
PluginTypes ==
  /\ plugin \in PluginState
  /\ plugin.terminal => plugin.closed /\ plugin.started
FileTypes ==
  /\ artifact # NoDocument => artifact.state \in {"started", "finalized"}
  /\ markers \subseteq {"primary", "other"}
  /\ returncode \in ExitCode \cup {NoStatus, Signalled}
  /\ inventory \subseteq markers
TypeInv == SessionTypes /\ PluginTypes /\ FileTypes

(* What pyrepo-check concludes is what it read, which stays.               *)
ResultInv ==
  /\ pc # "ended" => result = [verdict |-> "none", document |-> NoDocument]
  /\ pc = "ended" => result = [verdict |-> Verdict(artifact, inventory, returncode),
                               document |-> artifact]

(* A scope that was seen is part of what the plugin remembers.             *)
Seen(s, p) == IsSubsequence(s.args, p.args) /\ s.keyword \in {"", p.keyword}

(* As long as the plugin trusts itself, it has not missed anything.        *)
TrustInv == ~plugin.invalid =>
  /\ plugin.reports = ran /\ plugin.initial = gathered /\ ~late
  /\ \A s \in observed : Seen(s, plugin)

(* A terminal publication says what the plugin saw, and if the plugin has  *)
(* since lost its trust, then the exit code gives it away.  A plugin that  *)
(* has started a session has its marker, and pyrepo-check finds it.        *)
Over == {"exited", "read", "ended"}
Finalized == artifact.state = "finalized" /\ artifact.writer = "primary"
MarkerInv ==
  /\ plugin.started => "primary" \in markers
  /\ pc \in {"read", "ended"} => ("primary" \in markers => "primary" \in inventory)

FinalInv ==
  /\ MarkerInv
  /\ plugin.terminal => pc \in {"exiting"} \cup Over
  /\ Finalized =>
       /\ plugin.terminal /\ observed # {}
       /\ artifact.content = [f \in Published |-> plugin[f]]
       /\ plugin.invalid => pc \in Over /\ returncode = ForcedExit(plugin)

-----------------------------------------------------------------------------
(* Scopes and subsequences.                                                *)

LEMMA ScopeIsTyped ==
  ASSUME NEW s \in Scope
  PROVE  /\ s.args \in ArgLists /\ s.keyword \in Keywords
         /\ s.args \in Seq({s.args[i] : i \in DOMAIN s.args})
         /\ s = [args |-> s.args, keyword |-> s.keyword]
BY PytestReporterAssumption DEF ArgLists, Keywords

LEMMA ArgsAreSequences ==
  ASSUME NEW a \in ArgLists
  PROVE  Len(a) \in Nat /\ DOMAIN a = 1 .. Len(a) /\ (Len(a) = 0 => a = << >>)
<1>1. PICK s \in Scope : a = s.args
  BY DEF ArgLists
<1>2. a \in Seq({a[i] : i \in DOMAIN a})
  BY <1>1, ScopeIsTyped
<1> QED BY <1>2

LEMMA NoArgsAndNoKeyword == << >> \in ArgLists /\ "" \in Keywords
<1>1. Unnarrowed \in Scope /\ Unnarrowed.args = << >> /\ Unnarrowed.keyword = ""
  BY PytestReporterAssumption DEF Unnarrowed
<1> QED BY <1>1 DEF ArgLists, Keywords

LEMMA SubsequenceReflexive ==
  ASSUME NEW a \in ArgLists
  PROVE  IsSubsequence(a, a)
<1> DEFINE f == [i \in 1 .. Len(a) |-> i]
<1>1. f \in [1 .. Len(a) -> 1 .. Len(a)]
  OBVIOUS
<1>2. /\ \A i, j \in 1 .. Len(a) : i < j => f[i] < f[j]
      /\ \A i \in 1 .. Len(a) : a[i] = a[f[i]]
  OBVIOUS
<1> HIDE DEF f
<1> QED BY <1>1, <1>2 DEF IsSubsequence

LEMMA SubsequenceTransitive ==
  ASSUME NEW a \in ArgLists, NEW b \in ArgLists, NEW c \in ArgLists,
         IsSubsequence(a, b), IsSubsequence(b, c)
  PROVE  IsSubsequence(a, c)
<1>1. PICK f \in [1 .. Len(a) -> 1 .. Len(b)] :
        /\ \A i, j \in 1 .. Len(a) : i < j => f[i] < f[j]
        /\ \A i \in 1 .. Len(a) : a[i] = b[f[i]]
  BY DEF IsSubsequence
<1>2. PICK g \in [1 .. Len(b) -> 1 .. Len(c)] :
        /\ \A i, j \in 1 .. Len(b) : i < j => g[i] < g[j]
        /\ \A i \in 1 .. Len(b) : b[i] = c[g[i]]
  BY DEF IsSubsequence
<1> DEFINE h == [i \in 1 .. Len(a) |-> g[f[i]]]
<1>3. h \in [1 .. Len(a) -> 1 .. Len(c)]
  BY <1>1, <1>2
<1>4. /\ \A i, j \in 1 .. Len(a) : i < j => h[i] < h[j]
      /\ \A i \in 1 .. Len(a) : a[i] = c[h[i]]
  BY <1>1, <1>2
<1> HIDE DEF h
<1> QED BY <1>3, <1>4 DEF IsSubsequence

LEMMA OnlyEmptyInEmpty ==
  ASSUME NEW a \in ArgLists, IsSubsequence(a, << >>)
  PROVE  a = << >>
<1>1. PICK f \in [1 .. Len(a) -> 1 .. Len(<< >>)] : TRUE
  BY DEF IsSubsequence
<1>2. Len(a) \in Nat /\ (Len(a) = 0 => a = << >>)
  BY ArgsAreSequences
<1>3. 1 \notin 1 .. Len(a)
  BY <1>1
<1> QED BY <1>2, <1>3

-----------------------------------------------------------------------------
(* What the hooks make of the plugin.                                      *)

LEMMA FreshIsTyped == Fresh \in PluginState
<1>1. 0 \in ExitCode /\ {} \in SUBSET Node /\ << >> \in Seq(Report) /\ 0 \in Nat
  BY DEF ExitCode
<1> QED BY Zenon, <1>1, NoArgsAndNoKeyword DEF PluginState, Fresh

(* Merging the scope touches nothing else, and does not restore trust.     *)
SameButScope(p, q) ==
  /\ q \in PluginState /\ (p.invalid => q.invalid)
  /\ q.starts = p.starts /\ q.finishes = p.finishes /\ q.exit = p.exit
  /\ q.collected = p.collected /\ q.stopped = p.stopped
  /\ q.initial = p.initial /\ q.final = p.final
  /\ q.deselected = p.deselected /\ q.uncovered = p.uncovered /\ q.errors = p.errors
  /\ q.reports = p.reports /\ q.parallel = p.parallel /\ q.retries = p.retries
  /\ q.during = p.during /\ q.started = p.started /\ q.finishSeen = p.finishSeen
  /\ q.forced = p.forced /\ q.closed = p.closed /\ q.terminal = p.terminal

LEMMA MergeArgsKeeps ==
  ASSUME NEW p \in PluginState, NEW s \in Scope
  PROVE  LET q == MergeArgs(p, s.args)
         IN  /\ SameButScope(p, q) /\ q.keyword = p.keyword
             /\ ~q.invalid => /\ IsSubsequence(s.args, q.args)
                              /\ \A t \in Scope : IsSubsequence(t.args, p.args) => IsSubsequence(t.args, q.args)
<1> DEFINE q == MergeArgs(p, s.args)
<1>1. s.args \in ArgLists /\ p.args \in ArgLists /\ \A t \in Scope : t.args \in ArgLists
  BY ScopeIsTyped DEF PluginState
<1>2. CASE IsSubsequence(p.args, s.args)
  <2>1. q = [p EXCEPT !.args = s.args]
    BY <1>2 DEF MergeArgs
  <2>2. SameButScope(p, q) /\ q.keyword = p.keyword /\ q.args = s.args
    BY <2>1, <1>1 DEF SameButScope, PluginState
  <2>3. \A t \in Scope : IsSubsequence(t.args, p.args) => IsSubsequence(t.args, s.args)
    BY <1>1, <1>2, SubsequenceTransitive
  <2> QED BY <1>1, <2>2, <2>3, SubsequenceReflexive
<1>3. CASE ~IsSubsequence(p.args, s.args) /\ IsSubsequence(s.args, p.args)
  <2>1. q = p
    BY <1>3 DEF MergeArgs
  <2> QED BY <2>1, <1>3 DEF SameButScope
<1>4. CASE ~IsSubsequence(p.args, s.args) /\ ~IsSubsequence(s.args, p.args)
  <2>1. q = [p EXCEPT !.invalid = TRUE]
    BY <1>4 DEF MergeArgs
  <2> QED BY <2>1 DEF SameButScope, PluginState
<1> QED BY <1>2, <1>3, <1>4

LEMMA MergeKeywordKeeps ==
  ASSUME NEW p \in PluginState, NEW k \in Keywords
  PROVE  LET q == MergeKeyword(p, k)
         IN  /\ SameButScope(p, q) /\ q.args = p.args
             /\ ~q.invalid => k \in {"", q.keyword} /\ p.keyword \in {"", q.keyword}
<1> DEFINE q == MergeKeyword(p, k)
<1>1. CASE k = ""
  BY <1>1 DEF MergeKeyword, SameButScope
<1>2. CASE k # "" /\ p.keyword \in {"", k}
  <2>1. q = [p EXCEPT !.keyword = k]
    BY <1>2 DEF MergeKeyword
  <2> QED BY <2>1, <1>2 DEF SameButScope, PluginState
<1>3. CASE k # "" /\ p.keyword \notin {"", k}
  <2>1. q = [p EXCEPT !.invalid = TRUE]
    BY <1>3 DEF MergeKeyword
  <2> QED BY <2>1 DEF SameButScope, PluginState
<1> QED BY <1>1, <1>2, <1>3

LEMMA RefreshedKeeps ==
  ASSUME NEW p \in PluginState, live \in Scope
  PROVE  /\ SameButScope(p, Refreshed(p))
         /\ ~Refreshed(p).invalid =>
              Seen(live, Refreshed(p)) /\ \A s \in Scope : Seen(s, p) => Seen(s, Refreshed(p))
<1> DEFINE q == MergeArgs(p, live.args)
           r == MergeKeyword(q, live.keyword)
<1>1. /\ SameButScope(p, q) /\ q.keyword = p.keyword
      /\ ~q.invalid => /\ IsSubsequence(live.args, q.args)
                       /\ \A t \in Scope : IsSubsequence(t.args, p.args) => IsSubsequence(t.args, q.args)
  BY MergeArgsKeeps
<1>2. q \in PluginState /\ live.keyword \in Keywords
  BY <1>1, ScopeIsTyped DEF SameButScope
<1>3. /\ SameButScope(q, r) /\ r.args = q.args
      /\ ~r.invalid => live.keyword \in {"", r.keyword} /\ q.keyword \in {"", r.keyword}
  BY <1>2, MergeKeywordKeeps
<1>4. Refreshed(p) = r
  BY DEF Refreshed
<1> HIDE DEF q, r
<1>5. SameButScope(p, r)
  BY <1>1, <1>3 DEF SameButScope
<1>6. ~r.invalid => ~q.invalid
  BY <1>3, <1>2 DEF SameButScope, PluginState
<1> QED BY <1>1, <1>3, <1>4, <1>5, <1>6 DEF Seen

(* What a hook never does to the plugin, and what most hooks leave alone.  *)
Follows(p, q) ==
  /\ q \in PluginState /\ (p.invalid => q.invalid) /\ q.started = p.started
  /\ (p.closed => q.closed) /\ q.terminal = p.terminal
SameTrace(p, q) ==
  q.reports = p.reports /\ q.initial = p.initial /\ q.args = p.args /\ q.keyword = p.keyword

LEMMA RefreshedFollows ==
  ASSUME NEW p \in PluginState, live \in Scope
  PROVE  Follows(p, Refreshed(p)) /\ Refreshed(p) \in PluginState
BY RefreshedKeeps DEF Follows, SameButScope

(* To look at the options alone is to look with no arguments.              *)
LEMMA EmptyIsSubsequence ==
  ASSUME NEW a \in ArgLists
  PROVE  IsSubsequence(<< >>, a)
<1> DEFINE f == [i \in 1 .. 0 |-> 1]
<1>1. Len(<< >>) = 0 /\ 1 .. 0 = {} /\ f \in [1 .. 0 -> 1 .. Len(a)]
  OBVIOUS
<1> HIDE DEF f
<1> QED BY <1>1 DEF IsSubsequence

LEMMA PartsAreScopes ==
  ASSUME live \in Scope
  PROVE  /\ ArgsSeen \in Scope /\ ArgsSeen.args = live.args /\ ArgsSeen.keyword = ""
         /\ ConfigSeen \in Scope /\ ConfigSeen.args = << >> /\ ConfigSeen.keyword = live.keyword
<1>1. live = [args |-> live.args, keyword |-> live.keyword]
  BY ScopeIsTyped
<1>2. ArgsSeen \in Scope /\ ConfigSeen \in Scope
  BY PytestReporterAssumption DEF ArgsSeen, ConfigSeen
<1> QED BY <1>1, <1>2 DEF ArgsSeen, ConfigSeen

LEMMA ConfigKeeps ==
  ASSUME NEW p \in PluginState, live \in Scope
  PROVE  LET q == ConfigRemembered(p)
         IN  /\ SameButScope(p, q) /\ Follows(p, q) /\ q \in PluginState
             /\ ~q.invalid => Seen(ConfigSeen, q) /\ \A s \in Scope : Seen(s, p) => Seen(s, q)
<1> DEFINE q == ConfigRemembered(p)
<1>1. /\ SameButScope(p, q) /\ q.args = p.args
      /\ ~q.invalid => live.keyword \in {"", q.keyword} /\ p.keyword \in {"", q.keyword}
  BY MergeKeywordKeeps, ScopeIsTyped DEF ConfigRemembered
<1>2. q \in PluginState /\ q.args \in ArgLists
  BY <1>1 DEF SameButScope, PluginState
<1> HIDE DEF q
<1>3. ~q.invalid => Seen(ConfigSeen, q) /\ \A s \in Scope : Seen(s, p) => Seen(s, q)
  BY <1>1, <1>2, EmptyIsSubsequence, PartsAreScopes DEF Seen
<1>4. Follows(p, q)
  BY <1>1 DEF Follows, SameButScope
<1> QED BY <1>1, <1>2, <1>3, <1>4 DEF q

LEMMA FollowsOn ==
  ASSUME NEW p \in PluginState, NEW q \in PluginState, NEW r, Follows(p, q), Follows(q, r)
  PROVE  Follows(p, r)
BY DEF Follows, PluginState

LEMMA StartKeeps ==
  ASSUME NEW p \in PluginState
  PROVE  LET q == [p EXCEPT !.started = TRUE, !.starts = @ + 1]
         IN  /\ q \in PluginState /\ SameTrace(p, q) /\ q.started /\ q.invalid = p.invalid
             /\ q.closed = p.closed /\ q.terminal = p.terminal
<1> DEFINE n == p.starts + 1
<1>1. n \in Nat
  BY DEF PluginState
<1> HIDE DEF n
<1>2. LET q == [p EXCEPT !.started = TRUE, !.starts = n]
      IN  /\ q \in PluginState /\ SameTrace(p, q) /\ q.started /\ q.invalid = p.invalid
          /\ q.closed = p.closed /\ q.terminal = p.terminal
  BY <1>1 DEF SameTrace, PluginState
<1> QED BY <1>2 DEF n

LEMMA FinishKeeps ==
  ASSUME NEW p \in PluginState, NEW exit \in ExitCode, NEW early \in BOOLEAN, NEW forced \in BOOLEAN
  PROVE  LET q == RecordFinish(p, exit, early, forced) IN Follows(p, q) /\ SameTrace(p, q)
<1> DEFINE q == RecordFinish(p, exit, early, forced)
<1>1. CASE ~p.finishSeen
  <2>1. q = [p EXCEPT !.finishSeen = TRUE, !.forced = forced, !.exit = exit, !.stopped = early]
    BY <1>1 DEF RecordFinish
  <2> QED BY <2>1 DEF Follows, SameTrace, PluginState
<1>2. CASE p.finishSeen /\ p.forced /\ exit = p.exit
  <2>1. q = [p EXCEPT !.stopped = @ \/ early]
    BY <1>2 DEF RecordFinish
  <2> QED BY <2>1 DEF Follows, SameTrace, PluginState
<1>3. CASE p.finishSeen /\ ~(p.forced /\ exit = p.exit)
  <2>1. q = [p EXCEPT !.invalid = TRUE]
    BY <1>3 DEF RecordFinish
  <2> QED BY <2>1 DEF Follows, SameTrace, PluginState
<1> QED BY <1>1, <1>2, <1>3

LEMMA LoggedKeeps ==
  ASSUME NEW p \in PluginState, NEW r \in Report
  PROVE  LET q == Logged(p, r)
         IN  /\ Follows(p, q) /\ q.invalid = p.invalid /\ q.reports = Append(p.reports, r)
             /\ q.initial = p.initial /\ q.args = p.args /\ q.keyword = p.keyword
<1> DEFINE reports == Append(p.reports, r)
           again == p.retries \/ Repeated(reports)
<1>1. reports \in Seq(Report) /\ again \in BOOLEAN
  BY DEF PluginState, Repeated
<1>2. Logged(p, r) = [p EXCEPT !.reports = reports, !.retries = again]
  BY DEF Logged
<1> HIDE DEF reports, again
<1>3. [p EXCEPT !.reports = reports, !.retries = again].reports = reports
  BY DEF PluginState
<1> QED BY <1>1, <1>2, <1>3 DEF Follows, PluginState, reports

LEMMA DeselectedKeeps ==
  ASSUME NEW p \in PluginState, NEW n \in Node
  PROVE  Follows(p, Deselected(p, n)) /\ SameTrace(p, Deselected(p, n))
BY DEF Deselected, Follows, SameTrace, PluginState

LEMMA ParallelKeeps ==
  ASSUME NEW p \in PluginState
  PROVE  LET q == [p EXCEPT !.parallel = TRUE] IN Follows(p, q) /\ SameTrace(p, q)
BY DEF Follows, SameTrace, PluginState

LEMMA ErrorsKeep ==
  ASSUME NEW p \in PluginState
  PROVE  LET q == [p EXCEPT !.errors = TRUE] IN Follows(p, q) /\ SameTrace(p, q)
BY DEF Follows, SameTrace, PluginState

LEMMA InitialKeeps ==
  ASSUME NEW p \in PluginState, NEW collected \in SUBSET Node
  PROVE  LET q == [p EXCEPT !.initial = collected, !.during = {}]
         IN  /\ Follows(p, q) /\ q.invalid = p.invalid /\ q.initial = collected
             /\ q.reports = p.reports /\ q.args = p.args /\ q.keyword = p.keyword
BY DEF Follows, PluginState

LEMMA FinalKeeps ==
  ASSUME NEW p \in PluginState, NEW final \in SUBSET Node, NEW uncovered \in SUBSET Node
  PROVE  LET q == [p EXCEPT !.final = final, !.uncovered = uncovered]
         IN  Follows(p, q) /\ SameTrace(p, q)
BY DEF Follows, SameTrace, PluginState

LEMMA CollectedKeeps ==
  ASSUME NEW p \in PluginState
  PROVE  LET q == [p EXCEPT !.collected = TRUE] IN Follows(p, q) /\ SameTrace(p, q)
BY DEF Follows, SameTrace, PluginState

LEMMA ClosedKeeps ==
  ASSUME NEW p \in PluginState
  PROVE  Follows(p, Closed(p)) /\ SameTrace(p, Closed(p)) /\ Closed(p).invalid = p.invalid
BY DEF Closed, Follows, SameTrace, PluginState

LEMMA InvalidKeeps ==
  ASSUME NEW p \in PluginState
  PROVE  LET q == [p EXCEPT !.invalid = TRUE]
         IN  /\ Follows(p, q) /\ SameTrace(p, q) /\ q.invalid /\ q.started = p.started
             /\ \A f \in Published : q[f] = p[f]
BY DEF Follows, SameTrace, PluginState, Published

LEMMA EarlyIsBoolean ==
  ASSUME SessionTypes, NEW p \in PluginState
  PROVE  StoppedEarly(p) \in BOOLEAN
BY DEF StoppedEarly, SessionTypes

(* A hook keeps the types, if what an active one makes of the plugin does. *)
LEMMA HookTypes ==
  ASSUME TypeInv, NEW after, Follows(plugin, after), Hook(after)
  PROVE  /\ PluginTypes' /\ Follows(plugin, plugin') /\ late' \in BOOLEAN
         /\ artifact' # NoDocument => artifact'.state \in {"started", "finalized"}
<1>1. Document(plugin, "started").state = "started"
  BY DEF Document
<1>2. Follows(plugin, [plugin EXCEPT !.invalid = TRUE])
  BY InvalidKeeps DEF TypeInv, PluginTypes
<1>3. Follows(plugin, plugin)
  BY DEF Follows, TypeInv, PluginTypes
<1>4. Follows(plugin, plugin')
  BY <1>2, <1>3 DEF Hook
<1>5. plugin \in PluginState /\ plugin' \in PluginState
  BY <1>4 DEF Follows, TypeInv, PluginTypes
<1>6. plugin'.terminal => plugin'.closed /\ plugin'.started
  BY <1>4 DEF Follows, TypeInv, PluginTypes
<1> QED BY <1>1, <1>4, <1>5, <1>6 DEF Hook, TypeInv, PluginTypes, FileTypes, SessionTypes

-----------------------------------------------------------------------------
(* One hook.                                                               *)

SafeInv == TypeInv /\ TrustInv /\ FinalInv

FollowsSelf == \A p \in PluginState : Follows(p, p) /\ SameTrace(p, p)

LEMMA EveryFollowsItself == FollowsSelf
BY DEF FollowsSelf, Follows, SameTrace

(* The session that the plugin has seen when p is what it remembers.       *)
Knows(p, reports, collected, scopes) ==
  p.reports = reports /\ p.initial = collected /\ \A s \in scopes : Seen(s, p)

LEMMA HookKeeps ==
  ASSUME SafeInv, NEW after, Follows(plugin, after), Hook(after),
         ~after.invalid => Knows(after, ran', gathered', observed')
  PROVE  /\ PluginTypes' /\ Follows(plugin, plugin') /\ late' \in BOOLEAN
         /\ artifact' # NoDocument => artifact'.state \in {"started", "finalized"}
         /\ TrustInv' /\ ~Finalized'
<1>1. TypeInv /\ plugin \in PluginState /\ plugin.invalid \in BOOLEAN /\ plugin.closed \in BOOLEAN
  BY DEF SafeInv, TypeInv, PluginTypes, PluginState
<1>2. /\ PluginTypes' /\ Follows(plugin, plugin') /\ late' \in BOOLEAN
      /\ artifact' # NoDocument => artifact'.state \in {"started", "finalized"}
  BY <1>1, HookTypes
<1>3. TrustInv'
  <2>1. CASE plugin.closed
    <3>1. plugin' = [plugin EXCEPT !.invalid = TRUE]
      BY <2>1 DEF Hook
    <3>2. plugin'.invalid
      BY <3>1, <1>1, InvalidKeeps
    <3> QED BY <3>2 DEF TrustInv
  <2>2. CASE ~plugin.closed /\ plugin.invalid
    BY <2>2 DEF Hook, TrustInv
  <2>3. CASE ~plugin.closed /\ ~plugin.invalid
    <3>1. plugin' = after /\ late' = late
      BY <2>3, <1>1 DEF Hook, TypeInv, SessionTypes
    <3> QED BY <3>1, <2>3 DEF TrustInv, SafeInv, Knows
  <2> QED BY <1>1, <2>1, <2>2, <2>3
<1>4. ~Finalized'
  <2>1. ~plugin.closed => ~Finalized
    BY DEF SafeInv, FinalInv, TypeInv, PluginTypes
  <2>2. ~plugin.started => ~Finalized
    BY DEF SafeInv, FinalInv, TypeInv, PluginTypes
  <2>3. Document(plugin, "started").state = "started"
    BY DEF Document
  <2> QED BY <2>1, <2>2, <2>3 DEF Hook, Finalized
<1> QED BY <1>2, <1>3, <1>4

LEMMA LookingHookKeeps ==
  ASSUME SafeInv, NEW after, NEW seen \in Scope, Follows(plugin, after), LookingHook(after, seen),
         ~after.invalid => Knows(after, ran', gathered', observed \cup {seen})
  PROVE  /\ PluginTypes' /\ Follows(plugin, plugin') /\ late' \in BOOLEAN
         /\ artifact' # NoDocument => artifact'.state \in {"started", "finalized"}
         /\ TrustInv' /\ ~Finalized' /\ observed' \subseteq Scope
<1>1. Hook(after) /\ observed' \subseteq observed \cup {seen}
  BY DEF LookingHook
<1>2. ~after.invalid => Knows(after, ran', gathered', observed')
  BY <1>1 DEF Knows
<1>3. observed' \subseteq Scope
  BY <1>1 DEF SafeInv, TypeInv, SessionTypes
<1> QED BY <1>1, <1>2, <1>3, HookKeeps

LEMMA ScopeHookKeeps ==
  ASSUME SafeInv, NEW after, Follows(plugin, after), ScopeHook(after),
         ~after.invalid => Knows(after, ran', gathered', observed \cup {live})
  PROVE  /\ PluginTypes' /\ Follows(plugin, plugin') /\ late' \in BOOLEAN
         /\ artifact' # NoDocument => artifact'.state \in {"started", "finalized"}
         /\ TrustInv' /\ ~Finalized' /\ observed' \subseteq Scope
<1>1. live \in Scope
  BY DEF SafeInv, TypeInv, SessionTypes
<1> QED BY <1>1, LookingHookKeeps DEF ScopeHook

LEMMA ConfigHookKeeps ==
  ASSUME SafeInv, NEW after, Follows(plugin, after), ConfigHook(after),
         ~after.invalid => Knows(after, ran', gathered', observed \cup {ConfigSeen})
  PROVE  /\ PluginTypes' /\ Follows(plugin, plugin') /\ late' \in BOOLEAN
         /\ artifact' # NoDocument => artifact'.state \in {"started", "finalized"}
         /\ TrustInv' /\ ~Finalized' /\ observed' \subseteq Scope
<1>1. ConfigSeen \in Scope
  BY PartsAreScopes DEF SafeInv, TypeInv, SessionTypes
<1> QED BY <1>1, LookingHookKeeps DEF ConfigHook

(* What the plugin is before a hook, and once it has looked at the scope.  *)
LEMMA PluginKnows ==
  ASSUME SafeInv
  PROVE  /\ plugin \in PluginState /\ live \in Scope
         /\ ~plugin.invalid => Knows(plugin, ran, gathered, observed)
BY DEF SafeInv, TypeInv, PluginTypes, SessionTypes, TrustInv, Knows

LEMMA RefreshedKnows ==
  ASSUME SafeInv
  PROVE  LET p == Refreshed(plugin)
         IN  /\ Follows(plugin, p) /\ p \in PluginState
             /\ ~p.invalid => Knows(p, ran, gathered, observed \cup {live})
<1> DEFINE p == Refreshed(plugin)
<1>1. plugin \in PluginState /\ live \in Scope /\ observed \subseteq Scope
  BY DEF SafeInv, TypeInv, PluginTypes, SessionTypes
<1>2. SameButScope(plugin, p)
  BY <1>1, RefreshedKeeps
<1>3. ~p.invalid => Seen(live, p) /\ \A s \in Scope : Seen(s, plugin) => Seen(s, p)
  BY <1>1, RefreshedKeeps
<1>4. ~p.invalid => ~plugin.invalid
  BY <1>1, <1>2 DEF SameButScope, PluginState
<1> HIDE DEF p
<1>5. ~p.invalid => Knows(p, ran, gathered, observed \cup {live})
  BY <1>1, <1>2, <1>3, <1>4, PluginKnows DEF SameButScope, Knows
<1> QED BY <1>1, <1>2, <1>5, RefreshedFollows DEF p

LEMMA ConfigKnows ==
  ASSUME SafeInv
  PROVE  LET p == ConfigRemembered(plugin)
         IN  /\ Follows(plugin, p) /\ p \in PluginState
             /\ ~p.invalid => Knows(p, ran, gathered, observed \cup {ConfigSeen})
<1> DEFINE p == ConfigRemembered(plugin)
<1>1. plugin \in PluginState /\ live \in Scope /\ observed \subseteq Scope
  BY DEF SafeInv, TypeInv, PluginTypes, SessionTypes
<1>2. /\ SameButScope(plugin, p) /\ Follows(plugin, p) /\ p \in PluginState
      /\ ~p.invalid => Seen(ConfigSeen, p) /\ \A s \in Scope : Seen(s, plugin) => Seen(s, p)
  BY <1>1, ConfigKeeps
<1>3. ~p.invalid => ~plugin.invalid
  BY <1>1, <1>2 DEF SameButScope, PluginState
<1> HIDE DEF p
<1>4. ~p.invalid => Knows(p, ran, gathered, observed \cup {ConfigSeen})
  BY <1>1, <1>2, <1>3, PluginKnows DEF SameButScope, Knows
<1> QED BY <1>2, <1>4 DEF p

LEMMA SameTraceKnows ==
  ASSUME NEW p \in PluginState, NEW q \in PluginState, Follows(p, q), SameTrace(p, q),
         NEW reports, NEW collected, NEW scopes,
         ~p.invalid => Knows(p, reports, collected, scopes)
  PROVE  ~q.invalid => Knows(q, reports, collected, scopes)
BY DEF Follows, SameTrace, Knows, Seen, PluginState

LEMMA RefreshedThen ==
  ASSUME SafeInv, NEW after, Follows(Refreshed(plugin), after), SameTrace(Refreshed(plugin), after)
  PROVE  /\ Follows(plugin, after) /\ after \in PluginState
         /\ ~after.invalid => Knows(after, ran, gathered, observed \cup {live})
<1>1. after \in PluginState
  BY DEF Follows
<1>2. Follows(plugin, after)
  BY <1>1, RefreshedKnows, PluginKnows, FollowsOn
<1> QED BY <1>1, <1>2, RefreshedKnows, SameTraceKnows

LEMMA ConfigThen ==
  ASSUME SafeInv, NEW after, Follows(ConfigRemembered(plugin), after),
         SameTrace(ConfigRemembered(plugin), after)
  PROVE  /\ Follows(plugin, after) /\ after \in PluginState
         /\ ~after.invalid => Knows(after, ran, gathered, observed \cup {ConfigSeen})
<1>1. after \in PluginState
  BY DEF Follows
<1>2. Follows(plugin, after)
  BY <1>1, ConfigKnows, PluginKnows, FollowsOn
<1> QED BY <1>1, <1>2, ConfigKnows, SameTraceKnows

LEMMA JustThen ==
  ASSUME SafeInv, NEW after, Follows(plugin, after), SameTrace(plugin, after)
  PROVE  /\ after \in PluginState
         /\ ~after.invalid => Knows(after, ran, gathered, observed)
<1>1. after \in PluginState
  BY DEF Follows
<1> QED BY <1>1, PluginKnows, SameTraceKnows

-----------------------------------------------------------------------------
(* The steps of the session.                                               *)

LEMMA QuietKeepsTrust ==
  ASSUME SafeInv, UNCHANGED <<plugin, ran, gathered, observed, late>>
  PROVE  TrustInv' /\ PluginTypes'
BY DEF SafeInv, TypeInv, PluginTypes, TrustInv, Seen

LEMMA LoadKeeps ==
  ASSUME SafeInv, Load, strays' \in 0 .. StrayBound
  PROVE  SafeInv'
<1> DEFINE after == ArgsRemembered(plugin)
           seen == ArgsSeen
<1>1. plugin \in PluginState /\ live \in Scope /\ observed \subseteq Scope
  BY DEF SafeInv, TypeInv, PluginTypes, SessionTypes
<1>2. seen \in Scope /\ seen.args = live.args /\ seen.keyword = ""
  BY <1>1, PartsAreScopes
<1>3. /\ SameButScope(plugin, after) /\ after.keyword = plugin.keyword
      /\ ~after.invalid => /\ IsSubsequence(live.args, after.args)
                           /\ \A t \in Scope : IsSubsequence(t.args, plugin.args) => IsSubsequence(t.args, after.args)
  BY <1>1, MergeArgsKeeps DEF ArgsRemembered
<1> HIDE DEF after, seen
<1>4. Follows(plugin, after) /\ LookingHook(after, seen)
  BY <1>3 DEF Load, Follows, SameButScope, after, seen
<1>5. ~after.invalid => Knows(after, ran, gathered, observed)
  BY <1>1, <1>3, PluginKnows DEF Knows, Seen, SameButScope, PluginState
<1>6. ~after.invalid => Seen(seen, after)
  BY <1>2, <1>3 DEF Seen
<1>7. ran' = ran /\ gathered' = gathered
  BY DEF Load, pytestVars
<1>8. ~after.invalid => Knows(after, ran', gathered', observed \cup {seen})
  BY <1>5, <1>6, <1>7 DEF Knows
<1>9. /\ PluginTypes' /\ Follows(plugin, plugin') /\ late' \in BOOLEAN
      /\ artifact' # NoDocument => artifact'.state \in {"started", "finalized"}
      /\ TrustInv' /\ ~Finalized' /\ observed' \subseteq Scope
  BY <1>2, <1>4, <1>8, LookingHookKeeps
<1>10. SessionTypes' /\ FileTypes'
  BY <1>2, <1>4, <1>9 DEF Load, SafeInv, TypeInv, SessionTypes, Collecting, FileTypes,
     pytestVars, readerVars
<1>11. FinalInv'
  BY <1>9 DEF Load, Follows, SafeInv, FinalInv, MarkerInv, Over, pytestVars,
     readerVars, Running
<1> QED BY <1>9, <1>10, <1>11 DEF SafeInv, TypeInv

(* The codes that pytest and the model use are exit codes.                 *)
LEMMA CodesAreCodes ==
  /\ {0, 1, 2, 3, 4, 5} \subseteq ExitCode /\ Chosen \subseteq ExitCode
  /\ ForcedExit(plugin) \in {2, 3}
<1>1. \A code \in {0, 1, 2, 3, 4, 5} : code \in ExitCode
  BY DEF ExitCode
<1>2. Chosen \subseteq ExitCode
  BY PytestReporterAssumption
<1>3. ForcedExit(plugin) \in {2, 3}
  BY DEF ForcedExit
<1> QED BY <1>1, <1>2, <1>3

LEMMA ConfigureKeeps ==
  ASSUME SafeInv, Configure, strays' \in 0 .. StrayBound
  PROVE  SafeInv'
<1> DEFINE after == ConfigRemembered(plugin)
<1>1. Follows(ConfigRemembered(plugin), after) /\ SameTrace(ConfigRemembered(plugin), after)
  BY ConfigKnows, EveryFollowsItself DEF FollowsSelf
<1>2. Follows(plugin, after) /\ (~after.invalid => Knows(after, ran, gathered, observed \cup {ConfigSeen}))
  BY <1>1, ConfigThen
<1> HIDE DEF after
<1>3. ConfigHook(after) /\ ran' = ran /\ gathered' = gathered
  BY DEF Configure, after, pytestVars
<1>4. /\ PluginTypes' /\ Follows(plugin, plugin') /\ late' \in BOOLEAN
      /\ artifact' # NoDocument => artifact'.state \in {"started", "finalized"}
      /\ TrustInv' /\ ~Finalized' /\ observed' \subseteq Scope
  BY <1>2, <1>3, ConfigHookKeeps
<1>5. SessionTypes' /\ FileTypes'
  BY <1>4 DEF Configure, SafeInv, TypeInv, SessionTypes, Collecting, FileTypes, pytestVars,
     readerVars
<1>6. FinalInv'
  BY <1>4 DEF Configure, Follows, SafeInv, FinalInv, MarkerInv, Over, pytestVars,
     readerVars, Running
<1> QED BY <1>4, <1>5, <1>6 DEF SafeInv, TypeInv

LEMMA SetupNodesKeeps ==
  ASSUME SafeInv, SetupNodes, strays' \in 0 .. StrayBound
  PROVE  SafeInv'
<1> DEFINE p == ConfigRemembered(plugin)
           q == [p EXCEPT !.parallel = TRUE]
<1>0. p \in PluginState /\ q \in PluginState /\ Follows(p, q) /\ SameTrace(p, q)
  BY ConfigKnows, ParallelKeeps DEF Follows
<1>a. LET r == RecordFinish(q, 4, TRUE, TRUE) IN Follows(q, r) /\ SameTrace(q, r)
  BY <1>0, FinishKeeps, CodesAreCodes
<1> DEFINE after == RecordFinish([ConfigRemembered(plugin) EXCEPT !.parallel = TRUE], 4, TRUE, TRUE)
<1>1. Follows(ConfigRemembered(plugin), after) /\ SameTrace(ConfigRemembered(plugin), after)
  BY <1>0, <1>a, FollowsOn DEF SameTrace, Follows
<1>2. Follows(plugin, after) /\ (~after.invalid => Knows(after, ran, gathered, observed \cup {ConfigSeen}))
  BY <1>1, ConfigThen
<1> HIDE DEF after
<1>3. ConfigHook(after) /\ ran' = ran /\ gathered' = gathered
  BY DEF SetupNodes, after, pytestVars
<1>4. /\ PluginTypes' /\ Follows(plugin, plugin') /\ late' \in BOOLEAN
      /\ artifact' # NoDocument => artifact'.state \in {"started", "finalized"}
      /\ TrustInv' /\ ~Finalized' /\ observed' \subseteq Scope
  BY <1>2, <1>3, ConfigHookKeeps
<1>5. SessionTypes' /\ FileTypes'
  BY <1>4, CodesAreCodes DEF SetupNodes, SafeInv, TypeInv, SessionTypes, Collecting, FileTypes,
     pytestVars, readerVars
<1>6. FinalInv'
  BY <1>4 DEF SetupNodes, Follows, SafeInv, FinalInv, MarkerInv, Over, pytestVars,
     readerVars, Running
<1> QED BY <1>4, <1>5, <1>6 DEF SafeInv, TypeInv

LEMMA CollectErrorKeeps ==
  ASSUME SafeInv, CollectError, strays' \in 0 .. StrayBound
  PROVE  SafeInv'
<1> DEFINE after == [plugin EXCEPT !.errors = TRUE]
<1>1. Follows(plugin, after) /\ SameTrace(plugin, after)
  BY PluginKnows, ErrorsKeep
<1>2. Follows(plugin, after) /\ (~after.invalid => Knows(after, ran, gathered, observed))
  BY <1>1, JustThen
<1> HIDE DEF after
<1>3. Hook(after) /\ ran' = ran /\ gathered' = gathered /\ observed' = observed
  BY DEF CollectError, after, pytestVars
<1>4. /\ PluginTypes' /\ Follows(plugin, plugin') /\ late' \in BOOLEAN
      /\ artifact' # NoDocument => artifact'.state \in {"started", "finalized"}
      /\ TrustInv' /\ ~Finalized'
  BY <1>2, <1>3, HookKeeps
<1>5. SessionTypes' /\ FileTypes'
  BY <1>4 DEF CollectError, SafeInv, TypeInv, SessionTypes, Collecting, FileTypes, pytestVars,
     readerVars
<1>6. FinalInv'
  BY <1>4 DEF CollectError, Follows, SafeInv, FinalInv, MarkerInv, Over, pytestVars,
     readerVars, Running
<1> QED BY <1>4, <1>5, <1>6 DEF SafeInv, TypeInv

LEMMA DeselectKeeps ==
  ASSUME SafeInv, NEW n \in Node, Deselect(n), strays' \in 0 .. StrayBound
  PROVE  SafeInv'
<1> DEFINE after == Deselected(plugin, n)
<1>1. Follows(plugin, after) /\ SameTrace(plugin, after)
  BY PluginKnows, DeselectedKeeps
<1>2. Follows(plugin, after) /\ (~after.invalid => Knows(after, ran, gathered, observed))
  BY <1>1, JustThen
<1> HIDE DEF after
<1>3. Hook(after) /\ ran' = ran /\ gathered' = gathered /\ observed' = observed
  BY DEF Deselect, after, pytestVars
<1>4. /\ PluginTypes' /\ Follows(plugin, plugin') /\ late' \in BOOLEAN
      /\ artifact' # NoDocument => artifact'.state \in {"started", "finalized"}
      /\ TrustInv' /\ ~Finalized'
  BY <1>2, <1>3, HookKeeps
<1>5. SessionTypes' /\ FileTypes'
  BY <1>4 DEF Deselect, SafeInv, TypeInv, SessionTypes, Collecting, FileTypes, pytestVars,
     readerVars
<1>6. FinalInv'
  BY <1>4 DEF Deselect, Follows, SafeInv, FinalInv, MarkerInv, Over, pytestVars,
     readerVars, Running
<1> QED BY <1>4, <1>5, <1>6 DEF SafeInv, TypeInv

LEMMA CollectionFinishKeeps ==
  ASSUME SafeInv, CollectionFinish, strays' \in 0 .. StrayBound
  PROVE  SafeInv'
<1> DEFINE after == [Refreshed(plugin) EXCEPT !.collected = TRUE]
<1>1. Follows(Refreshed(plugin), after) /\ SameTrace(Refreshed(plugin), after)
  BY RefreshedKnows, CollectedKeeps
<1>2. Follows(plugin, after) /\ (~after.invalid => Knows(after, ran, gathered, observed \cup {live}))
  BY <1>1, RefreshedThen
<1> HIDE DEF after
<1>3. ScopeHook(after) /\ ran' = ran /\ gathered' = gathered
  BY DEF CollectionFinish, after, pytestVars
<1>4. /\ PluginTypes' /\ Follows(plugin, plugin') /\ late' \in BOOLEAN
      /\ artifact' # NoDocument => artifact'.state \in {"started", "finalized"}
      /\ TrustInv' /\ ~Finalized' /\ observed' \subseteq Scope
  BY <1>2, <1>3, ScopeHookKeeps
<1>5. SessionTypes' /\ FileTypes'
  BY <1>4, CodesAreCodes DEF CollectionFinish, SafeInv, TypeInv, SessionTypes, Collecting,
     FileTypes, pytestVars, readerVars
<1>6. FinalInv'
  BY <1>4 DEF CollectionFinish, Follows, SafeInv, FinalInv, MarkerInv, Over, pytestVars,
     readerVars, Running
<1> QED BY <1>4, <1>5, <1>6 DEF SafeInv, TypeInv

LEMMA FinishBeginKeeps ==
  ASSUME SafeInv, FinishBegin, strays' \in 0 .. StrayBound
  PROVE  SafeInv'
<1> DEFINE after == ConfigRemembered(plugin)
<1>1. Follows(ConfigRemembered(plugin), after) /\ SameTrace(ConfigRemembered(plugin), after)
  BY ConfigKnows, EveryFollowsItself DEF FollowsSelf
<1>2. Follows(plugin, after) /\ (~after.invalid => Knows(after, ran, gathered, observed \cup {ConfigSeen}))
  BY <1>1, ConfigThen
<1> HIDE DEF after
<1>3. ConfigHook(after) /\ ran' = ran /\ gathered' = gathered
  BY DEF FinishBegin, after, pytestVars
<1>4. /\ PluginTypes' /\ Follows(plugin, plugin') /\ late' \in BOOLEAN
      /\ artifact' # NoDocument => artifact'.state \in {"started", "finalized"}
      /\ TrustInv' /\ ~Finalized' /\ observed' \subseteq Scope
  BY <1>2, <1>3, ConfigHookKeeps
<1>5. SessionTypes' /\ FileTypes'
  BY <1>4 DEF FinishBegin, SafeInv, TypeInv, SessionTypes, Collecting, FileTypes, pytestVars,
     readerVars, Active
<1>6. FinalInv'
  BY <1>4 DEF FinishBegin, Follows, SafeInv, FinalInv, MarkerInv, Over, pytestVars,
     readerVars, Running
<1> QED BY <1>4, <1>5, <1>6 DEF SafeInv, TypeInv

LEMMA ExtraFinishKeeps ==
  ASSUME SafeInv, ExtraFinish, strays' \in 0 .. StrayBound
  PROVE  SafeInv'
<1>0. PICK exit \in Chosen :
         ScopeHook(RecordFinish(Refreshed(plugin), exit, StoppedEarly(Refreshed(plugin)), FALSE))
  BY DEF ExtraFinish
<1> DEFINE after == RecordFinish(Refreshed(plugin), exit, StoppedEarly(Refreshed(plugin)), FALSE)
<1>1. Follows(Refreshed(plugin), after) /\ SameTrace(Refreshed(plugin), after)
  BY <1>0, RefreshedKnows, EarlyIsBoolean, FinishKeeps, CodesAreCodes DEF SafeInv, TypeInv
<1>2. Follows(plugin, after) /\ (~after.invalid => Knows(after, ran, gathered, observed \cup {live}))
  BY <1>1, RefreshedThen
<1> HIDE DEF after
<1>3. ScopeHook(after) /\ ran' = ran /\ gathered' = gathered
  BY <1>0 DEF ExtraFinish, after, pytestVars
<1>4. /\ PluginTypes' /\ Follows(plugin, plugin') /\ late' \in BOOLEAN
      /\ artifact' # NoDocument => artifact'.state \in {"started", "finalized"}
      /\ TrustInv' /\ ~Finalized' /\ observed' \subseteq Scope
  BY <1>2, <1>3, ScopeHookKeeps
<1>5. SessionTypes' /\ FileTypes'
  BY <1>4 DEF ExtraFinish, SafeInv, TypeInv, SessionTypes, Collecting, FileTypes, pytestVars,
     readerVars
<1>6. FinalInv'
  BY <1>4 DEF ExtraFinish, Follows, SafeInv, FinalInv, MarkerInv, Over, pytestVars,
     readerVars, Running
<1> QED BY <1>4, <1>5, <1>6 DEF SafeInv, TypeInv

LEMMA DeselectLaterKeeps ==
  ASSUME SafeInv, DeselectLater, strays' \in 0 .. StrayBound
  PROVE  SafeInv'
<1>0. PICK n \in items : Hook(Deselected(plugin, n))
  BY DEF DeselectLater
<1> DEFINE after == Deselected(plugin, n)
<1>1. Follows(plugin, after) /\ SameTrace(plugin, after)
  BY <1>0, PluginKnows, DeselectedKeeps DEF SafeInv, TypeInv, SessionTypes
<1>2. Follows(plugin, after) /\ (~after.invalid => Knows(after, ran, gathered, observed))
  BY <1>1, JustThen
<1> HIDE DEF after
<1>3. Hook(after) /\ ran' = ran /\ gathered' = gathered /\ observed' = observed
  BY <1>0 DEF DeselectLater, after, pytestVars
<1>4. /\ PluginTypes' /\ Follows(plugin, plugin') /\ late' \in BOOLEAN
      /\ artifact' # NoDocument => artifact'.state \in {"started", "finalized"}
      /\ TrustInv' /\ ~Finalized'
  BY <1>2, <1>3, HookKeeps
<1>5. SessionTypes' /\ FileTypes'
  BY <1>4 DEF DeselectLater, SafeInv, TypeInv, SessionTypes, Collecting, FileTypes, pytestVars,
     readerVars
<1>6. FinalInv'
  BY <1>4 DEF DeselectLater, Follows, SafeInv, FinalInv, MarkerInv, Over, pytestVars,
     readerVars, Running
<1> QED BY <1>4, <1>5, <1>6 DEF SafeInv, TypeInv

LEMMA UnconfigureEarlyKeeps ==
  ASSUME SafeInv, UnconfigureEarly, strays' \in 0 .. StrayBound
  PROVE  SafeInv'
<1> DEFINE after == Closed(Refreshed(plugin))
<1>1. Follows(Refreshed(plugin), after) /\ SameTrace(Refreshed(plugin), after)
  BY RefreshedKnows, ClosedKeeps
<1>2. Follows(plugin, after) /\ (~after.invalid => Knows(after, ran, gathered, observed \cup {live}))
  BY <1>1, RefreshedThen
<1> HIDE DEF after
<1>3. ScopeHook(after) /\ ran' = ran /\ gathered' = gathered
  BY DEF UnconfigureEarly, after, pytestVars
<1>4. /\ PluginTypes' /\ Follows(plugin, plugin') /\ late' \in BOOLEAN
      /\ artifact' # NoDocument => artifact'.state \in {"started", "finalized"}
      /\ TrustInv' /\ ~Finalized' /\ observed' \subseteq Scope
  BY <1>2, <1>3, ScopeHookKeeps
<1>5. SessionTypes' /\ FileTypes'
  BY <1>4 DEF UnconfigureEarly, SafeInv, TypeInv, SessionTypes, Collecting, FileTypes,
     pytestVars, readerVars
<1>6. FinalInv'
  BY <1>4 DEF UnconfigureEarly, Follows, SafeInv, FinalInv, MarkerInv, Over, pytestVars,
     readerVars, Running
<1> QED BY <1>4, <1>5, <1>6 DEF SafeInv, TypeInv

LEMMA HookAtExitKeeps ==
  ASSUME SafeInv, HookAtExit, strays' \in 0 .. StrayBound
  PROVE  SafeInv'
<1> DEFINE after == plugin
<1>1. Follows(plugin, after) /\ SameTrace(plugin, after)
  BY PluginKnows, EveryFollowsItself DEF FollowsSelf
<1>2. Follows(plugin, after) /\ (~after.invalid => Knows(after, ran, gathered, observed))
  BY <1>1, JustThen
<1> HIDE DEF after
<1>3. Hook(after) /\ ran' = ran /\ gathered' = gathered /\ observed' = observed
  BY DEF HookAtExit, after, pytestVars
<1>4. /\ PluginTypes' /\ Follows(plugin, plugin') /\ late' \in BOOLEAN
      /\ artifact' # NoDocument => artifact'.state \in {"started", "finalized"}
      /\ TrustInv' /\ ~Finalized'
  BY <1>2, <1>3, HookKeeps
<1>5. SessionTypes' /\ FileTypes'
  BY <1>4 DEF HookAtExit, SafeInv, TypeInv, SessionTypes, Collecting, FileTypes, pytestVars,
     readerVars
<1>6. FinalInv'
  BY <1>4 DEF HookAtExit, Follows, SafeInv, FinalInv, MarkerInv, Over, pytestVars,
     readerVars, Running
<1> QED BY <1>4, <1>5, <1>6 DEF SafeInv, TypeInv

LEMMA UnconfigureRaisesKeeps ==
  ASSUME SafeInv, UnconfigureRaises, strays' \in 0 .. StrayBound
  PROVE  SafeInv'
<1> DEFINE after == ConfigRemembered(plugin)
<1>1. Follows(ConfigRemembered(plugin), after) /\ SameTrace(ConfigRemembered(plugin), after)
  BY ConfigKnows, EveryFollowsItself DEF FollowsSelf
<1>2. Follows(plugin, after) /\ (~after.invalid => Knows(after, ran, gathered, observed \cup {ConfigSeen}))
  BY <1>1, ConfigThen
<1> HIDE DEF after
<1>3. ConfigHook(after) /\ ran' = ran /\ gathered' = gathered
  BY DEF UnconfigureRaises, after, pytestVars
<1>4. /\ PluginTypes' /\ Follows(plugin, plugin') /\ late' \in BOOLEAN
      /\ artifact' # NoDocument => artifact'.state \in {"started", "finalized"}
      /\ TrustInv' /\ ~Finalized' /\ observed' \subseteq Scope
  BY <1>2, <1>3, ConfigHookKeeps
<1>5. SessionTypes' /\ FileTypes'
  BY <1>4, CodesAreCodes DEF UnconfigureRaises, SafeInv, TypeInv, SessionTypes, Collecting,
     FileTypes, pytestVars, readerVars
<1>6. FinalInv'
  BY <1>4 DEF UnconfigureRaises, Follows, SafeInv, FinalInv, MarkerInv, Over, pytestVars,
     readerVars, Running
<1> QED BY <1>4, <1>5, <1>6 DEF SafeInv, TypeInv

LEMMA UnconfigureKeeps ==
  ASSUME SafeInv, Unconfigure, strays' \in 0 .. StrayBound
  PROVE  SafeInv'
<1> DEFINE after == Closed(Refreshed(plugin))
<1>1. Follows(Refreshed(plugin), after) /\ SameTrace(Refreshed(plugin), after)
  BY RefreshedKnows, ClosedKeeps
<1>2. Follows(plugin, after) /\ (~after.invalid => Knows(after, ran, gathered, observed \cup {live}))
  BY <1>1, RefreshedThen
<1> HIDE DEF after
<1>3. ran' = ran /\ gathered' = gathered
  BY DEF Unconfigure
<1>4. CASE configured
  <2>1. ScopeHook(after)
    BY <1>4 DEF Unconfigure, after
  <2>2. /\ PluginTypes' /\ Follows(plugin, plugin') /\ late' \in BOOLEAN
        /\ artifact' # NoDocument => artifact'.state \in {"started", "finalized"}
        /\ TrustInv' /\ ~Finalized' /\ observed' \subseteq Scope
    BY <1>2, <1>3, <2>1, ScopeHookKeeps
  <2>3. SessionTypes' /\ FileTypes'
    BY <2>2 DEF Unconfigure, SafeInv, TypeInv, SessionTypes, Collecting, FileTypes, readerVars
  <2>4. FinalInv'
    BY <2>2 DEF Unconfigure, Follows, SafeInv, FinalInv, MarkerInv, Over, pytestVars,
       readerVars, Running
  <2> QED BY <2>2, <2>3, <2>4 DEF SafeInv, TypeInv
<1>5. CASE ~configured
  <2>1. UNCHANGED <<plugin, artifact, observed, late>>
    BY <1>5 DEF Unconfigure
  <2>2. SessionTypes' /\ FileTypes'
    BY <2>1 DEF Unconfigure, SafeInv, TypeInv, SessionTypes, Collecting, FileTypes, readerVars
  <2>3. FinalInv'
    BY <2>1 DEF Unconfigure, SafeInv, FinalInv, MarkerInv, Finalized, Over, readerVars
  <2> QED BY <1>3, <2>1, <2>2, <2>3, QuietKeepsTrust DEF SafeInv, TypeInv
<1>6. configured \in BOOLEAN
  BY DEF SafeInv, TypeInv, SessionTypes
<1> QED BY <1>4, <1>5, <1>6

LEMMA LogReportKeeps ==
  ASSUME SafeInv, NEW outcome \in Outcome, LogReport(outcome), strays' \in 0 .. StrayBound
  PROVE  SafeInv'
<1> DEFINE r == [node |-> at.node, when |-> at.when, outcome |-> outcome]
<1>0. at \in [node : Node, when : Phase]
  BY DEF LogReport, SafeInv, TypeInv, SessionTypes
<1>1. r \in Report /\ ran' = Append(ran, r) /\ Hook(Logged(plugin, r))
  BY <1>0 DEF LogReport, Report
<1> DEFINE after == Logged(plugin, r)
<1>2. Follows(plugin, after) /\ (~after.invalid => Knows(after, ran', gathered', observed'))
  <2>1. gathered' = gathered /\ observed' = observed
    BY DEF LogReport, pytestVars
  <2>2. /\ Follows(plugin, after) /\ after.invalid = plugin.invalid
        /\ after.reports = Append(plugin.reports, r)
        /\ after.initial = plugin.initial /\ after.args = plugin.args /\ after.keyword = plugin.keyword
    BY <1>1, PluginKnows, LoggedKeeps
  <2> HIDE DEF after
  <2> QED BY <1>1, <2>1, <2>2, PluginKnows DEF Knows, Seen
<1> HIDE DEF after
<1>3. Hook(after)
  BY <1>1 DEF after
<1>4. /\ PluginTypes' /\ Follows(plugin, plugin') /\ late' \in BOOLEAN
      /\ artifact' # NoDocument => artifact'.state \in {"started", "finalized"}
      /\ TrustInv' /\ ~Finalized'
  BY <1>2, <1>3, HookKeeps
<1>5. ran' \in Seq(Report)
  BY <1>1 DEF SafeInv, TypeInv, SessionTypes

<1>6. at' \in [node : Node, when : Phase] \cup {NoItem} /\ left' \subseteq items
  <2>1. "call" \in Phase /\ "teardown" \in Phase
    BY DEF Phase
  <2>2. /\ [at EXCEPT !.when = "call"] \in [node : Node, when : Phase]
        /\ [at EXCEPT !.when = "teardown"] \in [node : Node, when : Phase]
    BY <1>0, <2>1
  <2>3. \/ at' = NoItem \/ at' = [at EXCEPT !.when = "call"] \/ at' = [at EXCEPT !.when = "teardown"]
    BY DEF LogReport
  <2>4. left' \subseteq left
    BY DEF LogReport
  <2> QED BY <2>2, <2>3, <2>4 DEF SafeInv, TypeInv, SessionTypes
<1>7. SessionTypes' /\ FileTypes'
  <2> HIDE DEF after, r
  <2> QED BY <1>4, <1>5, <1>6 DEF LogReport, SafeInv, TypeInv, SessionTypes, Collecting,
     FileTypes, readerVars
<1>8. FinalInv'
  BY <1>4 DEF LogReport, Follows, SafeInv, FinalInv, MarkerInv, Over, pytestVars,
     readerVars, Running
<1> QED BY <1>4, <1>7, <1>8 DEF SafeInv, TypeInv

LEMMA ReplayKeeps ==
  ASSUME SafeInv, Replay, strays' \in 0 .. StrayBound
  PROVE  SafeInv'
<1>0. PICK i \in 1 .. Len(ran), again \in BOOLEAN :
         LET r == IF again THEN [ran[i] EXCEPT !.outcome = "rerun"] ELSE ran[i]
         IN  Hook(Logged(plugin, r)) /\ ran' = Append(ran, r)
  BY DEF Replay
<1> DEFINE r == IF again THEN [ran[i] EXCEPT !.outcome = "rerun"] ELSE ran[i]
<1>1. r \in Report /\ ran' = Append(ran, r) /\ Hook(Logged(plugin, r))
  <2>1. ran[i] \in Report
    BY DEF SafeInv, TypeInv, SessionTypes
  <2>2. r \in Report
    BY <2>1 DEF Report, Outcome
  <2> QED BY <1>0, <2>2
<1> HIDE DEF r
<1> DEFINE after == Logged(plugin, r)
<1>2. Follows(plugin, after) /\ (~after.invalid => Knows(after, ran', gathered', observed'))
  <2>1. gathered' = gathered /\ observed' = observed
    BY DEF Replay, pytestVars
  <2>2. /\ Follows(plugin, after) /\ after.invalid = plugin.invalid
        /\ after.reports = Append(plugin.reports, r)
        /\ after.initial = plugin.initial /\ after.args = plugin.args /\ after.keyword = plugin.keyword
    BY <1>1, PluginKnows, LoggedKeeps
  <2> HIDE DEF after
  <2> QED BY <1>1, <2>1, <2>2, PluginKnows DEF Knows, Seen
<1> HIDE DEF after
<1>3. Hook(after)
  BY <1>1 DEF after
<1>4. /\ PluginTypes' /\ Follows(plugin, plugin') /\ late' \in BOOLEAN
      /\ artifact' # NoDocument => artifact'.state \in {"started", "finalized"}
      /\ TrustInv' /\ ~Finalized'
  BY <1>2, <1>3, HookKeeps
<1>5. ran' \in Seq(Report)
  BY <1>1 DEF SafeInv, TypeInv, SessionTypes

<1>6. SessionTypes' /\ FileTypes'
  BY <1>4, <1>5 DEF Replay, SafeInv, TypeInv, SessionTypes, Collecting, FileTypes, pytestVars,
     readerVars
<1>7. FinalInv'
  BY <1>4 DEF Replay, Follows, SafeInv, FinalInv, MarkerInv, Over, pytestVars,
     readerVars, Running
<1> QED BY <1>4, <1>6, <1>7 DEF SafeInv, TypeInv

-----------------------------------------------------------------------------
(* Steps that leave the plugin and its file alone.                         *)

LEMMA QuietKeeps ==
  ASSUME SafeInv, UNCHANGED <<plugin, artifact, ran, gathered, observed, late>>,
         SessionTypes', FileTypes', MarkerInv',
         plugin.terminal => pc' \in {"exiting"} \cup Over,
         pc \in Over => returncode' = returncode /\ pc' \in Over
  PROVE  SafeInv'
<1>1. FinalInv'
  BY DEF SafeInv, FinalInv, Finalized, Over
<1> QED BY <1>1, QuietKeepsTrust DEF SafeInv, TypeInv

LEMMA CutCollectionKeeps ==
  ASSUME SafeInv, CutCollection, strays' \in 0 .. StrayBound
  PROVE  SafeInv'
<1>1. UNCHANGED <<plugin, artifact, ran, gathered, observed, late>>
  BY DEF CutCollection, pytestVars, history
<1>2. SessionTypes' /\ FileTypes'
  BY <1>1, CodesAreCodes DEF CutCollection, SafeInv, TypeInv, SessionTypes, Collecting,
     FileTypes, pytestVars, readerVars, history
<1>3. /\ plugin.terminal => pc' \in {"exiting"} \cup Over
      /\ pc \in Over => returncode' = returncode /\ pc' \in Over
  BY DEF CutCollection, SafeInv, FinalInv, Over, readerVars, Running
<1>4. MarkerInv'
  BY <1>1 DEF CutCollection, SafeInv, FinalInv, MarkerInv, pytestVars, readerVars, Running
<1> QED BY <1>1, <1>2, <1>3, <1>4, QuietKeeps

LEMMA RemoveKeeps ==
  ASSUME SafeInv, NEW n \in Node, Remove(n), strays' \in 0 .. StrayBound
  PROVE  SafeInv'
<1>1. UNCHANGED <<plugin, artifact, ran, gathered, observed, late>>
  BY DEF Remove, pytestVars, history
<1>2. SessionTypes' /\ FileTypes'
  BY <1>1 DEF Remove, SafeInv, TypeInv, SessionTypes, Collecting, FileTypes, pytestVars,
     readerVars, history
<1>3. /\ plugin.terminal => pc' \in {"exiting"} \cup Over
      /\ pc \in Over => returncode' = returncode /\ pc' \in Over
  BY DEF Remove, SafeInv, FinalInv, Over, readerVars, Running
<1>4. MarkerInv'
  BY <1>1 DEF Remove, SafeInv, FinalInv, MarkerInv, pytestVars, readerVars, Running
<1> QED BY <1>1, <1>2, <1>3, <1>4, QuietKeeps

LEMMA CutModifyKeeps ==
  ASSUME SafeInv, CutModify, strays' \in 0 .. StrayBound
  PROVE  SafeInv'
<1>1. UNCHANGED <<plugin, artifact, ran, gathered, observed, late>>
  BY DEF CutModify, pytestVars, history
<1>2. SessionTypes' /\ FileTypes'
  BY <1>1, CodesAreCodes DEF CutModify, SafeInv, TypeInv, SessionTypes, Collecting, FileTypes,
     pytestVars, readerVars, history
<1>3. /\ plugin.terminal => pc' \in {"exiting"} \cup Over
      /\ pc \in Over => returncode' = returncode /\ pc' \in Over
  BY DEF CutModify, SafeInv, FinalInv, Over, readerVars, Running
<1>4. MarkerInv'
  BY <1>1 DEF CutModify, SafeInv, FinalInv, MarkerInv, pytestVars, readerVars, Running
<1> QED BY <1>1, <1>2, <1>3, <1>4, QuietKeeps

LEMMA StartItemKeeps ==
  ASSUME SafeInv, NEW n \in Node, StartItem(n), strays' \in 0 .. StrayBound
  PROVE  SafeInv'
<1>1. UNCHANGED <<plugin, artifact, ran, gathered, observed, late>>
  BY DEF StartItem, pytestVars, history
<1>2. SessionTypes' /\ FileTypes'
  BY <1>1 DEF StartItem, SafeInv, TypeInv, SessionTypes, Collecting, FileTypes, pytestVars,
     readerVars, history, Phase
<1>3. /\ plugin.terminal => pc' \in {"exiting"} \cup Over
      /\ pc \in Over => returncode' = returncode /\ pc' \in Over
  BY DEF StartItem, SafeInv, FinalInv, Over, readerVars, Running
<1>4. MarkerInv'
  BY <1>1 DEF StartItem, SafeInv, FinalInv, MarkerInv, pytestVars, readerVars, Running
<1> QED BY <1>1, <1>2, <1>3, <1>4, QuietKeeps

LEMMA EndRunKeeps ==
  ASSUME SafeInv, EndRun, strays' \in 0 .. StrayBound
  PROVE  SafeInv'
<1>1. UNCHANGED <<plugin, artifact, ran, gathered, observed, late>>
  BY DEF EndRun, pytestVars, history
<1>2. SessionTypes' /\ FileTypes'
  BY <1>1, CodesAreCodes DEF EndRun, SafeInv, TypeInv, SessionTypes, Collecting, FileTypes,
     pytestVars, readerVars, history
<1>3. /\ plugin.terminal => pc' \in {"exiting"} \cup Over
      /\ pc \in Over => returncode' = returncode /\ pc' \in Over
  BY DEF EndRun, SafeInv, FinalInv, Over, readerVars, Running
<1>4. MarkerInv'
  BY <1>1 DEF EndRun, SafeInv, FinalInv, MarkerInv, pytestVars, readerVars, Running
<1> QED BY <1>1, <1>2, <1>3, <1>4, QuietKeeps

LEMMA StopEarlyKeeps ==
  ASSUME SafeInv, StopEarly, strays' \in 0 .. StrayBound
  PROVE  SafeInv'
<1>1. UNCHANGED <<plugin, artifact, ran, gathered, observed, late>>
  BY DEF StopEarly, pytestVars, history
<1>2. SessionTypes' /\ FileTypes'
  BY <1>1, CodesAreCodes DEF StopEarly, SafeInv, TypeInv, SessionTypes, Collecting, FileTypes,
     pytestVars, readerVars, history
<1>3. /\ plugin.terminal => pc' \in {"exiting"} \cup Over
      /\ pc \in Over => returncode' = returncode /\ pc' \in Over
  BY DEF StopEarly, SafeInv, FinalInv, Over, readerVars, Running
<1>4. MarkerInv'
  BY <1>1 DEF StopEarly, SafeInv, FinalInv, MarkerInv, pytestVars, readerVars, Running
<1> QED BY <1>1, <1>2, <1>3, <1>4, QuietKeeps

LEMMA CollectOnlyKeeps ==
  ASSUME SafeInv, CollectOnly, strays' \in 0 .. StrayBound
  PROVE  SafeInv'
<1>1. UNCHANGED <<plugin, artifact, ran, gathered, observed, late>>
  BY DEF CollectOnly, pytestVars, history
<1>2. SessionTypes' /\ FileTypes'
  BY <1>1, CodesAreCodes DEF CollectOnly, SafeInv, TypeInv, SessionTypes, Collecting, FileTypes,
     pytestVars, readerVars, history
<1>3. /\ plugin.terminal => pc' \in {"exiting"} \cup Over
      /\ pc \in Over => returncode' = returncode /\ pc' \in Over
  BY DEF CollectOnly, SafeInv, FinalInv, Over, readerVars, Running
<1>4. MarkerInv'
  BY <1>1 DEF CollectOnly, SafeInv, FinalInv, MarkerInv, pytestVars, readerVars, Running
<1> QED BY <1>1, <1>2, <1>3, <1>4, QuietKeeps

LEMMA CutRunKeeps ==
  ASSUME SafeInv, CutRun, strays' \in 0 .. StrayBound
  PROVE  SafeInv'
<1>1. UNCHANGED <<plugin, artifact, ran, gathered, observed, late>>
  BY DEF CutRun, pytestVars, history
<1>2. SessionTypes' /\ FileTypes'
  BY <1>1, CodesAreCodes DEF CutRun, SafeInv, TypeInv, SessionTypes, Collecting, FileTypes,
     pytestVars, readerVars, history
<1>3. /\ plugin.terminal => pc' \in {"exiting"} \cup Over
      /\ pc \in Over => returncode' = returncode /\ pc' \in Over
  BY DEF CutRun, SafeInv, FinalInv, Over, readerVars, Running
<1>4. MarkerInv'
  BY <1>1 DEF CutRun, SafeInv, FinalInv, MarkerInv, pytestVars, readerVars, Running
<1> QED BY <1>1, <1>2, <1>3, <1>4, QuietKeeps

LEMMA ChangeScopeKeeps ==
  ASSUME SafeInv, ChangeScope, strays' \in 0 .. StrayBound
  PROVE  SafeInv'
<1>1. UNCHANGED <<plugin, artifact, ran, gathered, observed, late>>
  BY DEF ChangeScope, pytestVars, history
<1>2. SessionTypes' /\ FileTypes'
  BY <1>1 DEF ChangeScope, SafeInv, TypeInv, SessionTypes, Collecting, FileTypes, pytestVars,
     readerVars, history, Running
<1>3. /\ plugin.terminal => pc' \in {"exiting"} \cup Over
      /\ pc \in Over => returncode' = returncode /\ pc' \in Over
  BY DEF ChangeScope, SafeInv, FinalInv, Over, readerVars, Running
<1>4. MarkerInv'
  BY <1>1 DEF ChangeScope, SafeInv, FinalInv, MarkerInv, pytestVars, readerVars, Running
<1> QED BY <1>1, <1>2, <1>3, <1>4, QuietKeeps

LEMMA SuppressKeeps ==
  ASSUME SafeInv, Suppress, strays' \in 0 .. StrayBound
  PROVE  SafeInv'
<1>1. UNCHANGED <<plugin, artifact, ran, gathered, observed, late>>
  BY DEF Suppress, pytestVars, history
<1>2. SessionTypes' /\ FileTypes'
  BY <1>1 DEF Suppress, SafeInv, TypeInv, SessionTypes, Collecting, FileTypes, pytestVars,
     readerVars, history
<1>3. /\ plugin.terminal => pc' \in {"exiting"} \cup Over
      /\ pc \in Over => returncode' = returncode /\ pc' \in Over
  BY DEF Suppress, SafeInv, FinalInv, Over, readerVars, Running
<1>4. MarkerInv'
  BY <1>1 DEF Suppress, SafeInv, FinalInv, MarkerInv, pytestVars, readerVars, Running
<1> QED BY <1>1, <1>2, <1>3, <1>4, QuietKeeps

LEMMA OverrideStatusKeeps ==
  ASSUME SafeInv, OverrideStatus, strays' \in 0 .. StrayBound
  PROVE  SafeInv'
<1>1. UNCHANGED <<plugin, artifact, ran, gathered, observed, late>>
  BY DEF OverrideStatus, pytestVars, history
<1>2. SessionTypes' /\ FileTypes'
  BY <1>1, CodesAreCodes DEF OverrideStatus, SafeInv, TypeInv, SessionTypes, Collecting,
     FileTypes, pytestVars, readerVars, history
<1>3. /\ plugin.terminal => pc' \in {"exiting"} \cup Over
      /\ pc \in Over => returncode' = returncode /\ pc' \in Over
  BY DEF OverrideStatus, SafeInv, FinalInv, Over, readerVars, Running
<1>4. MarkerInv'
  BY <1>1 DEF OverrideStatus, SafeInv, FinalInv, MarkerInv, pytestVars, readerVars, Running
<1> QED BY <1>1, <1>2, <1>3, <1>4, QuietKeeps

LEMMA FinishRaisesKeeps ==
  ASSUME SafeInv, FinishRaises, strays' \in 0 .. StrayBound
  PROVE  SafeInv'
<1>1. UNCHANGED <<plugin, artifact, ran, gathered, observed, late>>
  BY DEF FinishRaises, pytestVars, history
<1>2. SessionTypes' /\ FileTypes'
  BY <1>1, CodesAreCodes DEF FinishRaises, SafeInv, TypeInv, SessionTypes, Collecting,
     FileTypes, pytestVars, readerVars, history
<1>3. /\ plugin.terminal => pc' \in {"exiting"} \cup Over
      /\ pc \in Over => returncode' = returncode /\ pc' \in Over
  BY DEF FinishRaises, SafeInv, FinalInv, Over, readerVars, Running
<1>4. MarkerInv'
  BY <1>1 DEF FinishRaises, SafeInv, FinalInv, MarkerInv, pytestVars, readerVars, Running
<1> QED BY <1>1, <1>2, <1>3, <1>4, QuietKeeps

LEMMA OtherRegistersKeeps ==
  ASSUME SafeInv, OtherRegisters, strays' \in 0 .. StrayBound
  PROVE  SafeInv'
<1>1. UNCHANGED <<plugin, artifact, ran, gathered, observed, late>>
  BY DEF OtherRegisters, pytestVars, history
<1>2. SessionTypes' /\ FileTypes'
  BY <1>1 DEF OtherRegisters, SafeInv, TypeInv, SessionTypes, Collecting, FileTypes, pytestVars,
     readerVars, history
<1>3. /\ plugin.terminal => pc' \in {"exiting"} \cup Over
      /\ pc \in Over => returncode' = returncode /\ pc' \in Over
  BY DEF OtherRegisters, SafeInv, FinalInv, Over, readerVars, Running
<1>4. MarkerInv'
  BY <1>1 DEF OtherRegisters, SafeInv, FinalInv, MarkerInv, pytestVars, readerVars, Running
<1> QED BY <1>1, <1>2, <1>3, <1>4, QuietKeeps

LEMMA TakeInventoryKeeps ==
  ASSUME SafeInv, TakeInventory, strays' \in 0 .. StrayBound
  PROVE  SafeInv'
<1>1. UNCHANGED <<plugin, artifact, ran, gathered, observed, late>>
  BY DEF TakeInventory, pytestVars, history
<1>2. SessionTypes' /\ FileTypes'
  BY <1>1 DEF TakeInventory, SafeInv, TypeInv, SessionTypes, Collecting, FileTypes, pytestVars,
     readerVars, history
<1>3. /\ plugin.terminal => pc' \in {"exiting"} \cup Over
      /\ pc \in Over => returncode' = returncode /\ pc' \in Over
  BY DEF TakeInventory, SafeInv, FinalInv, Over, readerVars, Running
<1>4. MarkerInv'
  BY <1>1 DEF TakeInventory, SafeInv, FinalInv, MarkerInv, pytestVars, readerVars, Running
<1> QED BY <1>1, <1>2, <1>3, <1>4, QuietKeeps

LEMMA ReadArtifactKeeps ==
  ASSUME SafeInv, ReadArtifact, strays' \in 0 .. StrayBound
  PROVE  SafeInv'
<1>1. UNCHANGED <<plugin, artifact, ran, gathered, observed, late>>
  BY DEF ReadArtifact, pytestVars, history
<1>2. SessionTypes' /\ FileTypes'
  BY <1>1 DEF ReadArtifact, SafeInv, TypeInv, SessionTypes, Collecting, FileTypes, pytestVars,
     readerVars, history
<1>3. /\ plugin.terminal => pc' \in {"exiting"} \cup Over
      /\ pc \in Over => returncode' = returncode /\ pc' \in Over
  BY DEF ReadArtifact, SafeInv, FinalInv, Over, readerVars, Running
<1>4. MarkerInv'
  BY <1>1 DEF ReadArtifact, SafeInv, FinalInv, MarkerInv, pytestVars, readerVars, Running
<1> QED BY <1>1, <1>2, <1>3, <1>4, QuietKeeps

LEMMA StutterKeeps ==
  ASSUME SafeInv, UNCHANGED vars
  PROVE  SafeInv'
<1>1. SessionTypes' /\ FileTypes'
  BY DEF vars, SafeInv, TypeInv, SessionTypes, Collecting, FileTypes, readerVars, history
<1>2. MarkerInv'
  BY DEF vars, SafeInv, FinalInv, MarkerInv, readerVars
<1> QED BY <1>1, <1>2, QuietKeeps DEF vars, SafeInv, FinalInv, Over, readerVars, history

(* The end of the process: until then the exit code says nothing.          *)
LEMMA EndKeeps ==
  ASSUME SafeInv, UNCHANGED <<plugin, artifact, ran, gathered, observed, late>>,
         SessionTypes', FileTypes', markers' = markers, pc \notin Over, pc' = "exited"
  PROVE  SafeInv'
<1>1. FinalInv'
  BY DEF SafeInv, FinalInv, MarkerInv, Finalized, Over
<1> QED BY <1>1, QuietKeepsTrust DEF SafeInv, TypeInv

LEMMA ExitKeeps ==
  ASSUME SafeInv, Exit, strays' \in 0 .. StrayBound
  PROVE  SafeInv'
<1>1. /\ UNCHANGED <<plugin, artifact, ran, gathered, observed, late>>
      /\ pc \notin Over /\ pc' = "exited" /\ markers' = markers
  BY DEF Exit, ProcessEnds, pytestVars, Over, Running
<1>2. SessionTypes' /\ FileTypes'
  BY <1>1, CodesAreCodes, PytestReporterAssumption DEF Exit, ProcessEnds, SafeInv, TypeInv,
     SessionTypes, Collecting, FileTypes
<1> QED BY <1>1, <1>2, EndKeeps

LEMMA DieKeeps ==
  ASSUME SafeInv, Die, strays' \in 0 .. StrayBound
  PROVE  SafeInv'
<1>1. /\ UNCHANGED <<plugin, artifact, ran, gathered, observed, late>>
      /\ pc \notin Over /\ pc' = "exited" /\ markers' = markers
  BY DEF Die, ProcessEnds, pytestVars, Over, Running
<1>2. SessionTypes' /\ FileTypes'
  BY <1>1, CodesAreCodes, PytestReporterAssumption DEF Die, ProcessEnds, SafeInv, TypeInv,
     SessionTypes, Collecting, FileTypes
<1> QED BY <1>1, <1>2, EndKeeps

LEMMA OtherPublishesKeeps ==
  ASSUME SafeInv, OtherPublishes, strays' \in 0 .. StrayBound
  PROVE  SafeInv'
<1>1. \E state \in {"started", "finalized"} : \E exit, collected, reports :
        artifact' = OtherDocument(state, exit, collected, reports)
  BY DEF OtherPublishes
<1>2. artifact'.state \in {"started", "finalized"} /\ ~Finalized'
  BY <1>1 DEF OtherDocument, Finalized
<1>3. UNCHANGED <<plugin, ran, gathered, observed, late, pc, markers, inventory>>
  BY DEF OtherPublishes, pytestVars, readerVars
<1>4. SessionTypes' /\ FileTypes'
  BY <1>2, <1>3 DEF OtherPublishes, SafeInv, TypeInv, SessionTypes, Collecting, FileTypes,
     pytestVars, readerVars
<1>5. FinalInv'
  BY <1>2, <1>3 DEF SafeInv, FinalInv, MarkerInv, Over
<1> QED BY <1>3, <1>4, <1>5, QuietKeepsTrust DEF SafeInv, TypeInv

LEMMA EndBeforeStartKeeps ==
  ASSUME SafeInv, EndBeforeStart, strays' \in 0 .. StrayBound
  PROVE  SafeInv'
<1>1. UNCHANGED <<plugin, artifact, ran, gathered, observed, late>>
  BY DEF EndBeforeStart, history
<1>2. SessionTypes' /\ FileTypes'
  BY <1>1, CodesAreCodes DEF EndBeforeStart, SafeInv, TypeInv, SessionTypes, Collecting,
     FileTypes, readerVars, history
<1>3. /\ plugin.terminal => pc' \in {"exiting"} \cup Over
      /\ pc \in Over => returncode' = returncode /\ pc' \in Over
  BY DEF EndBeforeStart, SafeInv, FinalInv, Over
<1>4. MarkerInv'
  BY <1>1 DEF EndBeforeStart, SafeInv, FinalInv, MarkerInv
<1> QED BY <1>1, <1>2, <1>3, <1>4, QuietKeeps

-----------------------------------------------------------------------------
(* The other steps.                                                        *)

LEMMA ModifyBeginKeeps ==
  ASSUME SafeInv, ModifyBegin, strays' \in 0 .. StrayBound
  PROVE  SafeInv'
<1>1. PICK collected \in SUBSET Node :
        /\ items' = collected /\ gathered' = collected
        /\ ConfigHook([ConfigRemembered(plugin) EXCEPT !.initial = collected, !.during = {}])
  BY DEF ModifyBegin
<1> DEFINE p == ConfigRemembered(plugin)
           after == [p EXCEPT !.initial = collected, !.during = {}]
<1>2. /\ Follows(p, after) /\ after.invalid = p.invalid /\ after.initial = collected
      /\ after.reports = p.reports /\ after.args = p.args /\ after.keyword = p.keyword
  BY ConfigKnows, InitialKeeps
<1>3. /\ p \in PluginState /\ Follows(plugin, p)
      /\ ~p.invalid => Knows(p, ran, gathered, observed \cup {ConfigSeen})
  BY ConfigKnows
<1>4. ConfigHook(after)
  BY <1>1
<1> HIDE DEF p, after
<1>5. after \in PluginState /\ Follows(plugin, after)
  BY <1>2, <1>3, PluginKnows, FollowsOn DEF Follows
<1>6. ran' = ran
  BY DEF ModifyBegin
<1>7. ~after.invalid => Knows(after, ran', gathered', observed \cup {ConfigSeen})
  BY <1>1, <1>2, <1>3, <1>6 DEF Knows, Seen
<1>8. /\ PluginTypes' /\ Follows(plugin, plugin') /\ late' \in BOOLEAN
      /\ artifact' # NoDocument => artifact'.state \in {"started", "finalized"}
      /\ TrustInv' /\ ~Finalized' /\ observed' \subseteq Scope
  BY <1>4, <1>5, <1>7, ConfigHookKeeps
<1>9. SessionTypes' /\ FileTypes'
  BY <1>1, <1>8 DEF ModifyBegin, SafeInv, TypeInv, SessionTypes, Collecting, FileTypes,
     readerVars, Active
<1>10. FinalInv'
  BY <1>8 DEF ModifyBegin, Follows, SafeInv, FinalInv, MarkerInv, Over, pytestVars,
     readerVars, Running
<1> QED BY <1>8, <1>9, <1>10 DEF SafeInv, TypeInv

(* The plugin looks at the scope and goes on; the file stays as it is.     *)
LEMMA WrapperKeeps ==
  ASSUME SafeInv, NEW after, Follows(Refreshed(plugin), after), SameTrace(Refreshed(plugin), after),
         plugin' = after, observed' = observed \cup {live},
         UNCHANGED <<artifact, ran, gathered, late, markers>>, SessionTypes', FileTypes',
         ~plugin.terminal, pc' \notin Over
  PROVE  SafeInv'
<1>1. /\ Follows(plugin, after) /\ after \in PluginState
      /\ ~after.invalid => Knows(after, ran, gathered, observed \cup {live})
  BY RefreshedThen
<1>2. PluginTypes'
  BY <1>1 DEF PluginTypes, SafeInv, TypeInv, Follows
<1>3. TrustInv'
  <2>1. ~after.invalid => ~plugin.invalid
    BY <1>1 DEF Follows, PluginState, SafeInv, TypeInv, PluginTypes
  <2> QED BY <1>1, <2>1 DEF TrustInv, SafeInv, Knows
<1>4. FinalInv'
  BY <1>1 DEF SafeInv, FinalInv, MarkerInv, Finalized, Follows, Over
<1> QED BY <1>2, <1>3, <1>4 DEF SafeInv, TypeInv

LEMMA ModifyEndKeeps ==
  ASSUME SafeInv, ModifyEnd, strays' \in 0 .. StrayBound
  PROVE  SafeInv'
<1> DEFINE p == Refreshed(plugin)
           uncovered == (plugin.initial \ items) \ plugin.during
           after == [p EXCEPT !.final = items, !.uncovered = uncovered]
<1>1. /\ UNCHANGED <<artifact, ran, gathered, late, markers>>
      /\ \/ plugin' = after /\ observed' = observed \cup {live}
         \/ UNCHANGED <<plugin, observed>>
  BY DEF ModifyEnd, pytestVars
<1>2. observed' \subseteq Scope
  BY <1>1 DEF SafeInv, TypeInv, SessionTypes
<1>3. SessionTypes' /\ FileTypes'
  BY <1>2 DEF ModifyEnd, SafeInv, TypeInv, SessionTypes, Collecting, FileTypes, pytestVars,
     readerVars
<1>4. ~plugin.terminal /\ pc \notin Over /\ pc' \notin Over
  BY DEF ModifyEnd, SafeInv, FinalInv, Over
<1>5. CASE plugin' = after /\ observed' = observed \cup {live}
  <2>1. items \in SUBSET Node /\ uncovered \in SUBSET Node
    BY DEF SafeInv, TypeInv, SessionTypes, PluginTypes, PluginState
  <2> HIDE DEF uncovered
  <2>2. Follows(p, after) /\ SameTrace(p, after)
    BY <2>1, RefreshedKnows, FinalKeeps
  <2> QED BY <1>1, <1>3, <1>4, <1>5, <2>2, WrapperKeeps
<1>6. CASE UNCHANGED <<plugin, observed>>
  <2>1. MarkerInv'
    BY <1>1, <1>4, <1>6 DEF SafeInv, FinalInv, MarkerInv, Over
  <2> QED BY <1>1, <1>3, <1>4, <1>6, <2>1, QuietKeeps
<1> QED BY <1>1, <1>5, <1>6

LEMMA FinishEndKeeps ==
  ASSUME SafeInv, FinishEnd, strays' \in 0 .. StrayBound
  PROVE  SafeInv'
<1> DEFINE p == Refreshed(plugin)
           after == RecordFinish(p, status, StoppedEarly(p), FALSE)
<1>1. /\ UNCHANGED <<artifact, ran, gathered, late, markers>>
      /\ \/ plugin' = after /\ observed' = observed \cup {live}
         \/ UNCHANGED <<plugin, observed>>
  BY DEF FinishEnd
<1>2. observed' \subseteq Scope
  BY <1>1 DEF SafeInv, TypeInv, SessionTypes
<1>3. SessionTypes' /\ FileTypes'
  BY <1>2 DEF FinishEnd, SafeInv, TypeInv, SessionTypes, Collecting, FileTypes, pytestVars,
     readerVars
<1>4. ~plugin.terminal /\ pc \notin Over /\ pc' \notin Over
  BY DEF FinishEnd, SafeInv, FinalInv, Over
<1>5. CASE plugin' = after /\ observed' = observed \cup {live}
  <2>1. p \in PluginState /\ status \in ExitCode /\ StoppedEarly(p) \in BOOLEAN
    BY RefreshedKnows, EarlyIsBoolean DEF FinishEnd, SafeInv, TypeInv, SessionTypes
  <2> HIDE DEF p
  <2>2. Follows(p, after) /\ SameTrace(p, after)
    BY <2>1, FinishKeeps
  <2> QED BY <1>1, <1>3, <1>4, <1>5, <2>2, WrapperKeeps DEF p
<1>6. CASE UNCHANGED <<plugin, observed>>
  <2>1. MarkerInv'
    BY <1>1, <1>4, <1>6 DEF SafeInv, FinalInv, MarkerInv, Over
  <2> QED BY <1>1, <1>3, <1>4, <1>6, <2>1, QuietKeeps
<1> QED BY <1>1, <1>5, <1>6

(* The plugin has started its session.                                     *)
LEMMA StartedKnows ==
  ASSUME SafeInv
  PROVE  LET after == [ConfigRemembered(plugin) EXCEPT !.started = TRUE, !.starts = @ + 1]
         IN  /\ after \in PluginState /\ after.started /\ after.terminal = plugin.terminal
             /\ plugin.invalid => after.invalid
             /\ plugin.closed => after.closed
             /\ ~after.invalid => Knows(after, ran, gathered, observed \cup {ConfigSeen})
<1> DEFINE p == ConfigRemembered(plugin)
           after == [p EXCEPT !.started = TRUE, !.starts = @ + 1]
<1>1. /\ Follows(plugin, p) /\ p \in PluginState
      /\ ~p.invalid => Knows(p, ran, gathered, observed \cup {ConfigSeen})
  BY ConfigKnows
<1>2. /\ after \in PluginState /\ SameTrace(p, after) /\ after.started /\ after.invalid = p.invalid
      /\ after.closed = p.closed /\ after.terminal = p.terminal
  BY <1>1, StartKeeps
<1> HIDE DEF p, after
<1>3. ~after.invalid => Knows(after, ran, gathered, observed \cup {ConfigSeen})
  BY <1>1, <1>2 DEF Knows, SameTrace, Seen
<1> QED BY <1>1, <1>2, <1>3 DEF Follows, p, after

LEMMA SessionStartKeeps ==
  ASSUME SafeInv, SessionStart, strays' \in 0 .. StrayBound
  PROVE  SafeInv'
<1> DEFINE after == [ConfigRemembered(plugin) EXCEPT !.started = TRUE, !.starts = @ + 1]
<1>1. /\ after \in PluginState /\ after.started /\ after.terminal = plugin.terminal
      /\ ~after.invalid => Knows(after, ran, gathered, observed \cup {ConfigSeen})
  BY StartedKnows
<1>2. ran' = ran /\ gathered' = gathered /\ pc' = "collect" /\ pc = "start"
  BY DEF SessionStart, pytestVars
<1>3. /\ markers' \subseteq {"primary", "other"} /\ markers \subseteq markers'
      /\ ~plugin.terminal
  BY DEF SessionStart, SafeInv, TypeInv, FileTypes, FinalInv, Over
<1>4. CASE Active
  <2>1. /\ plugin' = after /\ artifact' = Document(after, "started") /\ "primary" \in markers'
        /\ observed' = observed \cup {ConfigSeen} /\ late' = late
    BY <1>4 DEF SessionStart
  <2> HIDE DEF after
  <2>2. PluginTypes'
    BY <1>1, <1>3, <2>1 DEF PluginTypes
  <2>3. TrustInv'
    BY <1>1, <1>2, <1>4, <2>1 DEF TrustInv, SafeInv, Knows, Active
  <2>4. artifact'.state = "started"
    BY <2>1 DEF Document
  <2>5. FinalInv'
    BY <1>1, <1>2, <1>3, <2>1, <2>4 DEF FinalInv, MarkerInv, Finalized
  <2>6. observed' \subseteq Scope
    BY <2>1, PartsAreScopes DEF SafeInv, TypeInv, SessionTypes
  <2>7. SessionTypes' /\ FileTypes'
    BY <1>3, <2>1, <2>4, <2>6 DEF SessionStart, SafeInv, TypeInv, SessionTypes, Collecting,
       FileTypes, pytestVars, readerVars
  <2> QED BY <2>2, <2>3, <2>5, <2>7 DEF SafeInv, TypeInv
<1>5. CASE ~Active
  <2>1. ConfigHook(plugin) /\ markers' = markers
    BY <1>5 DEF SessionStart
  <2>2. observed' = observed
    BY <1>5, <2>1 DEF ConfigHook, LookingHook
  <2>3. Follows(plugin, plugin) /\ (~plugin.invalid => Knows(plugin, ran', gathered', observed'))
    BY <1>2, <2>2, PluginKnows, EveryFollowsItself DEF FollowsSelf
  <2>4. /\ PluginTypes' /\ late' \in BOOLEAN /\ TrustInv' /\ ~Finalized' /\ Follows(plugin, plugin')
        /\ artifact' # NoDocument => artifact'.state \in {"started", "finalized"}
    BY <2>1, <2>3, HookKeeps DEF ConfigHook, LookingHook
  <2>5. SessionTypes' /\ FileTypes'
    BY <1>3, <2>2, <2>4 DEF SessionStart, SafeInv, TypeInv, SessionTypes, Collecting, FileTypes,
       pytestVars, readerVars
  <2>6. FinalInv'
    BY <1>2, <1>3, <2>1, <2>4 DEF SafeInv, FinalInv, MarkerInv, Follows
  <2> QED BY <2>4, <2>5, <2>6 DEF SafeInv, TypeInv
<1> QED BY <1>4, <1>5

LEMMA OneMoreStray ==
  ASSUME SafeInv, strays < StrayBound, strays' = strays + 1
  PROVE  strays' \in 0 .. StrayBound
<1>1. strays \in 0 .. StrayBound /\ StrayBound \in Nat
  BY PytestReporterAssumption DEF SafeInv, TypeInv, SessionTypes
<1> QED BY <1>1

LEMMA SessionStartFailsKeeps ==
  ASSUME SafeInv, SessionStartFails
  PROVE  SafeInv'
<1> DEFINE after == [ConfigRemembered(plugin) EXCEPT !.started = TRUE, !.starts = @ + 1]
<1>1. /\ after \in PluginState /\ after.started /\ after.terminal = plugin.terminal
      /\ plugin.closed => after.closed
      /\ ~after.invalid => Knows(after, ran, gathered, observed \cup {ConfigSeen})
  BY StartedKnows
<1> HIDE DEF after
<1>2. /\ UNCHANGED <<artifact, ran, gathered, observed, late>>
      /\ plugin' = plugin \/ (plugin' = after /\ "primary" \in markers')
      /\ ~plugin.invalid
      /\ markers' \subseteq {"primary", "other"} /\ markers \subseteq markers'
      /\ pc' = "unconfigure" /\ ~plugin.terminal
  BY DEF SessionStartFails, history, SafeInv, TypeInv, FileTypes, FinalInv, Over, Active, after
<1>3. strays' \in 0 .. StrayBound
  BY OneMoreStray DEF SessionStartFails
<1>4. SessionTypes' /\ FileTypes'
  BY <1>2, <1>3, CodesAreCodes DEF SessionStartFails, SafeInv, TypeInv, SessionTypes,
     Collecting, FileTypes, readerVars, history
<1>5. PluginTypes'
  BY <1>1, <1>2 DEF PluginTypes, SafeInv, TypeInv
<1>6. TrustInv'
  BY <1>1, <1>2 DEF TrustInv, SafeInv, Knows
<1>7. FinalInv'
  BY <1>1, <1>2 DEF SafeInv, FinalInv, MarkerInv, Finalized
<1> QED BY <1>4, <1>5, <1>6, <1>7 DEF SafeInv, TypeInv

LEMMA FinalizeKeeps ==
  ASSUME SafeInv, Finalize, strays' \in 0 .. StrayBound
  PROVE  SafeInv'
<1> DEFINE p == Refreshed(plugin)
           after == [p EXCEPT !.finishes = 1, !.terminal = TRUE]
<1>1. pc = "exit" /\ pc' = "exiting" /\ ~plugin.terminal /\ ran' = ran /\ gathered' = gathered /\ late' = late
  BY DEF Finalize, SafeInv, FinalInv, Over, pytestVars
<1>2. SessionTypes'
  BY DEF Finalize, SafeInv, TypeInv, SessionTypes, Collecting, pytestVars
<1>3. /\ markers' = markers /\ returncode' = returncode /\ inventory' = inventory
  BY DEF Finalize, readerVars
<1>4. CASE ~plugin.started
  <2>1. UNCHANGED <<plugin, artifact, observed>>
    BY <1>4 DEF Finalize
  <2>2. FileTypes'
    BY <1>3, <2>1 DEF SafeInv, TypeInv, FileTypes
  <2>3. MarkerInv'
    BY <1>1, <1>3, <2>1 DEF SafeInv, FinalInv, MarkerInv
  <2> QED BY <1>1, <1>2, <2>1, <2>2, <2>3, QuietKeeps DEF Over
<1>5. CASE plugin.started /\ Unfinished(p)
  <2>1. plugin' = p /\ artifact' = Document(p, "started") /\ observed' = observed \cup {live}
    BY <1>1, <1>5 DEF Finalize
  <2>2. /\ Follows(plugin, p) /\ p \in PluginState
        /\ ~p.invalid => Knows(p, ran, gathered, observed \cup {live})
    BY RefreshedKnows
  <2> HIDE DEF p
  <2>3. PluginTypes' /\ ~plugin'.terminal
    BY <1>1, <2>1, <2>2 DEF PluginTypes, Follows
  <2>4. artifact'.state = "started"
    BY <2>1 DEF Document
  <2>5. TrustInv'
    <3>1. ~p.invalid => ~plugin.invalid
      BY <2>2 DEF Follows, PluginState, SafeInv, TypeInv, PluginTypes
    <3> QED BY <1>1, <2>1, <2>2, <3>1 DEF TrustInv, SafeInv, Knows
  <2>6. FileTypes' /\ FinalInv'
    BY <1>1, <1>3, <1>5, <2>1, <2>3, <2>4 DEF SafeInv, TypeInv, FileTypes, FinalInv, MarkerInv, Finalized
  <2> QED BY <1>2, <2>3, <2>5, <2>6 DEF SafeInv, TypeInv
<1>6. CASE plugin.started /\ ~Unfinished(p)
  <2>1. /\ plugin' = after /\ artifact' = Document(after, "finalized")
        /\ observed' = observed \cup {live} /\ pc' = "exiting"
    BY <1>1, <1>6 DEF Finalize
  <2>2. /\ Follows(plugin, p) /\ p \in PluginState
        /\ ~p.invalid => Knows(p, ran, gathered, observed \cup {live})
    BY RefreshedKnows
  <2>3. ~p.invalid /\ p.closed /\ p.started
    BY <1>6, <2>2 DEF Unfinished, Follows
  <2> HIDE DEF p
  <2>4. /\ after \in PluginState /\ ~after.invalid /\ after.terminal /\ after.closed /\ after.started
        /\ SameTrace(p, after)
    BY <2>2, <2>3 DEF PluginState, SameTrace
  <2> HIDE DEF after
  <2>5. PluginTypes'
    BY <2>1, <2>4 DEF PluginTypes
  <2>6. TrustInv'
    <3>1. ~plugin.invalid
      BY <2>2, <2>3 DEF Follows, PluginState, SafeInv, TypeInv, PluginTypes
    <3> QED BY <1>1, <2>1, <2>2, <2>3, <2>4, <3>1 DEF TrustInv, SafeInv, Knows, Seen, SameTrace
  <2>7. artifact'.state = "finalized" /\ artifact'.content = [f \in Published |-> plugin'[f]]
    BY <2>1 DEF Document
  <2>8. FileTypes' /\ FinalInv'
    BY <1>1, <1>3, <1>6, <2>1, <2>4, <2>7 DEF SafeInv, TypeInv, FileTypes, FinalInv, MarkerInv, Finalized
  <2> QED BY <1>2, <2>5, <2>6, <2>8 DEF SafeInv, TypeInv
<1> QED BY <1>4, <1>5, <1>6

LEMMA FinalizeFailsKeeps ==
  ASSUME SafeInv, FinalizeFails
  PROVE  SafeInv'
<1> DEFINE p == Refreshed(plugin)
           after == IF Unfinished(p) THEN p ELSE [p EXCEPT !.finishes = 1]
<1>1. /\ ~plugin.terminal /\ plugin' = after /\ observed' = observed \cup {live}
      /\ UNCHANGED <<artifact, ran, gathered, late, markers>> /\ pc' \notin Over
  BY DEF FinalizeFails, SafeInv, FinalInv, Over, pytestVars
<1>2. strays' \in 0 .. StrayBound
  BY OneMoreStray DEF FinalizeFails
<1>3. observed' \subseteq Scope
  BY <1>1 DEF SafeInv, TypeInv, SessionTypes
<1>4. SessionTypes' /\ FileTypes'
  BY <1>2, <1>3 DEF FinalizeFails, SafeInv, TypeInv, SessionTypes, Collecting, FileTypes,
     pytestVars, readerVars
<1>5. Follows(p, after) /\ SameTrace(p, after)
  <2>1. p \in PluginState
    BY RefreshedKnows
  <2> HIDE DEF p
  <2> QED BY <2>1 DEF Follows, SameTrace, PluginState
<1> HIDE DEF after
<1> QED BY <1>1, <1>4, <1>5, WrapperKeeps

(* A hook after the terminal publication ends the process with an exit     *)
(* code that the artifact does not have.                                   *)
LEMMA HookAtExitFailsKeeps ==
  ASSUME SafeInv, HookAtExitFails, strays' \in 0 .. StrayBound
  PROVE  SafeInv'
<1>1. /\ plugin' = [plugin EXCEPT !.invalid = TRUE] /\ plugin \in PluginState
      /\ UNCHANGED <<artifact, observed, markers>> /\ late' = TRUE /\ pc \notin Over
  BY DEF HookAtExitFails, ProcessEnds, SafeInv, TypeInv, PluginTypes, Over, Running
<1>2. /\ plugin' \in PluginState /\ plugin'.invalid /\ plugin'.terminal = plugin.terminal
      /\ plugin'.started = plugin.started /\ (plugin.closed => plugin'.closed)
      /\ \A f \in Published : plugin'[f] = plugin[f]
  BY <1>1, InvalidKeeps DEF Follows
<1>3. ForcedExit(plugin') = ForcedExit(plugin)
  BY <1>2 DEF ForcedExit, Published
<1>4. PluginTypes' /\ TrustInv'
  BY <1>2 DEF PluginTypes, TrustInv, SafeInv, TypeInv
<1>5. \/ plugin.terminal /\ pc' = "exited" /\ returncode' = ForcedExit(plugin)
      \/ ~plugin.terminal /\ UNCHANGED <<pc, returncode>>
  BY DEF HookAtExitFails, ProcessEnds, readerVars
<1>6. SessionTypes' /\ FileTypes'
  <2>1. CASE plugin.terminal
    BY <1>1, <2>1, CodesAreCodes, PytestReporterAssumption DEF HookAtExitFails, ProcessEnds, SafeInv,
       TypeInv, SessionTypes, Collecting, FileTypes
  <2>2. CASE ~plugin.terminal
    BY <1>1, <2>2 DEF HookAtExitFails, SafeInv, TypeInv, SessionTypes, Collecting, FileTypes,
       pytestVars, readerVars
  <2> QED BY <2>1, <2>2
<1>7. FinalInv'
  <2>1. [f \in Published |-> plugin'[f]] = [f \in Published |-> plugin[f]]
    BY <1>2
  <2>2. Finalized' => Finalized
    BY <1>1 DEF Finalized
  <2> QED BY <1>1, <1>2, <1>3, <1>5, <2>1, <2>2 DEF SafeInv, FinalInv, MarkerInv, Over
<1> QED BY <1>4, <1>6, <1>7 DEF SafeInv, TypeInv

-----------------------------------------------------------------------------
(* Every step.                                                             *)

LEMMA InitSafe ==
  ASSUME Init
  PROVE  SafeInv /\ ResultInv
<1>1. plugin = Fresh /\ Fresh \in PluginState
  BY FreshIsTyped DEF Init
<1>2. /\ ~Fresh.terminal /\ ~Fresh.started /\ Fresh.reports = << >> /\ Fresh.initial = {}
  BY DEF Fresh
<1>3. PluginTypes /\ TrustInv
  BY <1>1, <1>2 DEF Init, PluginTypes, TrustInv
<1>4. FinalInv
  BY <1>1, <1>2 DEF Init, FinalInv, MarkerInv, Finalized, NoDocument
<1>5. StrayBound \in Nat /\ Unnarrowed \in Scope
  BY PytestReporterAssumption
<1>6. strays \in 0 .. StrayBound
  BY <1>5 DEF Init
<1>7. ran \in Seq(Report)
  BY DEF Init
<1>8. SessionTypes /\ FileTypes
  BY <1>5, <1>6, <1>7 DEF Init, SessionTypes, FileTypes, Collecting
<1>9. ResultInv
  BY DEF Init, ResultInv
<1> QED BY <1>3, <1>4, <1>8, <1>9 DEF SafeInv, TypeInv

LEMMA StraysOnlyGrow ==
  ASSUME SafeInv, [Next]_vars
  PROVE  strays' \in 0 .. StrayBound
<1>1. strays \in 0 .. StrayBound
  BY DEF SafeInv, TypeInv, SessionTypes
<1>2. CASE Session
  <2>1. strays' = strays
    BY <1>2 DEF Session, Load, Configure, EndBeforeStart, SessionStart, SetupNodes, CollectError, CutCollection,
       ModifyBegin, Deselect, Remove, ModifyEnd, CutModify, CollectionFinish, StartItem, LogReport,
       EndRun, StopEarly, CollectOnly, CutRun, FinishBegin, FinishEnd, Unconfigure, Finalize, Exit
  <2> QED BY <1>1, <2>1
<1>3. CASE SessionStartFails \/ FinalizeFails \/ Stray
  BY <1>3, OneMoreStray DEF SessionStartFails, FinalizeFails, Stray
<1>4. CASE TakeInventory \/ ReadArtifact \/ UNCHANGED vars
  BY <1>1, <1>4 DEF TakeInventory, ReadArtifact, vars
<1> QED BY <1>2, <1>3, <1>4 DEF Next

LEMMA NextSafe ==
  ASSUME SafeInv, [Next]_vars
  PROVE  SafeInv'
<1>1. strays' \in 0 .. StrayBound
  BY StraysOnlyGrow
<1>2. CASE Session
  BY <1>1, <1>2, LoadKeeps, ConfigureKeeps, EndBeforeStartKeeps, SessionStartKeeps, SetupNodesKeeps,
     CollectErrorKeeps,
     CutCollectionKeeps, ModifyBeginKeeps, DeselectKeeps, RemoveKeeps, ModifyEndKeeps,
     CutModifyKeeps, CollectionFinishKeeps, StartItemKeeps, LogReportKeeps, EndRunKeeps,
     StopEarlyKeeps, CollectOnlyKeeps, CutRunKeeps, FinishBeginKeeps, FinishEndKeeps,
     UnconfigureKeeps, FinalizeKeeps, ExitKeeps DEF Session
<1>3. CASE Stray
  BY <1>1, <1>3, ChangeScopeKeeps, ReplayKeeps, ExtraFinishKeeps, DeselectLaterKeeps,
     UnconfigureEarlyKeeps, HookAtExitKeeps, HookAtExitFailsKeeps, SuppressKeeps,
     OverrideStatusKeeps, FinishRaisesKeeps, UnconfigureRaisesKeeps, DieKeeps,
     OtherRegistersKeeps, OtherPublishesKeeps DEF Stray
<1>4. CASE SessionStartFails \/ FinalizeFails
  BY <1>4, SessionStartFailsKeeps, FinalizeFailsKeeps
<1>5. CASE TakeInventory \/ ReadArtifact \/ UNCHANGED vars
  BY <1>1, <1>5, TakeInventoryKeeps, ReadArtifactKeeps, StutterKeeps
<1> QED BY <1>2, <1>3, <1>4, <1>5 DEF Next

LEMMA NextResult ==
  ASSUME SafeInv, ResultInv, [Next]_vars
  PROVE  ResultInv'
<1>1. CASE ReadArtifact
  BY <1>1 DEF ReadArtifact, ResultInv
<1>2. CASE ~ReadArtifact
  <2>1. result' = result /\ (pc' = "ended" => pc = "ended")
    <3>1. CASE Session
      BY <3>1 DEF Session, Load, Configure, EndBeforeStart, SessionStart, SetupNodes, CollectError,
         CutCollection,
         ModifyBegin, Deselect, Remove, ModifyEnd, CutModify, CollectionFinish, StartItem, LogReport,
         EndRun, StopEarly, CollectOnly, CutRun, FinishBegin, FinishEnd, Unconfigure, Finalize, Exit,
         ProcessEnds, readerVars
    <3>2. CASE Stray
      BY <3>2 DEF Stray, ChangeScope, Replay, ExtraFinish, DeselectLater, UnconfigureEarly,
         HookAtExit, HookAtExitFails, Suppress, OverrideStatus, FinishRaises, UnconfigureRaises,
         Die, ProcessEnds, OtherRegisters, OtherPublishes, readerVars
    <3> QED BY <1>2, <3>1, <3>2
        DEF Next, SessionStartFails, FinalizeFails, TakeInventory, vars, readerVars
  <2>2. pc = "ended" => UNCHANGED <<artifact, inventory, returncode, pc>>
    <3>1. CASE Session
      BY <3>1 DEF Session, Load, Configure, EndBeforeStart, SessionStart, SetupNodes, CollectError,
         CutCollection,
         ModifyBegin, Deselect, Remove, ModifyEnd, CutModify, CollectionFinish, StartItem, LogReport,
         EndRun, StopEarly, CollectOnly, CutRun, FinishBegin, FinishEnd, Unconfigure, Finalize, Exit
    <3>2. CASE Stray
      BY <3>2 DEF Stray, ChangeScope, Replay, ExtraFinish, DeselectLater, UnconfigureEarly,
         HookAtExit, HookAtExitFails, Suppress, OverrideStatus, FinishRaises, UnconfigureRaises,
         Die, ProcessEnds, OtherRegisters, OtherPublishes, Running
    <3> QED BY <1>2, <3>1, <3>2
        DEF Next, SessionStartFails, FinalizeFails, TakeInventory, vars, readerVars
  <2> QED BY <2>1, <2>2 DEF ResultInv
<1> QED BY <1>1, <1>2

LEMMA SpecSafe == Spec => []SafeInv /\ []ResultInv
<1>1. Init => SafeInv /\ ResultInv
  BY InitSafe
<1>2. SafeInv /\ [Next]_vars => SafeInv'
  BY NextSafe
<1>3. SafeInv /\ ResultInv /\ [Next]_vars => ResultInv'
  BY NextResult
<1> QED BY <1>1, <1>2, <1>3, PTL DEF Spec

(* The types of all variables, for every set of tests and scopes.          *)
THEOREM TypeCorrect == Spec => []TypeOK
<1>1. SafeInv => TypeOK
  <2> SUFFICES ASSUME SafeInv
               PROVE  TypeOK
    OBVIOUS
  <2>1. plugin \in PluginState
    BY DEF SafeInv, TypeInv, PluginTypes
  <2>2. DOMAIN plugin = DOMAIN Fresh
    BY Zenon, <2>1, FreshIsTyped DEF PluginState
  <2>3. /\ plugin.exit \in ExitCode /\ plugin.args \in ArgLists /\ plugin.keyword \in Keywords
        /\ plugin.initial \subseteq Node /\ plugin.final \subseteq Node
        /\ plugin.deselected \subseteq Node /\ plugin.uncovered \subseteq Node
        /\ plugin.reports \in Seq(Report)
    BY <2>1 DEF PluginState
  <2>4. \E s, t \in Scope : plugin.args = s.args /\ plugin.keyword = t.keyword
    BY <2>3 DEF ArgLists, Keywords
  <2>5. UNION {plugin.initial, plugin.final, plugin.deselected, plugin.uncovered} \subseteq Node
    BY <2>3
  <2>6. SessionTypes /\ FileTypes /\ (plugin.terminal => plugin.closed /\ plugin.started)
    BY DEF SafeInv, TypeInv, PluginTypes
  <2> QED BY <2>2, <2>3, <2>4, <2>5, <2>6 DEF TypeOK, SessionTypes, FileTypes
<1> QED BY <1>1, SpecSafe, PTL

-----------------------------------------------------------------------------
(* What is accepted.                                                       *)

(* An accepted artifact of the process that pyrepo-check ran is the one    *)
(* that its plugin finalized, and the plugin has trusted itself to the end.*)
LEMMA AcceptedIsTrusted ==
  ASSUME SafeInv, ResultInv, Accepted, Own
  PROVE  /\ pc = "ended" /\ result.document = artifact /\ Finalized /\ ~plugin.invalid
         /\ \A f \in Published : artifact.content[f] = plugin[f]
<1>1. pc = "ended" /\ result = [verdict |-> Verdict(artifact, inventory, returncode), document |-> artifact]
  BY DEF ResultInv, Accepted
<1>2. Verdict(artifact, inventory, returncode) = "valid" /\ artifact.writer = "primary"
  BY <1>1 DEF Accepted, Own
<1>3. artifact.state = "finalized" /\ artifact.content.exit = returncode
  BY <1>2 DEF Verdict
<1>4. Finalized
  BY <1>2, <1>3 DEF Finalized
<1>5. artifact.content = [f \in Published |-> plugin[f]]
  BY <1>4 DEF SafeInv, FinalInv
<1>6. \A f \in Published : artifact.content[f] = plugin[f]
  BY <1>5
<1>7. artifact.content.exit = plugin.exit
  BY <1>5 DEF Published
<1>8. ForcedExit(plugin) # plugin.exit
  BY DEF ForcedExit
<1>9. ~plugin.invalid
  BY <1>3, <1>4, <1>7, <1>8 DEF SafeInv, FinalInv
<1> QED BY <1>1, <1>4, <1>6, <1>9

(* What pyrepo-check accepts as the artifact of the process it ran is the  *)
(* whole session of that process, whatever the consumer does from its      *)
(* tests, plugins and exit handlers; and it accepts the document of another*)
(* process only if the one it ran never started a session.                 *)
THEOREM AcceptedIsWhole == Spec => []AcceptedIsWholeSession
<1>1. SafeInv /\ ResultInv => AcceptedIsWholeSession
  <2> SUFFICES ASSUME SafeInv, ResultInv, Accepted
               PROVE  /\ result.document.content.exit = returncode
                      /\ Own => result.document.content.reports = ran /\ ~late
                      /\ ~Own => "primary" \notin markers /\ ~plugin.started
    BY DEF AcceptedIsWholeSession
  <2>1. /\ Verdict(artifact, inventory, returncode) = "valid" /\ result.document = artifact
        /\ pc = "ended"
    BY DEF ResultInv, Accepted
  <2>2. artifact.content.exit = returncode /\ Sound(artifact, inventory)
    BY <2>1 DEF Verdict
  <2>3. ASSUME ~Own
        PROVE  "primary" \notin markers /\ ~plugin.started
    <3>1. inventory = {artifact.writer}
      BY <2>2 DEF Sound, Trusted
    <3>2. "primary" \notin inventory
      BY <2>1, <2>3, <3>1 DEF Own
    <3> QED BY <2>1, <3>2 DEF SafeInv, FinalInv, MarkerInv
  <2>4. ASSUME Own
        PROVE  result.document.content.reports = ran /\ ~late
    <3>1. /\ result.document = artifact /\ ~plugin.invalid
          /\ \A f \in Published : artifact.content[f] = plugin[f]
      BY <2>4, AcceptedIsTrusted
    <3>2. artifact.content.reports = plugin.reports
      BY <3>1 DEF Published
    <3> QED BY <3>1, <3>2 DEF SafeInv, TrustInv
  <2> QED BY <2>1, <2>2, <2>3, <2>4
<1> QED BY <1>1, SpecSafe, PTL

(* A session complete in its full scope has run every collected test to    *)
(* its end, and no narrowing argument or option was in force when a hook   *)
(* looked at it.                                                           *)
THEOREM FullScopeIsWhole == Spec => []FullScopeMeansAllRan
<1>1. SafeInv /\ ResultInv => FullScopeMeansAllRan
  <2> SUFFICES ASSUME SafeInv, ResultInv, Accepted, Own, FullScope(result.document.content)
               PROVE  /\ observed = {Unnarrowed}
                      /\ \A n \in gathered : \E i \in ReportsOf(ran, n) : ran[i].when = "teardown"
    BY DEF FullScopeMeansAllRan
  <2> DEFINE c == artifact.content
  <2>1. /\ result.document = artifact /\ Finalized /\ ~plugin.invalid
        /\ \A f \in Published : c[f] = plugin[f]
    BY AcceptedIsTrusted
  <2>2. /\ c.args = plugin.args /\ c.keyword = plugin.keyword /\ c.reports = plugin.reports
        /\ c.initial = plugin.initial
    BY <2>1 DEF Published
  <2>3. FullScope(c) /\ CollectionAccounts(c)
    BY <2>1 DEF Accepted, ResultInv, Verdict, Sound
  <2> HIDE DEF c
  <2>4. plugin.args = << >> /\ plugin.keyword = "" /\ c.final = c.initial
    BY <2>2, <2>3 DEF FullScope, CollectionAccounts
  <2>5. /\ plugin.reports = ran /\ plugin.initial = gathered /\ observed \subseteq Scope
        /\ observed # {} /\ \A s \in observed : Seen(s, plugin)
    BY <2>1 DEF SafeInv, TrustInv, FinalInv, TypeInv, SessionTypes
  <2>6. ASSUME NEW s \in observed
        PROVE  s = Unnarrowed
    <3>1. s.keyword = "" /\ IsSubsequence(s.args, << >>) /\ s.args \in ArgLists
      BY <2>4, <2>5, ScopeIsTyped DEF Seen
    <3>2. s.args = << >>
      BY <3>1, OnlyEmptyInEmpty
    <3> QED BY <2>5, <3>1, <3>2, ScopeIsTyped DEF Unnarrowed
  <2>7. ASSUME NEW n \in gathered
        PROVE  \E i \in ReportsOf(ran, n) : ran[i].when = "teardown"
    <3>1. Saw(c, n, {"teardown"}, Outcome)
      BY <2>2, <2>3, <2>4, <2>5 DEF FullScope, Complete
    <3> QED BY <2>2, <2>5, <3>1 DEF Saw
  <2> QED BY <2>5, <2>6, <2>7
<1> QED BY <1>1, SpecSafe, PTL
-----------------------------------------------------------------------------
(* A session that nobody disturbs.                                         *)

Early == {"load", "reload", "configure", "start"}
Recorded == {"unconfigure", "exit", "exiting"} \cup Over
Final == {"exiting"} \cup Over

(* The plugin trusts itself, and has seen the hooks that were due so far.  *)
CalmInv ==
  /\ live = Unnarrowed /\ plugin.args = << >> /\ plugin.keyword = ""
  /\ ~plugin.invalid /\ ~plugin.retries
  /\ plugin.closed <=> pc \in {"exit"} \cup Final
  /\ plugin.started <=> pc \notin Early
  /\ plugin.starts = IF pc \in Early THEN 0 ELSE 1
  /\ plugin.finishSeen <=> pc \in Recorded
  /\ pc \notin Recorded \ {"unconfigure"} /\ pc \notin Early \ {"start"} => configured
  /\ pc \in {"unconfigure", "exit", "exiting"} => status \in ExitCode /\ plugin.exit = status
  /\ pc \in {"modify", "finishing"} => active

(* What is on disk, and what the process and its reader make of it.        *)
DiskInv ==
  /\ markers = IF pc \in Early THEN {} ELSE {"primary"}
  /\ pc \in Early => artifact = NoDocument
  /\ pc \in {"read", "ended"} => inventory = {"primary"}
  /\ pc \in Final => plugin.finishes = 1 /\ plugin.terminal /\ Finalized
  /\ pc \in Over => returncode \in ExitCode /\ plugin.exit = returncode

(* The collected tests are accounted for, unless the session was ended     *)
(* while the items were being modified.                                    *)
CollectionInv ==
  /\ pc \in Early \cup {"collect"} =>
       /\ items = {} /\ cut = "no" /\ status = NoStatus
       /\ plugin.initial = {} /\ plugin.final = {} /\ plugin.deselected = {}
       /\ plugin.uncovered = {}
  /\ pc = "modify" =>
       /\ cut = "no" /\ status = NoStatus
       /\ plugin.deselected = plugin.during
       /\ plugin.during \cup items \subseteq plugin.initial /\ plugin.during \cap items = {}
  /\ pc \notin Early \cup {"collect", "modify"} /\ cut # "modifying" =>
       CollectionAccounts(plugin) /\ (pc \notin Over => plugin.final = items)
  /\ pc = "collected" => cut = "no" \/ status \in ExitCode
  /\ pc = "run" => cut = "no"
  /\ cut = "modifying" => ran = << >>

(* Every report is of an item, and those of one item come in order.        *)
TraceInv ==
  /\ pc \in Collecting => ran = << >>
  /\ \A i \in 1 .. Len(ran) : ran[i].node \in (IF pc \in Over THEN plugin.final ELSE items)
  /\ ~Repeated(ran) /\ PossiblePhases(ran)

Before(when) == CASE when = "setup" -> {} [] when = "call" -> {"setup"} [] OTHER -> {"setup", "call"}

(* Of the items yet to run only the current one has reports, of the phases *)
(* before its next one.                                                    *)
RunInv == pc = "run" =>
  /\ at # NoItem => /\ at.node \in left
                    /\ at.when # "setup" => \E i \in 1 .. Len(ran) :
                         ran[i].node = at.node /\ ran[i].when = "setup"
  /\ \A i \in 1 .. Len(ran) : ran[i].node \in left =>
       at # NoItem /\ ran[i].node = at.node /\ ran[i].when \in Before(at.when)

Undisturbed == CalmInv /\ DiskInv /\ CollectionInv /\ TraceInv /\ RunInv

(* The process ends before the session starts.                             *)
NeverStarted ==
  /\ pc \in Recorded
  /\ ~plugin.started /\ artifact = NoDocument
  /\ pc \notin Over => status \in ExitCode
  /\ pc \in Over => returncode \in ExitCode

(* The scope never changes, so looking at it changes nothing.              *)
LEMMA CalmScope ==
  ASSUME SafeInv, CalmInv
  PROVE  /\ plugin \in PluginState /\ Refreshed(plugin) = plugin
         /\ ArgsRemembered(plugin) = plugin /\ ConfigRemembered(plugin) = plugin
<1>1. plugin \in PluginState
  BY DEF SafeInv, TypeInv, PluginTypes
<1>2. live.args = << >> /\ live.keyword = "" /\ plugin.args = << >>
  BY DEF CalmInv, Unnarrowed
<1>3. IsSubsequence(<< >>, << >>)
  BY NoArgsAndNoKeyword, SubsequenceReflexive
<1>4. [plugin EXCEPT !.args = << >>] = plugin
  BY <1>1, <1>2 DEF PluginState
<1>5. MergeArgs(plugin, live.args) = plugin
  BY <1>2, <1>3, <1>4 DEF MergeArgs
<1> QED BY <1>1, <1>2, <1>5 DEF Refreshed, ArgsRemembered, ConfigRemembered, MergeKeyword

LEMMA CalmHook ==
  ASSUME CalmInv, NEW after, Hook(after), pc \notin {"exit"} \cup Final
  PROVE  plugin' = after /\ UNCHANGED artifact
BY DEF CalmInv, Hook

(* No reports before the run.                                              *)
LEMMA NoTrace ==
  ASSUME ran' = << >>
  PROVE  TraceInv'
<1>1. Len(<< >>) = 0 /\ 1 .. 0 = {}
  OBVIOUS
<1> QED BY <1>1 DEF TraceInv, Repeated, PossiblePhases

LEMMA SameTraceInv ==
  ASSUME TraceInv, UNCHANGED <<ran, items>>, pc' \in Collecting => pc \in Collecting,
         pc \notin Over, pc' \notin Over
  PROVE  TraceInv'
BY DEF TraceInv

LEMMA LaterTraceInv ==
  ASSUME TraceInv, UNCHANGED <<ran, plugin>>, pc \in Over, pc' \in Over
  PROVE  TraceInv'
BY DEF TraceInv, Over, Collecting

LEMMA LoadIsCalm ==
  ASSUME SafeInv, Undisturbed, Load
  PROVE  Undisturbed'
<1>1. plugin \in PluginState /\ CalmInv /\ DiskInv /\ CollectionInv /\ TraceInv /\ RunInv
  BY DEF Undisturbed, SafeInv, TypeInv, PluginTypes
<1>2. UNCHANGED <<plugin, artifact>>
  BY <1>1, CalmScope, CalmHook DEF Load, LookingHook, Final, Over
<1>3. CalmInv'
  BY <1>1, <1>2 DEF Load, CalmInv, Early, Recorded, Final, Over, pytestVars, history,
     PluginState
<1>4. DiskInv'
  BY <1>1, <1>2 DEF Load, DiskInv, Finalized, Early, Final, Over, pytestVars, readerVars,
     PluginState
<1>5. CollectionInv'
  BY <1>1, <1>2 DEF Load, CollectionInv, CollectionAccounts, Early, Over, pytestVars, history,
     PluginState
<1>6. TraceInv'
  BY <1>1, SameTraceInv DEF Load, Collecting, Over, pytestVars, history
<1>7. RunInv'
  BY DEF Load, RunInv, pytestVars
<1> QED BY <1>3, <1>4, <1>5, <1>6, <1>7 DEF Undisturbed

LEMMA ConfigureIsCalm ==
  ASSUME SafeInv, Undisturbed, Configure
  PROVE  Undisturbed'
<1>1. plugin \in PluginState /\ CalmInv /\ DiskInv /\ CollectionInv /\ TraceInv /\ RunInv
  BY DEF Undisturbed, SafeInv, TypeInv, PluginTypes
<1>2. UNCHANGED <<plugin, artifact>>
  BY <1>1, CalmScope, CalmHook DEF Configure, ConfigHook, LookingHook, Final, Over
<1>3. CalmInv'
  BY <1>1, <1>2 DEF Configure, CalmInv, Early, Recorded, Final, Over, pytestVars, history,
     PluginState
<1>4. DiskInv'
  BY <1>1, <1>2 DEF Configure, DiskInv, Finalized, Early, Final, Over, pytestVars, readerVars,
     PluginState
<1>5. CollectionInv'
  BY <1>1, <1>2 DEF Configure, CollectionInv, CollectionAccounts, Early, Over, pytestVars, history,
     PluginState
<1>6. TraceInv'
  BY <1>1, SameTraceInv DEF Configure, Collecting, Over, pytestVars, history
<1>7. RunInv'
  BY DEF Configure, RunInv, pytestVars
<1> QED BY <1>3, <1>4, <1>5, <1>6, <1>7 DEF Undisturbed

LEMMA SessionStartIsCalm ==
  ASSUME SafeInv, Undisturbed, SessionStart
  PROVE  Undisturbed'
<1>1. plugin \in PluginState /\ CalmInv /\ DiskInv /\ CollectionInv /\ TraceInv /\ RunInv
  BY DEF Undisturbed, SafeInv, TypeInv, PluginTypes
<1>2. plugin' = [plugin EXCEPT !.started = TRUE, !.starts = 1] /\ artifact'.state = "started"
  <2>1. Active /\ plugin.starts = 0 /\ ConfigRemembered(plugin) = plugin
    BY <1>1, CalmScope DEF SessionStart, CalmInv, Early, Final, Over, Active
  <2>2. plugin' = [plugin EXCEPT !.started = TRUE, !.starts = @ + 1] /\ artifact' = Document(plugin', "started")
    BY <2>1 DEF SessionStart
  <2>3. plugin' = [plugin EXCEPT !.started = TRUE, !.starts = 1]
    BY <1>1, <2>1, <2>2 DEF PluginState
  <2> QED BY <2>2, <2>3 DEF Document
<1>3. CalmInv'
  BY <1>1, <1>2 DEF SessionStart, CalmInv, Early, Recorded, Final, Over, pytestVars, history,
     PluginState
<1>4. DiskInv'
  <2>1. Active /\ markers = {}
    BY <1>1 DEF SessionStart, CalmInv, DiskInv, Early, Final, Over, Active
  <2>2. markers' = {"primary"}
    BY <2>1 DEF SessionStart
  <2> QED BY <1>1, <1>2, <2>2 DEF SessionStart, DiskInv, Finalized, Early, Final, Over,
     pytestVars, readerVars, PluginState
<1>5. CollectionInv'
  BY <1>1, <1>2 DEF SessionStart, CollectionInv, CollectionAccounts, Early, Over, pytestVars, history,
     PluginState
<1>6. TraceInv'
  BY <1>1, SameTraceInv DEF SessionStart, Collecting, Over, pytestVars, history
<1>7. RunInv'
  BY DEF SessionStart, RunInv, pytestVars
<1> QED BY <1>3, <1>4, <1>5, <1>6, <1>7 DEF Undisturbed

LEMMA SetupNodesIsCalm ==
  ASSUME SafeInv, Undisturbed, SetupNodes
  PROVE  Undisturbed'
<1>1. plugin \in PluginState /\ CalmInv /\ DiskInv /\ CollectionInv /\ TraceInv /\ RunInv
  BY DEF Undisturbed, SafeInv, TypeInv, PluginTypes
<1>2. /\ plugin' = [plugin EXCEPT !.parallel = TRUE, !.finishSeen = TRUE, !.forced = TRUE, !.exit = 4,
                               !.stopped = TRUE]
      /\ UNCHANGED artifact
  BY <1>1, CalmScope, CalmHook DEF SetupNodes, ConfigHook, LookingHook, RecordFinish, CalmInv, Recorded,
     Final, Over, PluginState
<1>3. CalmInv'
  BY <1>1, <1>2, CodesAreCodes DEF SetupNodes, CalmInv, Early, Recorded, Final, Over,
     pytestVars, history, PluginState
<1>4. DiskInv'
  BY <1>1, <1>2 DEF SetupNodes, DiskInv, Finalized, Early, Final, Over, pytestVars, readerVars,
     PluginState
<1>5. CollectionInv'
  BY <1>1, <1>2, CodesAreCodes DEF SetupNodes, CollectionInv, CollectionAccounts, Early, Over,
     pytestVars, history, PluginState
<1>6. TraceInv'
  BY <1>1, SameTraceInv DEF SetupNodes, Collecting, Over, pytestVars, history
<1>7. RunInv'
  BY DEF SetupNodes, RunInv, pytestVars
<1> QED BY <1>3, <1>4, <1>5, <1>6, <1>7 DEF Undisturbed

LEMMA CollectErrorIsCalm ==
  ASSUME SafeInv, Undisturbed, CollectError
  PROVE  Undisturbed'
<1>1. plugin \in PluginState /\ CalmInv /\ DiskInv /\ CollectionInv /\ TraceInv /\ RunInv
  BY DEF Undisturbed, SafeInv, TypeInv, PluginTypes
<1>2. plugin' = [plugin EXCEPT !.errors = TRUE] /\ UNCHANGED artifact
  BY <1>1, CalmScope, CalmHook DEF CollectError, ScopeHook, Final, Over
<1>3. CalmInv'
  BY <1>1, <1>2 DEF CollectError, CalmInv, Early, Recorded, Final, Over, pytestVars, history,
     PluginState
<1>4. DiskInv'
  BY <1>1, <1>2 DEF CollectError, DiskInv, Finalized, Early, Final, Over, pytestVars,
     readerVars, PluginState
<1>5. CollectionInv'
  BY <1>1, <1>2 DEF CollectError, CollectionInv, CollectionAccounts, Early, Over, pytestVars, history,
     PluginState
<1>6. TraceInv'
  BY <1>1, SameTraceInv DEF CollectError, Collecting, Over, pytestVars, history
<1>7. RunInv'
  BY DEF CollectError, RunInv, pytestVars
<1> QED BY <1>3, <1>4, <1>5, <1>6, <1>7 DEF Undisturbed

LEMMA CutCollectionIsCalm ==
  ASSUME SafeInv, Undisturbed, CutCollection
  PROVE  Undisturbed'
<1>1. plugin \in PluginState /\ CalmInv /\ DiskInv /\ CollectionInv /\ TraceInv /\ RunInv
  BY DEF Undisturbed, SafeInv, TypeInv, PluginTypes
<1>2. UNCHANGED <<plugin, artifact>>
  BY DEF CutCollection
<1>3. CalmInv'
  BY <1>1, <1>2, CodesAreCodes DEF CutCollection, CalmInv, Early, Recorded, Final, Over,
     pytestVars, history, PluginState
<1>4. DiskInv'
  BY <1>1, <1>2 DEF CutCollection, DiskInv, Finalized, Early, Final, Over, pytestVars,
     readerVars, PluginState
<1>5. CollectionInv'
  BY <1>1, <1>2, CodesAreCodes DEF CutCollection, CollectionInv, CollectionAccounts, Early, Over,
     pytestVars, history, PluginState
<1>6. TraceInv'
  BY <1>1, SameTraceInv DEF CutCollection, Collecting, Over, pytestVars, history
<1>7. RunInv'
  BY DEF CutCollection, RunInv, pytestVars
<1> QED BY <1>3, <1>4, <1>5, <1>6, <1>7 DEF Undisturbed

LEMMA DeselectIsCalm ==
  ASSUME SafeInv, Undisturbed, NEW n \in Node, Deselect(n)
  PROVE  Undisturbed'
<1>1. plugin \in PluginState /\ CalmInv /\ DiskInv /\ CollectionInv /\ TraceInv /\ RunInv
  BY DEF Undisturbed, SafeInv, TypeInv, PluginTypes
<1>2. plugin' = [plugin EXCEPT !.deselected = @ \cup {n}, !.during = @ \cup {n}] /\ UNCHANGED artifact
  BY <1>1, CalmScope, CalmHook DEF Deselect, Deselected, ScopeHook, Final, Over
<1>3. CalmInv'
  BY <1>1, <1>2 DEF Deselect, CalmInv, Early, Recorded, Final, Over, pytestVars, history,
     PluginState
<1>4. DiskInv'
  BY <1>1, <1>2 DEF Deselect, DiskInv, Finalized, Early, Final, Over, pytestVars, readerVars,
     PluginState
<1>5. CollectionInv'
  BY <1>1, <1>2 DEF Deselect, CollectionInv, CollectionAccounts, Early, Over, pytestVars, history,
     PluginState
<1>6. TraceInv'
  BY <1>1, NoTrace DEF Deselect, TraceInv, Collecting, pytestVars, history
<1>7. RunInv'
  BY DEF Deselect, RunInv, pytestVars
<1> QED BY <1>3, <1>4, <1>5, <1>6, <1>7 DEF Undisturbed

LEMMA RemoveIsCalm ==
  ASSUME SafeInv, Undisturbed, NEW n \in Node, Remove(n)
  PROVE  Undisturbed'
<1>1. plugin \in PluginState /\ CalmInv /\ DiskInv /\ CollectionInv /\ TraceInv /\ RunInv
  BY DEF Undisturbed, SafeInv, TypeInv, PluginTypes
<1>2. UNCHANGED <<plugin, artifact>>
  BY DEF Remove
<1>3. CalmInv'
  BY <1>1, <1>2 DEF Remove, CalmInv, Early, Recorded, Final, Over, pytestVars, history,
     PluginState
<1>4. DiskInv'
  BY <1>1, <1>2 DEF Remove, DiskInv, Finalized, Early, Final, Over, pytestVars, readerVars,
     PluginState
<1>5. CollectionInv'
  BY <1>1, <1>2 DEF Remove, CollectionInv, CollectionAccounts, Early, Over, pytestVars, history,
     PluginState
<1>6. TraceInv'
  BY <1>1, NoTrace DEF Remove, TraceInv, Collecting, pytestVars, history
<1>7. RunInv'
  BY DEF Remove, RunInv, pytestVars
<1> QED BY <1>3, <1>4, <1>5, <1>6, <1>7 DEF Undisturbed

LEMMA ModifyEndIsCalm ==
  ASSUME SafeInv, Undisturbed, ModifyEnd
  PROVE  Undisturbed'
<1>1. plugin \in PluginState /\ CalmInv /\ DiskInv /\ CollectionInv /\ TraceInv /\ RunInv
  BY DEF Undisturbed, SafeInv, TypeInv, PluginTypes
<1>2. /\ plugin' = [plugin EXCEPT !.final = items, !.uncovered = (plugin.initial \ items) \ plugin.during]
      /\ UNCHANGED artifact
  BY <1>1, CalmScope DEF ModifyEnd, CalmInv
<1>3. CalmInv'
  BY <1>1, <1>2 DEF ModifyEnd, CalmInv, Early, Recorded, Final, Over, pytestVars, history,
     PluginState
<1>4. DiskInv'
  BY <1>1, <1>2 DEF ModifyEnd, DiskInv, Finalized, Early, Final, Over, pytestVars, readerVars,
     PluginState
<1>5. CollectionInv'
  BY <1>1, <1>2 DEF ModifyEnd, CollectionInv, CollectionAccounts, Early, Over, pytestVars, history,
     PluginState
<1>6. TraceInv'
  BY <1>1, SameTraceInv DEF ModifyEnd, Collecting, Over, pytestVars, history
<1>7. RunInv'
  BY DEF ModifyEnd, RunInv, pytestVars
<1> QED BY <1>3, <1>4, <1>5, <1>6, <1>7 DEF Undisturbed

LEMMA CutModifyIsCalm ==
  ASSUME SafeInv, Undisturbed, CutModify
  PROVE  Undisturbed'
<1>1. plugin \in PluginState /\ CalmInv /\ DiskInv /\ CollectionInv /\ TraceInv /\ RunInv
  BY DEF Undisturbed, SafeInv, TypeInv, PluginTypes
<1>2. UNCHANGED <<plugin, artifact>>
  BY DEF CutModify
<1>3. CalmInv'
  BY <1>1, <1>2, CodesAreCodes DEF CutModify, CalmInv, Early, Recorded, Final, Over, pytestVars,
     history, PluginState
<1>4. DiskInv'
  BY <1>1, <1>2 DEF CutModify, DiskInv, Finalized, Early, Final, Over, pytestVars, readerVars,
     PluginState
<1>5. CollectionInv'
  BY <1>1, <1>2, CodesAreCodes DEF CutModify, CollectionInv, CollectionAccounts, Early, Over,
     pytestVars, history, PluginState, TraceInv, Collecting
<1>6. TraceInv'
  BY <1>1, SameTraceInv DEF CutModify, Collecting, Over, pytestVars, history
<1>7. RunInv'
  BY DEF CutModify, RunInv, pytestVars
<1> QED BY <1>3, <1>4, <1>5, <1>6, <1>7 DEF Undisturbed

LEMMA CollectionFinishIsCalm ==
  ASSUME SafeInv, Undisturbed, CollectionFinish
  PROVE  Undisturbed'
<1>1. plugin \in PluginState /\ CalmInv /\ DiskInv /\ CollectionInv /\ TraceInv /\ RunInv
  BY DEF Undisturbed, SafeInv, TypeInv, PluginTypes
<1>2. plugin' = [plugin EXCEPT !.collected = TRUE] /\ UNCHANGED artifact
  BY <1>1, CalmScope, CalmHook DEF CollectionFinish, ScopeHook, LookingHook, Final, Over
<1>3. CalmInv'
  BY <1>1, <1>2, CodesAreCodes DEF CollectionFinish, CalmInv, Early, Recorded, Final, Over,
     pytestVars, history, PluginState
<1>4. DiskInv'
  BY <1>1, <1>2 DEF CollectionFinish, DiskInv, Finalized, Early, Final, Over, pytestVars,
     readerVars, PluginState
<1>5. CollectionInv'
  BY <1>1, <1>2, CodesAreCodes DEF CollectionFinish, CollectionInv, CollectionAccounts, Early, Over,
     pytestVars, history, PluginState, NoStatus, ExitCode
<1>6. TraceInv'
  BY <1>1, SameTraceInv DEF CollectionFinish, Collecting, Over, pytestVars, history
<1>7. RunInv'
  <2>1. ran' = << >> /\ Len(<< >>) = 0 /\ 1 .. 0 = {} /\ at' = NoItem
    BY <1>1 DEF CollectionFinish, TraceInv, Collecting, SafeInv, TypeInv, SessionTypes
  <2> QED BY <2>1 DEF RunInv
<1> QED BY <1>3, <1>4, <1>5, <1>6, <1>7 DEF Undisturbed

LEMMA StartItemIsCalm ==
  ASSUME SafeInv, Undisturbed, NEW n \in Node, StartItem(n)
  PROVE  Undisturbed'
<1>1. plugin \in PluginState /\ CalmInv /\ DiskInv /\ CollectionInv /\ TraceInv /\ RunInv
  BY DEF Undisturbed, SafeInv, TypeInv, PluginTypes
<1>2. UNCHANGED <<plugin, artifact>>
  BY DEF StartItem
<1>3. CalmInv'
  BY <1>1, <1>2 DEF StartItem, CalmInv, Early, Recorded, Final, Over, pytestVars, history,
     PluginState
<1>4. DiskInv'
  BY <1>1, <1>2 DEF StartItem, DiskInv, Finalized, Early, Final, Over, pytestVars, readerVars,
     PluginState
<1>5. CollectionInv'
  BY <1>1, <1>2 DEF StartItem, CollectionInv, CollectionAccounts, Early, Over, pytestVars, history,
     PluginState
<1>6. TraceInv'
  BY <1>1, SameTraceInv DEF StartItem, Collecting, Over, pytestVars, history
<1>7. RunInv'
  BY <1>1 DEF StartItem, RunInv, history
<1> QED BY <1>3, <1>4, <1>5, <1>6, <1>7 DEF Undisturbed

LEMMA EndRunIsCalm ==
  ASSUME SafeInv, Undisturbed, EndRun
  PROVE  Undisturbed'
<1>1. plugin \in PluginState /\ CalmInv /\ DiskInv /\ CollectionInv /\ TraceInv /\ RunInv
  BY DEF Undisturbed, SafeInv, TypeInv, PluginTypes
<1>2. UNCHANGED <<plugin, artifact>>
  BY DEF EndRun
<1>3. CalmInv'
  BY <1>1, <1>2 DEF EndRun, CalmInv, Early, Recorded, Final, Over, pytestVars, history,
     PluginState
<1>4. DiskInv'
  BY <1>1, <1>2 DEF EndRun, DiskInv, Finalized, Early, Final, Over, pytestVars, readerVars,
     PluginState
<1>5. CollectionInv'
  BY <1>1, <1>2 DEF EndRun, CollectionInv, CollectionAccounts, Early, Over, pytestVars, history,
     PluginState
<1>6. TraceInv'
  BY <1>1, SameTraceInv DEF EndRun, Collecting, Over, pytestVars, history
<1>7. RunInv'
  BY DEF EndRun, RunInv, pytestVars
<1> QED BY <1>3, <1>4, <1>5, <1>6, <1>7 DEF Undisturbed

LEMMA StopEarlyIsCalm ==
  ASSUME SafeInv, Undisturbed, StopEarly
  PROVE  Undisturbed'
<1>1. plugin \in PluginState /\ CalmInv /\ DiskInv /\ CollectionInv /\ TraceInv /\ RunInv
  BY DEF Undisturbed, SafeInv, TypeInv, PluginTypes
<1>2. UNCHANGED <<plugin, artifact>>
  BY DEF StopEarly
<1>3. CalmInv'
  BY <1>1, <1>2 DEF StopEarly, CalmInv, Early, Recorded, Final, Over, pytestVars, history,
     PluginState
<1>4. DiskInv'
  BY <1>1, <1>2 DEF StopEarly, DiskInv, Finalized, Early, Final, Over, pytestVars, readerVars,
     PluginState
<1>5. CollectionInv'
  BY <1>1, <1>2 DEF StopEarly, CollectionInv, CollectionAccounts, Early, Over, pytestVars, history,
     PluginState
<1>6. TraceInv'
  BY <1>1, SameTraceInv DEF StopEarly, Collecting, Over, pytestVars, history
<1>7. RunInv'
  BY DEF StopEarly, RunInv, pytestVars
<1> QED BY <1>3, <1>4, <1>5, <1>6, <1>7 DEF Undisturbed

LEMMA CollectOnlyIsCalm ==
  ASSUME SafeInv, Undisturbed, CollectOnly
  PROVE  Undisturbed'
<1>1. plugin \in PluginState /\ CalmInv /\ DiskInv /\ CollectionInv /\ TraceInv /\ RunInv
  BY DEF Undisturbed, SafeInv, TypeInv, PluginTypes
<1>2. UNCHANGED <<plugin, artifact>>
  BY DEF CollectOnly
<1>3. CalmInv'
  BY <1>1, <1>2 DEF CollectOnly, CalmInv, Early, Recorded, Final, Over, pytestVars, history,
     PluginState
<1>4. DiskInv'
  BY <1>1, <1>2 DEF CollectOnly, DiskInv, Finalized, Early, Final, Over, pytestVars, readerVars,
     PluginState
<1>5. CollectionInv'
  BY <1>1, <1>2 DEF CollectOnly, CollectionInv, CollectionAccounts, Early, Over, pytestVars, history,
     PluginState
<1>6. TraceInv'
  BY <1>1, SameTraceInv DEF CollectOnly, Collecting, Over, pytestVars, history
<1>7. RunInv'
  BY DEF CollectOnly, RunInv, pytestVars
<1> QED BY <1>3, <1>4, <1>5, <1>6, <1>7 DEF Undisturbed

LEMMA CutRunIsCalm ==
  ASSUME SafeInv, Undisturbed, CutRun
  PROVE  Undisturbed'
<1>1. plugin \in PluginState /\ CalmInv /\ DiskInv /\ CollectionInv /\ TraceInv /\ RunInv
  BY DEF Undisturbed, SafeInv, TypeInv, PluginTypes
<1>2. UNCHANGED <<plugin, artifact>>
  BY DEF CutRun
<1>3. CalmInv'
  BY <1>1, <1>2 DEF CutRun, CalmInv, Early, Recorded, Final, Over, pytestVars, history,
     PluginState
<1>4. DiskInv'
  BY <1>1, <1>2 DEF CutRun, DiskInv, Finalized, Early, Final, Over, pytestVars, readerVars,
     PluginState
<1>5. CollectionInv'
  BY <1>1, <1>2 DEF CutRun, CollectionInv, CollectionAccounts, Early, Over, pytestVars, history,
     PluginState
<1>6. TraceInv'
  BY <1>1, SameTraceInv DEF CutRun, Collecting, Over, pytestVars, history
<1>7. RunInv'
  BY DEF CutRun, RunInv, pytestVars
<1> QED BY <1>3, <1>4, <1>5, <1>6, <1>7 DEF Undisturbed

LEMMA FinishBeginIsCalm ==
  ASSUME SafeInv, Undisturbed, FinishBegin
  PROVE  Undisturbed'
<1>1. plugin \in PluginState /\ CalmInv /\ DiskInv /\ CollectionInv /\ TraceInv /\ RunInv
  BY DEF Undisturbed, SafeInv, TypeInv, PluginTypes
<1>2. UNCHANGED <<plugin, artifact>>
  BY <1>1, CalmScope, CalmHook DEF FinishBegin, ConfigHook, LookingHook, Final, Over
<1>3. CalmInv'
  BY <1>1, <1>2 DEF FinishBegin, CalmInv, Early, Recorded, Final, Over, pytestVars, history,
     PluginState, Active
<1>4. DiskInv'
  BY <1>1, <1>2 DEF FinishBegin, DiskInv, Finalized, Early, Final, Over, pytestVars, readerVars,
     PluginState
<1>5. CollectionInv'
  BY <1>1, <1>2 DEF FinishBegin, CollectionInv, CollectionAccounts, Early, Over, pytestVars, history,
     PluginState
<1>6. TraceInv'
  BY <1>1, SameTraceInv DEF FinishBegin, Collecting, Over, pytestVars, history
<1>7. RunInv'
  BY DEF FinishBegin, RunInv, pytestVars
<1> QED BY <1>3, <1>4, <1>5, <1>6, <1>7 DEF Undisturbed

LEMMA FinishEndIsCalm ==
  ASSUME SafeInv, Undisturbed, FinishEnd
  PROVE  Undisturbed'
<1>1. plugin \in PluginState /\ CalmInv /\ DiskInv /\ CollectionInv /\ TraceInv /\ RunInv
  BY DEF Undisturbed, SafeInv, TypeInv, PluginTypes
<1>2. /\ plugin' = RecordFinish(plugin, status, StoppedEarly(plugin), FALSE) /\ ~plugin.finishSeen
      /\ UNCHANGED artifact /\ status \in ExitCode /\ plugin' = [plugin EXCEPT !.finishSeen = TRUE, !.forced = FALSE, !.exit = status,
                               !.stopped = StoppedEarly(plugin)]
  BY <1>1, CalmScope DEF FinishEnd, RecordFinish, CalmInv, Recorded, Over, SafeInv, TypeInv,
     SessionTypes
<1>3. CalmInv'
  BY <1>1, <1>2 DEF FinishEnd, CalmInv, Early, Recorded, Final, Over, pytestVars, history,
     PluginState
<1>4. DiskInv'
  BY <1>1, <1>2 DEF FinishEnd, DiskInv, Finalized, Early, Final, Over, pytestVars, readerVars,
     PluginState
<1>5. CollectionInv'
  BY <1>1, <1>2 DEF FinishEnd, CollectionInv, CollectionAccounts, Early, Over, pytestVars, history,
     PluginState
<1>6. TraceInv'
  BY <1>1, SameTraceInv DEF FinishEnd, Collecting, Over, pytestVars, history
<1>7. RunInv'
  BY DEF FinishEnd, RunInv, pytestVars
<1> QED BY <1>3, <1>4, <1>5, <1>6, <1>7 DEF Undisturbed

LEMMA UnconfigureIsCalm ==
  ASSUME SafeInv, Undisturbed, Unconfigure
  PROVE  Undisturbed'
<1>1. plugin \in PluginState /\ CalmInv /\ DiskInv /\ CollectionInv /\ TraceInv /\ RunInv
  BY DEF Undisturbed, SafeInv, TypeInv, PluginTypes
<1>2. plugin' = [plugin EXCEPT !.closed = TRUE] /\ UNCHANGED artifact
  BY <1>1, CalmScope, CalmHook DEF Unconfigure, ScopeHook, LookingHook, Closed, CalmInv, Early, Recorded,
     Final, Over
<1>3. CalmInv'
  BY <1>1, <1>2 DEF Unconfigure, CalmInv, Early, Recorded, Final, Over, pytestVars, history,
     PluginState
<1>4. DiskInv'
  BY <1>1, <1>2 DEF Unconfigure, DiskInv, Finalized, Early, Final, Over, pytestVars, readerVars,
     PluginState
<1>5. CollectionInv'
  BY <1>1, <1>2 DEF Unconfigure, CollectionInv, CollectionAccounts, Early, Over, pytestVars, history,
     PluginState
<1>6. TraceInv'
  BY <1>1, SameTraceInv DEF Unconfigure, Collecting, Over, pytestVars, history
<1>7. RunInv'
  BY DEF Unconfigure, RunInv, pytestVars
<1> QED BY <1>3, <1>4, <1>5, <1>6, <1>7 DEF Undisturbed

LEMMA FinalizeIsCalm ==
  ASSUME SafeInv, Undisturbed, Finalize
  PROVE  Undisturbed'
<1>1. plugin \in PluginState /\ CalmInv /\ DiskInv /\ CollectionInv /\ TraceInv /\ RunInv
  BY DEF Undisturbed, SafeInv, TypeInv, PluginTypes
<1>0. ~plugin.terminal
  BY DEF Finalize, SafeInv, FinalInv, Over
<1>2. /\ plugin' = [plugin EXCEPT !.finishes = 1, !.terminal = TRUE]
      /\ artifact'.state = "finalized" /\ artifact'.writer = "primary"
  <2>1. plugin.started /\ Refreshed(plugin) = plugin /\ ~Unfinished(plugin)
    BY <1>1, CalmScope DEF Finalize, Unfinished, CalmInv, Early, Recorded, Final, Over
  <2>2. /\ plugin' = [plugin EXCEPT !.finishes = 1, !.terminal = TRUE]
        /\ artifact' = Document(plugin', "finalized")
    BY <1>0, <2>1 DEF Finalize
  <2> QED BY <2>2 DEF Document
<1>3. CalmInv'
  BY <1>1, <1>2 DEF Finalize, CalmInv, Early, Recorded, Final, Over, pytestVars, history,
     PluginState
<1>4. DiskInv'
  BY <1>1, <1>2 DEF Finalize, DiskInv, Finalized, Early, Final, Over, pytestVars, readerVars,
     PluginState
<1>5. CollectionInv'
  BY <1>1, <1>2 DEF Finalize, CollectionInv, CollectionAccounts, Early, Over, pytestVars, history,
     PluginState
<1>6. TraceInv'
  BY <1>1, SameTraceInv DEF Finalize, Collecting, Over, pytestVars, history
<1>7. RunInv'
  BY DEF Finalize, RunInv, pytestVars
<1> QED BY <1>3, <1>4, <1>5, <1>6, <1>7 DEF Undisturbed

LEMMA ExitIsCalm ==
  ASSUME SafeInv, Undisturbed, Exit
  PROVE  Undisturbed'
<1>1. plugin \in PluginState /\ CalmInv /\ DiskInv /\ CollectionInv /\ TraceInv /\ RunInv
  BY DEF Undisturbed, SafeInv, TypeInv, PluginTypes
<1>2. UNCHANGED <<plugin, artifact>>
  BY DEF Exit, ProcessEnds
<1>3. CalmInv'
  BY <1>1, <1>2 DEF Exit, ProcessEnds, CalmInv, Early, Recorded, Final, Over, pytestVars, history,
     PluginState
<1>4. DiskInv'
  BY <1>1, <1>2 DEF Exit, ProcessEnds, DiskInv, Finalized, Early, Final, Over, pytestVars, readerVars,
     PluginState, CalmInv
<1>5. CollectionInv'
  BY <1>1, <1>2 DEF Exit, ProcessEnds, Over, CollectionInv, CollectionAccounts, Early, pytestVars, history,
     PluginState
<1>6. TraceInv'
  <2>1. ran' = ran /\ pc = "exiting" /\ pc' \in Over \ Collecting
    BY DEF Exit, ProcessEnds, Over, Collecting
  <2>2. cut = "modifying" => ran = << >>
    BY <1>1 DEF CollectionInv
  <2>3. cut # "modifying" => plugin'.final = items
    BY <1>1, <1>2, <2>1 DEF CollectionInv, Early, Over
  <2>4. cut = "modifying" => TraceInv'
    BY <2>1, <2>2, NoTrace
  <2>5. cut # "modifying" => TraceInv'
    BY <1>1, <2>1, <2>3 DEF TraceInv, Over
  <2> QED BY <2>4, <2>5
<1>7. RunInv'
  BY DEF Exit, ProcessEnds, RunInv, pytestVars
<1> QED BY <1>3, <1>4, <1>5, <1>6, <1>7 DEF Undisturbed

LEMMA TakeInventoryIsCalm ==
  ASSUME SafeInv, Undisturbed, TakeInventory
  PROVE  Undisturbed'
<1>1. plugin \in PluginState /\ CalmInv /\ DiskInv /\ CollectionInv /\ TraceInv /\ RunInv
  BY DEF Undisturbed, SafeInv, TypeInv, PluginTypes
<1>2. UNCHANGED <<plugin, artifact>>
  BY DEF TakeInventory
<1>3. CalmInv'
  BY <1>1, <1>2 DEF TakeInventory, CalmInv, Early, Recorded, Final, Over, pytestVars, history,
     PluginState
<1>4. DiskInv'
  BY <1>1, <1>2 DEF TakeInventory, DiskInv, Finalized, Early, Final, Over, pytestVars,
     readerVars, PluginState
<1>5. CollectionInv'
  BY <1>1, <1>2 DEF TakeInventory, CollectionInv, CollectionAccounts, Early, Over, pytestVars,
     history, PluginState
<1>6. TraceInv'
  BY <1>1, <1>2, LaterTraceInv DEF TakeInventory, Over
<1>7. RunInv'
  BY DEF TakeInventory, RunInv, pytestVars
<1> QED BY <1>3, <1>4, <1>5, <1>6, <1>7 DEF Undisturbed

LEMMA ReadArtifactIsCalm ==
  ASSUME SafeInv, Undisturbed, ReadArtifact
  PROVE  Undisturbed'
<1>1. plugin \in PluginState /\ CalmInv /\ DiskInv /\ CollectionInv /\ TraceInv /\ RunInv
  BY DEF Undisturbed, SafeInv, TypeInv, PluginTypes
<1>2. UNCHANGED <<plugin, artifact>>
  BY DEF ReadArtifact
<1>3. CalmInv'
  BY <1>1, <1>2 DEF ReadArtifact, CalmInv, Early, Recorded, Final, Over, pytestVars, history,
     PluginState
<1>4. DiskInv'
  BY <1>1, <1>2 DEF ReadArtifact, DiskInv, Finalized, Early, Final, Over, pytestVars,
     readerVars, PluginState
<1>5. CollectionInv'
  BY <1>1, <1>2 DEF ReadArtifact, CollectionInv, CollectionAccounts, Early, Over, pytestVars, history,
     PluginState
<1>6. TraceInv'
  BY <1>1, <1>2, LaterTraceInv DEF ReadArtifact, Over
<1>7. RunInv'
  BY DEF ReadArtifact, RunInv, pytestVars
<1> QED BY <1>3, <1>4, <1>5, <1>6, <1>7 DEF Undisturbed

LEMMA LogReportIsCalm ==
  ASSUME SafeInv, Undisturbed, NEW outcome \in Outcome, LogReport(outcome)
  PROVE  Undisturbed'
<1> DEFINE r == [node |-> at.node, when |-> at.when, outcome |-> outcome]
           n == Len(ran)
<1>1. /\ plugin \in PluginState
      /\ CalmInv /\ DiskInv /\ CollectionInv /\ TraceInv /\ RunInv
      /\ ran \in Seq(Report) /\ plugin.reports = ran /\ left \subseteq items
  BY DEF Undisturbed, SafeInv, TypeInv, SessionTypes, PluginTypes, TrustInv, CalmInv
<1>2. /\ at \in [node : Node, when : Phase] /\ at.node \in left /\ outcome # "rerun"
      /\ pc = "run" /\ pc' = "run"
  <2>1. at \in [node : Node, when : Phase] /\ at.node \in left
    BY <1>1 DEF LogReport, RunInv, SafeInv, TypeInv, SessionTypes
  <2>2. outcome \in Made[at.node][at.when] /\ Made[at.node][at.when] \in SUBSET (Outcome \ {"rerun"})
    <3>1. Made \in [Node -> [Phase -> SUBSET (Outcome \ {"rerun"})]]
      BY PytestReporterAssumption
    <3>2. at.node \in Node /\ at.when \in Phase
      BY <2>1
    <3>3. Made[at.node] \in [Phase -> SUBSET (Outcome \ {"rerun"})]
      BY <3>1, <3>2
    <3> QED BY <3>2, <3>3 DEF LogReport
  <2> QED BY <2>1, <2>2 DEF LogReport
<1>3. r \in Report
  BY <1>2 DEF Report
<1>4. /\ ran' = Append(ran, r) /\ Len(ran') = n + 1 /\ n \in Nat
      /\ ran'[n + 1] = r /\ \A i \in 1 .. n : ran'[i] = ran[i]
  BY <1>1, <1>3 DEF LogReport
<1> HIDE DEF n
<1>5. \A i \in 1 .. n : ran[i].node = at.node => ran[i].when \in Before(at.when)
  BY <1>1, <1>2 DEF RunInv, n
<1>6. at.when \in Phase /\ at.when \notin Before(at.when)
  BY <1>2 DEF Phase, Before
<1>7. r.node = at.node /\ r.when = at.when /\ r.outcome = outcome
  OBVIOUS
<1> HIDE DEF r
<1>8. ~Repeated(ran')
  <2>1. \A i \in 1 .. n : ran[i].outcome # "rerun"
    BY <1>1 DEF TraceInv, Repeated, n
  <2>2. \A i, j \in 1 .. n : i # j => ~(ran[i].node = ran[j].node /\ ran[i].when = ran[j].when)
    BY <1>1 DEF TraceInv, Repeated, n
  <2>3. \A i \in 1 .. n : ~(ran[i].node = r.node /\ ran[i].when = r.when)
    BY <1>5, <1>6, <1>7
  <2>4. \A i \in 1 .. n + 1 : i \in 1 .. n \/ i = n + 1
    BY <1>4
  <2> QED BY <1>2, <1>4, <1>7, <2>1, <2>2, <2>3, <2>4 DEF Repeated
<1>9. PossiblePhases(ran')
  <2> SUFFICES ASSUME NEW i \in 1 .. n + 1
               PROVE  /\ ran'[i].when # "setup" =>
                           \E j \in 1 .. i - 1 : ran'[j].node = ran'[i].node /\ ran'[j].when = "setup"
                      /\ ran'[i].when = "call" =>
                           \A j \in 1 .. i - 1 : ran'[j].node = ran'[i].node => ran'[j].when = "setup"
    BY <1>4 DEF PossiblePhases
  <2>1. CASE i \in 1 .. n
    <3>1. ran'[i] = ran[i] /\ \A j \in 1 .. i - 1 : ran'[j] = ran[j]
      BY <1>4, <2>1
    <3> QED BY <1>1, <2>1, <3>1 DEF TraceInv, PossiblePhases, n
  <2>2. CASE i = n + 1
    <3>1. 1 .. i - 1 = 1 .. n /\ ran'[i] = r
      BY <1>4, <2>2
    <3>2. at.when # "setup" => \E j \in 1 .. n : ran[j].node = at.node /\ ran[j].when = "setup"
      BY <1>1, <1>2 DEF RunInv, n, LogReport
    <3>3. at.when = "call" => \A j \in 1 .. n : ran[j].node = at.node => ran[j].when = "setup"
      BY <1>5 DEF Before
    <3> QED BY <1>4, <1>7, <3>1, <3>2, <3>3
  <2> QED BY <1>4, <2>1, <2>2
<1>10. plugin' = [plugin EXCEPT !.reports = ran', !.retries = FALSE] /\ UNCHANGED artifact
  <2>1. Hook(Logged(plugin, r)) /\ ran' = Append(plugin.reports, r)
    BY <1>1, <1>4 DEF LogReport, r
  <2>2. Logged(plugin, r) = [plugin EXCEPT !.reports = ran', !.retries = FALSE]
    BY <1>1, <1>8, <2>1 DEF Logged, CalmInv, PluginState
  <2> QED BY <1>1, <1>2, <2>1, <2>2, CalmHook DEF Final, Over
<1>11. CalmInv' /\ DiskInv' /\ CollectionInv'
  <2>1. /\ UNCHANGED <<live, markers, items, status, configured, cut, inventory, returncode>>
        /\ \A f \in (DOMAIN plugin) \ {"reports", "retries"} : plugin'[f] = plugin[f]
        /\ ~plugin'.retries
    BY <1>1, <1>10 DEF LogReport, readerVars, PluginState
  <2>2. CalmInv'
    BY <1>1, <1>2, <1>10, <2>1 DEF CalmInv, Early, Recorded, Final, Over, PluginState
  <2>3. DiskInv'
    BY <1>1, <1>2, <1>10, <2>1 DEF DiskInv, Early, Final, Over
  <2>4. CollectionInv'
    BY <1>1, <1>2, <1>10, <2>1 DEF CollectionInv, CollectionAccounts, Early, PluginState
  <2> QED BY <2>2, <2>3, <2>4
<1>12. TraceInv'
  <2>1. \A i \in 1 .. n + 1 : ran'[i].node \in items
    <3>1. \A i \in 1 .. n : ran[i].node \in items
      BY <1>1, <1>2 DEF TraceInv, n, Over
    <3>2. \A i \in 1 .. n + 1 : i \in 1 .. n \/ i = n + 1
      BY <1>4
    <3> QED BY <1>1, <1>2, <1>4, <1>7, <3>1, <3>2
  <2>2. items' = items
    BY DEF LogReport
  <2> QED BY <1>2, <1>4, <1>8, <1>9, <2>1, <2>2 DEF TraceInv, Collecting, Over
<1>13. RunInv'
  <2>1. \A i \in 1 .. n : ran[i].node \in left => ran[i].node = at.node
    BY <1>1, <1>2 DEF RunInv, n
  <2>2. \A i \in 1 .. n + 1 : i \in 1 .. n \/ i = n + 1
    BY <1>4
  <2>3. CASE at.when = "teardown"
    <3>1. at' = NoItem /\ left' = left \ {at.node}
      BY <2>3 DEF LogReport
    <3>2. \A i \in 1 .. n + 1 : ran'[i].node \notin left'
      BY <1>4, <1>7, <2>1, <2>2, <3>1
    <3> QED BY <1>4, <3>1, <3>2 DEF RunInv
  <2>4. CASE at.when = "setup"
    <3>1. /\ at'.node = at.node /\ at'.when \in {"call", "teardown"} /\ left' = left
          /\ at' # NoItem
      <4>1. at' \in {[at EXCEPT !.when = "call"], [at EXCEPT !.when = "teardown"]} /\ left' = left
        BY <2>4 DEF LogReport
      <4>2. "setup" # at'.when /\ "none" # at'.when
        BY <1>2, <4>1
      <4> QED BY <1>2, <4>1, <4>2 DEF NoItem
    <3>2. \A i \in 1 .. n + 1 : ran'[i].node \in left => ran'[i].node = at.node /\ ran'[i].when = "setup"
      BY <1>4, <1>5, <1>7, <2>1, <2>2, <2>4 DEF Before
    <3>3. "setup" \in Before(at'.when) /\ n + 1 \in 1 .. n + 1
      BY <1>4, <3>1 DEF Before
    <3> QED BY <1>2, <1>4, <1>7, <2>4, <3>1, <3>2, <3>3 DEF RunInv
  <2>5. CASE at.when = "call"
    <3>1. at'.node = at.node /\ at'.when = "teardown" /\ left' = left /\ at' # NoItem
      <4>1. at' = [at EXCEPT !.when = "teardown"] /\ left' = left
        BY <2>5 DEF LogReport
      <4> QED BY <1>2, <4>1 DEF NoItem
    <3>2. \A i \in 1 .. n + 1 :
             ran'[i].node \in left => ran'[i].node = at.node /\ ran'[i].when \in {"setup", "call"}
      BY <1>4, <1>5, <1>7, <2>1, <2>2, <2>5 DEF Before
    <3>3. Before("teardown") = {"setup", "call"}
      BY DEF Before
    <3>4. PICK j \in 1 .. n : ran[j].node = at.node /\ ran[j].when = "setup"
      BY <1>1, <1>2, <2>5 DEF RunInv, n, LogReport
    <3>5. j \in 1 .. n + 1 /\ ran'[j].node = at'.node /\ ran'[j].when = "setup"
      BY <1>4, <3>1, <3>4
    <3> QED BY <1>2, <1>4, <3>1, <3>2, <3>3, <3>5 DEF RunInv
  <2> QED BY <1>6, <2>3, <2>4, <2>5 DEF Phase
<1> QED BY <1>11, <1>12, <1>13 DEF Undisturbed

LEMMA ModifyBeginIsCalm ==
  ASSUME SafeInv, Undisturbed, ModifyBegin
  PROVE  Undisturbed'
<1>1. /\ plugin \in PluginState
      /\ CalmInv /\ DiskInv /\ CollectionInv /\ TraceInv /\ RunInv
  BY DEF Undisturbed, SafeInv, TypeInv, PluginTypes
<1>2. PICK collected \in SUBSET Node :
        /\ items' = collected
        /\ ConfigHook([ConfigRemembered(plugin) EXCEPT !.initial = collected, !.during = {}])
  BY DEF ModifyBegin
<1>3. plugin' = [plugin EXCEPT !.initial = collected, !.during = {}] /\ UNCHANGED artifact
  BY <1>1, <1>2, CalmScope, CalmHook DEF ModifyBegin, ConfigHook, LookingHook, Final, Over
<1>4. CalmInv'
  BY <1>1, <1>3 DEF ModifyBegin, CalmInv, Early, Recorded, Final, Over, Active, PluginState
<1>5. DiskInv'
  BY <1>1, <1>3 DEF ModifyBegin, DiskInv, Finalized, Early, Final, Over, readerVars, PluginState
<1>6. CollectionInv'
  BY <1>1, <1>2, <1>3 DEF ModifyBegin, CollectionInv, Early, Over, PluginState
<1>7. TraceInv'
  BY <1>1, NoTrace DEF ModifyBegin, TraceInv, Collecting
<1>8. RunInv'
  BY DEF ModifyBegin, RunInv
<1> QED BY <1>4, <1>5, <1>6, <1>7, <1>8 DEF Undisturbed

LEMMA EndBeforeStartIsCalm ==
  ASSUME SafeInv, Undisturbed, EndBeforeStart
  PROVE  NeverStarted'
<1>1. ~plugin.started /\ artifact = NoDocument
  BY DEF EndBeforeStart, Undisturbed, CalmInv, DiskInv, Early
<1> QED BY <1>1, CodesAreCodes DEF EndBeforeStart, NeverStarted, Recorded, Over

(* Without a session nothing is published at the end of the process.       *)
LEMMA NeverStartedStays ==
  ASSUME SafeInv, NeverStarted, [Next]_vars, strays' = strays
  PROVE  NeverStarted'
<1>1. plugin \in PluginState /\ live \in Scope
  BY PluginKnows
<1>2. ASSUME Unconfigure
      PROVE  NeverStarted'
  <2>1. Follows(Refreshed(plugin), Closed(Refreshed(plugin))) /\ Follows(plugin, Refreshed(plugin))
    BY RefreshedKnows, ClosedKeeps
  <2>2. /\ Closed(Refreshed(plugin)).started = plugin.started
        /\ [plugin EXCEPT !.invalid = TRUE].started = plugin.started
    BY <1>1, <2>1, InvalidKeeps DEF Follows
  <2>3. ~plugin'.started /\ artifact' = artifact
    BY <1>2, <2>2 DEF Unconfigure, ScopeHook, LookingHook, Hook, NeverStarted
  <2> QED BY <1>2, <2>3 DEF Unconfigure, NeverStarted, Recorded, Over
<1>3. ASSUME Finalize
      PROVE  NeverStarted'
  BY <1>3 DEF Finalize, NeverStarted, Recorded, Over, pytestVars
<1>4. ASSUME Exit
      PROVE  NeverStarted'
  BY <1>4 DEF Exit, ProcessEnds, NeverStarted, Recorded, Over
<1>5. ASSUME TakeInventory \/ ReadArtifact \/ UNCHANGED vars
      PROVE  NeverStarted'
  BY <1>5 DEF TakeInventory, ReadArtifact, vars, readerVars, NeverStarted, Recorded, Over
<1>6. ASSUME Session
      PROVE  Unconfigure \/ Finalize \/ Exit
  BY <1>6 DEF Session, Load, Configure, EndBeforeStart, SessionStart, SetupNodes, CollectError,
     CutCollection, ModifyBegin, Deselect, Remove, ModifyEnd, CutModify, CollectionFinish,
     StartItem, LogReport, EndRun, StopEarly, CollectOnly, CutRun, FinishBegin, FinishEnd,
     NeverStarted, Recorded, Over
<1>7. ~SessionStartFails /\ ~FinalizeFails /\ ~Stray
  <2>1. strays \in Nat
    <3>1. StrayBound \in Nat /\ strays \in 0 .. StrayBound
      BY PytestReporterAssumption DEF SafeInv, TypeInv, SessionTypes
    <3> QED BY <3>1
  <2> QED BY <2>1 DEF SessionStartFails, FinalizeFails, Stray
<1> QED BY <1>2, <1>3, <1>4, <1>5, <1>6, <1>7 DEF Next

LEMMA StutterIsCalm ==
  ASSUME Undisturbed, UNCHANGED vars
  PROVE  Undisturbed'
<1>1. CalmInv' /\ DiskInv'
  BY DEF Undisturbed, CalmInv, DiskInv, Finalized, vars, history, readerVars
<1>2. CollectionInv' /\ TraceInv'
  BY DEF Undisturbed, CollectionInv, CollectionAccounts, TraceInv, vars, history, readerVars
<1>3. RunInv'
  BY DEF Undisturbed, RunInv, vars, history, readerVars
<1> QED BY <1>1, <1>2, <1>3 DEF Undisturbed

LEMMA InitIsCalm ==
  ASSUME Init
  PROVE  Undisturbed
<1>1. /\ plugin.args = << >> /\ plugin.keyword = "" /\ ~plugin.invalid /\ ~plugin.retries
      /\ ~plugin.closed /\ ~plugin.started /\ plugin.starts = 0 /\ ~plugin.finishSeen
      /\ plugin.initial = {} /\ plugin.final = {} /\ plugin.deselected = {} /\ plugin.uncovered = {}
  BY DEF Init, Fresh
<1>2. CalmInv /\ DiskInv /\ CollectionInv
  BY <1>1 DEF Init, CalmInv, DiskInv, CollectionInv, Early, Recorded, Final, Over
<1>3. TraceInv /\ RunInv
  BY DEF Init, TraceInv, RunInv, Repeated, PossiblePhases
<1> QED BY <1>2, <1>3 DEF Undisturbed

UndisturbedInv == strays = 0 => Undisturbed \/ NeverStarted

LEMMA NextUndisturbed ==
  ASSUME SafeInv, UndisturbedInv, [Next]_vars
  PROVE  UndisturbedInv'
<1> SUFFICES ASSUME strays' = 0
             PROVE  Undisturbed' \/ NeverStarted'
  BY DEF UndisturbedInv
<1>1. strays \in Nat
  <2>1. StrayBound \in Nat /\ strays \in 0 .. StrayBound
    BY PytestReporterAssumption DEF SafeInv, TypeInv, SessionTypes
  <2> QED BY <2>1
<1>2. CASE SessionStartFails \/ FinalizeFails \/ Stray
  BY <1>1, <1>2 DEF SessionStartFails, FinalizeFails, Stray
<1>3. ASSUME strays' = strays
      PROVE  Undisturbed \/ NeverStarted'
  BY <1>3, NeverStartedStays DEF UndisturbedInv
<1>4. CASE Session
  <2>1. strays' = strays
    BY <1>4 DEF Session, Load, Configure, EndBeforeStart, SessionStart, SetupNodes, CollectError, CutCollection,
       ModifyBegin, Deselect, Remove, ModifyEnd, CutModify, CollectionFinish, StartItem, LogReport,
       EndRun, StopEarly, CollectOnly, CutRun, FinishBegin, FinishEnd, Unconfigure, Finalize, Exit
  <2> QED BY <1>3, <1>4, <2>1, LoadIsCalm, ConfigureIsCalm, EndBeforeStartIsCalm, SessionStartIsCalm, SetupNodesIsCalm,
       CollectErrorIsCalm, CutCollectionIsCalm, ModifyBeginIsCalm, DeselectIsCalm, RemoveIsCalm,
       ModifyEndIsCalm, CutModifyIsCalm, CollectionFinishIsCalm, StartItemIsCalm, LogReportIsCalm,
       EndRunIsCalm, StopEarlyIsCalm, CollectOnlyIsCalm, CutRunIsCalm, FinishBeginIsCalm,
       FinishEndIsCalm, UnconfigureIsCalm, FinalizeIsCalm, ExitIsCalm DEF Session
<1>5. CASE TakeInventory \/ ReadArtifact \/ UNCHANGED vars
  BY <1>3, <1>5, TakeInventoryIsCalm, ReadArtifactIsCalm, StutterIsCalm
     DEF TakeInventory, ReadArtifact, vars
<1> QED BY <1>2, <1>4, <1>5 DEF Next

(* A session that nobody disturbs is judged on its merits.                 *)
THEOREM UndisturbedIsJudged == Spec => []UndisturbedIsAccepted
<1>1. SafeInv /\ ResultInv /\ UndisturbedInv => UndisturbedIsAccepted
  <2> SUFFICES ASSUME SafeInv, ResultInv, UndisturbedInv, pc = "ended", strays = 0
               PROVE  result.verdict =
                        IF ~plugin.started THEN "artifact_missing"
                        ELSE IF cut = "modifying" /\ ~CollectionAccounts(plugin) THEN "artifact_invalid"
                        ELSE IF ~ExpectedFailuresAgree(ran) THEN "artifact_invalid"
                        ELSE IF plugin.parallel THEN "unsupported_parallelism"
                        ELSE "valid"
    BY DEF UndisturbedIsAccepted
  <2>0. CASE NeverStarted
    <3>1. artifact = NoDocument /\ ~plugin.started /\ ~(returncode < 0)
      BY <2>0 DEF NeverStarted, Over, ExitCode
    <3> QED BY <3>1 DEF ResultInv, Verdict
  <2> SUFFICES ASSUME Undisturbed
               PROVE  result.verdict =
                        IF ~plugin.started THEN "artifact_missing"
                        ELSE IF cut = "modifying" /\ ~CollectionAccounts(plugin) THEN "artifact_invalid"
                        ELSE IF ~ExpectedFailuresAgree(ran) THEN "artifact_invalid"
                        ELSE IF plugin.parallel THEN "unsupported_parallelism"
                        ELSE "valid"
    BY <2>0 DEF UndisturbedInv
  <2> DEFINE c == artifact.content
  <2>1. /\ CalmInv /\ DiskInv /\ CollectionInv /\ TraceInv
        /\ plugin.reports = ran /\ result.verdict = Verdict(artifact, inventory, returncode)
    <3>1. CalmInv /\ DiskInv /\ CollectionInv /\ TraceInv
      BY DEF Undisturbed
    <3>2. plugin.reports = ran
      BY <3>1 DEF CalmInv, SafeInv, TrustInv
    <3>3. result.verdict = Verdict(artifact, inventory, returncode)
      BY DEF ResultInv
    <3> QED BY <3>1, <3>2, <3>3
  <2>2. /\ artifact.state = "finalized" /\ artifact.writer = "primary" /\ inventory = {"primary"}
        /\ plugin.starts = 1 /\ plugin.finishes = 1 /\ ~plugin.retries
        /\ plugin.exit = returncode /\ returncode \in ExitCode /\ plugin.started
    BY <2>1 DEF CalmInv, DiskInv, Finalized, Early, Final, Over
  <2>3. \A f \in Published : c[f] = plugin[f]
    <3>1. c = [f \in Published |-> plugin[f]]
      BY <2>2 DEF SafeInv, FinalInv, Finalized
    <3> HIDE DEF c
    <3> QED BY <3>1
  <2>4. /\ c.starts = 1 /\ c.finishes = 1 /\ c.reports = ran /\ c.parallel = plugin.parallel
        /\ c.retries = plugin.retries /\ c.exit = returncode
        /\ c.initial = plugin.initial /\ c.final = plugin.final
        /\ c.deselected = plugin.deselected /\ c.uncovered = plugin.uncovered
    BY <2>1, <2>2, <2>3 DEF Published
  <2> HIDE DEF c
  <2>5. CollectionAccounts(c) <=> CollectionAccounts(plugin)
    BY <2>4 DEF CollectionAccounts
  <2>6. cut # "modifying" => CollectionAccounts(plugin)
    BY <2>1 DEF CollectionInv, Early
  <2>7. \A i \in 1 .. Len(ran) : ran[i].node \in c.final
    <3>1. CASE cut = "modifying"
      BY <2>1, <3>1 DEF CollectionInv
    <3>2. CASE cut # "modifying"
      BY <2>1, <2>4, <3>2 DEF TraceInv, Over
    <3> QED BY <3>1, <3>2
  <2>8. ~Repeated(ran) /\ PossiblePhases(ran)
    BY <2>1 DEF TraceInv
  <2>9. ReportsAreSound(c) <=> ExpectedFailuresAgree(ran)
    BY <2>4, <2>7, <2>8 DEF ReportsAreSound
  <2>10. Trusted(artifact, inventory)
    BY <2>2 DEF Trusted
  <2>11. Sound(artifact, inventory) <=> CollectionAccounts(plugin) /\ ExpectedFailuresAgree(ran)
    BY <2>4, <2>5, <2>9, <2>10 DEF Sound, c
  <2>12. ~(returncode < 0) /\ artifact # NoDocument
    BY <2>2 DEF ExitCode, NoDocument
  <2>13. Verdict(artifact, inventory, returncode) =
           IF ~Sound(artifact, inventory) THEN "artifact_invalid"
           ELSE IF plugin.parallel THEN "unsupported_parallelism" ELSE "valid"
    BY <2>2, <2>4, <2>8, <2>12 DEF Verdict, c
  <2> QED BY <2>1, <2>2, <2>6, <2>11, <2>13
<1>2. Init => UndisturbedInv
  BY InitIsCalm DEF UndisturbedInv
<1>3. SafeInv /\ UndisturbedInv /\ [Next]_vars => UndisturbedInv'
  BY NextUndisturbed
<1> QED BY <1>1, <1>2, <1>3, SpecSafe, PTL DEF Spec
=============================================================================
