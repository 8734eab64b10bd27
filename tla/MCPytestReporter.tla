-------------------------- MODULE MCPytestReporter --------------------------
(***************************************************************************)
(* TLC instance of PytestReporter: a test that may fail in its setup or,   *)
(* expectedly, later, and one that passes; arguments that grow, shrink or  *)
(* disagree; two keyword expressions that disagree.                        *)
(***************************************************************************)
EXTENDS PytestReporter, TLC

CONSTANTS Ignore, Path, K, L   \* two arguments and two keyword expressions

MCScope ==
  {[args |-> a, keyword |-> ""] : a \in {<< >>, <<Ignore>>, <<Path>>}}
  \cup {[args |-> << >>, keyword |-> k] : k \in {K, L}}
MCMade ==
  [n \in Node |->
     IF n = "passes" THEN [when \in Phase |-> {"passed"}]
     ELSE [when \in Phase |->
             CASE when = "setup" -> {"passed", "failed"}
               [] when = "call" -> {"xfailed"}
               [] when = "teardown" -> {"passed", "xfailed"}]]

(* Neither the plugin nor the reader tells the two of a pair apart.        *)
Symmetry == Permutations({Ignore, Path}) \cup Permutations({K, L})
=============================================================================
