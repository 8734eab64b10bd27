-------------------------- MODULE MCRepositoryRun --------------------------
(***************************************************************************)
(* TLC instance of RepositoryRun: a run that rewrites its targets, one of  *)
(* two Checks that share a dependency, and one that ends with pytest under *)
(* coverage (plan_run always puts pytest last).                            *)
(***************************************************************************)
EXTENDS RepositoryRun

MCPlans ==
  {[checks |-> <<"annotations-fix">>, coverage |-> FALSE],
   [checks |-> <<"ruff", "annotations">>, coverage |-> FALSE],
   [checks |-> <<"bandit", "pytest">>, coverage |-> TRUE]}
=============================================================================
