------------------------- MODULE MCWorkspaceCleanup -------------------------
(***************************************************************************)
(* TLC instance of WorkspaceCleanup: a file and a subdirectory with a file *)
(* in the run directory, a foreign file and a foreign directory outside.   *)
(* MaxEntries is what there is at first: the tree as it is fits, and what  *)
(* others add to it does not.                                              *)
(***************************************************************************)
EXTENDS WorkspaceCleanup

MCContents ==
  [o \in {"file", "sub", "inner"} |->
     CASE o = "file" -> <<"run", "a">>
       [] o = "sub" -> <<"run", "b">>
       [] o = "inner" -> <<"sub", "a">>]
=============================================================================
