--------------------------- MODULE MCReportedRun ----------------------------
(***************************************************************************)
(* TLC instance of ReportedRun: every combination of Checks, targets and   *)
(* options is planned, and six plans are followed to their end: the fix of *)
(* one target, two Checks that share a dependency, pytest narrowed by a    *)
(* shortcut under coverage, pytest alone under coverage with and without a *)
(* threshold, and the strict run of everything with a threshold.           *)
(***************************************************************************)
EXTENDS ReportedRun

Asked(requested, targets, all, shortcut, coverage) ==
  [noFrozen |-> FALSE, python |-> "default", requested |-> requested, targets |-> targets,
   all |-> all, shortcut |-> shortcut, coverage |-> coverage]
Configured(coverage) == [pyproject |-> TRUE, coverage |-> coverage]

MCFollowed ==
  {[request |-> Asked({"annotations-fix"}, {"present"}, FALSE, "none", FALSE), config |-> Configured("none")],
   [request |-> Asked({"ruff", "annotations"}, {}, FALSE, "none", FALSE), config |-> Configured("none")],
   [request |-> Asked({"pytest"}, {}, FALSE, "known", TRUE), config |-> Configured("threshold")],
   [request |-> Asked({"pytest"}, {}, FALSE, "none", TRUE), config |-> Configured("threshold")],
   [request |-> Asked({"pytest"}, {}, FALSE, "none", TRUE), config |-> Configured("no_threshold")],
   [request |-> Asked({}, {}, FALSE, "none", FALSE), config |-> Configured("threshold")]}

\* All requests with options that only refuse at their defaults, and these alone.
MCInvocations ==
  {[request |-> Asked(requested, targets, all, shortcut, coverage), config |-> Configured(threshold)] :
      requested \in SUBSET CheckName,
      targets \in SUBSET {"present", "missing_path", "missing_word"},
      all, coverage \in BOOLEAN, shortcut \in {"none", "known", "unknown"},
      threshold \in {"none", "no_threshold", "threshold"}}
  \cup [request : [noFrozen : BOOLEAN, python : {"default", "supported", "unsupported"},
                   requested : {{}, {"ruff"}}, targets : {{}, {"bad_syntax"}}, all : {FALSE},
                   shortcut : {"none"}, coverage : {FALSE}],
        config : [pyproject : BOOLEAN, coverage : {"none"}]]
=============================================================================
