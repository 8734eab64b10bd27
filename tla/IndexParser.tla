----------------------------- MODULE IndexParser -----------------------------
(***************************************************************************)
(* repository_safety.py: _TrackedIndexParser, which is fed whatever chunks *)
(* the pipe of git ls-files yields, and its finish, which the controller   *)
(* calls with the ExecutedProcess.                                         *)
(*                                                                         *)
(* The bytes of a record that matter here are symbols.  A record is the    *)
(* symbols between two "nul": "unmerged" in front stands for a stage other *)
(* than 0, "bad" for anything that the record pattern or the path rules    *)
(* reject, and the path symbols for the path of the entry.                 *)
(***************************************************************************)
EXTENDS Integers, Sequences, SequencesExt

CONSTANTS
  PathSymbol,    \* symbols a path is made of
  MaxRecord      \* _MAX_INDEX_RECORD_BYTES

Symbol == PathSymbol \cup {"nul", "bad", "unmerged"}

VARIABLES
  fed,         \* total_bytes: symbols handed to feed so far
  pending,     \* _pending
  entries,     \* _entries: paths, in the order of the stream
  hasUnmerged, \* _has_unmerged
  invalid,     \* _invalid
  result       \* what finish returned or raised

parserVars == <<fed, pending, entries, hasUnmerged, invalid>>

(* _observed_paths holds the paths of _entries.                            *)
ObservedPaths == {entries[i] : i \in 1 .. Len(entries)}

NoResult == [kind |-> "none"]
SnapshotError == [kind |-> "error"]
Parsed(e, u) == [kind |-> "parsed", entries |-> e, unmerged |-> u]

TypeOK ==
  /\ fed \in Nat
  /\ pending \in Seq(Symbol \ {"nul"})
  /\ entries \in Seq(Seq(PathSymbol))
  /\ hasUnmerged \in BOOLEAN
  /\ invalid \in BOOLEAN
  /\ result.kind \in {"none", "error", "parsed"}

Init ==
  /\ fed = 0
  /\ pending = << >>
  /\ entries = << >>
  /\ hasUnmerged = FALSE
  /\ invalid = FALSE
  /\ result = NoResult

-----------------------------------------------------------------------------
(* split(b"\0"): the pieces between the separators, at least one.          *)
Extend(pieces, b) ==
  IF b = "nul" THEN Append(pieces, << >>)
  ELSE [pieces EXCEPT ![Len(pieces)] = Append(@, b)]

Split(s) ==
  LET pieces[n \in 0 .. Len(s)] ==
        IF n = 0 THEN <<(<< >>)>> ELSE Extend(pieces[n - 1], s[n])
  IN  pieces[Len(s)]

(* The pattern and the rules for a relative path inside the project.       *)
Matches(record) ==
  /\ \A i \in 1 .. Len(record) :
       record[i] \in PathSymbol \/ (i = 1 /\ record[i] = "unmerged")
  /\ \E i \in 1 .. Len(record) : record[i] \in PathSymbol

Unmerged(record) == record[1] = "unmerged"

(* _consume_record, on the state that feed threads through its records.    *)
ConsumeRecord(state, record) ==
  IF state.invalid THEN state
  ELSE IF \/ Len(record) > MaxRecord
          \/ ~Matches(record)
          \/ ~Unmerged(record) /\ record \in {state.entries[i] : i \in 1 .. Len(state.entries)}
       THEN [state EXCEPT !.invalid = TRUE]
  ELSE IF Unmerged(record) THEN [state EXCEPT !.unmerged = TRUE]
  ELSE [state EXCEPT !.entries = Append(@, record)]

(* The loop over the records of a chunk.                                   *)
ConsumeRecords(before, records) ==
  LET after[n \in 0 .. Len(records)] ==
        IF n = 0 THEN before ELSE ConsumeRecord(after[n - 1], records[n])
  IN  after[Len(records)]

(* The chunk is cut into records; the last piece may go on in the next     *)
(* chunk.  An error forgets everything but the unmerged flag.              *)
Consume(chunk) ==
  LET pieces == Split(pending \o chunk)
      rest == Last(pieces)
      before == [invalid |-> Len(rest) > MaxRecord, entries |-> entries,
                 unmerged |-> hasUnmerged]
      after == ConsumeRecords(before, Front(pieces))
  IN  /\ invalid' = after.invalid
      /\ hasUnmerged' = after.unmerged
      /\ pending' = IF after.invalid THEN << >> ELSE rest
      /\ entries' = IF after.invalid THEN << >> ELSE after.entries

(* An invalid parser only lets the reader go on draining the child.        *)
Parse(chunk) ==
  IF invalid THEN UNCHANGED <<pending, entries, hasUnmerged, invalid>> ELSE Consume(chunk)

Feed(chunk) ==
  /\ fed' = fed + Len(chunk)
  /\ Parse(chunk)
  /\ UNCHANGED result

(* Mutant: the rest after the last terminator is let go.                   *)
UnterminatedAccepted(exited, accounted) == invalid \/ ~exited \/ fed # accounted

(* accounted is the length of the tail and the omitted bytes together.     *)
Rejected(exited, accounted) ==
  \/ invalid
  \/ pending # << >>
  \/ ~exited
  \/ fed # accounted

Finish(exited, accounted) ==
  /\ result = NoResult
  /\ result' = IF Rejected(exited, accounted) THEN SnapshotError ELSE Parsed(entries, hasUnmerged)
  /\ UNCHANGED parserVars

-----------------------------------------------------------------------------
(* What an index listing says, read as a whole and without any state.      *)
Terminated(s) == s = << >> \/ Last(s) = "nul"
Records(s) == Front(Split(s))
Merged(record) == Matches(record) /\ ~Unmerged(record)
Staged(records) ==
  LET staged[n \in 0 .. Len(records)] ==
        IF n = 0 THEN << >>
        ELSE staged[n - 1] \o (IF Merged(records[n]) THEN <<records[n]>> ELSE << >>)
  IN  staged[Len(records)]

(* Every record is terminated and matches, and no path is staged twice.    *)
WellFormed(s) ==
  LET records == Records(s)
  IN  /\ Terminated(s)
      /\ \A i \in 1 .. Len(records) :
           /\ Matches(records[i]) /\ Len(records[i]) <= MaxRecord
           /\ \A j \in 1 .. i - 1 : Merged(records[i]) => records[j] # records[i]

Listing(s) ==
  IF WellFormed(s)
  THEN Parsed(Staged(Records(s)), \E i \in 1 .. Len(Records(s)) : Unmerged(Records(s)[i]))
  ELSE SnapshotError
=============================================================================
