---------------------------- MODULE IndexListing -----------------------------
(***************************************************************************)
(* repository_safety.py: _tracked_stage_process, git ls-files as           *)
(* _drain_pipe reads it.  Every chunk goes to the accumulator of the       *)
(* output tail (TailCapture) and then to the index parser (IndexParser),   *)
(* which never sees the chunks together and must come to what the listing  *)
(* says as a whole, although of the output itself only the tail is kept.   *)
(***************************************************************************)
EXTENDS TailCapture

CONSTANTS PathSymbol, MaxRecord    \* of the parser

ASSUME IndexListingAssumption ==
  /\ PathSymbol \cap {"nul", "bad", "unmerged"} = {}
  /\ Byte = PathSymbol \cup {"nul", "bad", "unmerged"}
  /\ MaxRecord \in Nat

VARIABLES
  listing,                                      \* what git writes if nothing ends it
  process,                                      \* "running", "exited", "failed" or "unspawned"
  fed, pending, entries, hasUnmerged, invalid,  \* the parser
  result

Parser == INSTANCE IndexParser

parserVars == <<fed, pending, entries, hasUnmerged, invalid>>
listingVars == <<vars, listing, process, parserVars, result>>

ListingInit ==
  /\ listing \in UNION {[1 .. n -> Byte] : n \in 0 .. StreamBound}
  /\ process = "running"
  /\ Init /\ Parser!Init

(* What the accumulator has seen and the parser has not: a chunk of        *)
(* _drain_pipe between accumulator.feed and consumer.                      *)
Unseen == SubSeq(stream, fed + 1, Len(stream))
Handing == process = "running" /\ Unseen # << >>
Draining == process = "running" /\ Unseen = << >>

Drain ==
  /\ Draining
  /\ \E n \in 1 .. MaxChunk :
       /\ Len(stream) + n <= Len(listing)
       /\ Feed(SubSeq(listing, Len(stream) + 1, Len(stream) + n))
  /\ UNCHANGED <<listing, process, parserVars, result>>

Hand ==
  /\ Handing /\ Parser!Feed(Unseen)
  /\ UNCHANGED <<vars, listing, process>>

(* git ends, or is killed after any part of its listing.                   *)
GitEnds ==
  /\ Draining /\ Finish
  /\ process' \in (IF stream = listing THEN {"exited", "failed"} ELSE {"failed"})
  /\ UNCHANGED <<listing, parserVars, result>>

(* Reading the pipe, or the parser itself, raises: no output is returned.  *)
CaptureFails ==
  /\ Draining \/ Handing
  /\ process' = "unspawned"
  /\ UNCHANGED <<vars, listing, parserVars, result>>

(* len(process.stdout.tail) + process.stdout.omitted_bytes                 *)
Accounted == IF captured = NotFinished THEN 0 ELSE Len(captured.tail) + captured.omitted

Parse ==
  /\ process # "running" /\ Parser!Finish(process = "exited", Accounted)
  /\ UNCHANGED <<vars, listing, process>>

ListingNext == Drain \/ Hand \/ GitEnds \/ CaptureFails \/ Parse

ListingSpec == ListingInit /\ [][ListingNext]_listingVars

-----------------------------------------------------------------------------
(* The types of the accumulator and of the parser, which is at most one    *)
(* chunk behind.                                                           *)
ListingTypeOK ==
  /\ TypeOK /\ Parser!TypeOK
  /\ fed <= Len(stream) /\ Len(Unseen) <= MaxChunk
  /\ process \in {"running", "exited", "failed", "unspawned"}

(* A snapshot is published for every complete listing of a git that        *)
(* succeeded, and it is what that listing says read as a whole, however    *)
(* the pipe cut it into chunks and however little of it the accumulator    *)
(* kept; of an ended or failed git there is none at all.                   *)
SnapshotIsTheListing ==
  result # Parser!NoResult =>
    result = IF process = "exited" THEN Parser!Listing(listing) ELSE Parser!SnapshotError
=============================================================================
