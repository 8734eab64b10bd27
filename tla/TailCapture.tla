---------------------------- MODULE TailCapture ----------------------------
(***************************************************************************)
(* execution.py: what of a captured stream is kept.  A _TailAccumulator is *)
(* fed the chunks a reader drains and keeps the last CAPTURE_LIMIT_BYTES;  *)
(* an injected runner's buffered output is cut once, by                    *)
(* _normalize_buffered_output.  Both must give the same CapturedBytes.     *)
(***************************************************************************)
EXTENDS Integers, Sequences

CONSTANTS
  Byte,         \* byte values
  Limit,        \* CAPTURE_LIMIT_BYTES
  MaxChunk,     \* the most one readinto returns, _PIPE_READ_BYTES
  StreamBound   \* bound: length of the whole stream

ASSUME TailCaptureAssumption ==
  /\ Limit \in Nat \ {0}
  /\ MaxChunk \in Nat \ {0}
  /\ StreamBound \in Nat

VARIABLES
  tail,      \* _tail
  total,     \* _total_bytes
  stream,    \* history: every byte fed so far
  captured   \* the CapturedBytes finish() returned, or NotFinished

vars == <<tail, total, stream, captured>>

NotFinished == [tail |-> << >>, omitted |-> -1]

(* The Python slice s[-n:], for n > 0.                                     *)
KeepLast(s, n) == SubSeq(s, IF Len(s) > n THEN Len(s) - n + 1 ELSE 1, Len(s))

(* _normalize_buffered_output: the same cut, made once on the whole.       *)
NormalizeBufferedOutput(raw) ==
  LET retained == KeepLast(raw, Limit)
  IN [tail |-> retained, omitted |-> Len(raw) - Len(retained)]

(* Mutant: a short chunk does not push older bytes out.                    *)
FedWithoutDrop(kept, chunk) ==
  IF Len(chunk) >= Limit THEN KeepLast(chunk, Limit) ELSE kept \o chunk

(* _tail after feed(chunk): a chunk of at least the limit replaces it; a   *)
(* shorter one first drops from the front what would overflow.             *)
Fed(kept, chunk) ==
  LET overflow == Len(kept) + Len(chunk) - Limit
  IN IF Len(chunk) >= Limit
     THEN KeepLast(chunk, Limit)
     ELSE SubSeq(kept, IF overflow > 0 THEN overflow + 1 ELSE 1, Len(kept)) \o chunk

Init ==
  /\ tail = << >>
  /\ total = 0
  /\ stream = << >>
  /\ captured = NotFinished

Feed(chunk) ==
  /\ captured = NotFinished
  /\ total' = total + Len(chunk)
  /\ tail' = Fed(tail, chunk)
  /\ stream' = stream \o chunk
  /\ UNCHANGED captured

(* Mutants: the count of omitted bytes is negated, or is the whole count.  *)
FinishSwapped ==
  /\ captured = NotFinished
  /\ captured' = [tail |-> tail, omitted |-> Len(tail) - total]
  /\ UNCHANGED <<tail, total, stream>>

FinishWithTotal ==
  /\ captured = NotFinished
  /\ captured' = [tail |-> tail, omitted |-> total]
  /\ UNCHANGED <<tail, total, stream>>

Finish ==
  /\ captured = NotFinished
  /\ captured' = [tail |-> tail, omitted |-> total - Len(tail)]
  /\ UNCHANGED <<tail, total, stream>>

Chunk == UNION {[1 .. n -> Byte] : n \in 1 .. MaxChunk}

Next ==
  \/ \E chunk \in Chunk : Len(stream) + Len(chunk) <= StreamBound /\ Feed(chunk)
  \/ Finish

Spec == Init /\ [][Next]_vars

-----------------------------------------------------------------------------
TypeOK ==
  /\ tail \in Seq(Byte)
  /\ total \in Nat
  /\ stream \in Seq(Byte)
  /\ captured \in [tail : Seq(Byte), omitted : Nat \cup {-1}]

(* Memory stays bounded and no byte is lost or reordered: whatever the     *)
(* chunks were, the accumulator holds the last Limit bytes of the stream.  *)
TailIsSuffix ==
  /\ Len(tail) <= Limit
  /\ tail = KeepLast(stream, Limit)

(* The diagnostics a streamed child gets equal those a buffered run of the *)
(* same output gets, the omitted byte count included.                      *)
StreamedEqualsBuffered ==
  captured # NotFinished => captured = NormalizeBufferedOutput(stream)
=============================================================================
