--------------------------- MODULE BoundedProcess ---------------------------
(***************************************************************************)
(* execution.py: one child process run by execute_process through          *)
(* _run_bounded_process.  The calling thread ("main") spawns the child,    *)
(* starts one daemon reader thread per captured pipe, collects one result  *)
(* per reader from a SimpleQueue, joins the readers and reaps the child.   *)
(* Any failure runs _cleanup_failed_process under one shared deadline.     *)
(*                                                                         *)
(* The child, a descendant that inherits its write ends, the kernel pipes  *)
(* and the two readers run concurrently with main.  A unit of output       *)
(* stands for a byte; its value never matters here (TailCapture is about   *)
(* which bytes are retained).                                              *)
(***************************************************************************)
EXTENDS Naturals, Sequences, FiniteSets

CONSTANTS
  Modes,          \* what the caller may ask for, see mode
  PipeCapacity,   \* units a kernel pipe holds before a writer blocks
  ChunkSize,      \* _PIPE_READ_BYTES, the size of a reader's buffer
  OutputBound,    \* bound: units written to the two streams in one run
  FaultBound,     \* bound: faults in one run, outside of the failure cleanup
  LapseBound,     \* bound: calls of the failure cleanup that raise
  Interruptible   \* may KeyboardInterrupt be delivered to the calling thread?

ASSUME BoundedProcessAssumption ==
  /\ Modes \subseteq {"inherit", "capture", "consume"}
  /\ PipeCapacity \in Nat \ {0}
  /\ ChunkSize \in Nat \ {0}
  /\ OutputBound \in Nat
  /\ FaultBound \in Nat /\ LapseBound \in Nat
  /\ Interruptible \in BOOLEAN

Stream == {"stdout", "stderr"}

VARIABLES
  mode,        \* "inherit", "capture" or "consume" (capture with a stdout consumer)
  pc,          \* the calling thread's position
  started,     \* started_threads: streams whose reader was appended to the list
  gets,        \* results taken from the queue
  outcome,     \* "none" until the call ends
  expired,     \* has the cleanup deadline passed?
  lapses,      \* history: what an exception kept from being done to the end
  faults,      \* faults injected so far
  child,       \* "unborn", "running", "zombie" (exited) or "reaped"
  writing,     \* the stream on which the child is blocked in write, or "none"
  signals,     \* signals sent to the child by the cleanup
  descendant,  \* is a descendant holding the inherited write ends alive?
  written,     \* units ever written to each pipe
  pipe,        \* units in each kernel pipe
  closers,     \* threads that closed the read end of each pipe
  reader,      \* position of each reader thread
  held,        \* units in each reader's read_buffer
  fed,         \* units each _TailAccumulator was fed
  consumed,    \* units of stdout handed to the consumer
  readerErr,   \* the error each reader caught, or "none"
  queue        \* results: the SimpleQueue of _ReaderResult

mainVars == <<mode, pc, started, gets, outcome, expired, lapses>>
childVars == <<child, writing, signals, descendant>>
readerVars == <<reader, held, fed, consumed, readerErr>>
vars == <<mainVars, faults, childVars, written, pipe, closers, readerVars, queue>>

Working == {"construct", "start", "append", "get", "join", "wait"}
Cleanup == {"terminate", "wait1", "kill", "wait2", "close", "joinReaders"}
\* What an exception may cut short: a call of the cleanup (the close or the
\* join of a stream goes by the name of the stream), the cleanup as a whole,
\* and the registration of a reader that was started.
Lapse == {"terminate", "wait1", "kill", "wait2", "cleanup", "append"} \cup Stream
ReaderError == {"none", "os", "programming"}
ReaderResult == [stream : Stream, error : ReaderError]

TypeOK ==
  /\ mode \in {"inherit", "capture", "consume"}
  /\ pc \in {"spawn", "returned"} \cup Working \cup Cleanup
  /\ started \in SUBSET Stream
  /\ gets \in Nat
  /\ outcome \in {"none", "completed", "failure", "raised"}
  /\ expired \in BOOLEAN
  /\ lapses \in SUBSET Lapse
  /\ faults \in Nat
  /\ child \in {"unborn", "running", "zombie", "reaped"}
  /\ writing \in Stream \cup {"none"}
  /\ signals \in SUBSET {"TERM", "KILL"}
  /\ descendant \in BOOLEAN
  /\ written \in [Stream -> Nat]
  /\ pipe \in [Stream -> Nat]
  /\ closers \in [Stream -> SUBSET {"reader", "main"}]
  /\ reader \in [Stream -> {"none", "draining", "feeding", "closing", "putting", "done"}]
  /\ held \in [Stream -> Nat]
  /\ fed \in [Stream -> Nat]
  /\ consumed \in Nat
  /\ readerErr \in [Stream -> ReaderError]
  /\ queue \in Seq(ReaderResult)

Init ==
  /\ mode \in Modes
  /\ pc = "spawn"
  /\ started = {}
  /\ gets = 0
  /\ outcome = "none"
  /\ expired = FALSE
  /\ lapses = {}
  /\ faults = 0
  /\ child = "unborn"
  /\ writing = "none"
  /\ signals = {}
  /\ descendant = FALSE
  /\ written = [s \in Stream |-> 0]
  /\ pipe = [s \in Stream |-> 0]
  /\ closers = [s \in Stream |-> {}]
  /\ reader = [s \in Stream |-> "none"]
  /\ held = [s \in Stream |-> 0]
  /\ fed = [s \in Stream |-> 0]
  /\ consumed = 0
  /\ readerErr = [s \in Stream |-> "none"]
  /\ queue = << >>

Fault ==
  /\ faults < FaultBound
  /\ faults' = faults + 1

(* Any exception of a call of the cleanup is passed over.                  *)
MayLapse(call) ==
  /\ Cardinality(lapses) < LapseBound
  /\ lapses' = lapses \cup {call}

Captured == mode # "inherit"

-----------------------------------------------------------------------------
(* The calling thread.                                                     *)

(* The loop over streams handles stdout, then stderr.                      *)
NextStream == IF "stdout" \in started THEN "stderr" ELSE "stdout"

(* An exception leaves the try block: the cleanup starts, and the outcome  *)
(* of the call is already decided by the kind of exception.                *)
FailWith(o) ==
  /\ outcome' = o
  /\ pc' = "terminate"

Spawn ==
  /\ pc = "spawn"
  /\ child' = "running"
  /\ pc' = IF mode = "inherit" THEN "wait" ELSE "construct"
  /\ UNCHANGED <<mode, started, gets, outcome, expired, lapses, faults, writing,
                 signals, descendant, written, pipe, closers, readerVars, queue>>

(* Popen raises OSError: there is no child, and nothing to clean up.       *)
SpawnFault ==
  /\ pc = "spawn"
  /\ Fault
  /\ outcome' = "failure"
  /\ pc' = "returned"
  /\ UNCHANGED <<mode, started, gets, expired, lapses, childVars, written, pipe, closers,
                 readerVars, queue>>

ConstructReader ==
  /\ pc = "construct"
  /\ pc' = "start"
  /\ UNCHANGED <<mode, started, gets, outcome, expired, lapses, faults, childVars, written,
                 pipe, closers, readerVars, queue>>

(* threading.Thread(...) or reader.start() raises: the reader never runs.  *)
ReaderFault ==
  /\ pc \in {"construct", "start"}
  /\ Fault
  /\ FailWith("failure")
  /\ UNCHANGED <<mode, started, gets, expired, lapses, childVars, written, pipe, closers,
                 readerVars, queue>>

(* The thread runs from here on, but start() has yet to return and         *)
(* started_threads does not hold it yet.                                   *)
StartReader ==
  /\ pc = "start"
  /\ reader' = [reader EXCEPT ![NextStream] = "draining"]
  /\ pc' = "append"
  /\ UNCHANGED <<mode, started, gets, outcome, expired, lapses, faults, childVars, written,
                 pipe, closers, held, fed, consumed, readerErr, queue>>

(* Mutant: only stdout gets a reader.                                      *)
AppendOneReader ==
  /\ pc = "append"
  /\ started' = started \cup {NextStream}
  /\ pc' = "get"
  /\ UNCHANGED <<mode, gets, outcome, expired, lapses, faults, childVars, written, pipe,
                 closers, readerVars, queue>>

AppendReader ==
  /\ pc = "append"
  /\ started' = started \cup {NextStream}
  /\ pc' = IF NextStream = "stdout" THEN "construct" ELSE "get"
  /\ UNCHANGED <<mode, gets, outcome, expired, lapses, faults, childVars, written, pipe,
                 closers, readerVars, queue>>

(* Mutant: the first good result is taken for both.                        *)
GetFirstResult ==
  /\ pc = "get"
  /\ queue # << >>
  /\ queue' = Tail(queue)
  /\ gets' = gets + 1
  /\ \/ Head(queue).error = "none" /\ pc' = "join" /\ UNCHANGED outcome
     \/ Head(queue).error = "os" /\ FailWith("failure")
     \/ Head(queue).error = "programming" /\ FailWith("raised")
  /\ UNCHANGED <<mode, started, expired, lapses, faults, childVars, written, pipe, closers,
                 readerVars>>

(* results.get(): a reader that failed ends the call.                      *)
GetResult ==
  /\ pc = "get"
  /\ queue # << >>
  /\ queue' = Tail(queue)
  /\ gets' = gets + 1
  /\ \/ /\ Head(queue).error = "none"
        /\ pc' = IF gets = 1 THEN "join" ELSE "get"
        /\ UNCHANGED outcome
     \/ Head(queue).error = "os" /\ FailWith("failure")
     \/ Head(queue).error = "programming" /\ FailWith("raised")
  /\ UNCHANGED <<mode, started, expired, lapses, faults, childVars, written, pipe, closers,
                 readerVars>>

JoinReaders ==
  /\ pc = "join"
  /\ \A s \in started : reader[s] = "done"
  /\ pc' = "wait"
  /\ UNCHANGED <<mode, started, gets, outcome, expired, lapses, faults, childVars, written,
                 pipe, closers, readerVars, queue>>

(* process.wait() reaps the child; both accumulators are finished.         *)
WaitChild ==
  /\ pc = "wait"
  /\ child = "zombie"
  /\ child' = "reaped"
  /\ outcome' = "completed"
  /\ pc' = "returned"
  /\ UNCHANGED <<mode, started, gets, expired, lapses, faults, writing, signals,
                 descendant, written, pipe, closers, readerVars, queue>>

WaitFault ==
  /\ pc = "wait"
  /\ Fault
  /\ FailWith("failure")
  /\ UNCHANGED <<mode, started, gets, expired, lapses, childVars, written, pipe, closers,
                 readerVars, queue>>

(* Mutant: an interrupt is swallowed, and the child waited for.            *)
InterruptSwallowed ==
  /\ Interruptible
  /\ pc \in Working
  /\ Fault
  /\ pc' = "wait"
  /\ UNCHANGED <<mode, started, gets, outcome, expired, lapses, childVars, written, pipe,
                 closers, readerVars, queue>>

(* A KeyboardInterrupt that comes inside process.wait may find the child   *)
(* reaped already.                                                         *)
MayReap ==
  /\ child' \in {child} \cup (IF child = "zombie" THEN {"reaped"} ELSE {})
  /\ UNCHANGED <<writing, signals, descendant>>

(* KeyboardInterrupt reaches the calling thread inside the try block, and  *)
(* is re-raised after the cleanup.                                         *)
Interrupt ==
  /\ Interruptible
  /\ pc \in Working
  /\ Fault
  /\ FailWith("raised")
  /\ lapses' = IF pc = "append" THEN lapses \cup {"append"} ELSE lapses
  /\ IF pc = "wait" THEN MayReap ELSE UNCHANGED childVars
  /\ UNCHANGED <<mode, started, gets, expired, written, pipe, closers, readerVars, queue>>

(* Where no try block is open: from Popen to the first statement of the    *)
(* try block, and between the calls of the cleanup.                        *)
Unguarded ==
  \/ pc = "spawn" \/ (pc = "construct" /\ started = {}) \/ (pc = "wait" /\ ~Captured)
  \/ pc \in Cleanup

(* There an interrupt ends the call at once: nothing more is cleaned up.   *)
InterruptUnguarded ==
  /\ Interruptible
  /\ Unguarded
  /\ MayLapse("cleanup")
  /\ outcome' = "raised"
  /\ pc' = "returned"
  /\ UNCHANGED <<mode, started, gets, expired, faults, childVars, written, pipe, closers,
                 readerVars, queue>>

(* The same when the child was waited for and the call is about to return. *)
InterruptReturn ==
  /\ Interruptible
  /\ pc = "wait"
  /\ child = "zombie"
  /\ Fault
  /\ child' = "reaped"
  /\ outcome' = "raised"
  /\ pc' = "returned"
  /\ UNCHANGED <<mode, started, gets, expired, lapses, writing, signals, descendant, written,
                 pipe, closers, readerVars, queue>>

-----------------------------------------------------------------------------
(* _cleanup_failed_process, still on the calling thread.                   *)

(* Popen.terminate and Popen.kill poll first: a child that already exited  *)
(* is reaped instead of being signalled.                                   *)
Signal(sig) ==
  /\ child' = IF child = "zombie" THEN "reaped" ELSE child
  /\ signals' = IF child = "running" THEN signals \cup {sig} ELSE signals
  /\ UNCHANGED <<writing, descendant>>

(* A call of the cleanup that leaves all but the child as it is.           *)
CallOnChild ==
  UNCHANGED <<mode, started, gets, outcome, expired, faults, written, pipe, closers,
              readerVars, queue>>

Terminate ==
  /\ pc = "terminate" /\ pc' = "wait1"
  /\ Signal("TERM") /\ UNCHANGED lapses /\ CallOnChild

(* Mutant: the second signal is the first one again.                       *)
TerminateAgain ==
  /\ pc = "kill" /\ pc' = "wait2"
  /\ Signal("TERM") /\ UNCHANGED lapses /\ CallOnChild

Kill ==
  /\ pc = "kill" /\ pc' = "wait2"
  /\ Signal("KILL") /\ UNCHANGED lapses /\ CallOnChild

(* terminate or kill raises before it had its effect, or after it.         *)
SignalRaises(position, next, sig) ==
  /\ pc = position /\ pc' = next
  /\ MayLapse(position)
  /\ UNCHANGED childVars \/ Signal(sig)
  /\ CallOnChild

(* Mutant: a terminate that raises ends the signalling.                    *)
TerminateRaisesForGood == SignalRaises("terminate", "close", "TERM")

TerminateRaises == SignalRaises("terminate", "wait1", "TERM")
KillRaises == SignalRaises("kill", "wait2", "KILL")

(* process.wait(timeout=remaining) finds that the child has exited.        *)
WaitReaps ==
  /\ pc \in {"wait1", "wait2"}
  /\ ~expired
  /\ child \in {"zombie", "reaped"}
  /\ child' = "reaped"
  /\ pc' = "close"
  /\ UNCHANGED <<mode, started, gets, outcome, expired, lapses, faults, writing,
                 signals, descendant, written, pipe, closers, readerVars, queue>>

(* Mutant: a wait that times out ends the signalling.                      *)
WaitGivesUp ==
  /\ pc \in {"wait1", "wait2"}
  /\ expired
  /\ pc' = "close"
  /\ UNCHANGED <<mode, started, gets, outcome, expired, lapses, faults, childVars, written,
                 pipe, closers, readerVars, queue>>

(* The wait times out, or is skipped because nothing remains of the        *)
(* deadline: the first wait leads to kill, the second is the last.         *)
WaitExpires ==
  /\ pc \in {"wait1", "wait2"}
  /\ expired
  /\ pc' = IF pc = "wait1" THEN "kill" ELSE "close"
  /\ UNCHANGED <<mode, started, gets, outcome, expired, lapses, faults, childVars, written,
                 pipe, closers, readerVars, queue>>

(* Mutant: a wait that raises ends the signalling.                         *)
WaitAbandoned ==
  /\ pc \in {"wait1", "wait2"}
  /\ MayLapse(pc)
  /\ pc' = "close"
  /\ MayReap /\ CallOnChild

(* The wait raises anything but TimeoutExpired, and may have reaped.       *)
WaitRaises ==
  /\ pc \in {"wait1", "wait2"}
  /\ MayLapse(pc)
  /\ pc' = IF pc = "wait1" THEN "kill" ELSE "close"
  /\ MayReap /\ CallOnChild

(* Mutants: main closes every pipe, or leaves them all to the readers.     *)
AllStreams == IF mode = "inherit" THEN {} ELSE Stream
NoStream == {}

(* streams[len(started_threads):], the pipes main closes itself.           *)
Unstarted == IF mode = "inherit" THEN {} ELSE Stream \ started

(* The loop over these pipes comes to s.                                   *)
Closed(s) == "main" \in closers[s] \/ s \in lapses
ToClose(s) ==
  /\ pc = "close"
  /\ s \in Unstarted /\ ~Closed(s)
  /\ s = "stderr" => "stdout" \in started \/ Closed("stdout")

(* BufferedReader.close takes the lock a reader holds inside readinto.     *)
ClosePipe(s) ==
  /\ ToClose(s)
  /\ reader[s] # "draining"
  /\ closers' = [closers EXCEPT ![s] = @ \cup {"main"}]
  /\ UNCHANGED <<mainVars, faults, childVars, written, pipe, readerVars, queue>>

(* close raises, while it waits for that lock too.                         *)
CloseRaises(s) ==
  /\ ToClose(s)
  /\ MayLapse(s)
  /\ \/ UNCHANGED closers
     \/ reader[s] # "draining" /\ closers' = [closers EXCEPT ![s] = @ \cup {"main"}]
  /\ UNCHANGED <<mode, pc, started, gets, outcome, expired, faults, childVars, written, pipe,
                 readerVars, queue>>

PipesClosed ==
  /\ pc = "close"
  /\ \A s \in Unstarted : Closed(s)
  /\ pc' = "joinReaders"
  /\ UNCHANGED <<mode, started, gets, outcome, expired, lapses, faults, childVars, written,
                 pipe, closers, readerVars, queue>>

Joined(s) == reader[s] = "done" \/ s \in lapses

(* The join of a reader raises: the next one is joined.                    *)
JoinRaises(s) ==
  /\ pc = "joinReaders"
  /\ s \in started /\ s \notin lapses
  /\ s = "stderr" => Joined("stdout")
  /\ MayLapse(s)
  /\ UNCHANGED <<mode, pc, started, gets, outcome, expired, faults, childVars, written, pipe,
                 closers, readerVars, queue>>

(* Mutants: the readers are not joined, or joined without a deadline.      *)
ReturnAtOnce ==
  /\ pc = "joinReaders"
  /\ pc' = "returned"
  /\ UNCHANGED <<mode, started, gets, outcome, expired, lapses, faults, childVars, written,
                 pipe, closers, readerVars, queue>>

ReturnWhenJoined ==
  /\ pc = "joinReaders"
  /\ \A s \in started : Joined(s)
  /\ pc' = "returned"
  /\ UNCHANGED <<mode, started, gets, outcome, expired, lapses, faults, childVars, written,
                 pipe, closers, readerVars, queue>>

(* Each started reader is joined within what remains of the deadline, then *)
(* the exception is re-raised and execute_process turns it into an         *)
(* ExecutedProcess or lets it through, as FailWith decided.                *)
ReturnFailure ==
  /\ pc = "joinReaders"
  /\ expired \/ \A s \in started : Joined(s)
  /\ pc' = "returned"
  /\ UNCHANGED <<mode, started, gets, outcome, expired, lapses, faults, childVars, written,
                 pipe, closers, readerVars, queue>>

(* time.monotonic() passes the deadline computed when the cleanup began.   *)
Expire ==
  /\ pc \in Cleanup
  /\ ~expired
  /\ expired' = TRUE
  /\ UNCHANGED <<mode, pc, started, gets, outcome, lapses, faults, childVars, written, pipe,
                 closers, readerVars, queue>>

-----------------------------------------------------------------------------
(* A reader thread: _run_pipe_reader and _drain_pipe.                      *)

WriteEndOpen == child = "running" \/ descendant
AtEof(s) == ~WriteEndOpen /\ pipe[s] = 0

(* Mutant: the reader does not wait for the pipe to hold anything.         *)
ReaderTakeNothing(s) ==
  /\ reader[s] = "draining"
  /\ closers[s] = {}
  /\ held[s] < ChunkSize
  /\ pipe' = [pipe EXCEPT ![s] = @ - 1]
  /\ held' = [held EXCEPT ![s] = @ + 1]
  /\ UNCHANGED <<mainVars, faults, childVars, written, closers, reader, fed, consumed,
                 readerErr, queue>>

(* readinto moves what is in the kernel pipe into read_buffer.             *)
ReaderTake(s) ==
  /\ reader[s] = "draining"
  /\ closers[s] = {}
  /\ pipe[s] > 0
  /\ held[s] < ChunkSize
  /\ pipe' = [pipe EXCEPT ![s] = @ - 1]
  /\ held' = [held EXCEPT ![s] = @ + 1]
  /\ UNCHANGED <<mainVars, faults, childVars, written, closers, reader, fed, consumed,
                 readerErr, queue>>

(* readinto returns a full buffer, or a partial one at end of file.        *)
ReaderChunk(s) ==
  /\ reader[s] = "draining"
  /\ held[s] > 0
  /\ held[s] = ChunkSize \/ AtEof(s)
  /\ reader' = [reader EXCEPT ![s] = "feeding"]
  /\ UNCHANGED <<mainVars, faults, childVars, written, pipe, closers, held, fed,
                 consumed, readerErr, queue>>

(* accumulator.feed, then the consumer if this stream has one.             *)
ReaderFeed(s) ==
  /\ reader[s] = "feeding"
  /\ fed' = [fed EXCEPT ![s] = @ + held[s]]
  /\ held' = [held EXCEPT ![s] = 0]
  /\ consumed' = IF s = "stdout" /\ mode = "consume" THEN consumed + held[s] ELSE consumed
  /\ reader' = [reader EXCEPT ![s] = "draining"]
  /\ UNCHANGED <<mainVars, faults, childVars, written, pipe, closers, readerErr, queue>>

(* The accumulator was fed, but the consumer raises.                       *)
ConsumerFault(s) ==
  /\ reader[s] = "feeding"
  /\ s = "stdout" /\ mode = "consume"
  /\ Fault
  /\ fed' = [fed EXCEPT ![s] = @ + held[s]]
  /\ held' = [held EXCEPT ![s] = 0]
  /\ \E e \in {"os", "programming"} : readerErr' = [readerErr EXCEPT ![s] = e]
  /\ reader' = [reader EXCEPT ![s] = "closing"]
  /\ UNCHANGED <<mainVars, childVars, written, pipe, closers, consumed, queue>>

(* readinto raises OSError, or any other exception.                        *)
DrainFault(s) ==
  /\ reader[s] = "draining"
  /\ Fault
  /\ \E e \in {"os", "programming"} : readerErr' = [readerErr EXCEPT ![s] = e]
  /\ reader' = [reader EXCEPT ![s] = "closing"]
  /\ UNCHANGED <<mainVars, childVars, written, pipe, closers, held, fed, consumed, queue>>

(* readinto raises ValueError on a pipe that the main thread closed.       *)
DrainClosed(s) ==
  /\ reader[s] = "draining"
  /\ closers[s] # {}
  /\ readerErr' = [readerErr EXCEPT ![s] = "programming"]
  /\ reader' = [reader EXCEPT ![s] = "closing"]
  /\ UNCHANGED <<mainVars, faults, childVars, written, pipe, closers, held, fed,
                 consumed, queue>>

(* Mutant: a buffer that is not full at end of file is dropped.            *)
ReaderEofDropsRest(s) ==
  /\ reader[s] = "draining"
  /\ closers[s] = {}
  /\ AtEof(s)
  /\ reader' = [reader EXCEPT ![s] = "closing"]
  /\ UNCHANGED <<mainVars, faults, childVars, written, pipe, closers, held, fed,
                 consumed, readerErr, queue>>

ReaderEof(s) ==
  /\ reader[s] = "draining"
  /\ closers[s] = {}
  /\ held[s] = 0
  /\ AtEof(s)
  /\ reader' = [reader EXCEPT ![s] = "closing"]
  /\ UNCHANGED <<mainVars, faults, childVars, written, pipe, closers, held, fed,
                 consumed, readerErr, queue>>

(* finally: pipe.close(); an error is kept only if there was none before.  *)
ReaderClose(s) ==
  /\ reader[s] = "closing"
  /\ closers' = [closers EXCEPT ![s] = @ \cup {"reader"}]
  /\ \/ UNCHANGED <<faults, readerErr>>
     \/ /\ readerErr[s] = "none"
        /\ Fault
        /\ readerErr' = [readerErr EXCEPT ![s] = "os"]
  /\ reader' = [reader EXCEPT ![s] = "putting"]
  /\ UNCHANGED <<mainVars, childVars, written, pipe, held, fed, consumed, queue>>

(* Mutant: a reader that failed puts no result.                            *)
ReaderPutSuccess(s) ==
  /\ reader[s] = "putting"
  /\ readerErr[s] = "none"
  /\ queue' = Append(queue, [stream |-> s, error |-> "none"])
  /\ reader' = [reader EXCEPT ![s] = "done"]
  /\ UNCHANGED <<mainVars, faults, childVars, written, pipe, closers, held, fed,
                 consumed, readerErr>>

(* The result is put whatever happened before.                             *)
ReaderPut(s) ==
  /\ reader[s] = "putting"
  /\ queue' = Append(queue, [stream |-> s, error |-> readerErr[s]])
  /\ reader' = [reader EXCEPT ![s] = "done"]
  /\ UNCHANGED <<mainVars, faults, childVars, written, pipe, closers, held, fed,
                 consumed, readerErr>>

Reader(s) ==
  \/ ReaderTake(s)
  \/ ReaderChunk(s)
  \/ ReaderFeed(s)
  \/ DrainClosed(s)
  \/ ReaderEof(s)
  \/ ReaderClose(s)
  \/ ReaderPut(s)

ReaderFaults(s) == ConsumerFault(s) \/ DrainFault(s)

-----------------------------------------------------------------------------
(* The child and its descendant, code outside the repository.              *)

(* Units written or about to be, kept within OutputBound.                  *)
Promised == written["stdout"] + written["stderr"] + (IF writing = "none" THEN 0 ELSE 1)

(* The child calls write: until the pipe has room it does nothing else.    *)
ChildBeginWrite(s) ==
  /\ child = "running" /\ writing = "none"
  /\ Captured
  /\ Promised < OutputBound
  /\ writing' = s
  /\ UNCHANGED <<mainVars, faults, child, signals, descendant, written, pipe,
                 closers, readerVars, queue>>

Deposit(s) ==
  /\ closers[s] = {}
  /\ pipe[s] < PipeCapacity
  /\ pipe' = [pipe EXCEPT ![s] = @ + 1]
  /\ written' = [written EXCEPT ![s] = @ + 1]

ChildWrite(s) ==
  /\ child = "running" /\ writing = s
  /\ Deposit(s)
  /\ writing' = "none"
  /\ UNCHANGED <<mainVars, faults, child, signals, descendant, closers,
                 readerVars, queue>>

(* The descendant inherits both write ends.                                *)
ChildForks ==
  /\ child = "running" /\ writing = "none"
  /\ ~descendant
  /\ descendant' = TRUE
  /\ UNCHANGED <<mainVars, faults, child, writing, signals, written, pipe,
                 closers, readerVars, queue>>

DescendantWrite(s) ==
  /\ descendant
  /\ Captured
  /\ Promised < OutputBound
  /\ Deposit(s)
  /\ UNCHANGED <<mainVars, faults, childVars, closers, readerVars, queue>>

DescendantExit ==
  /\ descendant
  /\ descendant' = FALSE
  /\ UNCHANGED <<mainVars, faults, child, writing, signals, written, pipe,
                 closers, readerVars, queue>>

Dies ==
  /\ child' = "zombie"
  /\ writing' = "none"
  /\ UNCHANGED <<mainVars, faults, signals, descendant, written, pipe,
                 closers, readerVars, queue>>

(* The child exits between two writes, or is ended by SIGPIPE in one.      *)
ChildExit ==
  /\ child = "running"
  /\ \A s \in Stream : writing = s => closers[s] # {}
  /\ Dies

(* A child may ignore SIGTERM, but not SIGKILL.                            *)
ChildTerminated == child = "running" /\ "TERM" \in signals /\ Dies
ChildKilled == child = "running" /\ "KILL" \in signals /\ Dies

-----------------------------------------------------------------------------
Main ==
  \/ Spawn
  \/ ConstructReader
  \/ StartReader
  \/ AppendReader
  \/ GetResult
  \/ JoinReaders
  \/ WaitChild
  \/ Terminate
  \/ Kill
  \/ WaitReaps
  \/ WaitExpires
  \/ \E s \in Stream : ClosePipe(s)
  \/ PipesClosed
  \/ ReturnFailure

MainFaults ==
  \/ SpawnFault
  \/ ReaderFault
  \/ WaitFault
  \/ Interrupt
  \/ InterruptUnguarded
  \/ InterruptReturn
  \/ TerminateRaises
  \/ KillRaises
  \/ WaitRaises
  \/ \E s \in Stream : CloseRaises(s) \/ JoinRaises(s)

Family ==
  \/ \E s \in Stream : ChildBeginWrite(s) \/ ChildWrite(s) \/ DescendantWrite(s)
  \/ ChildForks
  \/ DescendantExit
  \/ ChildExit
  \/ ChildTerminated
  \/ ChildKilled

Next ==
  \/ Main
  \/ MainFaults
  \/ Expire
  \/ \E s \in Stream : Reader(s) \/ ReaderFaults(s)
  \/ Family

Spec == Init /\ [][Next]_vars

(* The scheduler runs every thread of the program that can take a step,    *)
(* and time passes.  Nothing is assumed here about the child's family.     *)
ProgramFairness ==
  /\ WF_vars(Main)
  /\ WF_vars(Expire)
  /\ \A s \in Stream : WF_vars(Reader(s))

(* A child that was sent SIGKILL ends.                                     *)
KernelFairness == WF_vars(ChildKilled)

(* The child and its descendant finish their writes and exit: nothing the  *)
(* program can count on, so the properties that need it assume it.         *)
FamilyFairness ==
  /\ \A s \in Stream : WF_vars(ChildWrite(s))
  /\ WF_vars(ChildExit)
  /\ WF_vars(DescendantExit)

FairSpec == Spec /\ ProgramFairness /\ KernelFairness

-----------------------------------------------------------------------------
(* Safety.                                                                 *)

Failed == pc = "returned" /\ outcome \in {"failure", "raised"}

(* execute_process returns a return code only with the complete output:    *)
(* every unit anyone wrote went through the accumulators (and, on stdout,  *)
(* the consumer), no reader met an error, and nobody can write any more.   *)
AcceptedOutputIsComplete ==
  outcome = "completed" =>
    /\ child = "reaped"
    /\ Captured =>
         /\ ~descendant
         /\ \A s \in Stream : fed[s] = written[s] /\ readerErr[s] = "none"
    /\ mode = "consume" => consumed = written["stdout"]

(* A pipe whose reader runs is closed by that reader and by no one else:   *)
(* the main thread closes only pipes whose reader never started.           *)
SoleCloser == \A s \in Stream : "main" \in closers[s] => reader[s] = "none"

(* That is so whatever else fails or is interrupted, unless an interrupt   *)
(* comes between start() and the append to started_threads.                *)
SoleCloserWhenRegistered == "append" \notin lapses => SoleCloser

(* A failed call abandons a live child that was not sent SIGKILL only if   *)
(* kill itself raised, or if an interrupt ended the cleanup.  A terminate  *)
(* or a wait that raises, a child that ignores SIGTERM and a deadline that *)
(* is used up do not spare it.                                             *)
AbandonedChildIsKilled ==
  Failed /\ child = "running" => "KILL" \in signals \/ lapses \cap {"kill", "cleanup"} # {}

(* A cleanup that ends before its deadline leaves nothing behind but what  *)
(* a call of its own that raised should have seen to: a child is reaped    *)
(* unless both waits raised, and each stream without a reader is closed,   *)
(* each other reader finished and its pipe closed, unless its own close or *)
(* join raised.                                                            *)
EarlyCleanupIsComplete ==
  Failed /\ ~expired /\ child # "unborn" /\ "cleanup" \notin lapses =>
    /\ child = "reaped" \/ {"wait1", "wait2"} \subseteq lapses
    /\ Captured => \A s \in Stream \ lapses :
         /\ closers[s] # {}
         /\ s \in started \/ "append" \notin lapses => reader[s] \in {"none", "done"}

(* The consumer of a caller that already got its answer is called again    *)
(* only by a reader that the failure cleanup abandoned: at its deadline,   *)
(* when its join raised, when an interrupt ended the cleanup, or when one  *)
(* kept the reader from being registered.                                  *)
NoLateConsumer ==
  [][pc = "returned" /\ consumed' # consumed =>
       Failed /\ (expired \/ lapses \cap {"stdout", "cleanup", "append"} # {})]_vars

(* The call implements its contract: complete output or none.              *)
Contract == INSTANCE CaptureContract WITH
  status <- CASE outcome = "none" -> "running"
              [] outcome = "completed" -> "complete"
              [] OTHER -> "failed",
  produced <- written,
  delivered <- [s \in Stream |-> IF outcome = "completed" THEN fed[s] ELSE 0]

ContractSpec == Contract!Spec

-----------------------------------------------------------------------------
(* Liveness.                                                               *)

(* Two bounded pipes, two readers: a child family that finishes its work   *)
(* never leaves the call blocked (but a reader that an interrupt kept from *)
(* being registered may block the close of its pipe).                      *)
CallReturns == FamilyFairness => <>(pc = "returned" \/ "append" \in lapses)

(* No reader is stranded: each one ends, after a failure that abandoned it *)
(* too, once the processes that hold its pipe are gone.                    *)
ReadersFinish ==
  child # "unborn" /\ ~WriteEndOpen ~> \A s \in Stream : reader[s] \in {"none", "done"}

(* No call blocks for ever: if the child family finishes, the call and     *)
(* every reader end, although both pipes are bounded.                      *)
EveryCallEnds == CallReturns /\ ReadersFinish

(* A failure ends the call and the child, whatever the child and the       *)
(* descendants that hold its pipes go on doing and whatever calls of the   *)
(* cleanup raise: the call returns, unless it waits for a reader that an   *)
(* interrupt kept from being registered, and the child is dead in the end, *)
(* unless kill raised or an interrupt ended the cleanup.                   *)
FailureEndsAll ==
  pc \in Cleanup ~>
    /\ pc = "returned" \/ "append" \in lapses
    /\ child # "running" \/ lapses \cap {"kill", "cleanup"} # {}
=============================================================================
