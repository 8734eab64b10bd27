------------------------ MODULE BoundedProcessProofs ------------------------
(***************************************************************************)
(* Proofs about BoundedProcess, for every pipe capacity, chunk size and    *)
(* number of faults and of calls of the cleanup that raise: the safety of  *)
(* the capture, and that the call implements CaptureContract.              *)
(***************************************************************************)
EXTENDS BoundedProcess, SequenceTheorems, TLAPS

(* Written units are in the kernel pipe, in a read buffer or accumulated.  *)
Conservation == \A s \in Stream : written[s] = pipe[s] + held[s] + fed[s]

(* Before the child is spawned nothing runs; in terminal mode nothing is   *)
(* captured.                                                               *)
NothingYet ==
  /\ \A s \in Stream : reader[s] = "none"
  /\ \A s \in Stream : written[s] = 0 /\ pipe[s] = 0

Quiet ==
  /\ pc = "spawn" => child = "unborn"
  /\ child = "unborn" => ~descendant /\ NothingYet /\ pc \in {"spawn", "returned"}
  /\ mode = "inherit" =>
       /\ NothingYet
       /\ writing = "none"
       /\ pc \notin {"construct", "start", "append", "get", "join"}

(* The loop that starts the readers has no reader for the stream at hand,  *)
(* and no result is taken before it ends.                                  *)
Starting ==
  pc \in {"spawn", "construct", "start", "append"} =>
    /\ "stderr" \notin started
    /\ pc # "append" => reader[NextStream] = "none"
    /\ "stdout" \notin started => reader["stderr"] = "none"
    /\ gets = 0

(* How far the calling thread got determines its outcome.                  *)
OutcomeMatches ==
  /\ pc \in Working \cup {"spawn"} => outcome = "none"
  /\ pc \in Cleanup => outcome \in {"failure", "raised"}
  /\ pc = "returned" => outcome # "none"
  /\ outcome = "completed" => pc = "returned" /\ child = "reaped"

(* A reader that left its loop without an error saw the end of its stream. *)
CleanEnd(s) ==
  reader[s] \in {"closing", "putting", "done"} /\ readerErr[s] = "none" =>
    ~WriteEndOpen /\ pipe[s] = 0 /\ held[s] = 0

(* The consumer got what the stdout accumulator got, unless it failed.     *)
ConsumerInStep ==
  mode = "consume" /\ readerErr["stdout"] = "none" => consumed = fed["stdout"]

Done(s) == IF reader[s] = "done" THEN 1 ELSE 0

(* Each finished reader put one result, which tells what became of it; the *)
(* error of a result that was taken, if any, ended the call.               *)
Counted == gets + Len(queue) = Done("stdout") + Done("stderr")

Genuine ==
  \A i \in 1 .. Len(queue) :
    /\ queue[i].stream \in Stream
    /\ reader[queue[i].stream] = "done"
    /\ queue[i].error = readerErr[queue[i].stream]

ErrorsPending ==
  outcome \in {"none", "completed"} =>
    \A s \in Stream : reader[s] = "done" /\ readerErr[s] # "none" =>
      \E i \in 1 .. Len(queue) : queue[i].stream = s

Results == Counted /\ Genuine /\ ErrorsPending

(* Past the queue, both results were good.                                 *)
BothGood ==
  /\ pc = "get" => gets < 2
  /\ Captured /\ (pc \in {"join", "wait"} \/ outcome = "completed") =>
       \A s \in Stream : reader[s] = "done" /\ readerErr[s] = "none"

IInv ==
  /\ TypeOK
  /\ Conservation
  /\ Quiet
  /\ Starting
  /\ OutcomeMatches
  /\ \A s \in Stream : CleanEnd(s)
  /\ ConsumerInStep
  /\ Results
  /\ BothGood

(* A unit that is written is in the pipe.                                  *)
LEMMA DepositConserves ==
  ASSUME TypeOK, Conservation, NEW r \in Stream, Deposit(r), UNCHANGED <<held, fed>>
  PROVE  Conservation'
<1> SUFFICES ASSUME NEW s \in Stream
             PROVE  written'[s] = pipe'[s] + held'[s] + fed'[s]
  BY DEF Conservation
<1>1. /\ written[s] = pipe[s] + held[s] + fed[s]
      /\ written[s] \in Nat /\ pipe[s] \in Nat /\ held[s] \in Nat /\ fed[s] \in Nat
  BY DEF Conservation, TypeOK
<1>2. CASE s = r
  <2>1. written'[s] = written[s] + 1 /\ pipe'[s] = pipe[s] + 1
    BY <1>2 DEF Deposit, TypeOK
  <2>2. QED
    BY <1>1, <2>1
<1>3. CASE s # r
  <2>1. written'[s] = written[s] /\ pipe'[s] = pipe[s]
    BY <1>3 DEF Deposit, TypeOK
  <2>2. QED
    BY <1>1, <2>1
<1>4. QED
  BY <1>2, <1>3

(* Every step keeps the types.                                             *)
LEMMA StepTypeOK == TypeOK /\ [Next]_vars => TypeOK'
<1> SUFFICES ASSUME TypeOK, [Next]_vars PROVE TypeOK'
  OBVIOUS
<1> USE BoundedProcessAssumption DEF TypeOK, mainVars, childVars, readerVars, Working,
        Cleanup, Lapse, ReaderError, Stream
<1>1. CASE Spawn
  BY <1>1 DEF Spawn
<1>2. CASE SpawnFault
  BY <1>2 DEF SpawnFault, Fault
<1>3. CASE ConstructReader
  BY <1>3 DEF ConstructReader
<1>4. CASE ReaderFault
  BY <1>4 DEF ReaderFault, Fault, FailWith
<1>5. CASE StartReader
  BY <1>5 DEF StartReader, NextStream
<1>6. CASE AppendReader
  BY <1>6 DEF AppendReader, NextStream
<1>7. CASE GetResult
  <2>1. queue' \in Seq(ReaderResult)
    BY <1>7 DEF GetResult
  <2>2. QED
    BY <1>7, <2>1 DEF GetResult, FailWith
<1>8. CASE JoinReaders
  BY <1>8 DEF JoinReaders
<1>9. CASE WaitChild
  BY <1>9 DEF WaitChild
<1>10. CASE WaitFault
  BY <1>10 DEF WaitFault, Fault, FailWith
<1>11. CASE Interrupt
  <2>1. /\ child' \in {"unborn", "running", "zombie", "reaped"}
        /\ UNCHANGED <<writing, signals, descendant>>
    BY <1>11 DEF Interrupt, MayReap
  <2>2. lapses' \in SUBSET Lapse
    BY <1>11 DEF Interrupt
  <2>3. QED
    BY <1>11, <2>1, <2>2 DEF Interrupt, Fault, FailWith
<1>12. CASE Terminate
  BY <1>12 DEF Terminate, Signal, CallOnChild
<1>13. CASE Kill
  BY <1>13 DEF Kill, Signal, CallOnChild
<1>14. CASE WaitReaps
  BY <1>14 DEF WaitReaps
<1>15. CASE WaitExpires
  BY <1>15 DEF WaitExpires
<1>16. CASE WaitRaises
  BY <1>16 DEF WaitRaises, MayLapse, MayReap, CallOnChild
<1>17. CASE PipesClosed
  BY <1>17 DEF PipesClosed
<1>18. CASE ReturnFailure
  BY <1>18 DEF ReturnFailure
<1>19. CASE Expire
  BY <1>19 DEF Expire
<1>20. CASE ChildForks
  BY <1>20 DEF ChildForks
<1>21. CASE DescendantExit
  <2>1. descendant' \in BOOLEAN
    BY <1>21 DEF DescendantExit
  <2>2. /\ UNCHANGED <<mainVars, faults, child, writing, signals, written>>
        /\ UNCHANGED <<pipe, closers, readerVars, queue>>
    BY <1>21, Zenon DEF DescendantExit
  <2>3. QED
    BY <2>1, <2>2
<1>22. CASE ChildExit
  BY <1>22 DEF ChildExit, Dies
<1>23. CASE ChildTerminated \/ ChildKilled
  <2>1. Dies
    BY <1>23 DEF ChildTerminated, ChildKilled
  <2>2. QED
    BY <2>1 DEF Dies
<1>24. ASSUME NEW s \in Stream, ClosePipe(s) PROVE TypeOK'
  BY <1>24 DEF ClosePipe
<1>25. ASSUME NEW s \in Stream, ReaderTake(s) PROVE TypeOK'
  BY <1>25 DEF ReaderTake
<1>26. ASSUME NEW s \in Stream, ReaderChunk(s) PROVE TypeOK'
  BY <1>26 DEF ReaderChunk
<1>27. ASSUME NEW s \in Stream, ReaderFeed(s) PROVE TypeOK'
  <2>1. fed' \in [Stream -> Nat] /\ held' \in [Stream -> Nat] /\ consumed' \in Nat
    BY <1>27 DEF ReaderFeed
  <2>2. QED
    BY <1>27, <2>1 DEF ReaderFeed
<1>28. ASSUME NEW s \in Stream, DrainClosed(s) PROVE TypeOK'
  BY <1>28 DEF DrainClosed
<1>29. ASSUME NEW s \in Stream, ReaderEof(s) PROVE TypeOK'
  BY <1>29 DEF ReaderEof
<1>30. ASSUME NEW s \in Stream, ReaderClose(s) PROVE TypeOK'
  BY <1>30 DEF ReaderClose, Fault
<1>31. ASSUME NEW s \in Stream, ReaderPut(s) PROVE TypeOK'
  <2>1. [stream |-> s, error |-> readerErr[s]] \in ReaderResult
    BY DEF ReaderResult
  <2>2. queue' \in Seq(ReaderResult)
    BY <1>31, <2>1 DEF ReaderPut
  <2>3. QED
    BY <1>31, <2>2 DEF ReaderPut
<1>32. ASSUME NEW s \in Stream, ConsumerFault(s) PROVE TypeOK'
  BY <1>32 DEF ConsumerFault, Fault
<1>33. ASSUME NEW s \in Stream, DrainFault(s) PROVE TypeOK'
  BY <1>33 DEF DrainFault, Fault
<1>34. ASSUME NEW s \in Stream, ChildBeginWrite(s) PROVE TypeOK'
  BY <1>34 DEF ChildBeginWrite
<1>35. ASSUME NEW s \in Stream, ChildWrite(s) PROVE TypeOK'
  <2>1. pipe' \in [Stream -> Nat] /\ written' \in [Stream -> Nat]
    BY <1>35 DEF ChildWrite, Deposit
  <2>2. QED
    BY <1>35, <2>1 DEF ChildWrite
<1>36. ASSUME NEW s \in Stream, DescendantWrite(s) PROVE TypeOK'
  <2>1. pipe' \in [Stream -> Nat] /\ written' \in [Stream -> Nat]
    BY <1>36 DEF DescendantWrite, Deposit
  <2>2. QED
    BY <1>36, <2>1 DEF DescendantWrite
<1>37. CASE UNCHANGED vars
  BY <1>37 DEF vars
<1>38. CASE InterruptUnguarded
  BY <1>38 DEF InterruptUnguarded, MayLapse
<1>39. CASE InterruptReturn
  BY <1>39 DEF InterruptReturn, Fault
<1>40. CASE TerminateRaises
  BY <1>40 DEF TerminateRaises, SignalRaises, Signal, MayLapse, CallOnChild
<1>41. CASE KillRaises
  BY <1>41 DEF KillRaises, SignalRaises, Signal, MayLapse, CallOnChild
<1>42. ASSUME NEW s \in Stream, CloseRaises(s) PROVE TypeOK'
  BY <1>42 DEF CloseRaises, MayLapse
<1>43. ASSUME NEW s \in Stream, JoinRaises(s) PROVE TypeOK'
  BY <1>43 DEF JoinRaises, MayLapse
<1>44. QED
  BY <1>1, <1>2, <1>3, <1>4, <1>5, <1>6, <1>7, <1>8, <1>9, <1>10, <1>11, <1>12, <1>13,
     <1>14, <1>15, <1>16, <1>17, <1>18, <1>19, <1>20, <1>21, <1>22, <1>23, <1>24, <1>25,
     <1>26, <1>27, <1>28, <1>29, <1>30, <1>31, <1>32, <1>33, <1>34, <1>35, <1>36, <1>37, <1>38,
     <1>39, <1>40, <1>41, <1>42, <1>43
     DEF Next, Main, MainFaults, Reader, ReaderFaults, Family

(* The results stand while the queue and the readers that ended do.        *)
LEMMA ResultsFrame ==
  ASSUME Results, gets' = gets, queue' = queue, reader \in [Stream -> {"none", "draining",
         "feeding", "closing", "putting", "done"}],
         \A s \in Stream : reader'[s] = "done" <=> reader[s] = "done",
         \A s \in Stream : reader[s] = "done" => readerErr'[s] = readerErr[s],
         outcome' \in {"none", "completed"} => outcome \in {"none", "completed"}
  PROVE  Results'
<1>1. Done("stdout")' = Done("stdout") /\ Done("stderr")' = Done("stderr")
  BY DEF Done, Stream
<1>2. Counted'
  BY <1>1 DEF Results, Counted
<1>3. Genuine'
  BY DEF Results, Genuine
<1>4. ErrorsPending'
  BY DEF Results, ErrorsPending
<1>5. QED
  BY <1>2, <1>3, <1>4 DEF Results

LEMMA PutKeepsResults ==
  ASSUME TypeOK, Results, NEW r \in Stream, ReaderPut(r)
  PROVE  Results'
<1> DEFINE e == [stream |-> r, error |-> readerErr[r]]
<1>1. e \in ReaderResult /\ queue \in Seq(ReaderResult)
  BY DEF ReaderResult, TypeOK
<1>2. /\ Len(queue') = Len(queue) + 1
      /\ \A i \in 1 .. Len(queue) : queue'[i] = queue[i]
      /\ queue'[Len(queue) + 1] = e
      /\ Len(queue) \in Nat
  BY <1>1, AppendProperties, LenProperties DEF ReaderPut
<1>3. /\ reader[r] = "putting" /\ reader'[r] = "done"
      /\ \A s \in Stream \ {r} : reader'[s] = reader[s]
      /\ gets' = gets /\ readerErr' = readerErr /\ outcome' = outcome /\ gets \in Nat
  BY DEF ReaderPut, TypeOK, mainVars
<1>4. Done("stdout")' + Done("stderr")' = Done("stdout") + Done("stderr") + 1
  BY <1>3 DEF Done, Stream
<1>5. Counted'
  <2>1. PICK n \in Nat : n = Len(queue)
    BY <1>2
  <2>2. PICK d \in Nat : d = Done("stdout") + Done("stderr")
    BY DEF Done
  <2>3. gets + n = d
    BY <2>1, <2>2 DEF Results, Counted
  <2>4. Len(queue') = n + 1 /\ Done("stdout")' + Done("stderr")' = d + 1
    BY <1>2, <1>4, <2>1, <2>2
  <2>5. gets' + (n + 1) = d + 1
    BY <2>3, <1>3
  <2>6. QED
    BY <2>4, <2>5, Zenon DEF Counted
<1>6. Genuine'
  <2> SUFFICES ASSUME NEW i \in 1 .. Len(queue')
               PROVE  /\ queue'[i].stream \in Stream
                      /\ reader'[queue'[i].stream] = "done"
                      /\ queue'[i].error = readerErr'[queue'[i].stream]
    BY DEF Genuine
  <2>1. CASE i \in 1 .. Len(queue)
    <3>1. queue'[i] = queue[i]
      BY <2>1, <1>2
    <3>2. /\ queue[i].stream \in Stream
          /\ reader[queue[i].stream] = "done"
          /\ queue[i].error = readerErr[queue[i].stream]
      BY <2>1 DEF Results, Genuine
    <3>3. queue[i].stream # r
      BY <3>2, <1>3
    <3>4. QED
      BY <3>1, <3>2, <3>3, <1>3
  <2>2. CASE i = Len(queue) + 1
    <3>1. queue'[i].stream = r /\ queue'[i].error = readerErr[r]
      BY <2>2, <1>2
    <3>2. QED
      BY <3>1, <1>3
  <2>3. QED
    BY <2>1, <2>2, <1>2
<1>7. ErrorsPending'
  <2> SUFFICES ASSUME outcome' \in {"none", "completed"}, NEW s \in Stream,
                      reader'[s] = "done", readerErr'[s] # "none"
               PROVE  \E i \in 1 .. Len(queue') : queue'[i].stream = s
    BY DEF ErrorsPending
  <2>1. CASE s = r
    <3>1. Len(queue) + 1 \in 1 .. Len(queue') /\ queue'[Len(queue) + 1].stream = s
      BY <2>1, <1>2
    <3>2. QED
      BY <3>1
  <2>2. CASE s # r
    <3>1. reader[s] = "done" /\ readerErr[s] # "none"
      BY <2>2, <1>3
    <3>2. PICK i \in 1 .. Len(queue) : queue[i].stream = s
      BY <3>1, <1>3 DEF Results, ErrorsPending
    <3>3. i \in 1 .. Len(queue') /\ queue'[i].stream = s
      BY <3>2, <1>2
    <3>4. QED
      BY <3>3
  <2>3. QED
    BY <2>1, <2>2
<1>8. QED
  BY <1>5, <1>6, <1>7 DEF Results

LEMMA GetKeepsResults ==
  ASSUME TypeOK, Results, OutcomeMatches, BothGood, GetResult
  PROVE  Results' /\ BothGood'
<1>1. /\ Len(queue) \in Nat \ {0}
      /\ Len(queue') = Len(queue) - 1
      /\ \A i \in 1 .. Len(queue') : queue'[i] = queue[i + 1]
      /\ Head(queue) = queue[1]
  <2>1. queue \in Seq(ReaderResult) /\ queue # << >> /\ queue' = Tail(queue)
    BY DEF TypeOK, GetResult
  <2>2. QED
    BY <2>1, HeadTailProperties, EmptySeq, LenProperties
<1>2. /\ reader' = reader /\ readerErr' = readerErr /\ gets' = gets + 1 /\ gets \in Nat
      /\ pc = "get" /\ outcome = "none" /\ gets < 2 /\ mode' = mode
  BY DEF GetResult, OutcomeMatches, Working, TypeOK, childVars, readerVars, BothGood
<1>3. Counted'
  <2>1. PICK n \in Nat \ {0} : n = Len(queue)
    BY <1>1
  <2>2. PICK d \in Nat : d = Done("stdout") + Done("stderr")
    BY DEF Done
  <2>3. gets + n = d
    BY <2>1, <2>2 DEF Results, Counted
  <2>4. Len(queue') = n - 1 /\ Done("stdout")' + Done("stderr")' = d
    BY <1>1, <1>2, <2>1, <2>2 DEF Done
  <2>5. gets' + (n - 1) = d
    BY <2>3, <1>2
  <2>6. QED
    BY <2>4, <2>5, Zenon DEF Counted
<1>4. Genuine'
  <2> SUFFICES ASSUME NEW i \in 1 .. Len(queue')
               PROVE  /\ queue[i + 1].stream \in Stream
                      /\ reader[queue[i + 1].stream] = "done"
                      /\ queue[i + 1].error = readerErr[queue[i + 1].stream]
    BY <1>1, <1>2 DEF Genuine
  <2>1. i + 1 \in 1 .. Len(queue)
    BY <1>1
  <2>2. QED
    BY <2>1 DEF Results, Genuine
<1>5. ErrorsPending'
  <2> SUFFICES ASSUME outcome' \in {"none", "completed"}, NEW s \in Stream,
                      reader[s] = "done", readerErr[s] # "none"
               PROVE  \E i \in 1 .. Len(queue') : queue'[i].stream = s
    BY <1>2 DEF ErrorsPending
  <2>1. PICK i \in 1 .. Len(queue) : queue[i].stream = s
    BY <1>2 DEF Results, ErrorsPending
  <2>2. queue[1].error = "none"
    BY <1>1 DEF GetResult, FailWith
  <2>3. i # 1
    BY <2>1, <2>2 DEF Results, Genuine
  <2>4. i - 1 \in 1 .. Len(queue')
    BY <2>3, <1>1
  <2>5. queue'[i - 1].stream = s
    <3>1. queue'[i - 1] = queue[(i - 1) + 1]
      BY <2>4, <1>1
    <3>2. (i - 1) + 1 = i
      OBVIOUS
    <3>3. QED
      BY <3>1, <3>2, <2>1
  <2>6. QED
    BY <2>4, <2>5
<1>6. BothGood'
  <2>1. CASE pc' = "join" /\ outcome' = "none"
    <3>1. gets = 1 /\ gets' = 2
      BY <1>2, <2>1 DEF GetResult, FailWith
    <3>2. PICK n \in Nat : n = Len(queue')
      BY <1>1
    <3>3. PICK a \in {0, 1}, b \in {0, 1} : a = Done("stdout")' /\ b = Done("stderr")'
      BY DEF Done
    <3>4. 2 + n = a + b
      BY <1>3, <3>1, <3>2, <3>3 DEF Counted
    <3>5. a = 1 /\ b = 1 /\ n = 0
      BY <3>4
    <3>6. \A s \in Stream : reader'[s] = "done"
      BY <3>3, <3>5 DEF Done, Stream
    <3>7. \A s \in Stream : readerErr'[s] = "none"
      <4>1. 1 .. Len(queue') = {}
        BY <3>2, <3>5
      <4>2. QED
        BY <4>1, <3>6, <2>1, <1>5 DEF ErrorsPending
    <3>8. QED
      BY <3>6, <3>7, <2>1 DEF BothGood
  <2>2. CASE pc' # "join"
    BY <2>2, <1>2 DEF BothGood, GetResult, FailWith
  <2>3. QED
    BY <2>1, <2>2, <1>2 DEF GetResult, FailWith
<1>7. QED
  BY <1>3, <1>4, <1>5, <1>6 DEF Results

LEMMA StepIInv == IInv /\ [Next]_vars => IInv'
<1> SUFFICES ASSUME IInv, [Next]_vars PROVE IInv'
  OBVIOUS
<1>0. TypeOK'
  BY StepTypeOK DEF IInv
<1> USE <1>0 DEF IInv, TypeOK, mainVars, childVars, readerVars, Working, Cleanup, Stream,
        Captured, WriteEndOpen
<1>1. CASE Spawn
  <2>1. Conservation' /\ Quiet' /\ OutcomeMatches' /\ Starting'
    BY <1>1 DEF Conservation, Quiet, NothingYet, OutcomeMatches, Starting, NextStream,
       BothGood, Spawn
  <2>2. (\A s \in Stream : CleanEnd(s)') /\ ConsumerInStep' /\ BothGood'
    BY <1>1 DEF CleanEnd, ConsumerInStep, BothGood, Quiet, NothingYet, OutcomeMatches,
       Starting, Spawn
  <2>3. Results'
    BY <1>1, ResultsFrame DEF OutcomeMatches, Spawn
  <2>4. QED
    BY <2>1, <2>2, <2>3
<1>2. CASE SpawnFault
  <2>1. Conservation' /\ Quiet' /\ OutcomeMatches' /\ Starting'
    BY <1>2 DEF Conservation, Quiet, NothingYet, OutcomeMatches, Starting, NextStream,
       BothGood, SpawnFault, Fault
  <2>2. (\A s \in Stream : CleanEnd(s)') /\ ConsumerInStep' /\ BothGood'
    BY <1>2 DEF CleanEnd, ConsumerInStep, BothGood, Quiet, NothingYet, OutcomeMatches,
       Starting, SpawnFault, Fault
  <2>3. Results'
    BY <1>2, ResultsFrame DEF OutcomeMatches, SpawnFault, Fault
  <2>4. QED
    BY <2>1, <2>2, <2>3
<1>3. CASE ConstructReader
  <2>1. Conservation' /\ Quiet' /\ OutcomeMatches' /\ Starting'
    BY <1>3 DEF Conservation, Quiet, NothingYet, OutcomeMatches, Starting, NextStream,
       BothGood, ConstructReader
  <2>2. (\A s \in Stream : CleanEnd(s)') /\ ConsumerInStep' /\ BothGood'
    BY <1>3 DEF CleanEnd, ConsumerInStep, BothGood, Quiet, NothingYet, OutcomeMatches,
       Starting, ConstructReader
  <2>3. Results'
    BY <1>3, ResultsFrame DEF OutcomeMatches, ConstructReader
  <2>4. QED
    BY <2>1, <2>2, <2>3
<1>4. CASE ReaderFault
  <2>1. Conservation' /\ Quiet' /\ OutcomeMatches' /\ Starting'
    BY <1>4 DEF Conservation, Quiet, NothingYet, OutcomeMatches, Starting, NextStream,
       BothGood, ReaderFault, Fault, FailWith
  <2>2. (\A s \in Stream : CleanEnd(s)') /\ ConsumerInStep' /\ BothGood'
    BY <1>4 DEF CleanEnd, ConsumerInStep, BothGood, Quiet, NothingYet, OutcomeMatches,
       Starting, ReaderFault, Fault, FailWith
  <2>3. Results'
    BY <1>4, ResultsFrame DEF OutcomeMatches, ReaderFault, Fault, FailWith
  <2>4. QED
    BY <2>1, <2>2, <2>3
<1>5. CASE StartReader
  <2>1. Conservation' /\ Quiet' /\ OutcomeMatches' /\ Starting'
    BY <1>5 DEF Conservation, Quiet, NothingYet, OutcomeMatches, Starting, NextStream,
       BothGood, StartReader
  <2>2. (\A s \in Stream : CleanEnd(s)') /\ ConsumerInStep' /\ BothGood'
    BY <1>5 DEF CleanEnd, ConsumerInStep, BothGood, Quiet, NothingYet, OutcomeMatches,
       Starting, StartReader
  <2>3. Results'
    <3>1. reader[NextStream] = "none" /\ NextStream \in Stream
      BY <1>5 DEF Starting, StartReader, NextStream
    <3>2. \A s \in Stream : reader'[s] = "done" <=> reader[s] = "done"
      BY <1>5, <3>1 DEF StartReader
    <3>3. QED
      BY <1>5, <3>2, ResultsFrame DEF StartReader
  <2>4. QED
    BY <2>1, <2>2, <2>3
<1>6. CASE AppendReader
  <2>1. Conservation' /\ Quiet' /\ OutcomeMatches' /\ Starting'
    BY <1>6 DEF Conservation, Quiet, NothingYet, OutcomeMatches, Starting, NextStream,
       BothGood, AppendReader
  <2>2. (\A s \in Stream : CleanEnd(s)') /\ ConsumerInStep' /\ BothGood'
    BY <1>6 DEF CleanEnd, ConsumerInStep, BothGood, Quiet, NothingYet, OutcomeMatches,
       Starting, AppendReader
  <2>3. Results'
    BY <1>6, ResultsFrame DEF OutcomeMatches, AppendReader, NextStream
  <2>4. QED
    BY <2>1, <2>2, <2>3
<1>7. CASE GetResult
  <2>1. Conservation' /\ Quiet' /\ OutcomeMatches' /\ Starting'
    BY <1>7 DEF Conservation, Quiet, NothingYet, OutcomeMatches, Starting, NextStream,
       BothGood, GetResult, FailWith
  <2>2. (\A s \in Stream : CleanEnd(s)') /\ ConsumerInStep'
    BY <1>7 DEF CleanEnd, ConsumerInStep, GetResult
  <2>3. Results' /\ BothGood'
    BY <1>7, GetKeepsResults
  <2>4. QED
    BY <2>1, <2>2, <2>3
<1>8. CASE JoinReaders
  <2>1. Conservation' /\ Quiet' /\ OutcomeMatches' /\ Starting'
    BY <1>8 DEF Conservation, Quiet, NothingYet, OutcomeMatches, Starting, NextStream,
       BothGood, JoinReaders
  <2>2. (\A s \in Stream : CleanEnd(s)') /\ ConsumerInStep' /\ BothGood'
    BY <1>8 DEF CleanEnd, ConsumerInStep, BothGood, Quiet, NothingYet, OutcomeMatches,
       Starting, JoinReaders
  <2>3. Results'
    BY <1>8, ResultsFrame DEF OutcomeMatches, JoinReaders
  <2>4. QED
    BY <2>1, <2>2, <2>3
<1>9. CASE WaitChild
  <2>1. Conservation' /\ Quiet' /\ OutcomeMatches' /\ Starting'
    BY <1>9 DEF Conservation, Quiet, NothingYet, OutcomeMatches, Starting, NextStream,
       BothGood, WaitChild
  <2>2. (\A s \in Stream : CleanEnd(s)') /\ ConsumerInStep' /\ BothGood'
    BY <1>9 DEF CleanEnd, ConsumerInStep, BothGood, Quiet, NothingYet, OutcomeMatches,
       Starting, WaitChild
  <2>3. Results'
    BY <1>9, ResultsFrame DEF OutcomeMatches, WaitChild
  <2>4. QED
    BY <2>1, <2>2, <2>3
<1>10. CASE WaitFault
  <2>1. Conservation' /\ Quiet' /\ OutcomeMatches' /\ Starting'
    BY <1>10 DEF Conservation, Quiet, NothingYet, OutcomeMatches, Starting, NextStream,
       BothGood, WaitFault, Fault, FailWith
  <2>2. (\A s \in Stream : CleanEnd(s)') /\ ConsumerInStep' /\ BothGood'
    BY <1>10 DEF CleanEnd, ConsumerInStep, BothGood, Quiet, NothingYet, OutcomeMatches,
       Starting, WaitFault, Fault, FailWith
  <2>3. Results'
    BY <1>10, ResultsFrame DEF OutcomeMatches, WaitFault, Fault, FailWith
  <2>4. QED
    BY <2>1, <2>2, <2>3
<1>11. CASE Interrupt
  <2>1. Conservation' /\ Quiet' /\ OutcomeMatches' /\ Starting'
    BY <1>11 DEF Conservation, Quiet, NothingYet, OutcomeMatches, Starting, NextStream,
       BothGood, Interrupt, Fault, FailWith, MayReap
  <2>2. (\A s \in Stream : CleanEnd(s)') /\ ConsumerInStep' /\ BothGood'
    BY <1>11 DEF CleanEnd, ConsumerInStep, BothGood, Quiet, NothingYet, OutcomeMatches,
       Starting, Interrupt, Fault, FailWith, MayReap
  <2>3. Results'
    BY <1>11, ResultsFrame DEF OutcomeMatches, Interrupt, Fault, FailWith, MayReap
  <2>4. QED
    BY <2>1, <2>2, <2>3
<1>12. CASE Terminate
  <2>1. Conservation' /\ Quiet' /\ OutcomeMatches' /\ Starting'
    BY <1>12 DEF Conservation, Quiet, NothingYet, OutcomeMatches, Starting, NextStream,
       BothGood, Terminate, Signal, CallOnChild
  <2>2. (\A s \in Stream : CleanEnd(s)') /\ ConsumerInStep' /\ BothGood'
    BY <1>12 DEF CleanEnd, ConsumerInStep, BothGood, Quiet, NothingYet, OutcomeMatches,
       Starting, Terminate, Signal, CallOnChild
  <2>3. Results'
    BY <1>12, ResultsFrame DEF OutcomeMatches, Terminate, Signal, CallOnChild
  <2>4. QED
    BY <2>1, <2>2, <2>3
<1>13. CASE Kill
  <2>1. Conservation' /\ Quiet' /\ OutcomeMatches' /\ Starting'
    BY <1>13 DEF Conservation, Quiet, NothingYet, OutcomeMatches, Starting, NextStream,
       BothGood, Kill, Signal, CallOnChild
  <2>2. (\A s \in Stream : CleanEnd(s)') /\ ConsumerInStep' /\ BothGood'
    BY <1>13 DEF CleanEnd, ConsumerInStep, BothGood, Quiet, NothingYet, OutcomeMatches,
       Starting, Kill, Signal, CallOnChild
  <2>3. Results'
    BY <1>13, ResultsFrame DEF OutcomeMatches, Kill, Signal, CallOnChild
  <2>4. QED
    BY <2>1, <2>2, <2>3
<1>14. CASE WaitReaps
  <2>1. Conservation' /\ Quiet' /\ OutcomeMatches' /\ Starting'
    BY <1>14 DEF Conservation, Quiet, NothingYet, OutcomeMatches, Starting, NextStream,
       BothGood, WaitReaps
  <2>2. (\A s \in Stream : CleanEnd(s)') /\ ConsumerInStep' /\ BothGood'
    BY <1>14 DEF CleanEnd, ConsumerInStep, BothGood, Quiet, NothingYet, OutcomeMatches,
       Starting, WaitReaps
  <2>3. Results'
    BY <1>14, ResultsFrame DEF OutcomeMatches, WaitReaps
  <2>4. QED
    BY <2>1, <2>2, <2>3
<1>15. CASE WaitExpires
  <2>1. Conservation' /\ Quiet' /\ OutcomeMatches' /\ Starting'
    BY <1>15 DEF Conservation, Quiet, NothingYet, OutcomeMatches, Starting, NextStream,
       BothGood, WaitExpires
  <2>2. (\A s \in Stream : CleanEnd(s)') /\ ConsumerInStep' /\ BothGood'
    BY <1>15 DEF CleanEnd, ConsumerInStep, BothGood, Quiet, NothingYet, OutcomeMatches,
       Starting, WaitExpires
  <2>3. Results'
    BY <1>15, ResultsFrame DEF OutcomeMatches, WaitExpires
  <2>4. QED
    BY <2>1, <2>2, <2>3
<1>16. CASE WaitRaises
  <2>1. Conservation' /\ Quiet' /\ OutcomeMatches' /\ Starting'
    BY <1>16 DEF Conservation, Quiet, NothingYet, OutcomeMatches, Starting, NextStream,
       BothGood, WaitRaises, MayReap, CallOnChild
  <2>2. (\A s \in Stream : CleanEnd(s)') /\ ConsumerInStep' /\ BothGood'
    BY <1>16 DEF CleanEnd, ConsumerInStep, BothGood, Quiet, NothingYet, OutcomeMatches,
       Starting, WaitRaises, MayReap, CallOnChild
  <2>3. Results'
    BY <1>16, ResultsFrame DEF OutcomeMatches, WaitRaises, MayReap, CallOnChild
  <2>4. QED
    BY <2>1, <2>2, <2>3
<1>17. CASE PipesClosed
  <2>1. Conservation' /\ Quiet' /\ OutcomeMatches' /\ Starting'
    BY <1>17 DEF Conservation, Quiet, NothingYet, OutcomeMatches, Starting, NextStream,
       BothGood, PipesClosed
  <2>2. (\A s \in Stream : CleanEnd(s)') /\ ConsumerInStep' /\ BothGood'
    BY <1>17 DEF CleanEnd, ConsumerInStep, BothGood, Quiet, NothingYet, OutcomeMatches,
       Starting, PipesClosed
  <2>3. Results'
    BY <1>17, ResultsFrame DEF OutcomeMatches, PipesClosed
  <2>4. QED
    BY <2>1, <2>2, <2>3
<1>18. CASE ReturnFailure
  <2>1. Conservation' /\ Quiet' /\ OutcomeMatches' /\ Starting'
    BY <1>18 DEF Conservation, Quiet, NothingYet, OutcomeMatches, Starting, NextStream,
       BothGood, ReturnFailure
  <2>2. (\A s \in Stream : CleanEnd(s)') /\ ConsumerInStep' /\ BothGood'
    BY <1>18 DEF CleanEnd, ConsumerInStep, BothGood, Quiet, NothingYet, OutcomeMatches,
       Starting, ReturnFailure
  <2>3. Results'
    BY <1>18, ResultsFrame DEF OutcomeMatches, ReturnFailure
  <2>4. QED
    BY <2>1, <2>2, <2>3
<1>19. CASE Expire
  <2>1. Conservation' /\ Quiet' /\ OutcomeMatches' /\ Starting'
    BY <1>19 DEF Conservation, Quiet, NothingYet, OutcomeMatches, Starting, NextStream,
       BothGood, Expire
  <2>2. (\A s \in Stream : CleanEnd(s)') /\ ConsumerInStep' /\ BothGood'
    BY <1>19 DEF CleanEnd, ConsumerInStep, BothGood, Quiet, NothingYet, OutcomeMatches,
       Starting, Expire
  <2>3. Results'
    BY <1>19, ResultsFrame DEF OutcomeMatches, Expire
  <2>4. QED
    BY <2>1, <2>2, <2>3
<1>20. CASE ChildForks
  <2>1. Conservation' /\ Quiet' /\ OutcomeMatches' /\ Starting'
    BY <1>20 DEF Conservation, Quiet, NothingYet, OutcomeMatches, Starting, NextStream,
       BothGood, ChildForks
  <2>2. (\A s \in Stream : CleanEnd(s)') /\ ConsumerInStep' /\ BothGood'
    BY <1>20 DEF CleanEnd, ConsumerInStep, BothGood, Quiet, NothingYet, OutcomeMatches,
       Starting, ChildForks
  <2>3. Results'
    BY <1>20, ResultsFrame DEF OutcomeMatches, ChildForks
  <2>4. QED
    BY <2>1, <2>2, <2>3
<1>21. CASE DescendantExit
  <2>1. Conservation' /\ Quiet' /\ OutcomeMatches' /\ Starting'
    BY <1>21 DEF Conservation, Quiet, NothingYet, OutcomeMatches, Starting, NextStream,
       BothGood, DescendantExit
  <2>2. (\A s \in Stream : CleanEnd(s)') /\ ConsumerInStep' /\ BothGood'
    BY <1>21 DEF CleanEnd, ConsumerInStep, BothGood, Quiet, NothingYet, OutcomeMatches,
       Starting, DescendantExit
  <2>3. Results'
    BY <1>21, ResultsFrame DEF OutcomeMatches, DescendantExit
  <2>4. QED
    BY <2>1, <2>2, <2>3
<1>22. CASE ChildExit
  <2>1. Conservation' /\ Quiet' /\ OutcomeMatches' /\ Starting'
    BY <1>22 DEF Conservation, Quiet, NothingYet, OutcomeMatches, Starting, NextStream,
       BothGood, ChildExit, Dies
  <2>2. (\A s \in Stream : CleanEnd(s)') /\ ConsumerInStep' /\ BothGood'
    BY <1>22 DEF CleanEnd, ConsumerInStep, BothGood, Quiet, NothingYet, OutcomeMatches,
       Starting, ChildExit, Dies
  <2>3. Results'
    BY <1>22, ResultsFrame DEF OutcomeMatches, ChildExit, Dies
  <2>4. QED
    BY <2>1, <2>2, <2>3
<1>23. CASE ChildTerminated \/ ChildKilled
  <2>1. Conservation' /\ Quiet' /\ OutcomeMatches' /\ Starting'
    BY <1>23 DEF Conservation, Quiet, NothingYet, OutcomeMatches, Starting, NextStream,
       BothGood, ChildTerminated, ChildKilled, Dies
  <2>2. (\A s \in Stream : CleanEnd(s)') /\ ConsumerInStep' /\ BothGood'
    BY <1>23 DEF CleanEnd, ConsumerInStep, BothGood, Quiet, NothingYet, OutcomeMatches,
       Starting, ChildTerminated, ChildKilled, Dies
  <2>3. Results'
    BY <1>23, ResultsFrame DEF OutcomeMatches, ChildTerminated, ChildKilled, Dies
  <2>4. QED
    BY <2>1, <2>2, <2>3
<1>24. ASSUME NEW r \in Stream, ClosePipe(r) PROVE IInv'
  <2>1. Conservation' /\ Quiet' /\ OutcomeMatches' /\ Starting'
    BY <1>24 DEF Conservation, Quiet, NothingYet, OutcomeMatches, Starting, NextStream,
       BothGood, ClosePipe
  <2>2. (\A s \in Stream : CleanEnd(s)') /\ ConsumerInStep' /\ BothGood'
    BY <1>24 DEF CleanEnd, ConsumerInStep, BothGood, Quiet, NothingYet, OutcomeMatches,
       Starting, ClosePipe
  <2>3. Results'
    BY <1>24, ResultsFrame DEF OutcomeMatches, ClosePipe
  <2>4. QED
    BY <2>1, <2>2, <2>3
<1>25. ASSUME NEW r \in Stream, ReaderTake(r) PROVE IInv'
  <2>1. Conservation'
    <3> SUFFICES ASSUME NEW s \in Stream
                 PROVE  (written[s] = pipe[s] + held[s] + fed[s])'
      BY DEF Conservation
    <3>1. /\ written[s] = pipe[s] + held[s] + fed[s]
          /\ pipe[s] \in Nat /\ held[s] \in Nat /\ fed[s] \in Nat
      BY DEF Conservation
    <3>2. QED
      BY <1>25, <3>1 DEF ReaderTake
  <2>2. Quiet' /\ OutcomeMatches' /\ Starting'
    BY <1>25 DEF Quiet, NothingYet, OutcomeMatches, Starting, NextStream, BothGood, ReaderTake
  <2>3. (\A s \in Stream : CleanEnd(s)') /\ ConsumerInStep' /\ BothGood'
    BY <1>25 DEF CleanEnd, ConsumerInStep, BothGood, Quiet, NothingYet, OutcomeMatches,
       Starting, ReaderTake
  <2>4. Results'
    BY <1>25, ResultsFrame DEF OutcomeMatches, ReaderTake
  <2>5. QED
    BY <2>1, <2>2, <2>3, <2>4
<1>26. ASSUME NEW r \in Stream, ReaderChunk(r) PROVE IInv'
  <2>1. Conservation' /\ Quiet' /\ OutcomeMatches' /\ Starting'
    BY <1>26 DEF Conservation, Quiet, NothingYet, OutcomeMatches, Starting, NextStream,
       BothGood, ReaderChunk
  <2>2. (\A s \in Stream : CleanEnd(s)') /\ ConsumerInStep' /\ BothGood'
    BY <1>26 DEF CleanEnd, ConsumerInStep, BothGood, Quiet, NothingYet, OutcomeMatches,
       Starting, ReaderChunk
  <2>3. Results'
    BY <1>26, ResultsFrame DEF OutcomeMatches, ReaderChunk
  <2>4. QED
    BY <2>1, <2>2, <2>3
<1>27. ASSUME NEW r \in Stream, ReaderFeed(r) PROVE IInv'
  <2>1. Conservation'
    <3> SUFFICES ASSUME NEW s \in Stream
                 PROVE  (written[s] = pipe[s] + held[s] + fed[s])'
      BY DEF Conservation
    <3>1. /\ written[s] = pipe[s] + held[s] + fed[s]
          /\ pipe[s] \in Nat /\ held[s] \in Nat /\ fed[s] \in Nat
      BY DEF Conservation
    <3>2. QED
      BY <1>27, <3>1 DEF ReaderFeed
  <2>2. Quiet' /\ OutcomeMatches' /\ Starting'
    BY <1>27 DEF Quiet, NothingYet, OutcomeMatches, Starting, NextStream, BothGood, ReaderFeed
  <2>3. (\A s \in Stream : CleanEnd(s)') /\ ConsumerInStep' /\ BothGood'
    BY <1>27 DEF CleanEnd, ConsumerInStep, BothGood, Quiet, NothingYet, OutcomeMatches,
       Starting, ReaderFeed
  <2>4. Results'
    BY <1>27, ResultsFrame DEF OutcomeMatches, ReaderFeed
  <2>5. QED
    BY <2>1, <2>2, <2>3, <2>4
<1>28. ASSUME NEW r \in Stream, DrainClosed(r) PROVE IInv'
  <2>1. Conservation' /\ Quiet' /\ OutcomeMatches' /\ Starting'
    BY <1>28 DEF Conservation, Quiet, NothingYet, OutcomeMatches, Starting, NextStream,
       BothGood, DrainClosed
  <2>2. (\A s \in Stream : CleanEnd(s)') /\ ConsumerInStep' /\ BothGood'
    BY <1>28 DEF CleanEnd, ConsumerInStep, BothGood, Quiet, NothingYet, OutcomeMatches,
       Starting, DrainClosed
  <2>3. Results'
    BY <1>28, ResultsFrame DEF OutcomeMatches, DrainClosed
  <2>4. QED
    BY <2>1, <2>2, <2>3
<1>29. ASSUME NEW r \in Stream, ReaderEof(r) PROVE IInv'
  <2>1. Conservation' /\ Quiet' /\ OutcomeMatches' /\ Starting'
    BY <1>29 DEF Conservation, Quiet, NothingYet, OutcomeMatches, Starting, NextStream,
       BothGood, ReaderEof, AtEof
  <2>2. (\A s \in Stream : CleanEnd(s)') /\ ConsumerInStep' /\ BothGood'
    BY <1>29 DEF CleanEnd, ConsumerInStep, BothGood, Quiet, NothingYet, OutcomeMatches,
       Starting, ReaderEof, AtEof
  <2>3. Results'
    BY <1>29, ResultsFrame DEF OutcomeMatches, ReaderEof, AtEof
  <2>4. QED
    BY <2>1, <2>2, <2>3
<1>30. ASSUME NEW r \in Stream, ReaderClose(r) PROVE IInv'
  <2>1. Conservation' /\ Quiet' /\ OutcomeMatches' /\ Starting'
    BY <1>30 DEF Conservation, Quiet, NothingYet, OutcomeMatches, Starting, NextStream,
       BothGood, ReaderClose, Fault
  <2>2. (\A s \in Stream : CleanEnd(s)') /\ ConsumerInStep' /\ BothGood'
    BY <1>30 DEF CleanEnd, ConsumerInStep, BothGood, Quiet, NothingYet, OutcomeMatches,
       Starting, ReaderClose, Fault
  <2>3. Results'
    BY <1>30, ResultsFrame DEF OutcomeMatches, ReaderClose, Fault
  <2>4. QED
    BY <2>1, <2>2, <2>3
<1>31. ASSUME NEW r \in Stream, ReaderPut(r) PROVE IInv'
  <2>1. Conservation' /\ Quiet' /\ OutcomeMatches' /\ Starting'
    BY <1>31 DEF Conservation, Quiet, NothingYet, OutcomeMatches, Starting, NextStream,
       BothGood, ReaderPut
  <2>2. (\A s \in Stream : CleanEnd(s)') /\ ConsumerInStep' /\ BothGood'
    BY <1>31 DEF CleanEnd, ConsumerInStep, BothGood, Quiet, NothingYet, OutcomeMatches,
       Starting, ReaderPut
  <2>3. Results'
    BY <1>31, PutKeepsResults
  <2>4. QED
    BY <2>1, <2>2, <2>3
<1>32. ASSUME NEW r \in Stream, ConsumerFault(r) PROVE IInv'
  <2>1. Conservation' /\ Quiet' /\ OutcomeMatches' /\ Starting'
    BY <1>32 DEF Conservation, Quiet, NothingYet, OutcomeMatches, Starting, NextStream,
       BothGood, ConsumerFault, Fault
  <2>2. (\A s \in Stream : CleanEnd(s)') /\ ConsumerInStep' /\ BothGood'
    BY <1>32 DEF CleanEnd, ConsumerInStep, BothGood, Quiet, NothingYet, OutcomeMatches,
       Starting, ConsumerFault, Fault
  <2>3. Results'
    BY <1>32, ResultsFrame DEF OutcomeMatches, ConsumerFault, Fault
  <2>4. QED
    BY <2>1, <2>2, <2>3
<1>33. ASSUME NEW r \in Stream, DrainFault(r) PROVE IInv'
  <2>1. Conservation' /\ Quiet' /\ OutcomeMatches' /\ Starting'
    BY <1>33 DEF Conservation, Quiet, NothingYet, OutcomeMatches, Starting, NextStream,
       BothGood, DrainFault, Fault
  <2>2. (\A s \in Stream : CleanEnd(s)') /\ ConsumerInStep' /\ BothGood'
    BY <1>33 DEF CleanEnd, ConsumerInStep, BothGood, Quiet, NothingYet, OutcomeMatches,
       Starting, DrainFault, Fault
  <2>3. Results'
    BY <1>33, ResultsFrame DEF OutcomeMatches, DrainFault, Fault
  <2>4. QED
    BY <2>1, <2>2, <2>3
<1>34. ASSUME NEW r \in Stream, ChildBeginWrite(r) PROVE IInv'
  <2>1. Conservation' /\ Quiet' /\ OutcomeMatches' /\ Starting'
    BY <1>34 DEF Conservation, Quiet, NothingYet, OutcomeMatches, Starting, NextStream,
       BothGood, ChildBeginWrite
  <2>2. (\A s \in Stream : CleanEnd(s)') /\ ConsumerInStep' /\ BothGood'
    BY <1>34 DEF CleanEnd, ConsumerInStep, BothGood, Quiet, NothingYet, OutcomeMatches,
       Starting, ChildBeginWrite
  <2>3. Results'
    BY <1>34, ResultsFrame DEF OutcomeMatches, ChildBeginWrite
  <2>4. QED
    BY <2>1, <2>2, <2>3
<1>35. ASSUME NEW r \in Stream, ChildWrite(r) PROVE IInv'
  <2>1. Conservation'
    BY <1>35, DepositConserves DEF ChildWrite, IInv
  <2>2. Quiet' /\ OutcomeMatches' /\ Starting'
    BY <1>35 DEF Quiet, NothingYet, OutcomeMatches, Starting, NextStream, BothGood,
       ChildWrite, Deposit
  <2>3. (\A s \in Stream : CleanEnd(s)') /\ ConsumerInStep' /\ BothGood'
    BY <1>35 DEF CleanEnd, ConsumerInStep, BothGood, Quiet, NothingYet, OutcomeMatches,
       Starting, ChildWrite, Deposit
  <2>4. Results'
    BY <1>35, ResultsFrame DEF OutcomeMatches, ChildWrite, Deposit
  <2>5. QED
    BY <2>1, <2>2, <2>3, <2>4
<1>36. ASSUME NEW r \in Stream, DescendantWrite(r) PROVE IInv'
  <2>1. Conservation'
    BY <1>36, DepositConserves DEF DescendantWrite, IInv
  <2>2. Quiet' /\ OutcomeMatches' /\ Starting'
    BY <1>36 DEF Quiet, NothingYet, OutcomeMatches, Starting, NextStream, BothGood,
       DescendantWrite, Deposit
  <2>3. (\A s \in Stream : CleanEnd(s)') /\ ConsumerInStep' /\ BothGood'
    BY <1>36 DEF CleanEnd, ConsumerInStep, BothGood, Quiet, NothingYet, OutcomeMatches,
       Starting, DescendantWrite, Deposit
  <2>4. Results'
    BY <1>36, ResultsFrame DEF OutcomeMatches, DescendantWrite, Deposit
  <2>5. QED
    BY <2>1, <2>2, <2>3, <2>4
<1>37. CASE UNCHANGED vars
  <2>1. Conservation' /\ Quiet' /\ OutcomeMatches' /\ Starting'
    BY <1>37 DEF vars, Conservation, Quiet, NothingYet, OutcomeMatches, Starting, NextStream
  <2>2. (\A s \in Stream : CleanEnd(s)') /\ ConsumerInStep' /\ BothGood'
    BY <1>37 DEF vars, CleanEnd, ConsumerInStep, BothGood
  <2>3. Results'
    BY <1>37, ResultsFrame DEF vars
  <2>4. QED
    BY <2>1, <2>2, <2>3
<1>38. CASE InterruptUnguarded
  <2>1. Conservation' /\ Quiet' /\ OutcomeMatches' /\ Starting'
    BY <1>38 DEF Conservation, Quiet, NothingYet, OutcomeMatches, Starting, NextStream,
       BothGood, InterruptUnguarded, Unguarded
  <2>2. (\A s \in Stream : CleanEnd(s)') /\ ConsumerInStep' /\ BothGood'
    BY <1>38 DEF CleanEnd, ConsumerInStep, BothGood, Quiet, NothingYet, OutcomeMatches,
       Starting, InterruptUnguarded, Unguarded
  <2>3. Results'
    BY <1>38, ResultsFrame DEF OutcomeMatches, InterruptUnguarded, Unguarded
  <2>4. QED
    BY <2>1, <2>2, <2>3
<1>39. CASE InterruptReturn
  <2>1. Conservation' /\ Quiet' /\ OutcomeMatches' /\ Starting'
    BY <1>39 DEF Conservation, Quiet, NothingYet, OutcomeMatches, Starting, NextStream,
       BothGood, InterruptReturn, Fault
  <2>2. (\A s \in Stream : CleanEnd(s)') /\ ConsumerInStep' /\ BothGood'
    BY <1>39 DEF CleanEnd, ConsumerInStep, BothGood, Quiet, NothingYet, OutcomeMatches,
       Starting, InterruptReturn, Fault
  <2>3. Results'
    BY <1>39, ResultsFrame DEF OutcomeMatches, InterruptReturn, Fault
  <2>4. QED
    BY <2>1, <2>2, <2>3
<1>40. CASE TerminateRaises
  <2>1. Conservation' /\ Quiet' /\ OutcomeMatches' /\ Starting'
    BY <1>40 DEF Conservation, Quiet, NothingYet, OutcomeMatches, Starting, NextStream,
       BothGood, TerminateRaises, SignalRaises, Signal, CallOnChild
  <2>2. (\A s \in Stream : CleanEnd(s)') /\ ConsumerInStep' /\ BothGood'
    BY <1>40 DEF CleanEnd, ConsumerInStep, BothGood, Quiet, NothingYet, OutcomeMatches,
       Starting, TerminateRaises, SignalRaises, Signal, CallOnChild
  <2>3. Results'
    BY <1>40, ResultsFrame DEF OutcomeMatches, TerminateRaises, SignalRaises, Signal, CallOnChild
  <2>4. QED
    BY <2>1, <2>2, <2>3
<1>41. CASE KillRaises
  <2>1. Conservation' /\ Quiet' /\ OutcomeMatches' /\ Starting'
    BY <1>41 DEF Conservation, Quiet, NothingYet, OutcomeMatches, Starting, NextStream,
       BothGood, KillRaises, SignalRaises, Signal, CallOnChild
  <2>2. (\A s \in Stream : CleanEnd(s)') /\ ConsumerInStep' /\ BothGood'
    BY <1>41 DEF CleanEnd, ConsumerInStep, BothGood, Quiet, NothingYet, OutcomeMatches,
       Starting, KillRaises, SignalRaises, Signal, CallOnChild
  <2>3. Results'
    BY <1>41, ResultsFrame DEF OutcomeMatches, KillRaises, SignalRaises, Signal, CallOnChild
  <2>4. QED
    BY <2>1, <2>2, <2>3
<1>42. ASSUME NEW r \in Stream, CloseRaises(r) PROVE IInv'
  <2>1. Conservation' /\ Quiet' /\ OutcomeMatches' /\ Starting'
    BY <1>42 DEF Conservation, Quiet, NothingYet, OutcomeMatches, Starting, NextStream,
       BothGood, CloseRaises, ToClose
  <2>2. (\A s \in Stream : CleanEnd(s)') /\ ConsumerInStep' /\ BothGood'
    BY <1>42 DEF CleanEnd, ConsumerInStep, BothGood, Quiet, NothingYet, OutcomeMatches,
       Starting, CloseRaises, ToClose
  <2>3. Results'
    BY <1>42, ResultsFrame DEF OutcomeMatches, CloseRaises, ToClose
  <2>4. QED
    BY <2>1, <2>2, <2>3
<1>43. ASSUME NEW r \in Stream, JoinRaises(r) PROVE IInv'
  <2>1. Conservation' /\ Quiet' /\ OutcomeMatches' /\ Starting'
    BY <1>43 DEF Conservation, Quiet, NothingYet, OutcomeMatches, Starting, NextStream,
       BothGood, JoinRaises
  <2>2. (\A s \in Stream : CleanEnd(s)') /\ ConsumerInStep' /\ BothGood'
    BY <1>43 DEF CleanEnd, ConsumerInStep, BothGood, Quiet, NothingYet, OutcomeMatches,
       Starting, JoinRaises
  <2>3. Results'
    BY <1>43, ResultsFrame DEF OutcomeMatches, JoinRaises
  <2>4. QED
    BY <2>1, <2>2, <2>3
<1>44. QED
  BY <1>1, <1>2, <1>3, <1>4, <1>5, <1>6, <1>7, <1>8, <1>9, <1>10, <1>11, <1>12, <1>13,
     <1>14, <1>15, <1>16, <1>17, <1>18, <1>19, <1>20, <1>21, <1>22, <1>23, <1>24, <1>25,
     <1>26, <1>27, <1>28, <1>29, <1>30, <1>31, <1>32, <1>33, <1>34, <1>35, <1>36, <1>37, <1>38,
     <1>39, <1>40, <1>41, <1>42, <1>43
     DEF Next, Main, MainFaults, Reader, ReaderFaults, Family

-----------------------------------------------------------------------------
LEMMA InitIInv == Init => IInv
<1> SUFFICES ASSUME Init PROVE IInv
  OBVIOUS
<1> USE DEF Init, Stream
<1>1. TypeOK
  <2>1. queue \in Seq(ReaderResult)
    OBVIOUS
  <2>2. QED
    BY <2>1, BoundedProcessAssumption DEF TypeOK, ReaderError
<1>2. Conservation /\ Quiet /\ Starting /\ OutcomeMatches
  BY DEF Conservation, Quiet, NothingYet, Starting, NextStream, OutcomeMatches, Working, Cleanup
<1>3. (\A s \in Stream : CleanEnd(s)) /\ ConsumerInStep /\ BothGood
  BY DEF CleanEnd, ConsumerInStep, BothGood
<1>4. Results
  <2>1. Len(queue) = 0
    OBVIOUS
  <2>2. QED
    BY <2>1 DEF Results, Counted, Genuine, ErrorsPending, Done
<1>5. QED
  BY <1>1, <1>2, <1>3, <1>4 DEF IInv

LEMMA IInvAcceptsCompleteOutput == IInv => AcceptedOutputIsComplete
<1> SUFFICES ASSUME IInv, outcome = "completed"
             PROVE  /\ child = "reaped"
                    /\ Captured =>
                         /\ ~descendant
                         /\ \A s \in Stream : fed[s] = written[s] /\ readerErr[s] = "none"
                    /\ mode = "consume" => consumed = written["stdout"]
  BY DEF AcceptedOutputIsComplete
<1>1. child = "reaped"
  BY DEF IInv, OutcomeMatches
<1>2. ASSUME Captured, NEW s \in Stream
      PROVE  ~descendant /\ fed[s] = written[s] /\ readerErr[s] = "none"
  <2>1. reader[s] = "done" /\ readerErr[s] = "none"
    BY <1>2 DEF IInv, BothGood
  <2>2. ~descendant /\ pipe[s] = 0 /\ held[s] = 0
    BY <1>2, <2>1 DEF IInv, CleanEnd, WriteEndOpen
  <2>3. written[s] = pipe[s] + held[s] + fed[s] /\ fed[s] \in Nat
    BY DEF IInv, Conservation, TypeOK
  <2>4. QED
    BY <2>1, <2>2, <2>3
<1>3. mode = "consume" => consumed = written["stdout"]
  BY <1>2 DEF IInv, ConsumerInStep, Captured, Stream
<1>4. QED
  BY <1>1, <1>2, <1>3 DEF Stream

LEMMA AlwaysIInv == Spec => []IInv
<1>1. QED
  BY InitIInv, StepIInv, PTL DEF Spec

(* Every variable keeps its type in every behaviour.                       *)
THEOREM TypeCorrect == Spec => []TypeOK
<1>1. IInv => TypeOK
  BY DEF IInv
<1>2. QED
  BY <1>1, AlwaysIInv, PTL

(* A return code is never handed out with a part of the output: see        *)
(* AcceptedOutputIsComplete, for any pipe capacity, chunk size, amount of  *)
(* output and number of faults, interrupted or not.                        *)
THEOREM OutputIsComplete == Spec => []AcceptedOutputIsComplete
<1>1. QED
  BY IInvAcceptsCompleteOutput, AlwaysIInv, PTL

-----------------------------------------------------------------------------
(* From the second wait of the cleanup on, a child that runs was killed,   *)
(* unless kill raised or the cleanup was cut short.                        *)
KillSent ==
  pc \in {"wait2", "close", "joinReaders"} \/ Failed =>
    child # "running" \/ "KILL" \in signals \/ lapses \cap {"kill", "cleanup"} # {}

(* Only the cleanup closes a pipe from the calling thread.                 *)
MainCloses ==
  \A s \in Stream : "main" \in closers[s] =>
    \/ reader[s] = "none" /\ pc \in {"close", "joinReaders", "returned"}
    \/ "append" \in lapses

(* A reader that runs is in started_threads, except between start() and    *)
(* append, which only an interrupt can leave without the append.           *)
Registered ==
  \A s \in Stream : reader[s] # "none" =>
    \/ s \in started
    \/ pc = "append" /\ s = NextStream
    \/ "append" \in lapses

CloserInv == TypeOK /\ MainCloses /\ Registered

(* A reader, or a process of the child's family, does not touch the        *)
(* calling thread; a child that died does not run again.                   *)
LEMMA OthersFrame ==
  ASSUME \/ \E s \in Stream : Reader(s) \/ ReaderFaults(s)
         \/ Family
  PROVE  /\ UNCHANGED <<mainVars, signals>>
         /\ child' = child \/ (child = "running" /\ child' = "zombie")
<1> USE DEF mainVars, childVars
<1>1. ASSUME NEW s \in Stream, Reader(s) \/ ReaderFaults(s)
      PROVE  UNCHANGED <<mainVars, signals, child>>
  BY <1>1 DEF Reader, ReaderFaults, ReaderTake, ReaderChunk, ReaderFeed, DrainClosed,
     ReaderEof, ReaderClose, ReaderPut, ConsumerFault, DrainFault
<1>2. CASE Family
  BY <1>2 DEF Family, ChildBeginWrite, ChildWrite, DescendantWrite, ChildForks,
     DescendantExit, ChildExit, ChildTerminated, ChildKilled, Dies
<1>3. QED
  BY <1>1, <1>2

LEMMA StepKillSent == IInv /\ KillSent /\ [Next]_vars => KillSent'
<1> SUFFICES ASSUME IInv, KillSent, [Next]_vars PROVE KillSent'
  OBVIOUS
<1> USE DEF KillSent, Failed, mainVars, childVars, Working, Cleanup
<1>1. CASE Main
  BY <1>1 DEF Main, Spawn, ConstructReader, StartReader, AppendReader, GetResult,
     JoinReaders, WaitChild, Terminate, Kill, Signal, CallOnChild, WaitReaps, WaitExpires,
     ClosePipe, PipesClosed, ReturnFailure, FailWith
<1>2. CASE MainFaults
  <2>1. pc = "spawn" => child = "unborn"
    BY DEF IInv, Quiet
  <2>2. CASE SpawnFault \/ ReaderFault \/ WaitFault \/ Interrupt
    BY <2>1, <2>2 DEF SpawnFault, ReaderFault, WaitFault, Interrupt, MayReap, FailWith
  <2>3. CASE InterruptUnguarded \/ InterruptReturn
    BY <2>3 DEF InterruptUnguarded, InterruptReturn, MayLapse
  <2>4. CASE TerminateRaises \/ KillRaises
    BY <2>4 DEF TerminateRaises, KillRaises, SignalRaises, Signal, MayLapse, CallOnChild
  <2>5. CASE WaitRaises
    BY <2>5 DEF WaitRaises, MayReap, MayLapse, CallOnChild
  <2>6. ASSUME NEW s \in Stream, CloseRaises(s) \/ JoinRaises(s) PROVE KillSent'
    BY <2>6 DEF CloseRaises, JoinRaises, ToClose, MayLapse
  <2>7. QED
    BY <1>2, <2>2, <2>3, <2>4, <2>5, <2>6 DEF MainFaults
<1>3. CASE Expire
  BY <1>3 DEF Expire
<1>4. CASE (\E s \in Stream : Reader(s) \/ ReaderFaults(s)) \/ Family
  BY <1>4, OthersFrame
<1>5. CASE UNCHANGED vars
  BY <1>5 DEF vars
<1>6. QED
  BY <1>1, <1>2, <1>3, <1>4, <1>5 DEF Next

(* See AbandonedChildIsKilled: whatever calls of the cleanup raise, and    *)
(* however often, a child that the call gives up on was sent SIGKILL,      *)
(* unless kill itself raised or an interrupt ended the cleanup.            *)
THEOREM NoChildIsSpared == Spec => []AbandonedChildIsKilled
<1>1. Init => KillSent
  BY DEF Init, KillSent, Failed
<1>2. Spec => []KillSent
  BY <1>1, StepKillSent, AlwaysIInv, PTL DEF Spec
<1>3. KillSent => AbandonedChildIsKilled
  BY DEF KillSent, AbandonedChildIsKilled
<1>4. QED
  BY <1>2, <1>3, PTL

LEMMA StepCloserInv == CloserInv /\ [Next]_vars => CloserInv'
<1> SUFFICES ASSUME CloserInv, [Next]_vars PROVE MainCloses' /\ Registered'
  BY StepTypeOK DEF CloserInv
<1>0. /\ reader \in [Stream -> {"none", "draining", "feeding", "closing", "putting", "done"}]
      /\ closers \in [Stream -> SUBSET {"reader", "main"}]
      /\ started \in SUBSET Stream
  BY DEF CloserInv, TypeOK
<1> USE <1>0 DEF CloserInv, MainCloses, Registered, NextStream, mainVars, readerVars,
                 Working, Cleanup, Stream
<1>1. CASE Main
  <2>1. CASE Spawn \/ ConstructReader
    BY <2>1 DEF Spawn, ConstructReader
  <2>2. CASE StartReader
    BY <2>2 DEF StartReader
  <2>3. CASE AppendReader
    BY <2>3 DEF AppendReader
  <2>4. CASE GetResult \/ JoinReaders \/ WaitChild
    BY <2>4 DEF GetResult, JoinReaders, WaitChild, FailWith
  <2>5. CASE Terminate \/ Kill \/ WaitReaps \/ WaitExpires
    BY <2>5 DEF Terminate, Kill, Signal, CallOnChild, WaitReaps, WaitExpires
  <2>6. ASSUME NEW r \in Stream, ClosePipe(r) PROVE MainCloses' /\ Registered'
    BY <2>6 DEF ClosePipe, ToClose, Unstarted
  <2>7. CASE PipesClosed \/ ReturnFailure
    BY <2>7 DEF PipesClosed, ReturnFailure
  <2>8. QED
    BY <1>1, <2>1, <2>2, <2>3, <2>4, <2>5, <2>6, <2>7 DEF Main
<1>2. CASE MainFaults
  <2>1. CASE SpawnFault \/ ReaderFault \/ WaitFault
    BY <2>1 DEF SpawnFault, ReaderFault, WaitFault, FailWith
  <2>2. CASE Interrupt
    BY <2>2 DEF Interrupt, FailWith
  <2>3. CASE InterruptUnguarded
    BY <2>3 DEF InterruptUnguarded, Unguarded, MayLapse
  <2>4. CASE InterruptReturn
    BY <2>4 DEF InterruptReturn
  <2>5. CASE TerminateRaises \/ KillRaises \/ WaitRaises
    BY <2>5 DEF TerminateRaises, KillRaises, SignalRaises, WaitRaises, MayLapse, CallOnChild
  <2>6. ASSUME NEW r \in Stream, CloseRaises(r) PROVE MainCloses' /\ Registered'
    BY <2>6 DEF CloseRaises, ToClose, Unstarted, MayLapse
  <2>7. ASSUME NEW r \in Stream, JoinRaises(r) PROVE MainCloses' /\ Registered'
    BY <2>7 DEF JoinRaises, MayLapse
  <2>8. QED
    BY <1>2, <2>1, <2>2, <2>3, <2>4, <2>5, <2>6, <2>7 DEF MainFaults
<1>3. CASE Expire
  BY <1>3 DEF Expire
<1>4. ASSUME NEW r \in Stream, Reader(r) \/ ReaderFaults(r)
      PROVE  MainCloses' /\ Registered'
  <2>1. /\ pc' = pc /\ started' = started /\ lapses' = lapses
        /\ reader[r] # "none"
        /\ \A s \in Stream : reader[s] = "none" <=> reader'[s] = "none"
        /\ \A s \in Stream : "main" \in closers'[s] => "main" \in closers[s]
    <3>1. CASE ReaderTake(r) \/ ReaderChunk(r) \/ ReaderFeed(r) \/ DrainClosed(r)
      BY <3>1 DEF ReaderTake, ReaderChunk, ReaderFeed, DrainClosed
    <3>2. CASE ReaderEof(r) \/ ReaderPut(r)
      BY <3>2 DEF ReaderEof, ReaderPut
    <3>3. CASE ReaderClose(r)
      BY <3>3 DEF ReaderClose
    <3>4. CASE ReaderFaults(r)
      BY <3>4 DEF ReaderFaults, ConsumerFault, DrainFault
    <3>5. QED
      BY <1>4, <3>1, <3>2, <3>3, <3>4 DEF Reader
  <2>2. QED
    BY <2>1
<1>5. CASE Family
  <2>1. UNCHANGED <<pc, started, reader, closers, lapses>>
    BY <1>5 DEF Family, ChildBeginWrite, ChildWrite, DescendantWrite, ChildForks,
       DescendantExit, ChildExit, ChildTerminated, ChildKilled, Dies
  <2>2. QED
    BY <2>1
<1>6. CASE UNCHANGED vars
  BY <1>6 DEF vars
<1>7. QED
  BY <1>1, <1>2, <1>3, <1>4, <1>5, <1>6 DEF Next

(* See SoleCloserWhenRegistered: unless a KeyboardInterrupt came between   *)
(* the start of a reader and its registration, the reader of a pipe is the *)
(* only thread that closes it, whatever else fails or is interrupted.      *)
THEOREM ReaderIsSoleCloser == Spec => []SoleCloserWhenRegistered
<1>1. Init => CloserInv
  <2>1. Init => TypeOK
    BY InitIInv DEF IInv
  <2>2. QED
    BY <2>1 DEF Init, CloserInv, MainCloses, Registered, NextStream, Stream
<1>2. CloserInv => SoleCloserWhenRegistered
  BY DEF CloserInv, MainCloses, SoleCloserWhenRegistered, SoleCloser
<1>3. QED
  BY <1>1, <1>2, StepCloserInv, PTL DEF Spec

-----------------------------------------------------------------------------
(* The refinement.  A step of the call maps to the step of the contract    *)
(* that decides its outcome, a write of the child's family to Produce, and *)
(* every other step to no step.                                            *)
Decides(o) == outcome = "none" /\ outcome' = o /\ UNCHANGED written
Writes(s) == outcome # "completed" /\ outcome' = outcome /\ written' = [written EXCEPT ![s] = @ + 1]
Stutters ==
  /\ outcome' = outcome \/ {outcome, outcome'} \subseteq {"failure", "raised"}
  /\ written' = written
  /\ outcome = "completed" => fed' = fed

LEMMA StepKinds ==
  ASSUME IInv, [Next]_vars
  PROVE  \/ \E o \in {"completed", "failure", "raised"} : Decides(o)
         \/ \E s \in Stream : Writes(s)
         \/ Stutters
<1>1. /\ pc \in Working \cup {"spawn"} => outcome = "none"
      /\ outcome = "completed" =>
           /\ child = "reaped"
           /\ ~Captured \/ ~descendant
           /\ \A s \in Stream : reader[s] # "feeding"
  <2>1. outcome = "completed" => child = "reaped" /\ \A s \in Stream : reader[s] # "feeding"
    BY DEF IInv, OutcomeMatches, Quiet, NothingYet, BothGood, Captured
  <2>2. outcome = "completed" /\ Captured => ~descendant
    BY DEF IInv, BothGood, CleanEnd, WriteEndOpen, Stream
  <2>3. QED
    BY <2>1, <2>2 DEF IInv, OutcomeMatches
<1> USE DEF Decides, Writes, Stutters, mainVars, childVars, readerVars, Working
<1>2. CASE Main
  BY <1>1, <1>2 DEF Main, Spawn, ConstructReader, StartReader, AppendReader, GetResult,
     JoinReaders, WaitChild, Terminate, Kill, Signal, CallOnChild, WaitReaps, WaitExpires,
     ClosePipe, PipesClosed, ReturnFailure, FailWith
<1>3. CASE MainFaults
  <2>1. CASE SpawnFault \/ ReaderFault \/ WaitFault \/ Interrupt
    BY <1>1, <2>1 DEF SpawnFault, ReaderFault, WaitFault, Interrupt, FailWith
  <2>2. CASE InterruptUnguarded \/ InterruptReturn
    <3>1. outcome' = "raised" /\ fed' = fed /\ written' = written
          /\ outcome \in {"none", "failure", "raised"}
      BY <1>1, <2>2 DEF InterruptUnguarded, InterruptReturn, Unguarded, IInv, OutcomeMatches
    <3>2. QED
      BY <3>1
  <2>3. CASE TerminateRaises \/ KillRaises \/ WaitRaises
    BY <2>3 DEF TerminateRaises, KillRaises, SignalRaises, WaitRaises, CallOnChild
  <2>4. ASSUME NEW s \in Stream, CloseRaises(s) \/ JoinRaises(s) PROVE Stutters
    BY <2>4 DEF CloseRaises, JoinRaises
  <2>5. QED
    BY <1>3, <2>1, <2>2, <2>3, <2>4 DEF MainFaults
<1>4. CASE Expire
  BY <1>4 DEF Expire
<1>5. ASSUME NEW s \in Stream, Reader(s) \/ ReaderFaults(s) PROVE Stutters
  BY <1>1, <1>5 DEF Reader, ReaderFaults, ReaderTake, ReaderChunk, ReaderFeed, DrainClosed,
     ReaderEof, ReaderClose, ReaderPut, ConsumerFault, DrainFault
<1>6. CASE Family
  <2>1. ASSUME NEW s \in Stream, ChildWrite(s) PROVE Writes(s)
    BY <1>1, <2>1 DEF ChildWrite, Deposit
  <2>2. ASSUME NEW s \in Stream, DescendantWrite(s) PROVE Writes(s)
    BY <1>1, <2>2 DEF DescendantWrite, Deposit
  <2>3. ASSUME NEW s \in Stream, ChildBeginWrite(s) PROVE Stutters
    BY <2>3 DEF ChildBeginWrite
  <2>4. CASE ChildForks \/ DescendantExit \/ ChildExit \/ ChildTerminated \/ ChildKilled
    BY <2>4 DEF ChildForks, DescendantExit, ChildExit, ChildTerminated, ChildKilled, Dies
  <2>5. QED
    BY <1>6, <2>1, <2>2, <2>3, <2>4 DEF Family
<1>7. CASE UNCHANGED vars
  BY <1>7 DEF vars
<1>8. QED
  BY <1>2, <1>3, <1>4, <1>5, <1>6, <1>7 DEF Next

LEMMA StepContract == IInv /\ IInv' /\ [Next]_vars => [Contract!Next]_Contract!vars
<1> SUFFICES ASSUME IInv, IInv', [Next]_vars PROVE [Contract!Next]_Contract!vars
  OBVIOUS
<1>1. CASE Stutters
  BY <1>1 DEF Stutters, Contract!vars
<1>2. CASE Decides("failure") \/ Decides("raised")
  BY <1>2 DEF Decides, Contract!Next, Contract!Fail
<1>3. CASE Decides("completed")
  <2>1. \A s \in Stream : fed'[s] = written[s]
    <3>1. CASE Captured'
      <4>1. AcceptedOutputIsComplete'
        BY IInvAcceptsCompleteOutput, PTL
      <4>2. QED
        BY <1>3, <3>1, <4>1 DEF AcceptedOutputIsComplete, Decides
    <3>2. CASE ~Captured'
      <4> SUFFICES ASSUME NEW s \in Stream PROVE fed'[s] = written[s]
        OBVIOUS
      <4>1. written'[s] = 0 /\ pipe'[s] = 0
        BY <3>2 DEF IInv, Quiet, NothingYet, Captured
      <4>2. /\ written'[s] = pipe'[s] + held'[s] + fed'[s]
            /\ held'[s] \in Nat /\ fed'[s] \in Nat
        BY DEF IInv, Conservation, TypeOK
      <4>3. QED
        BY <1>3, <4>1, <4>2 DEF Decides
    <3>3. QED
      BY <3>1, <3>2
  <2>2. written \in [Stream -> Nat]
    BY DEF IInv, TypeOK
  <2>3. [s \in Stream |-> fed'[s]] = written
    BY <2>1, <2>2
  <2>4. QED
    BY <1>3, <2>3 DEF Decides, Contract!Next, Contract!Complete
<1>4. ASSUME NEW s \in Stream, Writes(s) PROVE Contract!Produce(s)
  BY <1>4 DEF Writes, Contract!Produce
<1>5. QED
  BY <1>1, <1>2, <1>3, <1>4, StepKinds DEF Contract!Next

(* The call implements its contract (ContractSpec): its observation        *)
(* accounts for everything ever written, or for nothing.                   *)
THEOREM CallImplementsContract == Spec => ContractSpec
<1>1. Init => Contract!Init
  BY DEF Init, Contract!Init, Contract!Nothing
<1>2. QED
  BY <1>1, StepContract, AlwaysIInv, PTL DEF Spec, ContractSpec, Contract!Spec

-----------------------------------------------------------------------------
(* What a failure cleanup that ends before its deadline leaves behind.     *)

(* A wait of the cleanup ends with the child reaped, at the deadline or    *)
(* with an exception.                                                      *)
Reaped ==
  /\ pc \in {"kill", "wait2"} => expired \/ "wait1" \in lapses
  /\ pc \in {"close", "joinReaders"} =>
       expired \/ child = "reaped" \/ {"wait1", "wait2"} \subseteq lapses
  /\ Failed => \/ expired \/ child \in {"reaped", "unborn"}
               \/ {"wait1", "wait2"} \subseteq lapses \/ "cleanup" \in lapses

(* A reader closes its pipe before it puts its result.                     *)
ClosedFirst == \A s \in Stream : reader[s] \in {"putting", "done"} => "reader" \in closers[s]

(* The cleanup was not cut short, and some of its calls are behind it.     *)
CleanedUp == Failed /\ child # "unborn" /\ "cleanup" \notin lapses

(* The calling thread closed the pipes without a reader, and then saw the  *)
(* end of the readers or of the deadline, unless a call of its raised.     *)
Unread ==
  pc = "joinReaders" \/ CleanedUp => \A s \in Unstarted : Closed(s) \/ reader[s] = "done"
AllJoined == CleanedUp /\ ~expired /\ Captured => \A s \in started : Joined(s)

LeftInv == Reaped /\ ClosedFirst /\ Unread /\ AllJoined

LEMMA StepReaped ==
  ASSUME IInv, Reaped, [Next]_vars
  PROVE  Reaped'
<1> USE DEF Reaped, Failed, mainVars, childVars, Working, Cleanup
<1>1. CASE Main
  BY <1>1 DEF Main, Spawn, ConstructReader, StartReader, AppendReader, GetResult, JoinReaders,
     WaitChild, Terminate, Kill, Signal, CallOnChild, WaitReaps, WaitExpires, ClosePipe,
     PipesClosed, ReturnFailure, FailWith
<1>2. CASE MainFaults
  <2>1. pc = "spawn" => child = "unborn"
    BY DEF IInv, Quiet
  <2>2. CASE SpawnFault \/ ReaderFault \/ WaitFault \/ Interrupt
    BY <2>1, <2>2 DEF SpawnFault, ReaderFault, WaitFault, Interrupt, MayReap, FailWith
  <2>3. CASE InterruptUnguarded \/ InterruptReturn
    BY <2>3 DEF InterruptUnguarded, InterruptReturn, MayLapse
  <2>4. CASE TerminateRaises \/ KillRaises
    BY <2>4 DEF TerminateRaises, KillRaises, SignalRaises, Signal, MayLapse, CallOnChild
  <2>5. CASE WaitRaises
    BY <2>5 DEF WaitRaises, MayReap, MayLapse, CallOnChild
  <2>6. ASSUME NEW s \in Stream, CloseRaises(s) \/ JoinRaises(s) PROVE Reaped'
    BY <2>6 DEF CloseRaises, JoinRaises, ToClose, MayLapse
  <2>7. QED
    BY <1>2, <2>2, <2>3, <2>4, <2>5, <2>6 DEF MainFaults
<1>3. CASE Expire
  BY <1>3 DEF Expire
<1>4. CASE (\E s \in Stream : Reader(s) \/ ReaderFaults(s)) \/ Family
  BY <1>4, OthersFrame
<1>5. CASE UNCHANGED vars
  BY <1>5 DEF vars
<1>6. QED
  BY <1>1, <1>2, <1>3, <1>4, <1>5 DEF Next

(* A step of a reader is its own, and a reader that is done stays so.      *)
LEMMA ReaderFrame ==
  ASSUME TypeOK, ClosedFirst, NEW r \in Stream, Reader(r) \/ ReaderFaults(r)
  PROVE  /\ UNCHANGED <<mainVars, child>>
         /\ \A s \in Stream : closers[s] \subseteq closers'[s]
         /\ \A s \in Stream : reader[s] = "done" => reader'[s] = "done"
         /\ ClosedFirst'
<1>0. /\ reader \in [Stream -> {"none", "draining", "feeding", "closing", "putting", "done"}]
      /\ closers \in [Stream -> SUBSET {"reader", "main"}]
  BY DEF TypeOK
<1> USE <1>0 DEF ClosedFirst, childVars
<1>1. CASE ReaderTake(r) \/ ReaderChunk(r) \/ ReaderFeed(r) \/ DrainClosed(r)
  BY <1>1 DEF ReaderTake, ReaderChunk, ReaderFeed, DrainClosed
<1>2. CASE ReaderEof(r) \/ ReaderPut(r)
  BY <1>2 DEF ReaderEof, ReaderPut
<1>3. CASE ReaderClose(r)
  BY <1>3 DEF ReaderClose
<1>4. CASE ReaderFaults(r)
  BY <1>4 DEF ReaderFaults, ConsumerFault, DrainFault
<1>5. QED
  BY <1>1, <1>2, <1>3, <1>4 DEF Reader

LEMMA StepLeft ==
  ASSUME IInv, ClosedFirst, Unread, AllJoined, [Next]_vars
  PROVE  ClosedFirst' /\ Unread' /\ AllJoined'
<1>0. /\ reader \in [Stream -> {"none", "draining", "feeding", "closing", "putting", "done"}]
      /\ closers \in [Stream -> SUBSET {"reader", "main"}]
      /\ started \in SUBSET Stream
  BY DEF IInv, TypeOK
<1>a. /\ pc \in Working \cup {"spawn"} => outcome = "none"
      /\ pc \in Cleanup => outcome \in {"failure", "raised"}
      /\ child = "unborn" => pc \in {"spawn", "returned"}
      /\ pc = "spawn" => child = "unborn"
  BY DEF IInv, OutcomeMatches, Quiet
<1> USE <1>0, <1>a DEF ClosedFirst, Unread, AllJoined, CleanedUp, Failed, Unstarted, Closed,
                       Joined, Captured, mainVars, childVars, readerVars, Working, Cleanup
<1>1. CASE Main
  <2>1. CASE Spawn \/ ConstructReader
    BY <2>1 DEF Spawn, ConstructReader
  <2>2. CASE StartReader
    BY <2>2 DEF StartReader
  <2>3. CASE AppendReader
    BY <2>3 DEF AppendReader
  <2>4. CASE GetResult \/ JoinReaders \/ WaitChild
    BY <2>4 DEF GetResult, JoinReaders, WaitChild, FailWith
  <2>5. CASE Terminate \/ Kill \/ WaitReaps \/ WaitExpires
    BY <2>5 DEF Terminate, Kill, Signal, CallOnChild, WaitReaps, WaitExpires
  <2>6. ASSUME NEW r \in Stream, ClosePipe(r)
        PROVE  ClosedFirst' /\ Unread' /\ AllJoined'
    BY <2>6 DEF ClosePipe, ToClose
  <2>7. CASE PipesClosed \/ ReturnFailure
    BY <2>7 DEF PipesClosed, ReturnFailure
  <2>8. QED
    BY <1>1, <2>1, <2>2, <2>3, <2>4, <2>5, <2>6, <2>7 DEF Main
<1>2. CASE MainFaults
  <2>1. CASE SpawnFault \/ ReaderFault \/ WaitFault \/ Interrupt
    BY <2>1 DEF SpawnFault, ReaderFault, WaitFault, Interrupt, MayReap, FailWith
  <2>2. CASE InterruptUnguarded
    BY <2>2 DEF InterruptUnguarded, MayLapse
  <2>3. CASE InterruptReturn
    <3>1. Captured => \A s \in Stream : reader[s] = "done"
      BY <2>3 DEF InterruptReturn, IInv, BothGood
    <3>2. QED
      BY <2>3, <3>1 DEF InterruptReturn
  <2>4. CASE TerminateRaises \/ KillRaises \/ WaitRaises
    BY <2>4 DEF TerminateRaises, KillRaises, SignalRaises, WaitRaises, MayLapse, CallOnChild
  <2>5. ASSUME NEW r \in Stream, CloseRaises(r)
        PROVE  ClosedFirst' /\ Unread' /\ AllJoined'
    BY <2>5 DEF CloseRaises, ToClose, MayLapse
  <2>6. ASSUME NEW r \in Stream, JoinRaises(r)
        PROVE  ClosedFirst' /\ Unread' /\ AllJoined'
    BY <2>6 DEF JoinRaises, MayLapse
  <2>7. QED
    BY <1>2, <2>1, <2>2, <2>3, <2>4, <2>5, <2>6 DEF MainFaults
<1>3. CASE Expire
  BY <1>3 DEF Expire
<1>4. ASSUME NEW r \in Stream, Reader(r) \/ ReaderFaults(r)
      PROVE  ClosedFirst' /\ Unread' /\ AllJoined'
  BY <1>4, ReaderFrame DEF IInv
<1>5. CASE Family
  <2>1. UNCHANGED <<pc, outcome, expired, mode, started, reader, closers, lapses>>
        /\ (child = "unborn" <=> child' = "unborn")
    BY <1>5 DEF Family, ChildBeginWrite, ChildWrite, DescendantWrite, ChildForks, DescendantExit,
       ChildExit, ChildTerminated, ChildKilled, Dies
  <2>2. QED
    BY <2>1
<1>6. CASE UNCHANGED vars
  BY <1>6 DEF vars
<1>7. QED
  BY <1>1, <1>2, <1>3, <1>4, <1>5, <1>6 DEF Next

Invariant == IInv /\ CloserInv /\ LeftInv

LEMMA AlwaysLeft == Spec => []Invariant
<1>1. Init => CloserInv /\ LeftInv
  <2>1. Init => TypeOK
    BY InitIInv DEF IInv
  <2>2. Init => CloserInv
    BY <2>1 DEF Init, CloserInv, MainCloses, Registered, NextStream, Stream
  <2>3. Init => LeftInv
    BY DEF Init, LeftInv, Reaped, ClosedFirst, Unread, AllJoined, CleanedUp, Failed, Stream
  <2>4. QED
    BY <2>2, <2>3
<1>2. IInv /\ LeftInv /\ [Next]_vars => LeftInv'
  BY StepReaped, StepLeft DEF LeftInv
<1>3. QED
  BY <1>1, <1>2, StepCloserInv, AlwaysIInv, PTL DEF Spec, Invariant

(* A reader whose own calls did not raise is in the list that the cleanup  *)
(* joins, or was never started.                                            *)
LEMMA NothingRuns ==
  ASSUME Invariant, CleanedUp, ~expired, Captured, NEW s \in Stream \ lapses
  PROVE  /\ closers[s] # {}
         /\ s \in started \/ "append" \notin lapses => reader[s] \in {"none", "done"}
<1>1. CASE s \in started
  <2>1. reader[s] = "done"
    BY <1>1 DEF Invariant, LeftInv, AllJoined, Joined
  <2>2. QED
    BY <2>1 DEF Invariant, LeftInv, ClosedFirst
<1>2. CASE s \notin started
  <2>1. "main" \in closers[s] \/ reader[s] = "done"
    BY <1>2 DEF Invariant, LeftInv, Unread, Unstarted, Closed, Captured
  <2>2. CASE reader[s] = "done"
    BY <2>2 DEF Invariant, LeftInv, ClosedFirst
  <2>3. CASE "main" \in closers[s]
    BY <1>2, <2>3 DEF Invariant, CloserInv, MainCloses
  <2>4. QED
    BY <2>1, <2>2, <2>3
<1>3. QED
  BY <1>1, <1>2

(* See EarlyCleanupIsComplete: before the deadline a cleanup ends with the *)
(* child reaped, the readers done and every pipe closed, but for what the  *)
(* calls that raised should have seen to.                                  *)
THEOREM CleanupLeavesNothing == Spec => []EarlyCleanupIsComplete
<1>1. ASSUME Invariant
      PROVE  EarlyCleanupIsComplete
  <2> SUFFICES ASSUME CleanedUp, ~expired
               PROVE  /\ child = "reaped" \/ {"wait1", "wait2"} \subseteq lapses
                      /\ Captured => \A s \in Stream \ lapses :
                           /\ closers[s] # {}
                           /\ s \in started \/ "append" \notin lapses =>
                                reader[s] \in {"none", "done"}
    BY DEF EarlyCleanupIsComplete, CleanedUp
  <2>1. child = "reaped" \/ {"wait1", "wait2"} \subseteq lapses
    BY <1>1 DEF Invariant, LeftInv, Reaped, CleanedUp
  <2>2. QED
    BY <1>1, <2>1, NothingRuns
<1>2. QED
  BY <1>1, AlwaysLeft, PTL

LEMMA FeedingIsAbandoned ==
  ASSUME Invariant, [Next]_vars, pc = "returned", consumed' # consumed
  PROVE  Failed /\ (expired \/ lapses \cap {"stdout", "cleanup", "append"} # {})
<1>1. reader["stdout"] = "feeding" /\ mode = "consume"
  <2>1. CASE Main \/ MainFaults \/ Expire
    BY <2>1 DEF Main, MainFaults, Expire, Spawn, ConstructReader, StartReader, AppendReader,
       GetResult, JoinReaders, WaitChild, Terminate, Kill, Signal, CallOnChild, WaitReaps,
       WaitExpires, ClosePipe, PipesClosed, ReturnFailure, SpawnFault, ReaderFault, WaitFault,
       Interrupt, InterruptUnguarded, InterruptReturn, TerminateRaises, KillRaises,
       SignalRaises, WaitRaises, CloseRaises, JoinRaises, readerVars
  <2>2. ASSUME NEW s \in Stream, Reader(s) \/ ReaderFaults(s)
        PROVE  reader["stdout"] = "feeding" /\ mode = "consume"
    BY <2>2 DEF Reader, ReaderFaults, ReaderTake, ReaderChunk, ReaderFeed, DrainClosed, ReaderEof,
       ReaderClose, ReaderPut, ConsumerFault, DrainFault
  <2>3. CASE Family
    BY <2>3 DEF Family, ChildBeginWrite, ChildWrite, DescendantWrite, ChildForks, DescendantExit,
       ChildExit, ChildTerminated, ChildKilled, Dies, readerVars
  <2>4. CASE UNCHANGED vars
    BY <2>4 DEF vars, readerVars
  <2>5. QED
    BY <2>1, <2>2, <2>3, <2>4 DEF Next
<1>2. Captured /\ "stdout" \in Stream
  BY <1>1 DEF Captured, Stream
<1>3. child # "unborn"
  BY <1>1, <1>2 DEF Invariant, IInv, Quiet, NothingYet
<1>4. Failed
  BY <1>1, <1>2 DEF Invariant, IInv, TypeOK, OutcomeMatches, BothGood, Failed
<1>5. QED
  BY <1>1, <1>2, <1>3, <1>4, NothingRuns DEF CleanedUp

(* See NoLateConsumer: after the end of the call the consumer is called    *)
(* only by a reader that the cleanup abandoned at its deadline, or for an  *)
(* exception.                                                              *)
THEOREM ConsumerIsLeftAlone == Spec => NoLateConsumer
<1>1. Invariant /\ [Next]_vars =>
        [pc = "returned" /\ consumed' # consumed =>
           Failed /\ (expired \/ lapses \cap {"stdout", "cleanup", "append"} # {})]_vars
  BY FeedingIsAbandoned
<1>2. QED
  BY <1>1, AlwaysLeft, PTL DEF Spec, NoLateConsumer
=============================================================================
