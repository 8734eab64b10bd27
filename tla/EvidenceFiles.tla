--------------------------- MODULE EvidenceFiles ----------------------------
(***************************************************************************)
(* The files through which one instrumented pytest Check hands evidence to *)
(* the controller, all in the held workspace: the start marker of the      *)
(* launcher (_check_launcher.py, check_launcher.py), the coverage data and *)
(* its copy, the staged Coverage.py and the coverage.json converted from   *)
(* the copy (coverage_execution.py, coverage_dependency.py), each read     *)
(* with the bounded reads of artifact_safety.py.                           *)
(*                                                                         *)
(* A file is read in blocks, and a block is a number.  While the           *)
(* controller reads, the launcher may still be publishing (uv was killed,  *)
(* its child was not), and processes that the tests left behind may write, *)
(* replace or remove the coverage data, add a rival data file, or damage   *)
(* the copy, the staged Coverage.py or the destination of the conversion.  *)
(***************************************************************************)
EXTENDS Integers, Sequences, SequencesExt, FiniteSets

CONSTANTS MaxBlocks,          \* the byte limits of the reads
          InterferenceBound,  \* the number of steps of the processes left behind
          CoarseClock         \* two writes may have the same time stamp

ASSUME BlocksAssumption == MaxBlocks \in Nat \ {0, 1}
ASSUME InterferenceAssumption == InterferenceBound \in Nat /\ CoarseClock \in BOOLEAN

Name == {"marker", "data", "shard", "copy", "json"}
Nothing == 0

VARIABLES
    pc,           \* the step of the controller
    objects,      \* every file there has been: its inode number, time stamp and blocks
    dir,          \* the file of every name in the workspace, or Nothing
    clock,        \* the time stamp of the last write
    staged,       \* the staged Coverage.py is what was copied
    inner,        \* the launcher: "starting", "publishing", "published",
                  \* "measured" or "ended"
    ended,        \* how the primary ended for the controller
    reading,      \* the file the controller has open, if any
    start,        \* the verdict on the marker: "none", "valid" or "invalid"
    original,     \* inode number of the coverage data
    digest,       \* and their blocks
    round,        \* the verifications of the snapshot that began
    converter,    \* "reading", "writing", "closing", or how it ended
    converted,    \* the blocks it read
    sound,        \* what surrounds the conversion is still as it was
    artifact,     \* the state of the coverage artifact, "none" while undecided
    document,     \* and its blocks
    interferences,
    quiet,        \* nothing interfered since the conversion ended
    unseen,       \* what was changed where none of the later looks can tell: the
                  \* "data" within every read of them, the "copy" and what was
                  \* "staged" between two looks at them, the "json" at any time
    versions      \* every content the coverage data have had

files == <<objects, dir, clock>>
evidence == <<start, original, digest, round, converted, sound, artifact, document>>
vars == <<pc, files, staged, inner, ended, reading, evidence, converter, interferences, quiet, unseen, versions>>

NotOpen == [object |-> Nothing]
Blocks(name) == objects[dir[name]].blocks
Moment(object) == [stamp |-> object.stamp, blocks |-> object.blocks]
Status(object) == [inode |-> objects[object].inode, stamp |-> objects[object].stamp,
                   size |-> Len(objects[object].blocks)]

\* Markers and documents are complete with their last block.
Marker == <<1, 2>>
Document(blocks) == <<FoldLeft(LAMBDA number, block : 10 * number + block, 0, blocks), 0>>
SomethingElse == <<7, 0>>
Whole(name, blocks) == IF name = "marker" THEN blocks = Marker ELSE blocks # <<>> /\ Last(blocks) = 0

Init ==
    /\ pc = "running" /\ objects = <<>> /\ dir = [name \in Name |-> Nothing] /\ clock = 0
    /\ staged = TRUE /\ inner = "starting" /\ ended = "no" /\ reading = NotOpen
    /\ start = "none" /\ original = 0 /\ digest = <<>> /\ round = 0
    /\ converter = "none" /\ converted = <<>> /\ sound = TRUE
    /\ artifact = "none" /\ document = <<>>
    /\ interferences = 0 /\ quiet = TRUE /\ unseen = {} /\ versions = {}

-----------------------------------------------------------------------------
(* Writing: every write stamps the file it changes *)

Stamp == clock' \in (IF CoarseClock /\ clock # 0 THEN {clock} ELSE {}) \cup {clock + 1}

Create(name, inode, blocks) ==
    /\ Stamp /\ objects' = Append(objects, [inode |-> inode, stamp |-> clock', blocks |-> blocks])
    /\ dir' = [dir EXCEPT ![name] = Len(objects) + 1]

Rewrite(name, blocks) ==
    /\ Stamp /\ objects' = [objects EXCEPT ![dir[name]].stamp = clock', ![dir[name]].blocks = blocks]
    /\ UNCHANGED dir

\* The last link goes: a process that has the file open still sees the change.
Unlink(name) ==
    /\ Stamp /\ objects' = [objects EXCEPT ![dir[name]].stamp = clock']
    /\ dir' = [dir EXCEPT ![name] = Nothing]

\* Its own number apart, a new file may have any that no open or named file has.
FreeInodes ==
    (1 .. 3) \ ((IF dir["data"] = Nothing THEN {} ELSE {objects[dir["data"]].inode})
                \cup (IF reading = NotOpen THEN {} ELSE {objects[reading.object].inode}))

Replace(name, inode, blocks) ==
    /\ Stamp
    /\ objects' = Append([objects EXCEPT ![dir[name]].stamp = clock'],
                         [inode |-> inode, stamp |-> clock', blocks |-> blocks])
    /\ dir' = [dir EXCEPT ![name] = Len(objects) + 1]

-----------------------------------------------------------------------------
(* The launcher, and the tests it runs *)

Publishing == UNCHANGED <<pc, staged, ended, evidence, converter, interferences, quiet, unseen, versions>>
\* What a reader may have seen of the file it has open.
Watched ==
    reading' = IF reading = NotOpen THEN reading
               ELSE [reading EXCEPT !.seen = @ \cup {Moment(objects'[reading.object])}]

\* publish_start: the marker is created, and written in pieces.
PublishStart ==
    /\ inner = "starting" /\ inner' = "publishing"
    /\ Create("marker", 1, <<Head(Marker)>>) /\ UNCHANGED reading /\ Publishing

\* The marker may have been removed under the launcher.
PublishRest ==
    /\ inner = "publishing" /\ inner' = "published"
    /\ IF dir["marker"] = Nothing THEN UNCHANGED <<files, reading>>
       ELSE Rewrite("marker", Marker) /\ Watched
    /\ Publishing

\* The module runs: what it leaves may be one data file, and more or less.
Measure ==
    /\ inner = "published" /\ pc = "running" /\ inner' = "measured"
    /\ Create("data", 1, <<1, 1>>) /\ versions' = {<<1, 1>>}
    /\ UNCHANGED <<pc, staged, ended, reading, evidence, converter, interferences, quiet, unseen>>

\* The launcher ends, by itself or killed.
Ends == inner # "ended" /\ inner' = "ended"
        /\ UNCHANGED <<files, reading>> /\ Publishing

\* execute_process: uv ends with the launcher, or is killed and leaves it behind.
PrimaryEnds ==
    /\ pc = "running" /\ pc' = "marker"
    /\ \/ inner = "ended" /\ ended' \in {"usable_exit", "other_exit"}
       \/ ended' = "signaled"
    /\ UNCHANGED <<files, staged, inner, reading, evidence, converter, interferences, quiet, unseen, versions>>

-----------------------------------------------------------------------------
(* What the processes that the tests left behind may do meanwhile *)

LeftBehind == dir["data"] # Nothing \/ versions # {}

Interferes ==
    /\ LeftBehind /\ pc \notin {"running", "done"} /\ interferences < InterferenceBound
    /\ interferences' = interferences + 1 /\ quiet' = FALSE
    /\ UNCHANGED <<pc, inner, ended, evidence, converter>>

DataNow == IF dir'["data"] = Nothing THEN versions ELSE versions \cup {objects'[dir'["data"]].blocks}

\* In place: a block is changed, the file grows, or it is cut.
WriteData ==
    /\ Interferes /\ dir["data"] # Nothing
    /\ \/ \E i \in DOMAIN Blocks("data"), block \in {1, 2} :
            Rewrite("data", [Blocks("data") EXCEPT ![i] = block])
       \/ Len(Blocks("data")) <= MaxBlocks /\ Rewrite("data", Append(Blocks("data"), 2))
       \/ Blocks("data") # <<>> /\ Rewrite("data", Front(Blocks("data")))
    /\ Watched /\ versions' = DataNow /\ UNCHANGED <<staged, unseen>>

ReplaceOrRemoveData ==
    /\ Interferes
    /\ \/ dir["data"] # Nothing
          /\ \E inode \in FreeInodes, block \in {1, 2} : Replace("data", inode, <<block, block>>)
       \/ dir["data"] # Nothing /\ Unlink("data")
       \/ dir["data"] = Nothing /\ \E inode \in FreeInodes : Create("data", inode, <<1, 1>>)
    /\ Watched /\ versions' = DataNow /\ UNCHANGED <<staged, unseen>>

\* A parallel data file of Coverage.py comes or goes.
RivalData ==
    /\ Interferes
    /\ IF dir["shard"] = Nothing THEN Create("shard", 1, <<1>>) ELSE Unlink("shard")
    /\ Watched /\ UNCHANGED <<staged, unseen, versions>>

\* A change of something is one that no look can tell if it is made when.
Unnoticed(something, when) == unseen' = IF when THEN unseen \cup {something} ELSE unseen

\* The copy is damaged, or put right: it is digested before the conversion and
\* after it.  The staged Coverage.py likewise.
DamageInput ==
    /\ Interferes
    /\ \/ /\ dir["copy"] # Nothing
          /\ \E blocks \in {<<9>>, digest} \ {Blocks("copy")} : Rewrite("copy", blocks)
          /\ Unnoticed("copy", round = 2 /\ pc \notin {"surroundings", "verify"}
                               /\ converter \in {"none", "reading"})
          /\ UNCHANGED staged
       \/ /\ staged' = ~staged /\ Unnoticed("staged", pc = "converting" /\ converter # "succeeded")
          /\ UNCHANGED files
    /\ Watched /\ UNCHANGED versions

\* coverage.json is created, written, replaced or removed.  It must be absent
\* before the conversion; after that the code only reads it.
DamageDocument ==
    /\ Interferes
    /\ \/ dir["json"] = Nothing /\ Create("json", 1, SomethingElse)
       \/ /\ dir["json"] # Nothing
          /\ Rewrite("json", SomethingElse) \/ Replace("json", 1, SomethingElse) \/ Unlink("json")
    /\ Unnoticed("json", converter \in {"closing", "succeeded"})
    /\ Watched /\ UNCHANGED <<staged, versions>>

-----------------------------------------------------------------------------
(* The bounded reads: read_regular_file until the end of the file (and the *)
(* marker the same way), digest_regular_file and copy_regular_file for as  *)
(* many blocks as the file had when it was opened                          *)

Reads == {"marker", "digest", "copy", "verify", "json"}
FileRead == IF pc \in {"digest", "copy", "verify"} THEN "data" ELSE pc
UntilTheEnd == pc \in {"marker", "json"}

TooLarge(size) == size > MaxBlocks
CanOpen == dir[FileRead] # Nothing /\ ~TooLarge(Len(Blocks(FileRead)))

OpenFile ==
    /\ pc \in Reads /\ reading = NotOpen /\ CanOpen
    /\ reading' = [object |-> dir[FileRead], initial |-> Status(dir[FileRead]), got |-> <<>>,
                   seen |-> {Moment(objects[dir[FileRead]])}]
    /\ UNCHANGED <<pc, files, staged, inner, ended, evidence, converter, interferences, quiet, unseen, versions>>

IsOpen == pc \in Reads /\ reading # NotOpen
Wanted == IF UntilTheEnd THEN MaxBlocks + 1 ELSE reading.initial.size
AtTheEnd == Len(reading.got) >= Wanted \/ Len(reading.got) >= Len(objects[reading.object].blocks)

ReadBlock ==
    /\ IsOpen /\ ~AtTheEnd
    /\ reading' = [reading EXCEPT !.got = Append(@, objects[reading.object].blocks[Len(@) + 1])]
    /\ UNCHANGED <<pc, files, staged, inner, ended, evidence, converter, interferences, quiet, unseen, versions>>

(* Mutant: the time stamps are not compared.                            *)
SameFile(object) ==
    LET status == Status(object)
    IN status.inode = reading.initial.inode /\ status.size = reading.initial.size

\* Two states of a file that its size and its time stamps do not tell apart.
TwoAlike(seen) ==
    \E one, other \in seen : one # other /\ one.stamp = other.stamp /\ Len(one.blocks) = Len(other.blocks)

\* _verify_unchanged, and _same_marker_snapshot for the marker's name as well.
SameStatus(object) == Status(object) = reading.initial
Unchanged ==
    /\ SameStatus(reading.object)
    /\ pc = "marker" => dir["marker"] # Nothing /\ SameStatus(dir["marker"])

HasRead == IsOpen /\ AtTheEnd
ReadAll == /\ HasRead /\ Unchanged /\ ~TooLarge(Len(reading.got))
           /\ UntilTheEnd \/ Len(reading.got) = reading.initial.size
Unreadable == (pc \in Reads /\ reading = NotOpen /\ ~CanOpen) \/ (HasRead /\ ~ReadAll)

\* A step of the controller that writes no file and closes the one it read.
Concludes == reading' = NotOpen
             /\ UNCHANGED <<files, staged, inner, ended, interferences, versions>>
Decides(state) ==
    /\ artifact' = state /\ pc' = "done" /\ Concludes
    /\ UNCHANGED <<start, original, digest, round, converted, sound, document, converter, quiet, unseen>>
Continues(next) == pc' = next /\ Concludes /\ UNCHANGED <<evidence, converter, quiet, unseen>>

-----------------------------------------------------------------------------
(* The start marker: validate_start_marker *)

(* Mutant: a marker is accepted for being there.                        *)
AcceptMarker ==
    /\ pc = "marker" /\ (ReadAll \/ Unreadable)
    /\ start' = IF ReadAll THEN "valid" ELSE "invalid"
    /\ pc' = "unlink" /\ Concludes
    /\ UNCHANGED <<original, digest, round, converted, sound, artifact, document, converter, quiet, unseen>>

JudgeMarker ==
    /\ pc = "marker" /\ (ReadAll \/ Unreadable)
    /\ start' = IF ReadAll /\ Whole("marker", reading.got) THEN "valid" ELSE "invalid"
    /\ pc' = "unlink" /\ Concludes
    /\ UNCHANGED <<original, digest, round, converted, sound, artifact, document, converter, quiet, unseen>>

(* Mutant: a rejected marker leaves the coverage undecided.             *)
UnlinkAndStop ==
    /\ pc = "unlink"
    /\ IF dir["marker"] = Nothing THEN UNCHANGED files ELSE Unlink("marker")
    /\ pc' = (IF start = "valid" /\ ended = "usable_exit" THEN "scan" ELSE "done")
    /\ UNCHANGED <<staged, inner, ended, reading, evidence, converter, interferences, quiet, unseen, versions>>

\* Its finally block.  Data of a primary that cannot be trusted are not read.
UnlinkMarker ==
    /\ pc = "unlink"
    /\ IF dir["marker"] = Nothing THEN UNCHANGED files ELSE Unlink("marker")
    /\ IF start = "valid" /\ ended = "usable_exit"
       THEN pc' = "scan" /\ UNCHANGED artifact
       ELSE pc' = "done" /\ artifact' = "data_missing"
    /\ UNCHANGED <<staged, inner, ended, reading, start, original, digest, round, converted, sound,
                   document, converter, interferences, quiet, unseen, versions>>

-----------------------------------------------------------------------------
(* The snapshot: prepare_coverage_data_snapshot *)

\* _reject_shards and _regular_leaf_identity.
Scan ==
    /\ pc = "scan"
    /\ IF dir["shard"] # Nothing THEN Decides("unexpected_parallel_data") ELSE Continues("identify")

Identify ==
    /\ pc = "identify"
    /\ IF dir["data"] = Nothing THEN Decides("data_missing")
       ELSE /\ original' = objects[dir["data"]].inode /\ pc' = "digest" /\ Concludes
            /\ UNCHANGED <<start, digest, round, converted, sound, artifact, document, converter, quiet, unseen>>

Digest ==
    /\ pc = "digest"
    /\ \/ /\ ReadAll /\ digest' = reading.got /\ pc' = "copy" /\ Concludes
          /\ unseen' = unseen \cup (IF TwoAlike(reading.seen) THEN {"data"} ELSE {})
          /\ UNCHANGED <<start, original, round, converted, sound, artifact, document, converter, quiet>>
       \/ Unreadable /\ Decides(IF reading = NotOpen THEN "data_missing" ELSE "unexpected_parallel_data")

\* The data are read again and are as they were digested.
ReadAgain ==
    /\ ReadAll /\ reading.got = digest
    /\ unseen' = IF TwoAlike(reading.seen) THEN unseen ELSE unseen \ {"data"}

\* copy_regular_file into report-input, and the comparison of the digests.
Copy ==
    /\ pc = "copy"
    /\ \/ /\ ReadAgain /\ Create("copy", 1, reading.got)
          /\ reading' = NotOpen /\ round' = 1 /\ pc' = "surroundings"
          /\ UNCHANGED <<staged, inner, ended, start, original, digest, converted, sound, artifact,
                         document, converter, interferences, quiet, versions>>
       \/ /\ Unreadable \/ (ReadAll /\ reading.got # digest)
          /\ Decides("unexpected_parallel_data")

-----------------------------------------------------------------------------
(* verify_coverage_data_snapshot: twice before the conversion, once after *)

SameData == dir["data"] # Nothing /\ objects[dir["data"]].inode = original
SnapshotChanged ==
    IF round < 3 THEN Decides("unexpected_parallel_data")
    ELSE /\ sound' = FALSE /\ pc' = "classify" /\ Concludes
         /\ UNCHANGED <<start, original, digest, round, converted, artifact, document, converter, quiet, unseen>>

(* Mutant: rival data are only looked for before the copy.              *)
SurroundingsWithoutRivals ==
    pc = "surroundings" /\ IF SameData THEN Continues("verify") ELSE SnapshotChanged

Surroundings ==
    /\ pc = "surroundings"
    /\ IF dir["shard"] = Nothing /\ SameData THEN Continues("verify") ELSE SnapshotChanged

Passes == pc' = "reidentify" /\ Concludes /\ UNCHANGED <<evidence, converter, quiet>>

(* Mutant: the copy is not digested again.                              *)
VerifyOriginal ==
    /\ pc = "verify"
    /\ \/ ReadAgain /\ Passes
       \/ /\ Unreadable \/ (ReadAll /\ reading.got # digest)
          /\ SnapshotChanged

Verify ==
    /\ pc = "verify"
    /\ \/ ReadAgain /\ Blocks("copy") = digest /\ Passes
       \/ /\ Unreadable \/ (ReadAll /\ (reading.got # digest \/ Blocks("copy") # digest))
          /\ SnapshotChanged

(* Mutant: the destination must be absent after the conversion, too.    *)
ReidentifyThenDestination ==
    /\ pc = "reidentify"
    /\ IF ~SameData THEN SnapshotChanged
       ELSE /\ pc' = IF round = 1 THEN "surroundings" ELSE "destination"
            /\ round' = IF round = 1 THEN 2 ELSE round
            /\ Concludes
            /\ UNCHANGED <<start, original, digest, converted, sound, artifact, document, converter, quiet, unseen>>

Reidentify ==
    /\ pc = "reidentify"
    /\ IF ~SameData THEN SnapshotChanged
       ELSE /\ pc' = CASE round = 1 -> "surroundings" [] round = 2 -> "destination" [] round = 3 -> "classify"
            /\ round' = IF round = 1 THEN 2 ELSE round
            /\ Concludes
            /\ UNCHANGED <<start, original, digest, converted, sound, artifact, document, converter, quiet, unseen>>

-----------------------------------------------------------------------------
(* The conversion: _generate_coverage_json *)

\* require_coverage_json_destination_absent.
Destination ==
    /\ pc = "destination"
    /\ IF dir["json"] # Nothing THEN Decides("unexpected_parallel_data") ELSE Continues("staged")

\* ensure_staged_coverage_dependency, before the conversion.
EnsureStaged ==
    /\ pc = "staged"
    /\ IF staged
       THEN /\ pc' = "converting" /\ converter' = "reading" /\ Concludes /\ UNCHANGED <<evidence, quiet, unseen>>
       ELSE Decides("generation_failed")

\* What the converter writes is its document, unless its code was changed; and
\* what it closes need not be the file of that name, or as it wrote it.
ConverterActs(next) ==
    /\ pc = "converting" /\ converter' = next
    /\ UNCHANGED <<pc, staged, inner, ended, reading, start, original, digest, round, sound, artifact,
                   document, interferences, quiet, unseen, versions>>

ConverterReads ==
    /\ converter = "reading" /\ ConverterActs("writing")
    /\ converted' = Blocks("copy") /\ UNCHANGED files
ConverterWrites ==
    /\ converter = "writing" /\ ConverterActs("closing") /\ UNCHANGED converted
    /\ LET head == <<Head(Document(converted))>>
       IN IF dir["json"] = Nothing THEN Create("json", 1, head) ELSE Rewrite("json", head)
ConverterCloses ==
    /\ converter = "closing" /\ ConverterActs("succeeded") /\ UNCHANGED converted
    /\ \/ dir["json"] # Nothing /\ Rewrite("json", Document(converted))
       \/ dir["json"] # Nothing /\ "staged" \in unseen /\ Rewrite("json", SomethingElse)
       \/ "json" \in unseen /\ UNCHANGED files

\* The converter ends, or fails on its way; what is staged is looked at again.
ConverterEnds ==
    /\ pc = "converting"
    /\ converter' \in IF converter = "succeeded" THEN {"succeeded"}
                      ELSE {"failed", "signaled"} \cup (IF converter = "reading" THEN {"spawn_failed"} ELSE {})
    /\ sound' = staged /\ round' = 3 /\ quiet' = TRUE /\ pc' = "surroundings" /\ Concludes
    /\ UNCHANGED <<start, original, digest, converted, artifact, document, unseen>>

Classify ==
    /\ pc = "classify"
    /\ CASE converter = "spawn_failed" -> Decides("spawn_failed")
         [] converter = "signaled" -> Decides("terminated_by_signal")
         [] converter \in {"failed", "succeeded"} /\ ~sound -> Decides("unexpected_parallel_data")
         [] converter = "failed" /\ sound -> Decides("generation_failed")
         [] converter = "succeeded" /\ sound -> Continues("json")

\* snapshot_coverage_json.
ReadDocument ==
    /\ pc = "json"
    /\ \/ /\ ReadAll /\ Whole("json", reading.got)
          /\ artifact' = "snapshot" /\ document' = reading.got /\ pc' = "done" /\ Concludes
          /\ UNCHANGED <<start, original, digest, round, converted, sound, converter, quiet, unseen>>
       \/ ReadAll /\ ~Whole("json", reading.got) /\ Decides("artifact_invalid")
       \/ Unreadable /\ Decides(IF reading = NotOpen /\ dir["json"] = Nothing THEN "artifact_missing" ELSE "artifact_invalid")

Next ==
    \/ PublishStart \/ PublishRest \/ Measure \/ Ends \/ PrimaryEnds
    \/ WriteData \/ ReplaceOrRemoveData \/ RivalData \/ DamageInput \/ DamageDocument
    \/ OpenFile \/ ReadBlock
    \/ JudgeMarker \/ UnlinkMarker
    \/ Scan \/ Identify \/ Digest \/ Copy
    \/ Surroundings \/ Verify \/ Reidentify
    \/ Destination \/ EnsureStaged
    \/ ConverterReads \/ ConverterWrites \/ ConverterCloses \/ ConverterEnds
    \/ Classify \/ ReadDocument

Spec == Init /\ [][Next]_vars

-----------------------------------------------------------------------------
(* Properties *)

Verdicts == {"none", "data_missing", "unexpected_parallel_data", "generation_failed", "artifact_missing",
             "artifact_invalid", "spawn_failed", "terminated_by_signal", "snapshot"}

\* The files of the workspace, the reading of one of them and the verdicts.
TypeOK ==
    /\ \A i \in DOMAIN objects : objects[i].stamp <= clock /\ Len(objects[i].blocks) <= MaxBlocks + 1
    /\ dir \in [Name -> 0 .. Len(objects)]
    /\ \A name \in Name : dir[name] # Nothing => \A other \in Name \ {name} : dir[other] # dir[name]
    /\ reading # NotOpen => /\ pc \in Reads /\ Len(reading.got) <= MaxBlocks + 1
                            /\ reading.object \in DOMAIN objects
                            /\ Moment(objects[reading.object]) \in reading.seen
    /\ artifact \in Verdicts /\ start \in {"none", "valid", "invalid"} /\ round \in 0 .. 3
    /\ (pc = "done") <=> (artifact # "none")
    /\ interferences \in 0 .. InterferenceBound

\* What was read and not refused are the bytes that the file had at one
\* moment, though it may have been written, cut or replaced meanwhile, unless
\* two of its states bore the same time stamp and the same size.
ReadingIsOneMoment ==
    ReadAll => (\E moment \in reading.seen : moment.blocks = reading.got) \/ TwoAlike(reading.seen)

\* A marker is only accepted when the launcher has published the whole of it,
\* and is removed with the verdict; coverage data are only looked at after an
\* accepted marker and an exit.
AcceptedStartIsWhole ==
    /\ start = "valid" => inner \notin {"starting", "publishing"}
    /\ start = "valid" /\ pc # "unlink" => dir["marker"] = Nothing
    /\ pc \notin {"running", "marker", "unlink", "done"} \/ digest # <<>> =>
         start = "valid" /\ ended = "usable_exit"

\* A document is accepted only if a Check that started and a converter that
\* succeeded are behind it.  It is the whole conversion of what the converter
\* read, that is what was digested, that is what the data file held at one
\* moment: unless Coverage.py or the document was changed while none looks,
\* or the copy between its two digests, or the data within every single read
\* of them and within one tick of the clock.  What nothing rivalled, replaced
\* or changed after the conversion is as it was digested.  And without
\* interference the evidence of a Check that ended and left data that could
\* be converted is accepted.
AcceptedIsConvertedOriginal ==
    /\ artifact = "snapshot" =>
          /\ converter = "succeeded" /\ start = "valid"
          /\ document = Document(converted) \/ unseen \cap {"staged", "json"} # {}
          /\ converted = digest \/ "copy" \in unseen
          /\ digest \in versions \/ "data" \in unseen
          /\ quiet => SameData /\ Blocks("data") = digest /\ dir["shard"] = Nothing /\ staged
    /\ pc = "done" /\ interferences = 0 =>
          ((artifact = "snapshot") <=>
              ended = "usable_exit" /\ versions # {} /\ converter = "succeeded")
=============================================================================
