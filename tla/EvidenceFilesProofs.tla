------------------------ MODULE EvidenceFilesProofs -------------------------
(***************************************************************************)
(* For every limit of the reads, any number of steps of the processes left *)
(* behind and both kinds of clock: what a bounded read of a file that is   *)
(* being written returns, when the start of a Check is accepted, and of    *)
(* what an accepted document of coverage is the conversion.                *)
(***************************************************************************)
EXTENDS EvidenceFiles, SequenceTheorems, TLAPS

(* The contents a file can have: what the converter writes first is the    *)
(* only block that is computed.                                            *)
Content == Seq(Nat)
Block == Nat \cup {Head(Document(blocks)) : blocks \in Content}
File == [inode : Nat, stamp : Nat, blocks : Seq(Block)]
MomentOfFile == [stamp : Nat, blocks : Seq(Block)]
Reading == [object : Nat \ {Nothing}, initial : [inode : Nat, stamp : Nat, size : Nat],
            got : Seq(Block), seen : SUBSET MomentOfFile]

-----------------------------------------------------------------------------
(* The argument about one read.  As long as no two moments of the file     *)
(* have the same size, the file can only have grown and been cut: of any   *)
(* two moments one begins the other, and between their sizes there is a    *)
(* moment of every size.                                                   *)

\* Two sequences do not contradict each other.
Agree(one, other) == \A i \in 1 .. Len(one) : i <= Len(other) => one[i] = other[i]

\* One write: a block is changed, or the end moves by one block.
OneWrite(before, after) ==
  \/ Len(after) = Len(before)
  \/ Agree(before, after) /\ Len(after) \in {Len(before) - 1, Len(before) + 1}

SizesTell(seen) ==
  \A one, other \in seen : Len(one.blocks) = Len(other.blocks) => one = other

Chain(seen) ==
  /\ \A one, other \in seen : Agree(one.blocks, other.blocks)
  /\ \A one, other \in seen : \A size \in Len(one.blocks) .. Len(other.blocks) :
       \E moment \in seen : Len(moment.blocks) = size

Begins(got, seen) ==
  \E moment \in seen : Len(got) <= Len(moment.blocks) /\ Agree(got, moment.blocks)

(* A write that leaves the sizes telling prolongs the chain at an end of   *)
(* it, or repeats a moment of it.                                          *)
LEMMA ChainGrows ==
  ASSUME NEW seen, seen \subseteq MomentOfFile, NEW old \in seen, NEW new \in MomentOfFile,
         Chain(seen), OneWrite(old.blocks, new.blocks), SizesTell(seen \cup {new})
  PROVE  Chain(seen \cup {new})
<1>1. \A m \in seen \cup {new} : m.blocks \in Seq(Block) /\ Len(m.blocks) \in Nat
  BY DEF MomentOfFile
<1>2. CASE \E m \in seen : Len(m.blocks) = Len(new.blocks)
  <2>1. new \in seen
    BY <1>2 DEF SizesTell
  <2>2. seen \cup {new} = seen
    BY <2>1
  <2> QED BY <2>2
<1>3. CASE \A m \in seen : Len(m.blocks) # Len(new.blocks)
  <2>1. /\ Agree(old.blocks, new.blocks)
        /\ Len(new.blocks) \in {Len(old.blocks) - 1, Len(old.blocks) + 1}
    BY <1>3 DEF OneWrite
  <2>2. ASSUME NEW m \in seen
        PROVE  /\ Len(old.blocks) < Len(new.blocks) => Len(m.blocks) <= Len(old.blocks)
               /\ Len(new.blocks) < Len(old.blocks) => Len(m.blocks) >= Len(old.blocks)
    <3>1. Len(m.blocks) \in Nat /\ Len(old.blocks) \in Nat /\ Len(new.blocks) \in Nat
      BY <1>1
    <3>2. /\ Len(new.blocks) \notin Len(m.blocks) .. Len(old.blocks)
          /\ Len(new.blocks) \notin Len(old.blocks) .. Len(m.blocks)
      BY <1>3 DEF Chain
    <3> QED BY <3>1, <3>2, <2>1
  <2>3. ASSUME NEW m \in seen
        PROVE  Agree(m.blocks, new.blocks) /\ Agree(new.blocks, m.blocks)
    <3>1. Agree(m.blocks, old.blocks)
      BY DEF Chain
    <3> QED BY <1>1, <2>1, <2>2, <3>1 DEF Agree
  <2>4. Agree(new.blocks, new.blocks)
    BY DEF Agree
  <2>5. \A one, other \in seen \cup {new} : Agree(one.blocks, other.blocks)
    BY <2>3, <2>4 DEF Chain
  <2>6. ASSUME NEW one \in seen \cup {new}, NEW other \in seen \cup {new},
               NEW size \in Len(one.blocks) .. Len(other.blocks)
        PROVE  \E moment \in seen \cup {new} : Len(moment.blocks) = size
    <3>1. CASE size = Len(new.blocks)
      BY <3>1
    <3>2. CASE size # Len(new.blocks)
      <4>1. size \in Nat
        BY <1>1
      <4>2. PICK first \in seen : Len(first.blocks) <= size
        <5>1. CASE one \in seen
          BY <5>1, <1>1
        <5>2. CASE one = new
          <6>1. other \in seen
            BY <5>2, <3>2, <4>1, <1>1
          <6>2. Len(new.blocks) < size /\ size <= Len(other.blocks)
            BY <5>2, <3>2, <1>1
          <6>3. Len(old.blocks) <= size
            BY <6>1, <6>2, <2>1, <2>2, <1>1
          <6> QED BY <6>3
        <5> QED BY <5>1, <5>2
      <4>3. PICK final \in seen : size <= Len(final.blocks)
        <5>1. CASE other \in seen
          BY <5>1, <1>1
        <5>2. CASE other = new
          <6>1. one \in seen
            BY <5>2, <3>2, <4>1, <1>1
          <6>2. size < Len(new.blocks) /\ Len(one.blocks) <= size
            BY <5>2, <3>2, <1>1
          <6>3. size <= Len(old.blocks)
            BY <6>1, <6>2, <2>1, <2>2, <1>1
          <6> QED BY <6>3
        <5> QED BY <5>1, <5>2
      <4>4. size \in Len(first.blocks) .. Len(final.blocks)
        BY <4>1, <4>2, <4>3, <1>1
      <4> QED BY <4>4 DEF Chain
    <3> QED BY <3>1, <3>2
  <2> QED BY <2>5, <2>6 DEF Chain
<1> QED BY <1>2, <1>3

(* The next block of the file as it is now continues what was read.        *)
LEMMA ReadingContinues ==
  ASSUME NEW seen, seen \subseteq MomentOfFile, NEW now \in seen, Chain(seen),
         NEW got \in Seq(Block), Begins(got, seen), Len(got) < Len(now.blocks)
  PROVE  Begins(Append(got, now.blocks[Len(got) + 1]), seen)
<1> DEFINE more == Append(got, now.blocks[Len(got) + 1])
<1>1. PICK moment \in seen : Len(got) <= Len(moment.blocks) /\ Agree(got, moment.blocks)
  BY DEF Begins
<1>2. now.blocks \in Seq(Block) /\ Len(now.blocks) \in Nat /\ Len(got) \in Nat
      /\ Len(moment.blocks) \in Nat
  BY DEF MomentOfFile
<1>3. Agree(got, now.blocks)
  <2>1. Agree(moment.blocks, now.blocks)
    BY DEF Chain
  <2> QED BY <1>1, <1>2, <2>1 DEF Agree
<1>4. now.blocks[Len(got) + 1] \in Block
  BY <1>2
<1>5. /\ Len(more) = Len(got) + 1
      /\ \A i \in 1 .. Len(got) : more[i] = got[i]
      /\ more[Len(got) + 1] = now.blocks[Len(got) + 1]
  BY <1>4
<1>6. Len(more) <= Len(now.blocks) /\ Agree(more, now.blocks)
  BY <1>2, <1>3, <1>5 DEF Agree
<1> QED BY <1>6 DEF Begins

(* What was read to the end of the file as it is now is a moment of it.    *)
LEMMA WholeReadIsAMoment ==
  ASSUME NEW seen, seen \subseteq MomentOfFile, NEW now \in seen, Chain(seen),
         NEW got \in Seq(Block), Begins(got, seen), Len(got) >= Len(now.blocks)
  PROVE  \E moment \in seen : moment.blocks = got
<1>1. PICK long \in seen : Len(got) <= Len(long.blocks) /\ Agree(got, long.blocks)
  BY DEF Begins
<1>2. /\ Len(now.blocks) \in Nat /\ Len(got) \in Nat
      /\ long.blocks \in Seq(Block) /\ Len(long.blocks) \in Nat
  BY DEF MomentOfFile
<1>3. Len(got) \in Len(now.blocks) .. Len(long.blocks)
  BY <1>1, <1>2
<1>4. PICK moment \in seen : Len(moment.blocks) = Len(got)
  BY <1>3 DEF Chain
<1>5. Agree(moment.blocks, long.blocks)
  BY DEF Chain
<1>6. moment.blocks \in Seq(Block)
  BY DEF MomentOfFile
<1>7. \A i \in 1 .. Len(got) : moment.blocks[i] = got[i]
  BY <1>1, <1>2, <1>4, <1>5 DEF Agree
<1>8. moment.blocks = got
  BY <1>4, <1>6, <1>7, SeqEqual
<1> QED BY <1>8

-----------------------------------------------------------------------------
(* The invariant *)

(* Every file has its contents and stamps, and at most one name.           *)
FilesInv ==
  /\ objects \in Seq(File) /\ clock \in Nat
  /\ \A o \in 1 .. Len(objects) :
       objects[o].stamp <= clock /\ Len(objects[o].blocks) <= MaxBlocks + 1
  /\ dir \in [Name -> 0 .. Len(objects)]
  /\ \A one, other \in Name : dir[one] = dir[other] /\ dir[one] # Nothing => one = other
  /\ \A name \in {"marker", "data", "copy"} : dir[name] # Nothing => Blocks(name) \in Content

(* Where the controller is, and what it has by then.                       *)
Ended == {"succeeded", "failed", "signaled", "spawn_failed"}
AfterCopy == {"surroundings", "verify", "reidentify", "destination", "staged", "converting",
              "classify", "json"}
ControlInv ==
  /\ pc \in {"running", "unlink", "scan", "identify", "done"} \cup Reads \cup AfterCopy
  /\ inner \in {"starting", "publishing", "published", "measured", "ended"}
  /\ converter \in {"none", "reading", "writing", "closing"} \cup Ended
  /\ start \in {"none", "valid", "invalid"} /\ artifact \in Verdicts
  /\ round \in 0 .. 3 /\ interferences \in 0 .. InterferenceBound
  /\ digest \in Content /\ Len(digest) <= MaxBlocks + 1 /\ converted \in Content
  /\ pc = "done" <=> artifact # "none"
  /\ pc \in AfterCopy => dir["copy"] # Nothing
  /\ pc \in {"running", "marker", "unlink", "scan", "identify", "digest", "copy"} => round = 0
  /\ round < 3 /\ pc # "converting" => converter = "none"
  /\ pc \in {"surroundings", "verify", "reidentify"} => round # 0
  /\ pc \in {"destination", "staged", "converting"} => round = 2
  /\ pc = "classify" => round = 3
  /\ round = 3 => converter \in Ended
  /\ pc = "converting" => converter \in {"reading", "writing", "closing", "succeeded"}
  /\ pc = "json" => converter = "succeeded"
  /\ "json" \in unseen => converter \in {"closing"} \cup Ended
  /\ converter \in {"closing", "succeeded"} => dir["json"] # Nothing \/ "json" \in unseen

(* A document that was closed, or put in its place, has both its blocks.   *)
DocumentInv ==
  dir["json"] # Nothing /\ (converter = "succeeded" \/ "json" \in unseen) => Len(Blocks("json")) = 2

(* The read that goes on: its file is the one that has the name, or had    *)
(* it, and has no other; and the chain of its moments.                     *)
Still == /\ SizesTell(reading.seen)
         /\ \A moment \in reading.seen : moment.stamp = reading.initial.stamp
ReadInv ==
  reading # NotOpen =>
    /\ pc \in Reads /\ reading \in Reading
    /\ reading.object \in 1 .. Len(objects)
    /\ Moment(objects[reading.object]) \in reading.seen
    /\ Len(reading.got) <= MaxBlocks + 1
    /\ pc = "marker" => reading.object = dir["marker"]
    /\ \A name \in Name \ {FileRead} : dir[name] # reading.object
    /\ pc # "json" => objects[reading.object].blocks \in Content /\ reading.got \in Content
    /\ \A moment \in reading.seen : /\ reading.initial.stamp <= moment.stamp
                                    /\ moment.stamp <= objects[reading.object].stamp
    /\ Still => Chain(reading.seen) /\ Begins(reading.got, reading.seen)

(* How far the launcher is with its marker.                                *)
StartInv ==
  /\ inner = "starting" => dir["marker"] = Nothing
  /\ inner = "publishing" /\ dir["marker"] # Nothing => Blocks("marker") = <<1>>
  /\ pc = "marker" /\ inner = "publishing" /\ reading # NotOpen => Len(reading.got) <= 1
  /\ pc \in {"running", "marker"} => start = "none"
  /\ AcceptedStartIsWhole

Inv == FilesInv /\ ControlInv /\ DocumentInv /\ ReadInv /\ StartInv

USE BlocksAssumption, InterferenceAssumption DEF Nothing

(* The four ways to write keep the files in order.                         *)
LEMMA CreateFile ==
  ASSUME FilesInv, NEW name \in Name, NEW inode \in Nat, NEW blocks \in Seq(Block),
         Len(blocks) <= MaxBlocks + 1,
         name \in {"marker", "data", "copy"} => blocks \in Content,
         Create(name, inode, blocks)
  PROVE  /\ FilesInv'
         /\ Len(objects') = Len(objects) + 1
         /\ \A o \in 1 .. Len(objects) : objects'[o] = objects[o]
         /\ objects'[Len(objects) + 1].blocks = blocks
         /\ dir' = [dir EXCEPT ![name] = Len(objects) + 1]
<1>1. clock' \in Nat /\ clock <= clock'
  BY DEF Create, Stamp, FilesInv
<1> DEFINE new == [inode |-> inode, stamp |-> clock', blocks |-> blocks]
<1>2. new \in File
  BY <1>1 DEF File
<1>3. objects \in Seq(File) /\ objects' = Append(objects, new)
  BY DEF Create, FilesInv
<1> HIDE DEF new
<1>4. /\ objects' \in Seq(File) /\ Len(objects') = Len(objects) + 1 /\ Len(objects) \in Nat
      /\ \A o \in 1 .. Len(objects) : objects'[o] = objects[o]
      /\ objects'[Len(objects) + 1] = new
  BY <1>2, <1>3
<1>5. new.stamp = clock' /\ new.blocks = blocks
  BY DEF new
<1>6. dir' = [dir EXCEPT ![name] = Len(objects) + 1] /\ dir \in [Name -> 0 .. Len(objects)]
  BY DEF Create, FilesInv
<1>7. dir' \in [Name -> 0 .. Len(objects')]
  BY <1>4, <1>6
<1>8. ASSUME NEW o \in 1 .. Len(objects')
      PROVE  objects'[o].stamp <= clock' /\ Len(objects'[o].blocks) <= MaxBlocks + 1
  <2>1. CASE o \in 1 .. Len(objects)
    <3>1. objects'[o] = objects[o] /\ objects[o] \in File
      BY <1>3, <1>4, <2>1
    <3>2. objects[o].stamp <= clock /\ Len(objects[o].blocks) <= MaxBlocks + 1
      BY <2>1 DEF FilesInv
    <3>3. objects[o].stamp \in Nat /\ clock \in Nat
      BY <3>1 DEF File, FilesInv
    <3> QED BY <3>1, <3>2, <3>3, <1>1
  <2>2. CASE o = Len(objects) + 1
    BY <2>2, <1>1, <1>4, <1>5
  <2> QED BY <1>4, <2>1, <2>2
<1>9. \A one, other \in Name : dir'[one] = dir'[other] /\ dir'[one] # Nothing => one = other
  BY <1>4, <1>6 DEF FilesInv
<1>10. \A n \in {"marker", "data", "copy"} : dir'[n] # Nothing => objects'[dir'[n]].blocks \in Content
  <2> SUFFICES ASSUME NEW n \in {"marker", "data", "copy"}, dir'[n] # Nothing
               PROVE  objects'[dir'[n]].blocks \in Content
    OBVIOUS
  <2>1. n \in Name
    BY DEF Name
  <2>2. CASE n = name
    BY <2>1, <2>2, <1>4, <1>5, <1>6
  <2>3. CASE n # name
    <3>1. dir'[n] = dir[n] /\ dir[n] \in 1 .. Len(objects)
      BY <2>1, <2>3, <1>6, <1>4
    <3>2. objects[dir[n]].blocks \in Content
      BY <3>1 DEF FilesInv, Blocks
    <3> QED BY <3>1, <3>2, <1>4
  <2> QED BY <2>2, <2>3
<1> QED BY <1>1, <1>4, <1>5, <1>6, <1>7, <1>8, <1>9, <1>10 DEF FilesInv, Blocks

LEMMA RewriteFile ==
  ASSUME FilesInv, NEW name \in Name, dir[name] # Nothing, NEW blocks \in Seq(Block),
         Len(blocks) <= MaxBlocks + 1,
         name \in {"marker", "data", "copy"} => blocks \in Content,
         Rewrite(name, blocks)
  PROVE  /\ FilesInv'
         /\ Len(objects') = Len(objects)
         /\ \A o \in 1 .. Len(objects) : o # dir[name] => objects'[o] = objects[o]
         /\ objects'[dir[name]].blocks = blocks
         /\ objects'[dir[name]].stamp >= objects[dir[name]].stamp
         /\ dir' = dir
<1>1. clock' \in Nat /\ clock \in Nat /\ clock <= clock'
  BY DEF Rewrite, Stamp, FilesInv
<1> DEFINE file == dir[name]
<1> DEFINE new == [objects[file] EXCEPT !.stamp = clock', !.blocks = blocks]
<1>2. file \in 1 .. Len(objects) /\ objects \in Seq(File) /\ Len(objects) \in Nat
  BY DEF FilesInv
<1>3. objects[file] \in File
  BY <1>2
<1>4. new \in File /\ new.stamp = clock' /\ new.blocks = blocks
  BY <1>1, <1>3 DEF File
<1>5. objects' = [objects EXCEPT ![file] = new]
  BY <1>2, <1>3 DEF Rewrite, File
<1>6. objects[file].stamp \in Nat /\ objects[file].stamp <= clock
  BY <1>2, <1>3 DEF FilesInv, File
<1> HIDE DEF new
<1>7. /\ objects' \in Seq(File) /\ Len(objects') = Len(objects)
      /\ \A o \in 1 .. Len(objects) : o # file => objects'[o] = objects[o]
      /\ objects'[file] = new
  BY <1>2, <1>4, <1>5
<1>8. dir' = dir
  BY DEF Rewrite
<1>9. ASSUME NEW o \in 1 .. Len(objects')
      PROVE  objects'[o].stamp <= clock' /\ Len(objects'[o].blocks) <= MaxBlocks + 1
  <2>1. CASE o # file
    <3>1. objects'[o] = objects[o] /\ objects[o] \in File
      BY <1>2, <1>7, <2>1
    <3>2. objects[o].stamp <= clock /\ Len(objects[o].blocks) <= MaxBlocks + 1
      BY <1>7 DEF FilesInv
    <3>3. objects[o].stamp \in Nat
      BY <3>1 DEF File
    <3> QED BY <3>1, <3>2, <3>3, <1>1
  <2>2. CASE o = file
    BY <2>2, <1>1, <1>4, <1>7
  <2> QED BY <2>1, <2>2
<1>10. \A n \in {"marker", "data", "copy"} : dir[n] # Nothing => objects'[dir[n]].blocks \in Content
  <2> SUFFICES ASSUME NEW n \in {"marker", "data", "copy"}, dir[n] # Nothing
               PROVE  objects'[dir[n]].blocks \in Content
    OBVIOUS
  <2>1. n \in Name /\ dir[n] \in 1 .. Len(objects)
    BY DEF Name, FilesInv
  <2>2. CASE n = name
    BY <2>2, <1>4, <1>7
  <2>3. CASE n # name
    <3>1. dir[n] # file
      BY <2>1, <2>3 DEF FilesInv
    <3>2. objects[dir[n]].blocks \in Content
      BY DEF FilesInv, Blocks
    <3> QED BY <3>1, <3>2, <2>1, <1>7
  <2> QED BY <2>2, <2>3
<1>11. FilesInv'
  <2>1. dir' \in [Name -> 0 .. Len(objects')]
    BY <1>7, <1>8 DEF FilesInv
  <2>2. \A one, other \in Name : dir'[one] = dir'[other] /\ dir'[one] # Nothing => one = other
    BY <1>8 DEF FilesInv
  <2> QED BY <1>1, <1>7, <1>8, <1>9, <1>10, <2>1, <2>2 DEF FilesInv, Blocks
<1> QED BY <1>1, <1>4, <1>6, <1>7, <1>8, <1>11

LEMMA UnlinkFile ==
  ASSUME FilesInv, NEW name \in Name, dir[name] # Nothing, Unlink(name)
  PROVE  /\ FilesInv'
         /\ Len(objects') = Len(objects)
         /\ \A o \in 1 .. Len(objects) : /\ objects'[o].blocks = objects[o].blocks
                                         /\ objects'[o].stamp >= objects[o].stamp
                                         /\ o # dir[name] => objects'[o] = objects[o]
         /\ dir' = [dir EXCEPT ![name] = Nothing]
<1>1. clock' \in Nat /\ clock \in Nat /\ clock <= clock'
  BY DEF Unlink, Stamp, FilesInv
<1> DEFINE file == dir[name]
<1> DEFINE new == [objects[file] EXCEPT !.stamp = clock']
<1>2. file \in 1 .. Len(objects) /\ objects \in Seq(File) /\ Len(objects) \in Nat
  BY DEF FilesInv
<1>3. objects[file] \in File
  BY <1>2
<1>4. new \in File /\ new.stamp = clock' /\ new.blocks = objects[file].blocks
  BY <1>1, <1>3 DEF File
<1>5. objects' = [objects EXCEPT ![file] = new]
  BY <1>2, <1>3 DEF Unlink, File
<1> HIDE DEF new
<1>6. /\ objects' \in Seq(File) /\ Len(objects') = Len(objects)
      /\ \A o \in 1 .. Len(objects) : o # file => objects'[o] = objects[o]
      /\ objects'[file] = new
  BY <1>2, <1>4, <1>5
<1>7. dir' = [dir EXCEPT ![name] = Nothing] /\ dir \in [Name -> 0 .. Len(objects)]
  BY DEF Unlink, FilesInv
<1>8. ASSUME NEW o \in 1 .. Len(objects)
      PROVE  /\ objects'[o].stamp <= clock' /\ Len(objects'[o].blocks) <= MaxBlocks + 1
             /\ objects'[o].blocks = objects[o].blocks
             /\ objects'[o].stamp >= objects[o].stamp
  <2>0. objects[o] \in File
    BY <1>2
  <2>1. objects[o].stamp \in Nat
    BY <2>0 DEF File
  <2>2. objects[o].stamp <= clock /\ Len(objects[o].blocks) <= MaxBlocks + 1
    BY DEF FilesInv
  <2>3. CASE o # file
    BY <2>1, <2>2, <2>3, <1>1, <1>6
  <2>4. CASE o = file
    BY <2>1, <2>2, <2>4, <1>1, <1>4, <1>6
  <2> QED BY <2>3, <2>4
<1>9. dir' \in [Name -> 0 .. Len(objects')]
  BY <1>2, <1>6, <1>7
<1>10. \A one, other \in Name : dir'[one] = dir'[other] /\ dir'[one] # Nothing => one = other
  BY <1>7 DEF FilesInv
<1>11. \A n \in {"marker", "data", "copy"} : dir'[n] # Nothing => objects'[dir'[n]].blocks \in Content
  <2> SUFFICES ASSUME NEW n \in {"marker", "data", "copy"}, dir'[n] # Nothing
               PROVE  objects'[dir'[n]].blocks \in Content
    OBVIOUS
  <2>1. n \in Name
    BY DEF Name
  <2>2. dir'[n] = dir[n] /\ dir[n] \in 1 .. Len(objects)
    BY <2>1, <1>2, <1>7
  <2>3. objects[dir[n]].blocks \in Content
    BY <2>2 DEF FilesInv, Blocks
  <2> QED BY <2>2, <2>3, <1>8
<1>12. FilesInv'
  BY <1>1, <1>6, <1>8, <1>9, <1>10, <1>11 DEF FilesInv, Blocks
<1> QED BY <1>6, <1>7, <1>8, <1>12

LEMMA ReplaceFile ==
  ASSUME FilesInv, NEW name \in Name, dir[name] # Nothing, NEW inode \in Nat,
         NEW blocks \in Content, Len(blocks) <= MaxBlocks + 1, Replace(name, inode, blocks)
  PROVE  /\ FilesInv'
         /\ Len(objects') = Len(objects) + 1
         /\ \A o \in 1 .. Len(objects) : /\ objects'[o].blocks = objects[o].blocks
                                         /\ objects'[o].stamp >= objects[o].stamp
                                         /\ o # dir[name] => objects'[o] = objects[o]
         /\ dir' = [dir EXCEPT ![name] = Len(objects) + 1]
<1>1. clock' \in Nat /\ clock \in Nat /\ clock <= clock'
  BY DEF Replace, Stamp, FilesInv
<1>0. blocks \in Seq(Block)
  BY DEF Content, Block
<1> DEFINE file == dir[name]
<1> DEFINE old == [objects[file] EXCEPT !.stamp = clock']
<1> DEFINE new == [inode |-> inode, stamp |-> clock', blocks |-> blocks]
<1> DEFINE before == [objects EXCEPT ![file] = old]
<1>2. file \in 1 .. Len(objects) /\ objects \in Seq(File) /\ Len(objects) \in Nat
  BY DEF FilesInv
<1>3. objects[file] \in File
  BY <1>2
<1>4. /\ old \in File /\ old.stamp = clock' /\ old.blocks = objects[file].blocks
      /\ new \in File /\ new.stamp = clock' /\ new.blocks = blocks
  BY <1>0, <1>1, <1>3 DEF File
<1>5. objects' = Append(before, new)
  BY <1>2, <1>3 DEF Replace, File
<1> HIDE DEF old, new
<1>6. /\ before \in Seq(File) /\ Len(before) = Len(objects)
      /\ \A o \in 1 .. Len(objects) : o # file => before[o] = objects[o]
      /\ before[file] = old
  BY <1>2, <1>4
<1> HIDE DEF before
<1>7. /\ objects' \in Seq(File) /\ Len(objects') = Len(objects) + 1
      /\ \A o \in 1 .. Len(objects) : objects'[o] = before[o]
      /\ objects'[Len(objects) + 1] = new
  BY <1>2, <1>4, <1>5, <1>6
<1>8. dir' = [dir EXCEPT ![name] = Len(objects) + 1] /\ dir \in [Name -> 0 .. Len(objects)]
  BY DEF Replace, FilesInv
<1>9. ASSUME NEW o \in 1 .. Len(objects)
      PROVE  /\ objects'[o].stamp <= clock' /\ Len(objects'[o].blocks) <= MaxBlocks + 1
             /\ objects'[o].blocks = objects[o].blocks
             /\ objects'[o].stamp >= objects[o].stamp
  <2>0. objects[o] \in File
    BY <1>2
  <2>1. objects[o].stamp \in Nat
    BY <2>0 DEF File
  <2>2. objects[o].stamp <= clock /\ Len(objects[o].blocks) <= MaxBlocks + 1
    BY DEF FilesInv
  <2>3. CASE o # file
    BY <2>1, <2>2, <2>3, <1>1, <1>6, <1>7
  <2>4. CASE o = file
    BY <2>1, <2>2, <2>4, <1>1, <1>4, <1>6, <1>7
  <2> QED BY <2>3, <2>4
<1>10. \A o \in 1 .. Len(objects') :
          objects'[o].stamp <= clock' /\ Len(objects'[o].blocks) <= MaxBlocks + 1
  <2> SUFFICES ASSUME NEW o \in 1 .. Len(objects')
               PROVE  objects'[o].stamp <= clock' /\ Len(objects'[o].blocks) <= MaxBlocks + 1
    OBVIOUS
  <2>1. CASE o \in 1 .. Len(objects)
    BY <2>1, <1>9
  <2>2. CASE o = Len(objects) + 1
    BY <2>2, <1>1, <1>4, <1>7
  <2> QED BY <2>1, <2>2, <1>2, <1>7
<1>11. dir' \in [Name -> 0 .. Len(objects')]
  <2>1. Len(objects) + 1 \in 0 .. Len(objects') /\ 0 .. Len(objects) \subseteq 0 .. Len(objects')
    BY <1>2, <1>7
  <2> QED BY <2>1, <1>8
<1>12. \A one, other \in Name : dir'[one] = dir'[other] /\ dir'[one] # Nothing => one = other
  BY <1>2, <1>8 DEF FilesInv
<1>13. \A n \in {"marker", "data", "copy"} : dir'[n] # Nothing => objects'[dir'[n]].blocks \in Content
  <2> SUFFICES ASSUME NEW n \in {"marker", "data", "copy"}, dir'[n] # Nothing
               PROVE  objects'[dir'[n]].blocks \in Content
    OBVIOUS
  <2>1. n \in Name
    BY DEF Name
  <2>2. CASE n = name
    BY <2>1, <2>2, <1>4, <1>7, <1>8
  <2>3. CASE n # name
    <3>1. dir'[n] = dir[n] /\ dir[n] \in 1 .. Len(objects)
      BY <2>1, <2>3, <1>2, <1>8
    <3>2. objects[dir[n]].blocks \in Content
      BY <3>1 DEF FilesInv, Blocks
    <3> QED BY <3>1, <3>2, <1>9
  <2> QED BY <2>2, <2>3
<1>14. FilesInv'
  BY <1>1, <1>7, <1>10, <1>11, <1>12, <1>13 DEF FilesInv, Blocks
<1> QED BY <1>6, <1>7, <1>8, <1>9, <1>14

-----------------------------------------------------------------------------
(* Steps that leave the read open *)

LEMMA WatchedKeepsRead ==
  ASSUME FilesInv', ReadInv, reading # NotOpen, Watched, pc' = pc,
         reading.object \in 1 .. Len(objects'),
         OneWrite(objects[reading.object].blocks, objects'[reading.object].blocks),
         objects'[reading.object].stamp >= objects[reading.object].stamp,
         pc # "json" => objects'[reading.object].blocks \in Content,
         pc = "marker" => dir'["marker"] = dir["marker"],
         \A name \in Name \ {FileRead} : dir'[name] # reading.object
  PROVE  ReadInv'
<1> DEFINE o == reading.object
<1> DEFINE new == Moment(objects'[o])
<1>1. /\ pc \in Reads /\ reading \in Reading /\ Moment(objects[o]) \in reading.seen
      /\ Len(reading.got) <= MaxBlocks + 1
      /\ pc = "marker" => o = dir["marker"]
      /\ pc # "json" => reading.got \in Content
      /\ \A moment \in reading.seen : /\ reading.initial.stamp <= moment.stamp
                                      /\ moment.stamp <= objects[o].stamp
      /\ Still => Chain(reading.seen) /\ Begins(reading.got, reading.seen)
  BY DEF ReadInv
<1>2. objects'[o] \in File
  BY DEF FilesInv
<1>3. new \in MomentOfFile /\ new.stamp = objects'[o].stamp /\ new.blocks = objects'[o].blocks
  BY <1>2 DEF Moment, MomentOfFile, File
<1>4. reading' = [reading EXCEPT !.seen = reading.seen \cup {new}]
  BY DEF Watched
<1> HIDE DEF new
<1>5. /\ reading' \in Reading /\ reading'.object = o /\ reading'.initial = reading.initial
      /\ reading'.got = reading.got /\ reading'.seen = reading.seen \cup {new}
  BY <1>1, <1>3, <1>4 DEF Reading
<1>6. reading.seen \subseteq MomentOfFile /\ reading.initial.stamp \in Nat
  BY <1>1 DEF Reading
<1>7. \A moment \in reading'.seen : /\ reading'.initial.stamp <= moment.stamp
                                    /\ moment.stamp <= objects'[o].stamp
  <2>1. objects'[o].stamp \in Nat
    BY <1>2 DEF File
  <2>2. \A moment \in reading.seen : moment.stamp \in Nat
    BY <1>6 DEF MomentOfFile
  <2>3. Moment(objects[o]).stamp = objects[o].stamp
    BY DEF Moment
  <2>4. objects[o].stamp \in Nat
    BY <1>1, <2>2, <2>3
  <2>5. reading.initial.stamp <= objects[o].stamp
    BY <1>1, <2>3
  <2> QED BY <1>1, <1>3, <1>5, <1>6, <2>1, <2>2, <2>4, <2>5
<1>8. ASSUME Still'
      PROVE  Chain(reading'.seen) /\ Begins(reading'.got, reading'.seen)
  <2>1. SizesTell(reading.seen \cup {new})
    BY <1>5, <1>8 DEF Still
  <2>2. Still
    BY <1>5, <1>8 DEF Still, SizesTell
  <2>3. Moment(objects[o]).blocks = objects[o].blocks
    BY DEF Moment
  <2>4. Chain(reading.seen \cup {new})
    BY <1>1, <1>3, <1>6, <2>1, <2>2, <2>3, ChainGrows
  <2>5. Begins(reading.got, reading.seen \cup {new})
    BY <1>1, <2>2 DEF Begins
  <2> QED BY <1>5, <2>4, <2>5
<1>9. Moment(objects[reading.object])' = new
  BY <1>5 DEF new
<1>10. FileRead' = FileRead
  BY DEF FileRead
<1>11. pc' = "marker" => reading'.object = dir'["marker"]
  BY <1>1, <1>5
<1>12. pc' # "json" => objects'[reading'.object].blocks \in Content /\ reading'.got \in Content
  BY <1>1, <1>5
<1> QED BY <1>1, <1>5, <1>7, <1>8, <1>9, <1>10, <1>11, <1>12 DEF ReadInv

LEMMA ReadStaysOpen ==
  ASSUME ReadInv, reading' = reading, pc' = pc,
         reading # NotOpen =>
           /\ reading.object \in 1 .. Len(objects')
           /\ objects'[reading.object] = objects[reading.object]
           /\ pc = "marker" => dir'["marker"] = dir["marker"]
           /\ \A name \in Name \ {FileRead} : dir'[name] # reading.object
  PROVE  ReadInv'
<1>1. FileRead' = FileRead /\ (Still <=> Still')
  BY DEF FileRead, Still
<1> QED BY <1>1 DEF ReadInv

LEMMA NoReadIsKept ==
  ASSUME reading' = NotOpen
  PROVE  ReadInv'
BY DEF ReadInv, NotOpen

LEMMA WatchedNothing ==
  ASSUME reading = NotOpen, Watched
  PROVE  ReadInv'
BY NoReadIsKept DEF Watched

LEMMA NotReading ==
  ASSUME ReadInv, pc \notin Reads
  PROVE  reading = NotOpen
BY DEF ReadInv

(* A write to a file that the controller does not have open.               *)
LEMMA OtherFile ==
  ASSUME FilesInv, NEW o \in 1 .. Len(objects), objects'[o] = objects[o]
  PROVE  /\ OneWrite(objects[o].blocks, objects'[o].blocks)
         /\ objects'[o].stamp >= objects[o].stamp
<1>1. objects[o] \in File
  BY DEF FilesInv
<1>2. objects[o].stamp \in Nat
  BY <1>1 DEF File
<1> QED BY <1>2 DEF OneWrite

LEMMA PublishStartKeeps ==
  ASSUME Inv, PublishStart
  PROVE  FilesInv' /\ ReadInv'
<1>1. "marker" \in Name /\ <<Head(Marker)>> \in Content /\ <<Head(Marker)>> \in Seq(Block)
      /\ Len(<<Head(Marker)>>) <= MaxBlocks + 1 /\ 1 \in Nat
  BY DEF Name, Marker, Content, Block
<1>2. Create("marker", 1, <<Head(Marker)>>) /\ FilesInv /\ reading' = reading /\ pc' = pc
  BY DEF PublishStart, Publishing, Inv
<1>3. /\ FilesInv' /\ Len(objects') = Len(objects) + 1
      /\ \A o \in 1 .. Len(objects) : objects'[o] = objects[o]
      /\ dir' = [dir EXCEPT !["marker"] = Len(objects) + 1]
  BY <1>1, <1>2, CreateFile
<1>4. ASSUME reading # NotOpen
      PROVE  /\ reading.object \in 1 .. Len(objects')
             /\ objects'[reading.object] = objects[reading.object]
             /\ pc = "marker" => dir'["marker"] = dir["marker"]
             /\ \A name \in Name \ {FileRead} : dir'[name] # reading.object
  <2>1. reading.object \in 1 .. Len(objects) /\ pc \in Reads
        /\ (pc = "marker" => reading.object = dir["marker"])
        /\ \A name \in Name \ {FileRead} : dir[name] # reading.object
    BY <1>4 DEF Inv, ReadInv
  <2>2. pc # "marker"
    BY <2>1 DEF Inv, StartInv, PublishStart
  <2>3. dir \in [Name -> 0 .. Len(objects)] /\ Len(objects) \in Nat
    BY DEF Inv, FilesInv
  <2> QED BY <1>3, <2>1, <2>2, <2>3 DEF Name
<1> QED BY <1>2, <1>3, <1>4, ReadStaysOpen DEF Inv

LEMMA PublishRestKeeps ==
  ASSUME Inv, PublishRest
  PROVE  FilesInv' /\ ReadInv'
<1>1. pc' = pc /\ FilesInv /\ ReadInv
  BY DEF PublishRest, Publishing, Inv
<1>2. CASE dir["marker"] = Nothing
  <2>1. UNCHANGED <<files, reading>>
    BY <1>2 DEF PublishRest
  <2>2. FilesInv'
    BY <1>1, <2>1 DEF FilesInv, files, Blocks
  <2>3. ReadInv'
    BY <1>1, <2>1, ReadStaysOpen DEF ReadInv, files
  <2> QED BY <2>2, <2>3
<1>3. CASE dir["marker"] # Nothing
  <2>1. Rewrite("marker", Marker) /\ Watched
    BY <1>3 DEF PublishRest
  <2>2. Blocks("marker") = <<1>>
    BY <1>3 DEF Inv, StartInv, PublishRest
  <2>3. "marker" \in Name /\ Marker \in Content /\ Marker \in Seq(Block)
        /\ Len(Marker) = 2 /\ Len(Marker) <= MaxBlocks + 1
    BY DEF Name, Marker, Content, Block
  <2>4. /\ FilesInv' /\ Len(objects') = Len(objects) /\ dir' = dir
        /\ \A o \in 1 .. Len(objects) : o # dir["marker"] => objects'[o] = objects[o]
        /\ objects'[dir["marker"]].blocks = Marker
        /\ objects'[dir["marker"]].stamp >= objects[dir["marker"]].stamp
    BY <1>1, <1>3, <2>1, <2>3, RewriteFile
  <2>5. CASE reading = NotOpen
    BY <2>1, <2>4, <2>5, WatchedNothing
  <2>6. CASE reading # NotOpen
    <3> DEFINE o == reading.object
    <3>1. o \in 1 .. Len(objects) /\ (pc # "json" => objects[o].blocks \in Content)
          /\ \A name \in Name \ {FileRead} : dir[name] # o
      BY <1>1, <2>6 DEF ReadInv
    <3>2. OneWrite(objects[o].blocks, objects'[o].blocks)
          /\ objects'[o].stamp >= objects[o].stamp
          /\ (pc # "json" => objects'[o].blocks \in Content)
      <4>1. CASE o = dir["marker"]
        <5>1. objects[o].blocks = <<1>> /\ objects'[o].blocks = Marker
          BY <2>2, <2>4, <4>1 DEF Blocks
        <5>2. OneWrite(<<1>>, Marker)
          BY DEF OneWrite, Agree, Marker
        <5> QED BY <2>3, <2>4, <4>1, <5>1, <5>2
      <4>2. CASE o # dir["marker"]
        BY <1>1, <2>4, <3>1, <4>2, OtherFile
      <4> QED BY <4>1, <4>2
    <3> QED BY <1>1, <2>1, <2>4, <2>6, <3>1, <3>2, WatchedKeepsRead
  <2> QED BY <2>5, <2>6
<1> QED BY <1>2, <1>3

(* What all steps of the processes left behind do.                         *)
LEMMA Left ==
  ASSUME Interferes
  PROVE  /\ pc' = pc /\ pc \notin {"running", "done"}
         /\ interferences < InterferenceBound /\ interferences' = interferences + 1
         /\ UNCHANGED <<inner, ended, evidence, converter>>
BY DEF Interferes

(* The three writes to the data in place are one write.                    *)
LEMMA WriteDataIsOneWrite ==
  ASSUME FilesInv, dir["data"] # Nothing, WriteData,
         NEW Number, {1, 2} \subseteq Number, Blocks("data") \in Seq(Number)
  PROVE  \E blocks \in Seq(Number) :
            /\ Rewrite("data", blocks) /\ Len(blocks) <= MaxBlocks + 1
            /\ OneWrite(Blocks("data"), blocks)
<1> DEFINE old == Blocks("data")
<1>1. old \in Seq(Number) /\ dir["data"] \in 1 .. Len(objects)
  BY DEF FilesInv, Name
<1>2. Len(old) <= MaxBlocks + 1 /\ Len(old) \in Nat
  BY <1>1 DEF FilesInv, Blocks
<1> HIDE DEF old
<1>3. CASE \E i \in DOMAIN old, block \in {1, 2} : Rewrite("data", [old EXCEPT ![i] = block])
  <2>1. PICK i \in DOMAIN old, block \in {1, 2} : Rewrite("data", [old EXCEPT ![i] = block])
    BY <1>3
  <2>2. [old EXCEPT ![i] = block] \in Seq(Number) /\ Len([old EXCEPT ![i] = block]) = Len(old)
    BY <1>1
  <2> QED BY <1>2, <2>1, <2>2 DEF OneWrite, old
<1>4. CASE Len(old) <= MaxBlocks /\ Rewrite("data", Append(old, 2))
  <2> DEFINE longer == Append(old, 2)
  <2>1. /\ longer \in Seq(Number) /\ Len(longer) = Len(old) + 1
        /\ \A i \in 1 .. Len(old) : longer[i] = old[i]
    BY <1>1
  <2>2. Rewrite("data", longer)
    BY <1>4
  <2> HIDE DEF longer
  <2>3. Agree(old, longer)
    BY <2>1 DEF Agree
  <2>4. OneWrite(old, longer) /\ Len(longer) <= MaxBlocks + 1
    BY <1>2, <1>4, <2>1, <2>3 DEF OneWrite
  <2> QED BY <2>1, <2>2, <2>4 DEF old
<1>5. CASE old # <<>> /\ Rewrite("data", Front(old))
  <2> DEFINE shorter == Front(old)
  <2>1. Len(old) # 0
    BY <1>1, <1>5
  <2>2. PICK n \in Nat : n = Len(old) - 1
    BY <1>2, <2>1
  <2>3. /\ shorter \in Seq(Number) /\ Len(shorter) = Len(old) - 1
        /\ \A i \in 1 .. Len(old) - 1 : shorter[i] = old[i]
    <3>1. \A i \in 1 .. n : old[i] \in Number
      BY <1>1, <1>2, <2>2
    <3>2. /\ SubSeq(old, 1, n) \in Seq(Number)
          /\ Len(SubSeq(old, 1, n)) = IF 1 <= n THEN n - 1 + 1 ELSE 0
          /\ \A i \in 1 .. n - 1 + 1 : SubSeq(old, 1, n)[i] = old[1 + i - 1]
      BY <3>1, SubSeqProperties
    <3>3. shorter = SubSeq(old, 1, n)
      BY <2>2 DEF Front
    <3>4. Len(shorter) = n
      BY <3>2, <3>3
    <3>5. ASSUME NEW i \in 1 .. n
          PROVE  shorter[i] = old[i]
      <4>1. i \in 1 .. n - 1 + 1 /\ 1 + i - 1 = i
        OBVIOUS
      <4> QED BY <3>2, <3>3, <4>1
    <3>6. shorter \in Seq(Number)
      BY <3>2, <3>3
    <3> HIDE DEF shorter
    <3> QED BY <2>2, <3>4, <3>5, <3>6
  <2>4. Rewrite("data", shorter)
    BY <1>5
  <2> HIDE DEF shorter
  <2>5. Agree(old, shorter)
    BY <1>2, <2>3 DEF Agree
  <2>6. OneWrite(old, shorter) /\ Len(shorter) <= MaxBlocks + 1
    BY <1>2, <2>3, <2>5 DEF OneWrite
  <2> QED BY <2>3, <2>4, <2>6 DEF old
<1> QED BY <1>3, <1>4, <1>5 DEF WriteData, old

LEMMA WriteDataKeeps ==
  ASSUME Inv, WriteData
  PROVE  FilesInv' /\ ReadInv'
<1>1. pc' = pc /\ FilesInv /\ ReadInv /\ dir["data"] # Nothing /\ Watched
  BY DEF WriteData, Interferes, Inv
<1>2. PICK blocks \in Content : /\ Rewrite("data", blocks) /\ Len(blocks) <= MaxBlocks + 1
                                /\ OneWrite(Blocks("data"), blocks)
  <2>1. Blocks("data") \in Seq(Nat)
    BY <1>1 DEF FilesInv, Content
  <2> QED BY <1>1, <2>1, WriteDataIsOneWrite DEF Content
<1>3. "data" \in Name /\ blocks \in Seq(Block)
  BY DEF Name, Content, Block
<1>4. /\ FilesInv' /\ Len(objects') = Len(objects) /\ dir' = dir
      /\ \A o \in 1 .. Len(objects) : o # dir["data"] => objects'[o] = objects[o]
      /\ objects'[dir["data"]].blocks = blocks
      /\ objects'[dir["data"]].stamp >= objects[dir["data"]].stamp
  BY <1>1, <1>2, <1>3, RewriteFile
<1>5. CASE reading = NotOpen
  BY <1>1, <1>4, <1>5, WatchedNothing
<1>6. CASE reading # NotOpen
  <2> DEFINE o == reading.object
  <2>1. /\ o \in 1 .. Len(objects) /\ (pc # "json" => objects[o].blocks \in Content)
        /\ \A name \in Name \ {FileRead} : dir[name] # o
    BY <1>1, <1>6 DEF ReadInv
  <2>2. OneWrite(objects[o].blocks, objects'[o].blocks)
        /\ objects'[o].stamp >= objects[o].stamp
        /\ (pc # "json" => objects'[o].blocks \in Content)
    <3>1. CASE o = dir["data"]
      BY <1>2, <1>4, <3>1 DEF Blocks
    <3>2. CASE o # dir["data"]
      BY <1>1, <1>4, <2>1, <3>2, OtherFile
    <3> QED BY <3>1, <3>2
  <2> QED BY <1>1, <1>4, <1>6, <2>1, <2>2, WatchedKeepsRead
<1> QED BY <1>5, <1>6

(* Writes that leave the contents of the file that is read alone.          *)
LEMMA NameMoves ==
  ASSUME Inv, FilesInv', Watched, pc' = pc,
         NEW name \in Name, NEW to \in {Nothing, Len(objects) + 1},
         dir' = [dir EXCEPT ![name] = to],
         Len(objects') >= Len(objects),
         \A o \in 1 .. Len(objects) : /\ objects'[o].blocks = objects[o].blocks
                                      /\ objects'[o].stamp >= objects[o].stamp,
         reading # NotOpen /\ pc = "marker" => name # "marker"
  PROVE  ReadInv'
<1>1. CASE reading = NotOpen
  BY <1>1, WatchedNothing
<1>2. CASE reading # NotOpen
  <2> DEFINE o == reading.object
  <2>1. /\ o \in 1 .. Len(objects) /\ (pc # "json" => objects[o].blocks \in Content)
        /\ \A n \in Name \ {FileRead} : dir[n] # o
        /\ pc \in Reads /\ reading \in Reading
    BY <1>2 DEF Inv, ReadInv
  <2>2. dir \in [Name -> 0 .. Len(objects)] /\ Len(objects) \in Nat /\ Len(objects') \in Nat
    BY DEF Inv, FilesInv
  <2>3. o \in 1 .. Len(objects')
    BY <2>1, <2>2
  <2>4. \A n \in Name \ {FileRead} : dir'[n] # o
    BY <2>1, <2>2
  <2>5. pc = "marker" => dir'["marker"] = dir["marker"]
    BY <1>2, <2>2 DEF Name
  <2>6. OneWrite(objects[o].blocks, objects'[o].blocks) /\ objects'[o].stamp >= objects[o].stamp
    BY <2>1 DEF OneWrite
  <2>7. pc # "json" => objects'[o].blocks \in Content
    BY <2>1
  <2> QED BY <1>2, <2>3, <2>4, <2>5, <2>6, <2>7, WatchedKeepsRead DEF Inv
<1> QED BY <1>1, <1>2

(* Every file that is not written keeps its contents and its stamp.        *)
LEMMA UntouchedFiles ==
  ASSUME FilesInv, \A o \in 1 .. Len(objects) : objects'[o] = objects[o]
  PROVE  \A o \in 1 .. Len(objects) : /\ objects'[o].blocks = objects[o].blocks
                                      /\ objects'[o].stamp >= objects[o].stamp
BY OtherFile

LEMMA ReplaceOrRemoveDataKeeps ==
  ASSUME Inv, ReplaceOrRemoveData
  PROVE  FilesInv' /\ ReadInv'
<1>1. pc' = pc /\ FilesInv /\ Watched
  BY DEF ReplaceOrRemoveData, Interferes, Inv
<1>2. "data" \in Name /\ FreeInodes \subseteq Nat /\ Len(objects) \in Nat
  BY DEF Name, FreeInodes, Inv, FilesInv
<1>3. \A block \in {1, 2} :
         <<block, block>> \in Content /\ <<block, block>> \in Seq(Block)
         /\ Len(<<block, block>>) = 2 /\ 2 <= MaxBlocks + 1
  BY DEF Content, Block
<1>4. CASE /\ dir["data"] # Nothing
           /\ \E inode \in FreeInodes, block \in {1, 2} : Replace("data", inode, <<block, block>>)
  <2>1. PICK inode \in FreeInodes, block \in {1, 2} : Replace("data", inode, <<block, block>>)
    BY <1>4
  <2>2. inode \in Nat /\ <<block, block>> \in Content /\ Len(<<block, block>>) <= MaxBlocks + 1
    BY <1>2, <1>3
  <2>3. /\ FilesInv' /\ Len(objects') = Len(objects) + 1
        /\ \A o \in 1 .. Len(objects) : /\ objects'[o].blocks = objects[o].blocks
                                        /\ objects'[o].stamp >= objects[o].stamp
        /\ dir' = [dir EXCEPT !["data"] = Len(objects) + 1]
    BY <1>1, <1>2, <1>4, <2>1, <2>2, ReplaceFile
  <2>4. Len(objects') >= Len(objects)
    BY <1>2, <2>3
  <2> QED BY <1>1, <1>2, <2>3, <2>4, NameMoves
<1>5. CASE dir["data"] # Nothing /\ Unlink("data")
  <2>1. /\ FilesInv' /\ Len(objects') = Len(objects)
        /\ \A o \in 1 .. Len(objects) : /\ objects'[o].blocks = objects[o].blocks
                                        /\ objects'[o].stamp >= objects[o].stamp
        /\ dir' = [dir EXCEPT !["data"] = Nothing]
    BY <1>1, <1>2, <1>5, UnlinkFile
  <2>2. Len(objects') >= Len(objects)
    BY <1>2, <2>1
  <2> QED BY <1>1, <1>2, <2>1, <2>2, NameMoves
<1>6. CASE dir["data"] = Nothing /\ \E inode \in FreeInodes : Create("data", inode, <<1, 1>>)
  <2>1. PICK inode \in FreeInodes : Create("data", inode, <<1, 1>>)
    BY <1>6
  <2>2. inode \in Nat /\ <<1, 1>> \in Content /\ <<1, 1>> \in Seq(Block)
        /\ Len(<<1, 1>>) <= MaxBlocks + 1
    BY <1>2, <1>3
  <2>3. /\ FilesInv' /\ Len(objects') = Len(objects) + 1
        /\ \A o \in 1 .. Len(objects) : objects'[o] = objects[o]
        /\ dir' = [dir EXCEPT !["data"] = Len(objects) + 1]
    BY <1>1, <1>2, <2>1, <2>2, CreateFile
  <2>4. Len(objects') >= Len(objects)
    BY <1>2, <2>3
  <2> QED BY <1>1, <1>2, <2>3, <2>4, UntouchedFiles, NameMoves
<1> QED BY <1>4, <1>5, <1>6 DEF ReplaceOrRemoveData

LEMMA RivalDataKeeps ==
  ASSUME Inv, RivalData
  PROVE  FilesInv' /\ ReadInv'
<1>1. pc' = pc /\ FilesInv /\ Watched
  BY DEF RivalData, Interferes, Inv
<1>2. "shard" \in Name /\ Len(objects) \in Nat
      /\ <<1>> \in Seq(Block) /\ Len(<<1>>) <= MaxBlocks + 1 /\ 1 \in Nat
  BY DEF Name, Block, Inv, FilesInv
<1>3. CASE dir["shard"] = Nothing /\ Create("shard", 1, <<1>>)
  <2>1. /\ FilesInv' /\ Len(objects') = Len(objects) + 1
        /\ \A o \in 1 .. Len(objects) : objects'[o] = objects[o]
        /\ dir' = [dir EXCEPT !["shard"] = Len(objects) + 1]
    BY <1>1, <1>2, <1>3, CreateFile
  <2>2. Len(objects') >= Len(objects)
    BY <1>2, <2>1
  <2> QED BY <1>1, <1>2, <2>1, <2>2, UntouchedFiles, NameMoves
<1>4. CASE dir["shard"] # Nothing /\ Unlink("shard")
  <2>1. /\ FilesInv' /\ Len(objects') = Len(objects)
        /\ \A o \in 1 .. Len(objects) : /\ objects'[o].blocks = objects[o].blocks
                                        /\ objects'[o].stamp >= objects[o].stamp
        /\ dir' = [dir EXCEPT !["shard"] = Nothing]
    BY <1>1, <1>2, <1>4, UnlinkFile
  <2>2. Len(objects') >= Len(objects)
    BY <1>2, <2>1
  <2> QED BY <1>1, <1>2, <2>1, <2>2, NameMoves
<1> QED BY <1>3, <1>4 DEF RivalData

(* A file that the controller does not have open is written in place, or   *)
(* its own is, at the same length.                                         *)
LEMMA RewriteKeepsRead ==
  ASSUME Inv, FilesInv', Watched, pc' = pc, NEW name \in {"copy", "json"}, dir[name] # Nothing,
         dir' = dir, Len(objects') = Len(objects),
         \A o \in 1 .. Len(objects) : o # dir[name] => objects'[o] = objects[o],
         name = "json" /\ pc = "json" => Len(objects'[dir[name]].blocks) = Len(objects[dir[name]].blocks),
         objects'[dir[name]].stamp >= objects[dir[name]].stamp
  PROVE  ReadInv'
<1>1. CASE reading = NotOpen
  BY <1>1, WatchedNothing
<1>2. CASE reading # NotOpen
  <2> DEFINE o == reading.object
  <2>1. /\ o \in 1 .. Len(objects) /\ (pc # "json" => objects[o].blocks \in Content)
        /\ \A n \in Name \ {FileRead} : dir[n] # o
        /\ pc \in Reads
    BY <1>2 DEF Inv, ReadInv
  <2>2. CASE o = dir[name]
    <3>1. name = "json" /\ pc = "json"
      BY <2>1, <2>2 DEF FileRead, Reads, Name
    <3>2. OneWrite(objects[o].blocks, objects'[o].blocks)
      BY <2>2, <3>1 DEF OneWrite
    <3> QED BY <1>2, <2>1, <2>2, <3>1, <3>2, WatchedKeepsRead DEF Inv
  <2>3. CASE o # dir[name]
    <3>1. objects'[o] = objects[o]
      BY <2>1, <2>3
    <3>2. OneWrite(objects[o].blocks, objects'[o].blocks)
          /\ objects'[o].stamp >= objects[o].stamp
      BY <2>1, <3>1, OtherFile DEF Inv
    <3> QED BY <1>2, <2>1, <3>1, <3>2, WatchedKeepsRead DEF Inv
  <2> QED BY <2>2, <2>3
<1> QED BY <1>1, <1>2

LEMMA DamageInputKeeps ==
  ASSUME Inv, DamageInput
  PROVE  FilesInv' /\ ReadInv'
<1>1. pc' = pc /\ FilesInv /\ ReadInv /\ Watched
  BY DEF DamageInput, Interferes, Inv
<1>2. CASE dir["copy"] # Nothing /\ \E blocks \in {<<9>>, digest} : Rewrite("copy", blocks)
  <2>1. PICK blocks \in {<<9>>, digest} : Rewrite("copy", blocks)
    BY <1>2
  <2>2. blocks \in Content /\ Len(blocks) <= MaxBlocks + 1
    <3>1. digest \in Content /\ Len(digest) <= MaxBlocks + 1
      BY DEF Inv, ControlInv
    <3>2. <<9>> \in Content /\ Len(<<9>>) <= MaxBlocks + 1
      BY DEF Content
    <3> QED BY <3>1, <3>2
  <2>3. blocks \in Seq(Block) /\ "copy" \in Name
    BY <2>2 DEF Content, Block, Name
  <2>4. /\ FilesInv' /\ Len(objects') = Len(objects) /\ dir' = dir
        /\ \A o \in 1 .. Len(objects) : o # dir["copy"] => objects'[o] = objects[o]
        /\ objects'[dir["copy"]].stamp >= objects[dir["copy"]].stamp
    BY <1>1, <1>2, <2>1, <2>2, <2>3, RewriteFile
  <2> QED BY <1>1, <1>2, <2>4, RewriteKeepsRead
<1>3. CASE UNCHANGED files
  <2>1. FilesInv'
    BY <1>1, <1>3 DEF FilesInv, files, Blocks
  <2>2. CASE reading = NotOpen
    BY <1>1, <2>1, <2>2, WatchedNothing
  <2>3. CASE reading # NotOpen
    <3> DEFINE o == reading.object
    <3>1. /\ o \in 1 .. Len(objects) /\ (pc # "json" => objects[o].blocks \in Content)
          /\ \A n \in Name \ {FileRead} : dir[n] # o
      BY <1>1, <2>3 DEF ReadInv
    <3>2. objects' = objects /\ dir' = dir
      BY <1>3 DEF files
    <3>3. OneWrite(objects[o].blocks, objects'[o].blocks)
          /\ objects'[o].stamp >= objects[o].stamp
      BY <1>1, <3>1, <3>2, OtherFile
    <3> QED BY <1>1, <2>1, <2>3, <3>1, <3>2, <3>3, WatchedKeepsRead
  <2> QED BY <2>1, <2>2, <2>3
<1> QED BY <1>2, <1>3 DEF DamageInput

LEMMA DamageDocumentKeeps ==
  ASSUME Inv, DamageDocument
  PROVE  FilesInv' /\ ReadInv'
<1>1. pc' = pc /\ FilesInv /\ Watched
  BY DEF DamageDocument, Interferes, Inv
<1>2. /\ "json" \in Name /\ Len(objects) \in Nat /\ 1 \in Nat
      /\ SomethingElse \in Seq(Block) /\ SomethingElse \in Content
      /\ Len(SomethingElse) = 2 /\ Len(SomethingElse) <= MaxBlocks + 1
  BY DEF Name, Block, Content, SomethingElse, Inv, FilesInv
<1>3. CASE dir["json"] = Nothing /\ Create("json", 1, SomethingElse)
  <2>1. /\ FilesInv' /\ Len(objects') = Len(objects) + 1
        /\ \A o \in 1 .. Len(objects) : objects'[o] = objects[o]
        /\ dir' = [dir EXCEPT !["json"] = Len(objects) + 1]
    BY <1>1, <1>2, <1>3, CreateFile
  <2>2. Len(objects') >= Len(objects)
    BY <1>2, <2>1
  <2> QED BY <1>1, <1>2, <2>1, <2>2, UntouchedFiles, NameMoves
<1>4. CASE dir["json"] # Nothing /\ Rewrite("json", SomethingElse)
  <2>1. /\ FilesInv' /\ Len(objects') = Len(objects) /\ dir' = dir
        /\ \A o \in 1 .. Len(objects) : o # dir["json"] => objects'[o] = objects[o]
        /\ objects'[dir["json"]].blocks = SomethingElse
        /\ objects'[dir["json"]].stamp >= objects[dir["json"]].stamp
    BY <1>1, <1>2, <1>4, RewriteFile
  <2>2. pc = "json" => Len(objects[dir["json"]].blocks) = 2
    BY <1>4 DEF Inv, ControlInv, DocumentInv, Blocks
  <2>3. ReadInv'
    BY <1>1, <1>2, <1>4, <2>1, <2>2, RewriteKeepsRead
  <2> QED BY <2>1, <2>3
<1>5. CASE dir["json"] # Nothing /\ Replace("json", 1, SomethingElse)
  <2>1. /\ FilesInv' /\ Len(objects') = Len(objects) + 1
        /\ \A o \in 1 .. Len(objects) : /\ objects'[o].blocks = objects[o].blocks
                                        /\ objects'[o].stamp >= objects[o].stamp
        /\ dir' = [dir EXCEPT !["json"] = Len(objects) + 1]
    BY <1>1, <1>2, <1>5, ReplaceFile
  <2>2. Len(objects') >= Len(objects)
    BY <1>2, <2>1
  <2> QED BY <1>1, <1>2, <2>1, <2>2, NameMoves
<1>6. CASE dir["json"] # Nothing /\ Unlink("json")
  <2>1. /\ FilesInv' /\ Len(objects') = Len(objects)
        /\ \A o \in 1 .. Len(objects) : /\ objects'[o].blocks = objects[o].blocks
                                        /\ objects'[o].stamp >= objects[o].stamp
        /\ dir' = [dir EXCEPT !["json"] = Nothing]
    BY <1>1, <1>2, <1>6, UnlinkFile
  <2>2. Len(objects') >= Len(objects)
    BY <1>2, <2>1
  <2> QED BY <1>1, <1>2, <2>1, <2>2, NameMoves
<1> QED BY <1>3, <1>4, <1>5, <1>6 DEF DamageDocument

-----------------------------------------------------------------------------
(* The controller's steps on the files *)

LEMMA OpenFileKeeps ==
  ASSUME Inv, OpenFile
  PROVE  FilesInv' /\ ReadInv'
<1> DEFINE o == dir[FileRead]
<1> DEFINE first == Moment(objects[o])
<1>1. /\ UNCHANGED files /\ pc' = pc /\ pc \in Reads
      /\ o # Nothing
      /\ reading' = [object |-> o, initial |-> Status(o), got |-> <<>>, seen |-> {first}]
  BY DEF OpenFile, CanOpen
<1>2. FilesInv'
  BY <1>1 DEF Inv, FilesInv, files, Blocks
<1>3. FileRead \in Name /\ (pc # "json" => FileRead \in {"marker", "data"})
      /\ (pc = "marker" => FileRead = "marker")
  BY <1>1 DEF FileRead, Reads, Name
<1>4. o \in 1 .. Len(objects) /\ objects[o] \in File /\ Len(objects) \in Nat
  BY <1>1, <1>3 DEF Inv, FilesInv
<1>5. first \in MomentOfFile /\ first.stamp = objects[o].stamp /\ first.blocks = objects[o].blocks
  BY <1>4 DEF Moment, MomentOfFile, File
<1>6. Len(objects[o].blocks) \in Nat
  BY <1>4 DEF File
<1>7. Status(o) \in [inode : Nat, stamp : Nat, size : Nat] /\ Status(o).stamp = objects[o].stamp
  BY <1>4, <1>6 DEF Status, File
<1> HIDE DEF first
<1>8. /\ reading' \in Reading /\ reading'.object = o /\ reading'.got = <<>>
      /\ reading'.seen = {first} /\ reading'.initial.stamp = objects[o].stamp
  BY <1>1, <1>4, <1>5, <1>7 DEF Reading
<1>9. Chain(reading'.seen) /\ Begins(reading'.got, reading'.seen)
  <2>1. Agree(first.blocks, first.blocks) /\ Agree(<<>>, first.blocks)
    BY DEF Agree
  <2>2. \A size \in Len(first.blocks) .. Len(first.blocks) : Len(first.blocks) = size
    BY <1>5, <1>6
  <2>3. Len(<<>>) <= Len(first.blocks)
    BY <1>5, <1>6
  <2> QED BY <1>8, <2>1, <2>2, <2>3 DEF Chain, Begins
<1>10. \A name \in Name \ {FileRead} : dir[name] # o
  BY <1>1, <1>3 DEF Inv, FilesInv
<1>11. pc # "json" => objects[o].blocks \in Content
  BY <1>1, <1>3 DEF Inv, FilesInv, Blocks
<1>12. objects' = objects /\ dir' = dir /\ FileRead' = FileRead
  BY <1>1 DEF files, FileRead
<1>13. Moment(objects[reading.object])' = first
  BY <1>8, <1>12 DEF first, Moment
<1>14. \A moment \in reading'.seen : /\ reading'.initial.stamp <= moment.stamp
                                     /\ moment.stamp <= objects'[reading'.object].stamp
  <2>1. objects[o].stamp \in Nat
    BY <1>4 DEF File
  <2> QED BY <1>5, <1>8, <1>12, <2>1
<1>15. <<>> \in Content /\ Len(<<>>) <= MaxBlocks + 1
  BY DEF Content
<1>16. ReadInv'
  BY <1>1, <1>3, <1>4, <1>8, <1>9, <1>10, <1>11, <1>12, <1>13, <1>14, <1>15 DEF ReadInv
<1> QED BY <1>2, <1>16

LEMMA ReadBlockKeeps ==
  ASSUME Inv, ReadBlock
  PROVE  FilesInv' /\ ReadInv'
<1> DEFINE o == reading.object
<1> DEFINE now == Moment(objects[o])
<1> DEFINE block == objects[o].blocks[Len(reading.got) + 1]
<1>1. /\ UNCHANGED files /\ pc' = pc /\ reading # NotOpen
      /\ reading' = [reading EXCEPT !.got = Append(reading.got, block)]
      /\ ~(Len(reading.got) >= Len(objects[o].blocks))
  BY DEF ReadBlock, IsOpen, AtTheEnd
<1>2. FilesInv'
  BY <1>1 DEF Inv, FilesInv, files, Blocks
<1>3. /\ pc \in Reads /\ reading \in Reading /\ o \in 1 .. Len(objects)
      /\ now \in reading.seen
      /\ pc = "marker" => o = dir["marker"]
      /\ \A name \in Name \ {FileRead} : dir[name] # o
      /\ pc # "json" => objects[o].blocks \in Content /\ reading.got \in Content
      /\ \A moment \in reading.seen : /\ reading.initial.stamp <= moment.stamp
                                      /\ moment.stamp <= objects[o].stamp
      /\ Still => Chain(reading.seen) /\ Begins(reading.got, reading.seen)
  BY <1>1 DEF Inv, ReadInv
<1>4. /\ reading.seen \subseteq MomentOfFile /\ reading.got \in Seq(Block)
      /\ Len(reading.got) \in Nat
  BY <1>3 DEF Reading
<1>5. /\ objects[o].blocks \in Seq(Block) /\ Len(objects[o].blocks) \in Nat
      /\ Len(objects[o].blocks) <= MaxBlocks + 1
  <2>1. objects[o] \in File /\ Len(objects[o].blocks) <= MaxBlocks + 1
    BY <1>3 DEF Inv, FilesInv
  <2>2. objects[o].blocks \in Seq(Block)
    BY <2>1 DEF File
  <2> QED BY <2>1, <2>2
<1>6. Len(reading.got) < Len(objects[o].blocks) /\ Len(reading.got) + 1 <= MaxBlocks + 1
  BY <1>1, <1>4, <1>5
<1>7. Len(reading.got) + 1 \in 1 .. Len(objects[o].blocks)
  BY <1>4, <1>5, <1>6
<1>8. block \in Block
  BY <1>5, <1>7
<1>9. pc # "json" => block \in Nat
  <2> SUFFICES ASSUME pc # "json"
               PROVE  block \in Nat
    OBVIOUS
  <2>1. objects[o].blocks \in Seq(Nat)
    BY <1>3 DEF Content
  <2> QED BY <1>7, <2>1
<1> DEFINE more == Append(reading.got, block)
<1> HIDE DEF block
<1>10. more \in Seq(Block) /\ Len(more) = Len(reading.got) + 1
  BY <1>4, <1>8
<1>11. pc # "json" => more \in Content
  BY <1>3, <1>9 DEF Content
<1>12. reading' = [reading EXCEPT !.got = more]
  BY <1>1
<1>13. Still => Begins(more, reading.seen)
  <2>1. now.blocks = objects[o].blocks
    BY DEF Moment
  <2>2. Len(reading.got) < Len(now.blocks)
    BY <1>6, <2>1
  <2>3. more = Append(reading.got, now.blocks[Len(reading.got) + 1])
    BY <2>1 DEF block
  <2> HIDE DEF more, now
  <2> QED BY <1>3, <1>4, <2>2, <2>3, ReadingContinues
<1> HIDE DEF more
<1>14. /\ reading' \in Reading /\ reading'.object = o /\ reading'.initial = reading.initial
       /\ reading'.got = more /\ reading'.seen = reading.seen
  BY <1>3, <1>10, <1>12 DEF Reading
<1>15. objects' = objects /\ dir' = dir /\ FileRead' = FileRead
  BY <1>1 DEF files, FileRead
<1>16. Moment(objects[reading.object])' = now
  BY <1>14, <1>15 DEF Moment
<1>17. Still' <=> Still
  BY <1>14 DEF Still
<1>18. Len(reading'.got) <= MaxBlocks + 1
  BY <1>6, <1>10, <1>14
<1> HIDE DEF now
<1>19. ReadInv'
  BY <1>1, <1>3, <1>11, <1>13, <1>14, <1>15, <1>16, <1>17, <1>18 DEF ReadInv
<1> QED BY <1>2, <1>19

LEMMA DocumentIsFile ==
  ASSUME NEW blocks \in Content
  PROVE  /\ Document(blocks) \in Seq(Block) /\ Len(Document(blocks)) = 2
         /\ <<Head(Document(blocks))>> \in Seq(Block)
<1> DEFINE head == FoldLeft(LAMBDA number, block : 10 * number + block, 0, blocks)
<1>1. Document(blocks) = <<head, 0>>
  BY DEF Document
<1> HIDE DEF head
<1>2. Head(Document(blocks)) = head /\ Len(Document(blocks)) = 2
  BY <1>1
<1>3. head \in Block /\ 0 \in Block
  BY <1>2 DEF Block
<1> QED BY <1>1, <1>2, <1>3

LEMMA MeasureKeeps ==
  ASSUME Inv, Measure
  PROVE  FilesInv' /\ ReadInv'
<1>1. FilesInv /\ Create("data", 1, <<1, 1>>) /\ pc = "running" /\ reading' = reading
  BY DEF Measure, Inv
<1>2. "data" \in Name /\ 1 \in Nat /\ <<1, 1>> \in Content /\ <<1, 1>> \in Seq(Block)
      /\ Len(<<1, 1>>) <= MaxBlocks + 1
  BY DEF Name, Content, Block
<1>3. FilesInv'
  BY <1>1, <1>2, CreateFile
<1>4. reading = NotOpen
  BY <1>1 DEF Inv, ReadInv, Reads
<1> QED BY <1>1, <1>3, <1>4, NoReadIsKept

LEMMA UnlinkMarkerKeeps ==
  ASSUME Inv, UnlinkMarker
  PROVE  FilesInv' /\ ReadInv'
<1>1. FilesInv /\ pc = "unlink" /\ reading' = reading /\ "marker" \in Name
  BY DEF UnlinkMarker, Inv, Name
<1>2. CASE dir["marker"] = Nothing
  <2>1. UNCHANGED files
    BY <1>2 DEF UnlinkMarker
  <2>2. FilesInv'
    BY <1>1, <2>1 DEF FilesInv, files, Blocks
  <2>3. reading = NotOpen
    BY <1>1 DEF Inv, ReadInv, Reads
  <2> QED BY <1>1, <2>2, <2>3, NoReadIsKept
<1>3. CASE dir["marker"] # Nothing
  <2>1. Unlink("marker")
    BY <1>3 DEF UnlinkMarker
  <2>2. FilesInv'
    BY <1>1, <1>3, <2>1, UnlinkFile
  <2>3. reading = NotOpen
    BY <1>1 DEF Inv, ReadInv, Reads
  <2> QED BY <1>1, <2>2, <2>3, NoReadIsKept
<1> QED BY <1>2, <1>3

LEMMA CopyKeeps ==
  ASSUME Inv, Copy
  PROVE  FilesInv' /\ ReadInv'
<1>1. FilesInv /\ reading' = NotOpen /\ pc = "copy"
  BY DEF Copy, ReadAgain, Decides, Concludes, Inv
<1>2. CASE UNCHANGED files
  BY <1>1, <1>2, NoReadIsKept DEF FilesInv, files, Blocks
<1>3. CASE ReadAll /\ Create("copy", 1, reading.got)
  <2>1. reading # NotOpen
    BY <1>3 DEF ReadAll, HasRead, IsOpen
  <2>2. reading.got \in Content /\ Len(reading.got) <= MaxBlocks + 1 /\ reading \in Reading
    BY <1>1, <2>1 DEF Inv, ReadInv
  <2>3. reading.got \in Seq(Block) /\ "copy" \in Name /\ 1 \in Nat
    BY <2>2 DEF Reading, Name
  <2>4. FilesInv'
    BY <1>1, <1>3, <2>2, <2>3, CreateFile
  <2> QED BY <1>1, <2>4, NoReadIsKept
<1>4. UNCHANGED files \/ (ReadAll /\ Create("copy", 1, reading.got))
  BY DEF Copy, ReadAgain, Decides, Concludes
<1> QED BY <1>2, <1>3, <1>4

LEMMA ConverterKeeps ==
  ASSUME Inv, ConverterWrites \/ ConverterCloses
  PROVE  FilesInv' /\ ReadInv'
<1>1. FilesInv /\ pc = "converting" /\ reading' = reading /\ "json" \in Name /\ 1 \in Nat
  BY DEF ConverterWrites, ConverterCloses, ConverterActs, Inv, Name
<1>2. reading' = NotOpen
  BY <1>1 DEF Inv, ReadInv, Reads
<1> DEFINE document1 == Document(converted)
<1> DEFINE head == <<Head(document1)>>
<1>3. document1 \in Seq(Block) /\ Len(document1) = 2 /\ head \in Seq(Block)
  BY DocumentIsFile DEF Inv, ControlInv
<1>4. Len(document1) <= MaxBlocks + 1 /\ Len(head) <= MaxBlocks + 1
  BY <1>3
<1>5. \/ dir["json"] = Nothing /\ Create("json", 1, head)
      \/ dir["json"] # Nothing /\ Rewrite("json", head)
      \/ dir["json"] # Nothing /\ Rewrite("json", document1)
      \/ dir["json"] # Nothing /\ Rewrite("json", SomethingElse)
      \/ UNCHANGED files
  BY DEF ConverterWrites, ConverterCloses
<1>a. SomethingElse \in Seq(Block) /\ Len(SomethingElse) <= MaxBlocks + 1
  BY DEF SomethingElse, Block
<1> HIDE DEF document1, head
<1>6. FilesInv'
  <2>1. CASE dir["json"] = Nothing /\ Create("json", 1, head)
    BY <2>1, <1>1, <1>3, <1>4, CreateFile
  <2>2. CASE dir["json"] # Nothing /\ Rewrite("json", head)
    BY <2>2, <1>1, <1>3, <1>4, RewriteFile
  <2>3. CASE dir["json"] # Nothing /\ Rewrite("json", document1)
    BY <2>3, <1>1, <1>3, <1>4, RewriteFile
  <2>4. CASE dir["json"] # Nothing /\ Rewrite("json", SomethingElse)
    BY <2>4, <1>1, <1>a, RewriteFile
  <2>5. CASE UNCHANGED files
    BY <2>5, <1>1 DEF FilesInv, files, Blocks
  <2> QED BY <1>5, <2>1, <2>2, <2>3, <2>4, <2>5
<1> QED BY <1>2, <1>6, NoReadIsKept

(* The steps that write no file and close the read, if one was open.       *)
LEMMA QuietKeeps ==
  ASSUME Inv,
         \/ Ends \/ PrimaryEnds \/ JudgeMarker
         \/ Scan \/ Identify \/ Digest \/ Surroundings \/ Verify \/ Reidentify
         \/ Destination \/ EnsureStaged \/ ConverterReads \/ ConverterEnds
         \/ Classify \/ ReadDocument
  PROVE  FilesInv' /\ ReadInv'
<1>1. UNCHANGED files
  <2> USE DEF Concludes, Decides, Continues, Passes, SnapshotChanged
  <2>1. CASE Ends \/ PrimaryEnds \/ JudgeMarker \/ Scan \/ Identify \/ Digest
    BY <2>1 DEF Ends, PrimaryEnds, JudgeMarker, Scan, Identify, Digest
  <2>2. CASE Surroundings \/ Verify \/ Reidentify \/ Destination \/ EnsureStaged
    BY <2>2 DEF Surroundings, Verify, Reidentify, Destination, EnsureStaged
  <2>3. CASE ConverterReads \/ ConverterEnds \/ ReadDocument
    BY <2>3 DEF ConverterReads, ConverterEnds, ReadDocument
  <2>4. CASE Classify
    BY <2>4 DEF Classify, Inv, ControlInv, Ended
  <2> QED BY <2>1, <2>2, <2>3, <2>4
<1>2. FilesInv'
  BY <1>1 DEF Inv, FilesInv, files, Blocks
<1>3. ReadInv'
  <2>1. CASE Ends
    BY <2>1, <1>1, ReadStaysOpen DEF Ends, Publishing, Inv, ReadInv, files
  <2>2. CASE PrimaryEnds
    <3>1. reading' = reading /\ pc \notin Reads
      BY <2>2 DEF PrimaryEnds, Reads
    <3> QED BY <3>1, NotReading, NoReadIsKept DEF Inv
  <2>3. CASE ConverterReads
    <3>1. reading' = reading /\ pc \notin Reads
      BY <2>3 DEF ConverterReads, ConverterActs, Reads
    <3> QED BY <3>1, NotReading, NoReadIsKept DEF Inv
  <2>4. CASE Classify
    <3>1. reading' = NotOpen
      BY <2>4 DEF Classify, Inv, ControlInv, Ended, Decides, Continues, Concludes
    <3> QED BY <3>1, NoReadIsKept
  <2>5. ASSUME \/ JudgeMarker \/ Scan \/ Identify \/ Digest \/ Surroundings \/ Verify \/ Reidentify
               \/ Destination \/ EnsureStaged \/ ConverterEnds \/ ReadDocument
        PROVE  reading' = NotOpen
    <3> USE DEF Concludes, Decides, Continues, Passes, SnapshotChanged
    <3>1. CASE JudgeMarker \/ Scan \/ Identify \/ Digest
      BY <3>1 DEF JudgeMarker, Scan, Identify, Digest
    <3>2. CASE Surroundings \/ Verify \/ Reidentify \/ Destination \/ EnsureStaged
      BY <3>2 DEF Surroundings, Verify, Reidentify, Destination, EnsureStaged
    <3>3. CASE ConverterEnds \/ ReadDocument
      BY <3>3 DEF ConverterEnds, ReadDocument
    <3> QED BY <2>5, <3>1, <3>2, <3>3
  <2> QED BY <2>1, <2>2, <2>3, <2>4, <2>5, NoReadIsKept
<1> QED BY <1>2, <1>3

LEMMA StutterKeeps ==
  ASSUME Inv, UNCHANGED vars
  PROVE  Inv'
<1>1. UNCHANGED <<pc, objects, dir, clock, inner, ended, reading, start, digest, round, converted, artifact,
                  converter, interferences, unseen>>
  BY DEF vars, files, evidence
<1>2. FilesInv' /\ ControlInv' /\ DocumentInv' /\ StartInv'
  BY <1>1 DEF Inv, FilesInv, ControlInv, DocumentInv, StartInv, AcceptedStartIsWhole, Blocks
<1>3. ReadInv'
  BY <1>1, ReadStaysOpen DEF Inv, ReadInv
<1> QED BY <1>2, <1>3 DEF Inv

LEMMA FilesAndRead ==
  ASSUME Inv, Next
  PROVE  FilesInv' /\ ReadInv'
<1>1. CASE PublishStart \/ PublishRest \/ Measure \/ WriteData \/ ReplaceOrRemoveData \/ RivalData
           \/ DamageInput \/ DamageDocument
  BY <1>1, PublishStartKeeps, PublishRestKeeps, MeasureKeeps, WriteDataKeeps, ReplaceOrRemoveDataKeeps,
     RivalDataKeeps, DamageInputKeeps, DamageDocumentKeeps
<1>2. CASE OpenFile \/ ReadBlock \/ UnlinkMarker \/ Copy \/ ConverterWrites \/ ConverterCloses
  BY <1>2, OpenFileKeeps, ReadBlockKeeps, UnlinkMarkerKeeps, CopyKeeps, ConverterKeeps
<1>3. CASE \/ Ends \/ PrimaryEnds \/ JudgeMarker
           \/ Scan \/ Identify \/ Digest \/ Surroundings \/ Verify \/ Reidentify
           \/ Destination \/ EnsureStaged \/ ConverterReads \/ ConverterEnds
           \/ Classify \/ ReadDocument
  BY <1>3, QuietKeeps
<1> QED BY <1>1, <1>2, <1>3 DEF Next

-----------------------------------------------------------------------------
(* What the writes leave alone *)

\* The name denotes the file it did, which has not been written.
Same(name) ==
  dir'[name] = dir[name] /\ (dir[name] # Nothing => objects'[dir[name]] = objects[dir[name]])

LEMMA CreateFrame ==
  ASSUME FilesInv, NEW name \in Name, NEW inode, NEW blocks, Create(name, inode, blocks)
  PROVE  /\ \A o \in 1 .. Len(objects) : objects'[o] = objects[o]
         /\ \A other \in Name \ {name} : Same(other)
         /\ dir'[name] = Len(objects) + 1 /\ objects'[dir'[name]].blocks = blocks
         /\ objects'[dir'[name]].inode = inode
<1>1. objects \in Seq(File) /\ Len(objects) \in Nat /\ dir \in [Name -> 0 .. Len(objects)]
  BY DEF FilesInv
<1> DEFINE new == [inode |-> inode, stamp |-> clock', blocks |-> blocks]
<1>2. objects' = Append(objects, new) /\ dir' = [dir EXCEPT ![name] = Len(objects) + 1]
  BY DEF Create
<1>3. new.blocks = blocks /\ new.inode = inode
  OBVIOUS
<1> HIDE DEF new
<1>4. /\ \A o \in 1 .. Len(objects) : objects'[o] = objects[o]
      /\ objects'[Len(objects) + 1] = new
  BY <1>1, <1>2
<1>5. \A other \in Name \ {name} : dir'[other] = dir[other] /\ dir[other] \in 0 .. Len(objects)
  BY <1>1, <1>2
<1>6. dir'[name] = Len(objects) + 1
  BY <1>1, <1>2
<1> QED BY <1>1, <1>3, <1>4, <1>5, <1>6 DEF Same

LEMMA RewriteFrame ==
  ASSUME FilesInv, NEW name \in Name, dir[name] # Nothing, NEW blocks, Rewrite(name, blocks)
  PROVE  /\ \A o \in 1 .. Len(objects) : o # dir[name] => objects'[o] = objects[o]
         /\ \A other \in Name \ {name} : Same(other)
         /\ dir' = dir /\ objects'[dir[name]].blocks = blocks
         /\ objects'[dir[name]].inode = objects[dir[name]].inode
         /\ Len(objects') = Len(objects)
<1>1. /\ objects \in Seq(File) /\ Len(objects) \in Nat /\ dir \in [Name -> 0 .. Len(objects)]
      /\ \A other \in Name \ {name} : dir[other] # Nothing => dir[other] # dir[name]
  BY DEF FilesInv
<1>2. dir[name] \in 1 .. Len(objects) /\ objects[dir[name]] \in File
  BY <1>1
<1>3. objects' = [objects EXCEPT ![dir[name]].stamp = clock', ![dir[name]].blocks = blocks] /\ dir' = dir
  BY DEF Rewrite
<1>4. /\ \A o \in 1 .. Len(objects) : o # dir[name] => objects'[o] = objects[o]
      /\ Len(objects') = Len(objects)
  BY <1>1, <1>3
<1>5. /\ objects'[dir[name]].blocks = blocks
      /\ objects'[dir[name]].inode = objects[dir[name]].inode
  BY <1>1, <1>2, <1>3 DEF File
<1>6. \A other \in Name \ {name} : Same(other)
  BY <1>1, <1>3, <1>4 DEF Same
<1> QED BY <1>3, <1>4, <1>5, <1>6

LEMMA UnlinkFrame ==
  ASSUME FilesInv, NEW name \in Name, dir[name] # Nothing, Unlink(name)
  PROVE  /\ \A o \in 1 .. Len(objects) : /\ o # dir[name] => objects'[o] = objects[o]
                                         /\ objects'[o].blocks = objects[o].blocks
         /\ \A other \in Name \ {name} : Same(other)
         /\ dir'[name] = Nothing
<1>1. /\ objects \in Seq(File) /\ Len(objects) \in Nat /\ dir \in [Name -> 0 .. Len(objects)]
      /\ \A other \in Name \ {name} : dir[other] # Nothing => dir[other] # dir[name]
  BY DEF FilesInv
<1>2. dir[name] \in 1 .. Len(objects) /\ objects[dir[name]] \in File
  BY <1>1
<1>3. objects' = [objects EXCEPT ![dir[name]].stamp = clock'] /\ dir' = [dir EXCEPT ![name] = Nothing]
  BY DEF Unlink
<1>4. \A o \in 1 .. Len(objects) : o # dir[name] => objects'[o] = objects[o]
  BY <1>1, <1>3
<1>5. objects'[dir[name]].blocks = objects[dir[name]].blocks
  BY <1>1, <1>2, <1>3 DEF File
<1>6. \A other \in Name \ {name} : dir'[other] = dir[other] /\ dir[other] \in 0 .. Len(objects)
  BY <1>1, <1>3
<1>7. \A other \in Name \ {name} : Same(other)
  BY <1>1, <1>4, <1>6 DEF Same
<1>8. dir'[name] = Nothing
  BY <1>1, <1>3
<1> QED BY <1>4, <1>5, <1>7, <1>8

LEMMA ReplaceFrame ==
  ASSUME FilesInv, NEW name \in Name, dir[name] # Nothing, NEW inode, NEW blocks,
         Replace(name, inode, blocks)
  PROVE  /\ \A o \in 1 .. Len(objects) : /\ o # dir[name] => objects'[o] = objects[o]
                                         /\ objects'[o].blocks = objects[o].blocks
         /\ \A other \in Name \ {name} : Same(other)
         /\ dir'[name] = Len(objects) + 1 /\ objects'[dir'[name]].blocks = blocks
<1>1. /\ objects \in Seq(File) /\ Len(objects) \in Nat /\ dir \in [Name -> 0 .. Len(objects)]
      /\ \A other \in Name \ {name} : dir[other] # Nothing => dir[other] # dir[name]
      /\ clock' \in Nat
  BY DEF FilesInv, Replace, Stamp
<1>2. dir[name] \in 1 .. Len(objects) /\ objects[dir[name]] \in File
  BY <1>1
<1> DEFINE old == [objects[dir[name]] EXCEPT !.stamp = clock']
<1> DEFINE new == [inode |-> inode, stamp |-> clock', blocks |-> blocks]
<1> DEFINE before == [objects EXCEPT ![dir[name]] = old]
<1>3. objects' = Append(before, new) /\ dir' = [dir EXCEPT ![name] = Len(objects) + 1]
  BY DEF Replace
<1>4. old \in File /\ old.blocks = objects[dir[name]].blocks
  BY <1>1, <1>2 DEF File
<1>5. new.blocks = blocks
  OBVIOUS
<1> HIDE DEF old, new
<1>6. /\ before \in Seq(File) /\ Len(before) = Len(objects)
      /\ \A o \in 1 .. Len(objects) : o # dir[name] => before[o] = objects[o]
      /\ before[dir[name]] = old
  BY <1>1, <1>2, <1>4
<1> HIDE DEF before
<1>7. /\ \A o \in 1 .. Len(objects) : objects'[o] = before[o]
      /\ objects'[Len(objects) + 1] = new
  BY <1>1, <1>3, <1>6
<1>8. \A o \in 1 .. Len(objects) : /\ o # dir[name] => objects'[o] = objects[o]
                                   /\ objects'[o].blocks = objects[o].blocks
  BY <1>4, <1>6, <1>7
<1>9. \A other \in Name \ {name} : dir'[other] = dir[other] /\ dir[other] \in 0 .. Len(objects)
  BY <1>1, <1>3
<1>10. \A other \in Name \ {name} : Same(other)
  BY <1>1, <1>8, <1>9 DEF Same
<1>11. dir'[name] = Len(objects) + 1
  BY <1>1, <1>3
<1> QED BY <1>5, <1>7, <1>8, <1>10, <1>11

-----------------------------------------------------------------------------
(* Where the controller is, and the start of the Check *)

LEMMA ControlStep ==
  ASSUME Inv, Next
  PROVE  ControlInv'
<1> USE DEF ControlInv, Ended, AfterCopy, Verdicts, Reads
<1>0. ControlInv /\ Len(objects) \in Nat /\ dir \in [Name -> 0 .. Len(objects)]
      /\ {"marker", "data", "shard", "copy", "json"} = Name /\ FilesInv
  BY DEF Inv, FilesInv, Name
<1>1. CASE PublishStart
  BY <1>0, <1>1 DEF PublishStart, Publishing, Create, evidence
<1>2. CASE PublishRest
  BY <1>0, <1>2 DEF PublishRest, Publishing, Rewrite, evidence, files
<1>3. CASE Measure
  BY <1>0, <1>3 DEF Measure, Create, evidence
<1>4. CASE Ends \/ PrimaryEnds
  BY <1>0, <1>4 DEF Ends, PrimaryEnds, Publishing, evidence, files
<1>5. CASE WriteData
  <2>1. dir' = dir
    BY <1>5 DEF WriteData, Rewrite
  <2>2. /\ UNCHANGED <<pc, inner, converter, start, artifact, round, digest, converted, unseen>>
        /\ interferences' \in 0 .. InterferenceBound
    BY <1>0, <1>5 DEF WriteData, Interferes, evidence
  <2> QED BY <1>0, <2>1, <2>2
<1>6. CASE ReplaceOrRemoveData
  <2>1. dir'["copy"] = dir["copy"] /\ dir'["json"] = dir["json"]
    BY <1>0, <1>6 DEF ReplaceOrRemoveData, Replace, Unlink, Create
  <2>2. /\ UNCHANGED <<pc, inner, converter, start, artifact, round, digest, converted, unseen>>
        /\ interferences' \in 0 .. InterferenceBound
    BY <1>0, <1>6 DEF ReplaceOrRemoveData, Interferes, evidence
  <2> QED BY <1>0, <2>1, <2>2
<1>7. CASE RivalData
  <2>1. dir'["copy"] = dir["copy"] /\ dir'["json"] = dir["json"]
    BY <1>0, <1>7 DEF RivalData, Unlink, Create
  <2>2. /\ UNCHANGED <<pc, inner, converter, start, artifact, round, digest, converted, unseen>>
        /\ interferences' \in 0 .. InterferenceBound
    BY <1>0, <1>7 DEF RivalData, Interferes, evidence
  <2> QED BY <1>0, <2>1, <2>2
<1>8. CASE DamageInput \/ DamageDocument
  <2>1. /\ UNCHANGED <<pc, inner, converter, start, artifact, round, digest, converted>>
        /\ interferences' \in 0 .. InterferenceBound /\ pc # "done"
    BY <1>0, <1>8 DEF DamageInput, DamageDocument, Interferes, evidence
  <2>2. CASE DamageInput
    <3>1. dir' = dir /\ ("json" \in unseen' => "json" \in unseen)
      BY <2>2 DEF DamageInput, Rewrite, files, Unnoticed
    <3>2. unseen' \subseteq unseen \cup {"copy", "staged"} /\ unseen \subseteq unseen'
      BY <2>2 DEF DamageInput, Unnoticed
    <3> QED BY <1>0, <2>1, <3>1, <3>2
  <2>3. CASE DamageDocument
    <3>1. dir'["copy"] = dir["copy"]
      BY <1>0, <2>3 DEF DamageDocument, Rewrite, Replace, Unlink, Create
    <3>2. unseen' = IF converter \in {"closing", "succeeded"} THEN unseen \cup {"json"} ELSE unseen
      BY <2>3 DEF DamageDocument, Unnoticed
    <3>3. converter \in {"closing", "succeeded"} => "json" \in unseen'
      BY <3>2
    <3>4. "json" \in unseen' => converter \in {"closing"} \cup Ended
      BY <1>0, <3>2
    <3> QED BY <1>0, <2>1, <3>1, <3>3, <3>4
  <2> QED BY <1>8, <2>2, <2>3
<1>9. CASE OpenFile \/ ReadBlock
  BY <1>0, <1>9 DEF OpenFile, ReadBlock, evidence, files
<1>10. CASE JudgeMarker
  BY <1>0, <1>10 DEF JudgeMarker, Concludes, files
<1>11. CASE UnlinkMarker
  BY <1>0, <1>11 DEF UnlinkMarker, Unlink, files
<1>12. CASE Scan \/ Identify
  BY <1>0, <1>12 DEF Scan, Identify, Decides, Continues, Concludes, evidence, files
<1>13. CASE Digest
  <2>1. ReadAll => reading.got \in Content /\ Len(reading.got) <= MaxBlocks + 1
    BY <1>13 DEF Digest, ReadAll, HasRead, IsOpen, Inv, ReadInv
  <2> QED BY <1>0, <1>13, <2>1 DEF Digest, Decides, Concludes, files
<1>14. CASE Copy
  BY <1>0, <1>14 DEF Copy, ReadAgain, Decides, Concludes, Create, files
<1>15. CASE Surroundings
  BY <1>0, <1>15 DEF Surroundings, SnapshotChanged, Decides, Continues, Concludes, evidence, files
<1>16. CASE Verify
  <2>1. CASE SnapshotChanged
    BY <1>0, <1>16, <2>1 DEF Verify, SnapshotChanged, Decides, Concludes, files
  <2>2. CASE ReadAgain /\ Passes
    <3>1. "json" \in unseen' <=> "json" \in unseen
      BY <2>2 DEF ReadAgain
    <3>2. pc = "verify" /\ pc' = "reidentify" /\ UNCHANGED <<objects, dir, inner, interferences, converter, start,
                                                            round, digest, converted, artifact>>
      BY <1>16, <2>2 DEF Verify, Passes, Concludes, evidence, files
    <3> QED BY <1>0, <3>1, <3>2
  <2> QED BY <1>16, <2>1, <2>2 DEF Verify
<1>17. CASE Reidentify
  BY <1>0, <1>17 DEF Reidentify, SnapshotChanged, Decides, Concludes, files
<1>18. CASE Destination \/ EnsureStaged
  <2>1. CASE Destination
    BY <1>0, <1>18, <2>1 DEF Destination, Decides, Continues, Concludes, evidence, files
  <2>2. CASE EnsureStaged
    <3>1. pc = "staged" /\ round = 2 /\ converter = "none" /\ "json" \notin unseen
      BY <1>0, <2>2 DEF EnsureStaged
    <3> QED BY <1>0, <2>2, <3>1 DEF EnsureStaged, Decides, Concludes, evidence, files
  <2> QED BY <1>18, <2>1, <2>2
<1>19. CASE ConverterReads
  <2>1. Blocks("copy") \in Content
    BY <1>0, <1>19 DEF ConverterReads, ConverterActs, FilesInv
  <2> QED BY <1>0, <1>19, <2>1 DEF ConverterReads, ConverterActs, files
<1>20. CASE ConverterWrites
  <2>1. pc = "converting" /\ pc' = pc /\ converter = "writing" /\ converter' = "closing"
    BY <1>20 DEF ConverterWrites, ConverterActs
  <2>2. UNCHANGED <<inner, start, artifact, round, interferences, digest, converted, unseen>>
    BY <1>20 DEF ConverterWrites, ConverterActs
  <2>3. dir'["copy"] = dir["copy"] /\ dir'["json"] # Nothing
    BY <1>0, <1>20 DEF ConverterWrites, Create, Rewrite
  <2> QED BY <1>0, <2>1, <2>2, <2>3
<1>21. CASE ConverterCloses
  <2>1. pc = "converting" /\ pc' = pc /\ converter = "closing" /\ converter' = "succeeded"
    BY <1>21 DEF ConverterCloses, ConverterActs
  <2>2. UNCHANGED <<inner, start, artifact, round, interferences, digest, converted, unseen>>
    BY <1>21 DEF ConverterCloses, ConverterActs
  <2>3. dir' = dir
    BY <1>21 DEF ConverterCloses, Rewrite, files
  <2> QED BY <1>0, <2>1, <2>2, <2>3
<1>22. CASE ConverterEnds
  BY <1>0, <1>22 DEF ConverterEnds, Concludes, files
<1>23. CASE Classify
  BY <1>0, <1>23 DEF Classify, Decides, Continues, Concludes, evidence, files
<1>24. CASE ReadDocument
  BY <1>0, <1>24 DEF ReadDocument, Decides, Concludes, files
<1> QED BY <1>1, <1>2, <1>3, <1>4, <1>5, <1>6, <1>7, <1>8, <1>9, <1>10, <1>11, <1>12, <1>13, <1>14, <1>15,
           <1>16, <1>17, <1>18, <1>19, <1>20, <1>21, <1>22, <1>23, <1>24 DEF Next

(* Where the document keeps its name and its contents.                     *)
LEMMA DocumentStays ==
  ASSUME Inv, dir'["json"] = dir["json"],
         dir["json"] # Nothing => objects'[dir["json"]].blocks = objects[dir["json"]].blocks,
         converter' = "succeeded" => converter = "succeeded",
         "json" \in unseen' => "json" \in unseen
  PROVE  DocumentInv'
BY DEF Inv, DocumentInv, Blocks

LEMMA DocumentStep ==
  ASSUME Inv, Next
  PROVE  DocumentInv'
<1>0. /\ FilesInv /\ Name = {"marker", "data", "shard", "copy", "json"}
      /\ \A name \in Name \ {"json"} : "json" \in Name \ {name}
  BY DEF Inv, Name
<1>1. CASE PublishStart \/ PublishRest \/ Measure
  <2>1. Same("json")
    <3>1. CASE PublishStart
      BY <1>0, <3>1, CreateFrame DEF PublishStart
    <3>2. CASE PublishRest
      BY <1>0, <3>2, RewriteFrame DEF PublishRest, files, Same
    <3>3. CASE Measure
      BY <1>0, <3>3, CreateFrame DEF Measure
    <3> QED BY <1>1, <3>1, <3>2, <3>3
  <2>2. UNCHANGED <<converter, unseen>>
    BY <1>1 DEF PublishStart, PublishRest, Measure, Publishing
  <2> QED BY <2>1, <2>2, DocumentStays DEF Same
<1>2. CASE WriteData
  <2>1. PICK blocks : Rewrite("data", blocks)
    BY <1>2 DEF WriteData
  <2>2. Same("json")
    BY <1>0, <1>2, <2>1, RewriteFrame DEF WriteData
  <2>3. UNCHANGED <<converter, unseen>>
    BY <1>2 DEF WriteData, Interferes
  <2> QED BY <2>2, <2>3, DocumentStays DEF Same
<1>3. CASE ReplaceOrRemoveData
  <2>1. \/ dir["data"] # Nothing /\ \E inode, blocks : Replace("data", inode, blocks)
        \/ dir["data"] # Nothing /\ Unlink("data")
        \/ \E inode, blocks : Create("data", inode, blocks)
    BY <1>3 DEF ReplaceOrRemoveData
  <2>2. Same("json")
    BY <1>0, <2>1, ReplaceFrame, UnlinkFrame, CreateFrame
  <2>3. UNCHANGED <<converter, unseen>>
    BY <1>3 DEF ReplaceOrRemoveData, Interferes
  <2> QED BY <2>2, <2>3, DocumentStays DEF Same
<1>4. CASE RivalData
  <2>1. Same("json")
    BY <1>0, <1>4, UnlinkFrame, CreateFrame DEF RivalData
  <2>2. UNCHANGED <<converter, unseen>>
    BY <1>4 DEF RivalData, Interferes
  <2> QED BY <2>1, <2>2, DocumentStays DEF Same
<1>5. CASE DamageInput
  <2>1. (dir["copy"] # Nothing /\ \E blocks : Rewrite("copy", blocks)) \/ UNCHANGED files
    BY <1>5 DEF DamageInput
  <2>2. Same("json")
    BY <1>0, <2>1, RewriteFrame DEF files, Same
  <2>3. converter' = converter /\ unseen' \subseteq unseen \cup {"copy", "staged"}
    BY <1>5 DEF DamageInput, Interferes, Unnoticed
  <2> QED BY <2>2, <2>3, DocumentStays DEF Same
<1>6. CASE DamageDocument
  <2>1. Len(SomethingElse) = 2
    BY DEF SomethingElse
  <2>2. dir'["json"] = Nothing \/ objects'[dir'["json"]].blocks = SomethingElse
    <3>1. CASE Create("json", 1, SomethingElse)
      BY <1>0, <3>1, CreateFrame
    <3>2. CASE dir["json"] # Nothing /\ Rewrite("json", SomethingElse)
      BY <1>0, <3>2, RewriteFrame
    <3>3. CASE dir["json"] # Nothing /\ Replace("json", 1, SomethingElse)
      BY <1>0, <3>3, ReplaceFrame
    <3>4. CASE dir["json"] # Nothing /\ Unlink("json")
      BY <1>0, <3>4, UnlinkFrame
    <3> QED BY <1>6, <3>1, <3>2, <3>3, <3>4 DEF DamageDocument
  <2> QED BY <2>1, <2>2 DEF DocumentInv, Blocks
<1>7. CASE UnlinkMarker
  <2>1. Same("json")
    BY <1>0, <1>7, UnlinkFrame DEF UnlinkMarker, files, Same
  <2>2. UNCHANGED <<converter, unseen>>
    BY <1>7 DEF UnlinkMarker
  <2> QED BY <2>1, <2>2, DocumentStays DEF Same
<1>8. CASE Copy
  <2>1. Create("copy", 1, reading.got) \/ UNCHANGED files
    BY <1>8 DEF Copy, Decides, Concludes
  <2>2. Same("json")
    BY <1>0, <2>1, CreateFrame DEF files, Same
  <2>3. converter' = converter /\ unseen' \subseteq unseen
    BY <1>8 DEF Copy, ReadAgain, Decides
  <2> QED BY <2>2, <2>3, DocumentStays DEF Same
<1>9. CASE ConverterWrites
  BY <1>9 DEF ConverterWrites, ConverterActs, Inv, ControlInv, DocumentInv, Ended
<1>10. CASE ConverterCloses
  <2>1. converted \in Content /\ unseen' = unseen
    BY <1>10 DEF ConverterCloses, ConverterActs, Inv, ControlInv
  <2>2. Len(SomethingElse) = 2 /\ Len(Document(converted)) = 2
    BY <2>1, DocumentIsFile DEF SomethingElse
  <2>3. CASE dir["json"] # Nothing /\ \E blocks \in {SomethingElse, Document(converted)} : Rewrite("json", blocks)
    <3>1. PICK blocks \in {SomethingElse, Document(converted)} : Rewrite("json", blocks)
      BY <2>3
    <3>2. objects'[dir'["json"]].blocks = blocks
      BY <1>0, <2>3, <3>1, RewriteFrame
    <3> QED BY <2>2, <3>2 DEF DocumentInv, Blocks
  <2>4. CASE "json" \in unseen /\ UNCHANGED files
    BY <2>1, <2>4 DEF Inv, DocumentInv, files, Blocks
  <2> QED BY <1>10, <2>3, <2>4 DEF ConverterCloses
<1>11. CASE \/ Ends \/ PrimaryEnds \/ JudgeMarker \/ OpenFile \/ ReadBlock
            \/ Scan \/ Identify \/ Digest \/ Surroundings \/ Verify \/ Reidentify
            \/ Destination \/ EnsureStaged \/ ConverterReads \/ ConverterEnds
            \/ Classify \/ ReadDocument
  <2> USE DEF Concludes, Decides, Continues, Passes, SnapshotChanged, ConverterActs, ReadAgain, Publishing
  <2>1. /\ UNCHANGED files
        /\ converter' = "succeeded" => converter = "succeeded"
        /\ unseen' \subseteq unseen \cup {"data"}
    <3>1. CASE Ends \/ PrimaryEnds \/ JudgeMarker \/ OpenFile \/ ReadBlock
      BY <3>1 DEF Ends, PrimaryEnds, JudgeMarker, OpenFile, ReadBlock
    <3>2. CASE Scan \/ Identify \/ Digest
      BY <3>2 DEF Scan, Identify, Digest
    <3>3. CASE Surroundings \/ Verify \/ Reidentify
      BY <3>3 DEF Surroundings, Verify, Reidentify
    <3>4. CASE Destination \/ EnsureStaged \/ ConverterReads \/ ConverterEnds \/ ReadDocument
      BY <3>4 DEF Destination, EnsureStaged, ConverterReads, ConverterEnds, ReadDocument
    <3>5. CASE Classify
      BY <3>5 DEF Classify, Inv, ControlInv, Ended
    <3> QED BY <1>11, <3>1, <3>2, <3>3, <3>4, <3>5
  <2> QED BY <2>1, DocumentStays DEF files
<1> QED BY <1>1, <1>2, <1>3, <1>4, <1>5, <1>6, <1>7, <1>8, <1>9, <1>10, <1>11 DEF Next

LEMMA StartStep ==
  ASSUME Inv, Next, FilesInv', ReadInv'
  PROVE  StartInv'
<1> USE DEF StartInv, AcceptedStartIsWhole
<1>0. StartInv /\ FilesInv /\ dir \in [Name -> 0 .. Len(objects)] /\ Len(objects) \in Nat
      /\ "marker" \in Name /\ objects \in Seq(File)
  BY DEF Inv, FilesInv, Name
(* A write to another file leaves the marker as it is. *)
<1>a. ASSUME dir'["marker"] = dir["marker"],
             dir["marker"] # Nothing => objects'[dir["marker"]].blocks = objects[dir["marker"]].blocks,
             UNCHANGED <<pc, inner, ended, start, digest>>,
             reading # NotOpen => reading' # NotOpen /\ reading'.got = reading.got,
             reading = NotOpen => reading' = NotOpen
      PROVE  StartInv'
  BY <1>0, <1>a DEF Blocks
<1>b. ASSUME Watched
      PROVE  /\ reading # NotOpen => reading' # NotOpen /\ reading'.got = reading.got
             /\ reading = NotOpen => reading' = NotOpen
  <2>1. CASE reading = NotOpen
    BY <1>b, <2>1 DEF Watched
  <2>2. CASE reading # NotOpen
    <3>1. reading \in Reading
      BY <2>2 DEF Inv, ReadInv
    <3>2. reading'.object # Nothing /\ reading'.got = reading.got /\ DOMAIN reading' = DOMAIN reading
      BY <1>b, <2>2, <3>1 DEF Watched, Reading
    <3>3. NotOpen.object = Nothing
      BY DEF NotOpen
    <3> QED BY <2>2, <3>2, <3>3
  <2> QED BY <2>1, <2>2
<1>1. CASE PublishStart
  <2>1. /\ UNCHANGED <<pc, ended, start, digest, reading>>
        /\ inner = "starting" /\ inner' = "publishing"
        /\ Create("marker", 1, <<1>>)
    BY <1>1 DEF PublishStart, Publishing, Marker, evidence
  <2>2. dir["marker"] = Nothing /\ start # "valid"
    BY <1>0, <2>1
  <2>3. pc = "marker" => reading = NotOpen
    BY <2>2 DEF Inv, ReadInv
  <2>4. dir'["marker"] = Len(objects) + 1 /\ objects'[Len(objects) + 1].blocks = <<1>>
    BY <1>0, <2>1 DEF Create
  <2> QED BY <1>0, <2>1, <2>2, <2>3, <2>4 DEF Blocks
<1>2. CASE PublishRest
  <2>1. UNCHANGED <<pc, ended, start, digest>> /\ inner = "publishing" /\ inner' = "published"
        /\ dir' = dir
    BY <1>2 DEF PublishRest, Publishing, evidence, files, Rewrite
  <2> QED BY <1>0, <2>1
<1>3. CASE Measure
  <2>1. UNCHANGED <<pc, ended, start, digest, reading>> /\ inner = "published" /\ inner' = "measured"
        /\ dir'["marker"] = dir["marker"]
    BY <1>0, <1>3 DEF Measure, evidence, Create
  <2> QED BY <1>0, <2>1
<1>4. CASE Ends
  BY <1>0, <1>4 DEF Ends, Publishing, evidence, files
<1>5. CASE PrimaryEnds
  <2>1. reading = NotOpen
    BY <1>5 DEF PrimaryEnds, Inv, ReadInv, Reads
  <2> QED BY <1>0, <1>5, <2>1 DEF PrimaryEnds, evidence, files, Blocks
<1>6. CASE WriteData
  <2>1. dir["data"] # Nothing /\ Watched /\ UNCHANGED <<pc, inner, ended, start, digest>>
    BY <1>6 DEF WriteData, Interferes, evidence
  <2>2. PICK blocks : Rewrite("data", blocks)
    BY <1>6 DEF WriteData
  <2>3. dir' = dir /\ (dir["marker"] # Nothing => dir["marker"] # dir["data"])
    BY <1>0, <2>2 DEF Rewrite, FilesInv, Name
  <2>4. dir["marker"] # Nothing => objects'[dir["marker"]] = objects[dir["marker"]]
    BY <1>0, <2>2, <2>3 DEF Rewrite
  <2> QED BY <1>a, <1>b, <2>1, <2>3, <2>4
<1>7. CASE ReplaceOrRemoveData
  <2>1. Watched /\ UNCHANGED <<pc, inner, ended, start, digest>>
    BY <1>7 DEF ReplaceOrRemoveData, Interferes, evidence
  <2>2. dir'["marker"] = dir["marker"]
    BY <1>0, <1>7 DEF ReplaceOrRemoveData, Replace, Unlink, Create
  <2>3. dir["data"] # Nothing /\ dir["marker"] # Nothing => dir["marker"] # dir["data"]
    BY <1>0 DEF FilesInv, Name
  <2>4. dir["marker"] # Nothing => objects'[dir["marker"]].blocks = objects[dir["marker"]].blocks
    <3>1. CASE dir["data"] # Nothing
          /\ \E inode \in FreeInodes, block \in {1, 2} : Replace("data", inode, <<block, block>>)
      <4>1. PICK inode \in FreeInodes, block \in {1, 2} : Replace("data", inode, <<block, block>>)
        BY <3>1
      <4>2. inode \in Nat /\ <<block, block>> \in Content /\ Len(<<block, block>>) <= MaxBlocks + 1
        BY DEF FreeInodes, Content
      <4>3. \A o \in 1 .. Len(objects) : objects'[o].blocks = objects[o].blocks
        BY <1>0, <3>1, <4>1, <4>2, ReplaceFile DEF Name
      <4> QED BY <1>0, <4>3
    <3>2. CASE dir["data"] # Nothing /\ Unlink("data")
      BY <1>0, <2>3, <3>2 DEF Unlink
    <3>3. CASE \E inode \in FreeInodes : Create("data", inode, <<1, 1>>)
      BY <1>0, <3>3 DEF Create
    <3> QED BY <1>7, <3>1, <3>2, <3>3 DEF ReplaceOrRemoveData
  <2> QED BY <1>a, <1>b, <2>1, <2>2, <2>4
<1>8. CASE RivalData
  <2>1. Watched /\ UNCHANGED <<pc, inner, ended, start, digest>>
    BY <1>8 DEF RivalData, Interferes, evidence
  <2>2. dir'["marker"] = dir["marker"]
    BY <1>0, <1>8 DEF RivalData, Unlink, Create
  <2>3. dir["shard"] # Nothing /\ dir["marker"] # Nothing => dir["marker"] # dir["shard"]
    BY <1>0 DEF FilesInv, Name
  <2>4. dir["marker"] # Nothing => objects'[dir["marker"]].blocks = objects[dir["marker"]].blocks
    <3>1. CASE dir["shard"] # Nothing /\ Unlink("shard")
      BY <1>0, <2>3, <3>1 DEF Unlink
    <3>2. CASE Create("shard", 1, <<1>>)
      BY <1>0, <3>2 DEF Create
    <3> QED BY <1>8, <3>1, <3>2 DEF RivalData
  <2> QED BY <1>a, <1>b, <2>1, <2>2, <2>4
<1>9. CASE DamageInput \/ DamageDocument
  <2>1. Watched /\ UNCHANGED <<pc, inner, ended, start, digest>>
    BY <1>9 DEF DamageInput, DamageDocument, Interferes, evidence
  <2>2. Same("marker")
    <3>1. CASE DamageInput
      <4>1. (dir["copy"] # Nothing /\ \E blocks : Rewrite("copy", blocks)) \/ UNCHANGED files
        BY <3>1 DEF DamageInput
      <4> QED BY <1>0, <4>1, RewriteFrame DEF files, Same, Name
    <3>2. CASE DamageDocument
      BY <1>0, <3>2, CreateFrame, RewriteFrame, ReplaceFrame, UnlinkFrame DEF DamageDocument, Name
    <3> QED BY <1>9, <3>1, <3>2
  <2> QED BY <1>a, <1>b, <2>1, <2>2 DEF Same
<1>10. CASE OpenFile
  <2>1. /\ UNCHANGED <<pc, inner, ended, start, digest, objects, dir>>
        /\ reading'.got = <<>>
    BY <1>10 DEF OpenFile, evidence, files
  <2>2. Len(reading'.got) <= 1
    BY <2>1
  <2> QED BY <1>0, <2>1, <2>2 DEF Blocks
<1>11. CASE ReadBlock
  <2>1. /\ UNCHANGED <<pc, inner, ended, start, digest, objects, dir>>
        /\ reading # NotOpen /\ ~(Len(reading.got) >= Len(objects[reading.object].blocks))
    BY <1>11 DEF ReadBlock, IsOpen, AtTheEnd, evidence, files
  <2>2. reading \in Reading /\ (pc = "marker" => reading.object = dir["marker"])
        /\ reading.object \in 1 .. Len(objects)
    BY <2>1 DEF Inv, ReadInv
  <2>3. ASSUME pc = "marker", inner = "publishing"
        PROVE  Len(reading'.got) <= 1
    <3>1. dir["marker"] # Nothing
      BY <1>0, <2>2, <2>3
    <3>2. objects[reading.object].blocks = <<1>>
      BY <1>0, <2>2, <2>3, <3>1 DEF Blocks
    <3>3. reading.got \in Seq(Block) /\ Len(reading.got) \in Nat /\ Len(<<1>>) = 1
      BY <2>2 DEF Reading
    <3>4. Len(reading.got) = 0
      BY <2>1, <3>2, <3>3
    <3>5. reading'.got = Append(reading.got, objects[reading.object].blocks[Len(reading.got) + 1])
      BY <1>11, <2>2 DEF ReadBlock, Reading
    <3> QED BY <3>3, <3>4, <3>5
  <2> QED BY <1>0, <2>1, <2>3 DEF Blocks
<1>12. CASE JudgeMarker
  <2>1. /\ UNCHANGED <<inner, ended, digest, objects, dir>> /\ pc = "marker" /\ pc' = "unlink"
        /\ start' = "valid" => ReadAll /\ reading.got = Marker
    BY <1>12 DEF JudgeMarker, Concludes, Whole, files
  <2>2. ASSUME start' = "valid"
        PROVE  inner \notin {"starting", "publishing"}
    <3>1. reading # NotOpen /\ Len(reading.got) = 2
      BY <2>1, <2>2 DEF ReadAll, HasRead, IsOpen, Marker
    <3>2. reading.object = dir["marker"] /\ reading.object # Nothing
      BY <2>1, <3>1 DEF Inv, ReadInv, Reading
    <3> QED BY <1>0, <2>1, <3>1, <3>2
  <2>3. digest = <<>>
    BY <1>0, <2>1
  <2> QED BY <1>0, <2>1, <2>2, <2>3 DEF Blocks
<1>13. CASE UnlinkMarker
  <2>1. UNCHANGED <<inner, ended, digest, start, reading>> /\ pc = "unlink"
        /\ pc' \in {"scan", "done"} /\ dir'["marker"] = Nothing
        /\ (pc' = "scan" => start = "valid" /\ ended = "usable_exit")
    BY <1>0, <1>13 DEF UnlinkMarker, Unlink, files
  <2> QED BY <1>0, <2>1
<1>14. CASE \/ Scan \/ Identify \/ Digest \/ Surroundings \/ Verify \/ Reidentify
            \/ Destination \/ EnsureStaged \/ ConverterReads \/ ConverterEnds
            \/ Classify \/ ReadDocument \/ Copy \/ ConverterWrites \/ ConverterCloses
  <2> DEFINE Past == pc \notin {"running", "marker", "unlink", "done"}
  <2> USE DEF Concludes, Decides, Continues, Passes, ReadAgain, SnapshotChanged, evidence, files, ConverterActs
  <2>1. Past /\ pc' \notin {"running", "marker", "unlink"}
        /\ UNCHANGED <<inner, ended, start>>
    <3>1. CASE Scan \/ Identify \/ Digest \/ Copy
      BY <3>1 DEF Scan, Identify, Digest, Copy
    <3>2. CASE Surroundings \/ Verify \/ Destination \/ EnsureStaged
      BY <3>2 DEF Surroundings, Verify, Destination, EnsureStaged
    <3>3. CASE Reidentify
      BY <3>3 DEF Reidentify, Inv, ControlInv
    <3>4. CASE ConverterReads \/ ConverterWrites \/ ConverterCloses \/ ConverterEnds
      BY <3>4 DEF ConverterReads, ConverterWrites, ConverterCloses, ConverterEnds
    <3>5. CASE Classify
      BY <3>5 DEF Classify, Inv, ControlInv, Ended
    <3>6. CASE ReadDocument
      BY <3>6 DEF ReadDocument
    <3> QED BY <1>14, <3>1, <3>2, <3>3, <3>4, <3>5, <3>6
  <2>2. start = "valid" /\ ended = "usable_exit" /\ dir["marker"] = Nothing
        /\ inner \notin {"starting", "publishing"}
    BY <1>0, <2>1
  <2>3. dir'["marker"] = dir["marker"]
    <3>1. CASE Copy
      BY <1>0, <3>1 DEF Copy, Create
    <3>2. CASE ConverterWrites \/ ConverterCloses
      BY <1>0, <3>2 DEF ConverterWrites, ConverterCloses, Create, Rewrite
    <3>3. CASE \/ Scan \/ Identify \/ Digest \/ Surroundings \/ Verify \/ Reidentify
               \/ Destination \/ EnsureStaged \/ ConverterReads \/ ConverterEnds \/ ReadDocument
      BY <3>3 DEF Scan, Identify, Digest, Surroundings, Verify, Reidentify, Destination, EnsureStaged,
                  ConverterReads, ConverterEnds, ReadDocument
    <3>4. CASE Classify
      BY <3>4 DEF Classify, Inv, ControlInv, Ended
    <3> QED BY <1>14, <3>1, <3>2, <3>3, <3>4
  <2> HIDE DEF Past
  <2> QED BY <2>1, <2>2, <2>3
<1> QED BY <1>1, <1>2, <1>3, <1>4, <1>5, <1>6, <1>7, <1>8, <1>9, <1>10, <1>11, <1>12, <1>13, <1>14 DEF Next

-----------------------------------------------------------------------------
(* The theorems *)

LEMMA InitInv == Init => Inv
<1> SUFFICES ASSUME Init
             PROVE  Inv
  OBVIOUS
<1>1. objects = <<>> /\ clock = 0 /\ dir = [name \in Name |-> Nothing] /\ reading = NotOpen
  BY DEF Init
<1>2. objects \in Seq(File) /\ Len(objects) = 0
  BY <1>1
<1>3. dir \in [Name -> 0 .. Len(objects)]
  BY <1>1, <1>2
<1>4. \A name \in Name : dir[name] = Nothing
  BY <1>1
<1>5. FilesInv
  BY <1>1, <1>2, <1>3, <1>4 DEF FilesInv, Name
<1>6. ControlInv /\ DocumentInv
  BY <1>4 DEF Init, ControlInv, DocumentInv, Name, Ended, AfterCopy, Verdicts, Content, Reads
<1>7. ReadInv
  BY <1>1 DEF ReadInv
<1>8. StartInv
  BY <1>4 DEF Init, StartInv, AcceptedStartIsWhole, Name
<1> QED BY <1>5, <1>6, <1>7, <1>8 DEF Inv

(* Inv is inductive.                                                       *)
LEMMA AlwaysInv == Spec => []Inv
<1>1. Inv /\ [Next]_vars => Inv'
  <2>1. Inv /\ Next => Inv'
    BY FilesAndRead, ControlStep, DocumentStep, StartStep DEF Inv
  <2> QED BY <2>1, StutterKeeps
<1> QED BY <1>1, InitInv, PTL DEF Spec

(* The files of the workspace, the read and the verdicts keep their form,  *)
(* no file grows past what a bounded read notices, and no two names ever   *)
(* denote one file.                                                        *)
THEOREM TypeCorrect == Spec => []TypeOK
<1>1. Inv => TypeOK
  <2> SUFFICES ASSUME Inv
               PROVE  TypeOK
    OBVIOUS
  <2>1. DOMAIN objects = 1 .. Len(objects)
    BY DEF Inv, FilesInv
  <2>2. /\ \A o \in DOMAIN objects : objects[o].stamp <= clock /\ Len(objects[o].blocks) <= MaxBlocks + 1
        /\ dir \in [Name -> 0 .. Len(objects)]
        /\ \A name \in Name : dir[name] # Nothing => \A other \in Name \ {name} : dir[other] # dir[name]
    BY <2>1 DEF Inv, FilesInv
  <2>3. reading # NotOpen => /\ pc \in Reads /\ Len(reading.got) <= MaxBlocks + 1
                             /\ reading.object \in DOMAIN objects
                             /\ Moment(objects[reading.object]) \in reading.seen
    BY <2>1 DEF Inv, ReadInv
  <2> QED BY <2>2, <2>3 DEF TypeOK, Inv, ControlInv
<1> QED BY <1>1, AlwaysInv, PTL

(* A read that is accepted, under the invariant.                           *)
LEMMA OneMoment ==
  ASSUME Inv
  PROVE  ReadingIsOneMoment
<1> SUFFICES ASSUME ReadAll, ~TwoAlike(reading.seen)
             PROVE  \E moment \in reading.seen : moment.blocks = reading.got
  BY DEF ReadingIsOneMoment
<1> DEFINE now == Moment(objects[reading.object])
<1>1. /\ reading # NotOpen /\ AtTheEnd /\ SameStatus(reading.object)
      /\ ~TooLarge(Len(reading.got))
      /\ UntilTheEnd \/ Len(reading.got) = reading.initial.size
  BY DEF ReadAll, HasRead, IsOpen, Unchanged
<1>2. /\ reading \in Reading /\ reading.object \in 1 .. Len(objects) /\ now \in reading.seen
      /\ \A moment \in reading.seen : /\ reading.initial.stamp <= moment.stamp
                                      /\ moment.stamp <= objects[reading.object].stamp
      /\ Still => Chain(reading.seen) /\ Begins(reading.got, reading.seen)
  BY <1>1 DEF Inv, ReadInv
<1>3. /\ reading.seen \subseteq MomentOfFile /\ reading.got \in Seq(Block)
      /\ reading.initial.stamp \in Nat
  BY <1>2 DEF Reading
<1>4. /\ objects[reading.object].stamp = reading.initial.stamp
      /\ Len(objects[reading.object].blocks) = reading.initial.size
  BY <1>1 DEF SameStatus, Status
<1>5. \A moment \in reading.seen : moment.stamp = reading.initial.stamp
  <2> SUFFICES ASSUME NEW moment \in reading.seen
               PROVE  moment.stamp = reading.initial.stamp
    OBVIOUS
  <2>1. moment.stamp \in Nat
    BY <1>3 DEF MomentOfFile
  <2> QED BY <1>2, <1>3, <1>4, <2>1
<1>6. Still
  BY <1>5 DEF Still, SizesTell, TwoAlike
<1>7. now.blocks = objects[reading.object].blocks
  BY DEF Moment
<1>8. Len(reading.got) >= Len(now.blocks)
  <2>1. CASE ~UntilTheEnd
    <3>1. Len(reading.got) = Len(now.blocks) /\ Len(reading.got) \in Nat
      BY <1>1, <1>3, <1>4, <1>7, <2>1
    <3> QED BY <3>1
  <2>2. CASE UntilTheEnd
    <3>1. Len(reading.got) \in Nat /\ Len(reading.got) <= MaxBlocks
      BY <1>1, <1>3 DEF TooLarge
    <3>2. Wanted = MaxBlocks + 1
      BY <2>2 DEF Wanted
    <3> QED BY <1>1, <1>7, <3>1, <3>2 DEF AtTheEnd
  <2> QED BY <2>1, <2>2
<1> HIDE DEF now
<1> QED BY <1>2, <1>3, <1>6, <1>8, WholeReadIsAMoment

(* read_regular_file, digest_regular_file and copy_regular_file: bytes     *)
(* that _verify_unchanged lets pass are those of one moment of the file,   *)
(* however it is written, cut or replaced between the blocks, unless two   *)
(* of its states had the same time stamp and the same size.                *)
THEOREM AcceptedReadIsOneMoment == Spec => []ReadingIsOneMoment
BY AlwaysInv, OneMoment, PTL

(* validate_start_marker: a start is accepted only when the launcher has   *)
(* published the whole marker, the marker goes with the verdict, and       *)
(* coverage data are only looked at after an accepted start and an exit.   *)
THEOREM StartIsWhole == Spec => []AcceptedStartIsWhole
<1>1. Inv => AcceptedStartIsWhole
  BY DEF Inv, StartInv
<1> QED BY <1>1, AlwaysInv, PTL

-----------------------------------------------------------------------------
(* An accepted document is the whole conversion of the data that were      *)
(* digested, and these data were those of one moment, but for what was     *)
(* changed unseen.                                                         *)

(* What the coverage data have been, and that their digest is one of it.   *)
VersionsInv ==
  /\ versions \in SUBSET Seq({1, 2})
  /\ dir["data"] # Nothing => Blocks("data") \in versions
  /\ reading # NotOpen /\ FileRead = "data" => \A moment \in reading.seen : moment.blocks \in versions
  /\ pc \in {"copy"} \cup AfterCopy \/ artifact = "snapshot" => digest \in versions \/ "data" \in unseen
  /\ pc = "running" /\ inner \in {"starting", "publishing", "published"} => versions = {}

(* The original and the copy were found to be the data that were digested. *)
Verified == pc \in {"reidentify", "json"} \/ (pc = "classify" /\ sound) \/ artifact = "snapshot"

(* From the last digest of the copy before the conversion until the        *)
(* converter reads it, the copy can only change unseen.                    *)
Window ==
  \/ round = 2 /\ pc \in {"reidentify", "destination", "staged"}
  \/ pc = "converting" /\ converter = "reading"

NeitherStagedNorJson == unseen \cap {"staged", "json"} = {}

(* What the converter read is what was digested, what it closed is its     *)
(* document, and what is read of that is what it closed.                   *)
ConversionInv ==
  /\ pc = "json" \/ artifact = "snapshot" =>
       round = 3 /\ converter = "succeeded" /\ sound /\ start = "valid" /\ ended = "usable_exit"
  /\ Window => Blocks("copy") = digest \/ "copy" \in unseen
  /\ converter \in {"writing", "closing", "succeeded"} => converted = digest \/ "copy" \in unseen
  /\ converter = "succeeded" /\ NeitherStagedNorJson =>
       dir["json"] # Nothing /\ Blocks("json") = Document(converted)
  /\ artifact = "snapshot" /\ NeitherStagedNorJson => document = Document(converted)
  /\ pc = "json" /\ reading # NotOpen /\ NeitherStagedNorJson =>
       /\ reading.object = dir["json"]
       /\ reading.seen = {Moment(objects[reading.object])}
       /\ reading.initial = Status(reading.object)

(* What the last verification saw is so as long as nothing interferes.     *)
QuietInv == quiet =>
  /\ reading # NotOpen /\ FileRead = "data" => /\ reading.object = dir["data"]
                                               /\ reading.seen = {Moment(objects[reading.object])}
                                               /\ reading.initial = Status(reading.object)
  /\ round = 3 /\ sound => staged
  /\ round = 3 /\ pc \in {"verify", "reidentify"} => SameData /\ dir["shard"] = Nothing
  /\ round = 3 /\ Verified => SameData /\ dir["shard"] = Nothing /\ Blocks("data") = digest

(* Without interference the data of the measurement pass every look.       *)
UndisturbedInv == interferences = 0 =>
  /\ quiet /\ staged /\ dir["shard"] = Nothing /\ unseen = {}
  /\ versions # {} => dir["data"] # Nothing /\ Blocks("data") = <<1, 1>> /\ versions = {<<1, 1>>}
  /\ pc \in {"digest", "copy"} \cup AfterCopy => SameData
  /\ pc \in AfterCopy => Blocks("copy") = digest
  /\ round = 3 /\ pc # "done" => sound
  /\ converter = "succeeded" => artifact \in {"none", "snapshot"}

EvidenceParts == VersionsInv /\ ConversionInv /\ QuietInv /\ UndisturbedInv
EvidenceInv == Inv /\ EvidenceParts

-----------------------------------------------------------------------------
(* Steps of the controller and of others, by what they leave alone *)

(* A read of a file that is not written has seen nothing new.              *)
LEMMA ReadingAlone ==
  ASSUME Inv, Watched, reading # NotOpen => objects'[reading.object] = objects[reading.object]
  PROVE  reading' = reading
<1>1. CASE reading = NotOpen
  BY <1>1 DEF Watched
<1>2. CASE reading # NotOpen
  <2>1. reading \in Reading /\ Moment(objects[reading.object]) \in reading.seen
    BY <1>2 DEF Inv, ReadInv
  <2>2. Moment(objects'[reading.object]) = Moment(objects[reading.object])
    BY <1>2 DEF Moment
  <2>3. reading' = [reading EXCEPT !.seen = reading.seen \cup {Moment(objects'[reading.object])}]
    BY <1>2 DEF Watched
  <2>4. reading.seen \cup {Moment(objects'[reading.object])} = reading.seen
    BY <2>1, <2>2
  <2> QED BY <2>1, <2>3, <2>4 DEF Reading
<1> QED BY <1>1, <1>2

(* The file of the data, and of the document, while it is read.            *)
LEMMA FileOfRead ==
  ASSUME Inv, reading # NotOpen
  PROVE  /\ pc \in Reads /\ reading \in Reading
         /\ reading.object \in 1 .. Len(objects)
         /\ FileRead \in {"marker", "data", "json"}
         /\ \A name \in Name \ {FileRead} : dir[name] # reading.object
         /\ (FileRead = "data" <=> pc \in {"digest", "copy", "verify"})
         /\ (FileRead = "json" <=> pc = "json")
BY DEF Inv, ReadInv, FileRead, Reads

-----------------------------------------------------------------------------
(* The launcher, the read in progress and the verdict on the marker        *)

(* The conversion is as it was while the copy that will be read, and the   *)
(* document, are left alone.                                               *)
LEMMA ConversionStays ==
  ASSUME EvidenceInv, Same("json"),
         UNCHANGED <<pc, ended, start, digest, round, converted, sound, artifact, document, converter, unseen>>,
         Window => Blocks("copy")' = Blocks("copy"),
         pc = "json" /\ reading' # NotOpen => reading # NotOpen /\ reading' = reading
  PROVE  ConversionInv'
<1>1. (Window' <=> Window) /\ (NeitherStagedNorJson' <=> NeitherStagedNorJson)
  BY DEF Window, NeitherStagedNorJson
<1>2. dir'["json"] = dir["json"] /\ (dir["json"] # Nothing => Blocks("json")' = Blocks("json"))
  BY DEF Same, Blocks
<1>3. ASSUME pc' = "json", reading' # NotOpen, NeitherStagedNorJson'
      PROVE  /\ reading'.object = dir'["json"]
             /\ reading'.seen = {Moment(objects'[reading'.object])}
             /\ reading'.initial = Status(reading.object)'
  <2>1. reading # NotOpen /\ reading' = reading /\ pc = "json" /\ NeitherStagedNorJson
    BY <1>1, <1>3
  <2>2. /\ reading.object = dir["json"]
        /\ reading.seen = {Moment(objects[reading.object])}
        /\ reading.initial = Status(reading.object)
    BY <2>1 DEF EvidenceInv, EvidenceParts, ConversionInv
  <2>3. reading.object # Nothing
    BY <2>1, FileOfRead DEF EvidenceInv, Reading
  <2>4. objects'[reading.object] = objects[reading.object]
    BY <2>2, <2>3 DEF Same
  <2> QED BY <1>2, <2>1, <2>2, <2>4 DEF Moment, Status
<1>5. /\ pc' = "json" \/ artifact' = "snapshot" =>
           round' = 3 /\ converter' = "succeeded" /\ sound' /\ start' = "valid" /\ ended' = "usable_exit"
      /\ converter' \in {"writing", "closing", "succeeded"} => converted' = digest' \/ "copy" \in unseen'
  BY DEF EvidenceInv, EvidenceParts, ConversionInv
<1>6. /\ Window' => Blocks("copy")' = digest' \/ "copy" \in unseen'
      /\ converter' = "succeeded" /\ NeitherStagedNorJson' =>
           dir'["json"] # Nothing /\ Blocks("json")' = Document(converted')
      /\ artifact' = "snapshot" /\ NeitherStagedNorJson' => document' = Document(converted')
  BY <1>1, <1>2 DEF EvidenceInv, EvidenceParts, ConversionInv
<1> QED BY <1>3, <1>5, <1>6 DEF ConversionInv

LEMMA NothingMoves ==
  ASSUME EvidenceInv, Same("data"), Same("shard"), Same("copy"), Same("json"),
         pc' = pc, reading # NotOpen /\ pc # "marker" => reading' = reading,
         reading = NotOpen => reading' = NotOpen,
         UNCHANGED <<staged, ended, evidence, converter, interferences, quiet, unseen, versions>>,
         inner' \in {"starting", "publishing", "published"} => inner \in {"starting", "publishing", "published"}
  PROVE  EvidenceParts'
<1>1. /\ UNCHANGED <<start, original, digest, round, converted, sound, artifact, document>>
      /\ FileRead' = FileRead
  BY DEF evidence, FileRead
<1>2. reading' # NotOpen /\ (FileRead = "data" \/ pc = "json") => reading # NotOpen /\ reading' = reading
  BY DEF FileRead
<1>4. dir["data"] # Nothing => Blocks("data")' = Blocks("data")
  BY DEF Same, Blocks
<1>5. /\ pc \in AfterCopy => Blocks("copy")' = Blocks("copy")
      /\ dir["json"] # Nothing => Blocks("json")' = Blocks("json")
      /\ dir'["json"] = dir["json"]
  BY DEF Same, Blocks, EvidenceInv, EvidenceParts, Inv, ControlInv
<1>6. SameData' <=> SameData
  BY <1>1 DEF Same, SameData
<1>7. dir'["data"] = dir["data"] /\ dir'["shard"] = dir["shard"]
  BY DEF Same
<1>8. VersionsInv'
  BY <1>1, <1>2, <1>4, <1>7 DEF EvidenceInv, EvidenceParts, VersionsInv
<1>9. ConversionInv'
  <2>1. Window => Blocks("copy")' = Blocks("copy")
    BY <1>5 DEF Window, AfterCopy
  <2> QED BY <1>1, <1>2, <2>1, ConversionStays
<1>10. QuietInv'
  <2>1. SameData => dir["data"] # Nothing
    BY DEF SameData
  <2>2. reading # NotOpen /\ FileRead = "data" /\ quiet => objects'[reading.object] = objects[reading.object]
    BY <1>7, FileOfRead DEF Same, EvidenceInv, EvidenceParts, QuietInv, Reading
  <2> QED BY <1>1, <1>2, <1>4, <1>6, <1>7, <2>1, <2>2 DEF EvidenceInv, EvidenceParts, QuietInv, Verified, Moment, Status
<1>11. UndisturbedInv'
  BY <1>1, <1>4, <1>5, <1>6, <1>7 DEF EvidenceInv, EvidenceParts, UndisturbedInv
<1> QED BY <1>8, <1>9, <1>10, <1>11 DEF EvidenceParts

LEMMA LauncherKeepsParts ==
  ASSUME EvidenceInv, PublishStart \/ PublishRest \/ Ends
  PROVE  EvidenceParts'
<1>1. Inv /\ FilesInv
      /\ {"data", "shard", "copy", "json"} \subseteq Name \ {"marker"} /\ "marker" \in Name
  BY DEF EvidenceInv, EvidenceParts, Inv, Name
<1>2. CASE PublishStart
  <2>1. \A name \in Name \ {"marker"} : Same(name)
    BY <1>1, <1>2, CreateFrame DEF PublishStart
  <2> QED BY <1>1, <1>2, <2>1, NothingMoves DEF PublishStart, Publishing
<1>3. CASE PublishRest
  <2>1. CASE dir["marker"] = Nothing
    <3>1. UNCHANGED <<objects, dir, reading>>
      BY <1>3, <2>1 DEF PublishRest, files
    <3>2. Same("data") /\ Same("shard") /\ Same("copy") /\ Same("json")
      BY <3>1 DEF Same
    <3> QED BY <1>3, <3>1, <3>2, NothingMoves DEF PublishRest, Publishing
  <2>2. CASE dir["marker"] # Nothing
    <3>1. Rewrite("marker", Marker) /\ Watched
      BY <1>3, <2>2 DEF PublishRest
    <3>2. /\ \A name \in Name \ {"marker"} : Same(name)
          /\ \A o \in 1 .. Len(objects) : o # dir["marker"] => objects'[o] = objects[o]
      BY <1>1, <2>2, <3>1, RewriteFrame
    <3>3. reading # NotOpen /\ pc # "marker" => reading' = reading
      <4> SUFFICES ASSUME reading # NotOpen, pc # "marker"
                   PROVE  reading' = reading
        OBVIOUS
      <4>1. FileRead # "marker"
        BY <1>1, FileOfRead DEF FileRead
      <4>2. reading.object \in 1 .. Len(objects) /\ dir["marker"] # reading.object
        BY <1>1, <4>1, FileOfRead
      <4> QED BY <1>1, <3>1, <3>2, <4>2, ReadingAlone
    <3>4. reading = NotOpen => reading' = NotOpen
      BY <3>1 DEF Watched
    <3> QED BY <1>1, <1>3, <3>2, <3>3, <3>4, NothingMoves DEF PublishRest, Publishing
  <2> QED BY <2>1, <2>2
<1>4. CASE Ends
  <2>1. UNCHANGED <<objects, dir, reading>>
    BY <1>4 DEF Ends, files
  <2>2. Same("data") /\ Same("shard") /\ Same("copy") /\ Same("json")
    BY <2>1 DEF Same
  <2> QED BY <1>4, <2>1, <2>2, NothingMoves DEF Ends, Publishing
<1> QED BY <1>2, <1>3, <1>4

(* Before the snapshot nothing has been claimed.                           *)
LEMMA EarlyKeepsParts ==
  ASSUME EvidenceInv, Measure \/ PrimaryEnds \/ JudgeMarker
  PROVE  EvidenceParts'
<1>1. /\ pc \in {"running", "marker"}
      /\ pc' \in {"running", "marker", "unlink"}
      /\ UNCHANGED <<staged, original, digest, round, converted, sound, artifact, document, converter,
                     interferences, quiet, unseen>>
      /\ reading' = reading \/ reading' = NotOpen
  BY DEF Measure, PrimaryEnds, JudgeMarker, Concludes, evidence
<1>2. artifact = "none" /\ FilesInv /\ "data" \in Name /\ "shard" \in Name
  BY <1>1 DEF EvidenceInv, EvidenceParts, Inv, ControlInv, Name
<1>3. FileRead' # "data" /\ pc' \notin AfterCopy /\ pc' \notin {"digest", "copy"}
  BY <1>1 DEF FileRead, AfterCopy
<1>4. CASE Measure
  <2>1. /\ Create("data", 1, <<1, 1>>) /\ versions' = {<<1, 1>>} /\ inner' = "measured"
    BY <1>4 DEF Measure
  <2>2. /\ \A other \in Name \ {"data"} : Same(other)
        /\ dir'["data"] = Len(objects) + 1 /\ objects'[dir'["data"]].blocks = <<1, 1>>
    BY <1>2, <2>1, CreateFrame
  <2>3. dir'["shard"] = dir["shard"] /\ dir'["data"] # Nothing
    BY <1>2, <2>2 DEF Same, FilesInv
  <2>4. round # 3 /\ converter # "succeeded"
    BY <1>1 DEF EvidenceInv, Inv, ControlInv, Ended
  <2>5. <<1, 1>> \in Seq({1, 2})
    OBVIOUS
  <2>6. VersionsInv'
    BY <1>1, <1>2, <1>3, <2>1, <2>2, <2>5 DEF VersionsInv, Blocks
  <2>7. ConversionInv'
    BY <1>1, <1>2, <1>3, <2>4 DEF ConversionInv, NeitherStagedNorJson, Window, EvidenceInv, EvidenceParts
  <2>8. QuietInv'
    BY <1>1, <1>3, <2>4 DEF QuietInv
  <2>9. UndisturbedInv'
    BY <1>1, <1>2, <1>3, <2>1, <2>2, <2>3, <2>4 DEF UndisturbedInv, EvidenceInv, EvidenceParts, Blocks
  <2> QED BY <2>6, <2>7, <2>8, <2>9 DEF EvidenceParts
<1>5. CASE PrimaryEnds \/ JudgeMarker
  <2>1. UNCHANGED <<objects, dir, versions, inner>>
    BY <1>5 DEF PrimaryEnds, JudgeMarker, Concludes, files
  <2>2. pc' # "running"
    BY <1>5 DEF PrimaryEnds, JudgeMarker
  <2>3. VersionsInv'
    BY <1>1, <1>2, <1>3, <2>1, <2>2 DEF VersionsInv, EvidenceInv, EvidenceParts, Blocks
  <2>4. round # 3 /\ converter # "succeeded"
    BY <1>1 DEF EvidenceInv, Inv, ControlInv, Ended
  <2>5. ConversionInv'
    BY <1>1, <1>2, <1>3, <2>4 DEF ConversionInv, NeitherStagedNorJson, Window, EvidenceInv, EvidenceParts
  <2>6. QuietInv'
    BY <1>1, <1>3, <2>4 DEF QuietInv
  <2>7. UndisturbedInv'
    BY <1>1, <1>2, <1>3, <2>1, <2>4 DEF UndisturbedInv, EvidenceInv, EvidenceParts, Blocks
  <2> QED BY <2>3, <2>5, <2>6, <2>7 DEF EvidenceParts
<1> QED BY <1>4, <1>5

-----------------------------------------------------------------------------
(* The processes left behind *)

LEMMA Disturbed ==
  ASSUME EvidenceInv, Interferes
  PROVE  /\ QuietInv' /\ UndisturbedInv'
         /\ pc' = pc /\ pc \notin {"running", "done"} /\ FileRead' = FileRead
         /\ UNCHANGED <<inner, ended, start, original, digest, round, converted, sound, artifact, document,
                        converter>>
<1>1. interferences \in Nat /\ interferences' = interferences + 1 /\ ~quiet'
  BY DEF Interferes, EvidenceInv, EvidenceParts, Inv, ControlInv
<1>2. interferences' # 0
  BY <1>1
<1> QED BY <1>1, <1>2 DEF Interferes, QuietInv, UndisturbedInv, evidence, FileRead

(* The data are written, replaced or removed: the rest stays, and what a   *)
(* reader of them may have seen last is their contents now, or before.     *)
LEMMA DataMove ==
  ASSUME EvidenceInv, Interferes, Watched, versions' = DataNow, unseen' = unseen,
         \A other \in Name \ {"data"} : Same(other),
         dir'["data"] # Nothing => objects'[dir'["data"]].blocks \in Seq({1, 2}),
         \A o \in 1 .. Len(objects) : \/ objects'[o].blocks = objects[o].blocks
                                      \/ o = dir'["data"] /\ dir'["data"] # Nothing,
         \A o \in 1 .. Len(objects) : o # dir["data"] => objects'[o] = objects[o]
  PROVE  EvidenceParts'
<1>1. /\ QuietInv' /\ UndisturbedInv'
      /\ pc' = pc /\ pc \notin {"running", "done"} /\ FileRead' = FileRead
      /\ UNCHANGED <<inner, ended, start, original, digest, round, converted, sound, artifact, document,
                     converter>>
  BY Disturbed
<1>2. "data" \in Name /\ {"shard", "copy", "json"} \subseteq Name \ {"data"} /\ Inv
  BY DEF Name, EvidenceInv, EvidenceParts
<1>3. /\ versions \subseteq versions' /\ versions' \in SUBSET Seq({1, 2})
      /\ dir'["data"] # Nothing => objects'[dir'["data"]].blocks \in versions'
  BY DEF DataNow, EvidenceInv, EvidenceParts, VersionsInv
<1>4. reading = NotOpen => reading' = NotOpen
  BY DEF Watched
<1>5. ASSUME reading # NotOpen, FileRead = "data"
      PROVE  \A moment \in reading'.seen : moment.blocks \in versions'
  <2> DEFINE o == reading.object
  <2> DEFINE new == Moment(objects'[o])
  <2>1. reading \in Reading /\ o \in 1 .. Len(objects) /\ Moment(objects[o]) \in reading.seen
    BY <1>2, <1>5 DEF Inv, ReadInv
  <2>2. reading'.seen = reading.seen \cup {new}
    BY <1>5, <2>1 DEF Watched, Reading
  <2>3. \A moment \in reading.seen : moment.blocks \in versions'
    BY <1>3, <1>5 DEF EvidenceInv, EvidenceParts, VersionsInv
  <2>4. new.blocks = objects'[o].blocks /\ Moment(objects[o]).blocks = objects[o].blocks
    BY DEF Moment
  <2>5. new.blocks \in versions'
    BY <1>3, <2>1, <2>3, <2>4
  <2> HIDE DEF new
  <2> QED BY <2>2, <2>3, <2>5
<1>6. reading' # NotOpen => reading # NotOpen
  BY <1>4
<1>7. VersionsInv'
  BY <1>1, <1>3, <1>5, <1>6 DEF EvidenceInv, EvidenceParts, VersionsInv, Blocks
<1>8. pc = "json" => reading' = reading
  <2> SUFFICES ASSUME pc = "json", reading # NotOpen
               PROVE  reading' = reading
    BY <1>4
  <2>1. reading.object \in 1 .. Len(objects) /\ dir["data"] # reading.object
    BY <1>2, FileOfRead
  <2> QED BY <1>2, <2>1, ReadingAlone
<1>9. ConversionInv'
  <2>1. Same("json") /\ (Window => Blocks("copy")' = Blocks("copy"))
    BY <1>2 DEF Same, Blocks, Inv, ControlInv, Window, AfterCopy
  <2> QED BY <1>1, <1>6, <1>8, <2>1, ConversionStays
<1> QED BY <1>1, <1>7, <1>9 DEF EvidenceParts

LEMMA DataKeepsParts ==
  ASSUME EvidenceInv, WriteData \/ ReplaceOrRemoveData
  PROVE  EvidenceParts'
<1>1. /\ FilesInv /\ "data" \in Name /\ {1, 2} \subseteq {1, 2}
      /\ Interferes /\ Watched /\ versions' = DataNow /\ unseen' = unseen
  BY DEF EvidenceInv, EvidenceParts, Inv, Name, WriteData, ReplaceOrRemoveData
<1>2. \A block \in {1, 2} : <<block, block>> \in Seq({1, 2})
  OBVIOUS
<1>3. CASE WriteData
  <2>1. dir["data"] # Nothing /\ Blocks("data") \in Seq({1, 2})
    BY <1>3 DEF WriteData, EvidenceInv, EvidenceParts, VersionsInv
  <2>2. PICK blocks \in Seq({1, 2}) : Rewrite("data", blocks)
    BY <1>1, <1>3, <2>1, WriteDataIsOneWrite
  <2>3. /\ \A o \in 1 .. Len(objects) : o # dir["data"] => objects'[o] = objects[o]
        /\ \A other \in Name \ {"data"} : Same(other)
        /\ dir' = dir /\ objects'[dir["data"]].blocks = blocks
    BY <1>1, <2>1, <2>2, RewriteFrame
  <2> QED BY <1>1, <2>1, <2>3, DataMove
<1>4. CASE ReplaceOrRemoveData
  <2>1. CASE /\ dir["data"] # Nothing
             /\ \E inode \in FreeInodes, block \in {1, 2} : Replace("data", inode, <<block, block>>)
    <3>1. PICK inode \in FreeInodes, block \in {1, 2} : Replace("data", inode, <<block, block>>)
      BY <2>1
    <3>2. /\ \A o \in 1 .. Len(objects) : /\ o # dir["data"] => objects'[o] = objects[o]
                                          /\ objects'[o].blocks = objects[o].blocks
          /\ \A other \in Name \ {"data"} : Same(other)
          /\ dir'["data"] = Len(objects) + 1 /\ objects'[dir'["data"]].blocks = <<block, block>>
      BY <1>1, <2>1, <3>1, ReplaceFrame
    <3> QED BY <1>1, <1>2, <3>2, DataMove
  <2>2. CASE dir["data"] # Nothing /\ Unlink("data")
    <3>1. /\ \A o \in 1 .. Len(objects) : /\ o # dir["data"] => objects'[o] = objects[o]
                                          /\ objects'[o].blocks = objects[o].blocks
          /\ \A other \in Name \ {"data"} : Same(other)
          /\ dir'["data"] = Nothing
      BY <1>1, <2>2, UnlinkFrame
    <3> QED BY <1>1, <3>1, DataMove
  <2>3. CASE \E inode \in FreeInodes : Create("data", inode, <<1, 1>>)
    <3>1. PICK inode \in FreeInodes : Create("data", inode, <<1, 1>>)
      BY <2>3
    <3>2. /\ \A o \in 1 .. Len(objects) : objects'[o] = objects[o]
          /\ \A other \in Name \ {"data"} : Same(other)
          /\ dir'["data"] = Len(objects) + 1 /\ objects'[dir'["data"]].blocks = <<1, 1>>
      BY <1>1, <3>1, CreateFrame
    <3> QED BY <1>1, <1>2, <3>2, DataMove
  <2> QED BY <1>4, <2>1, <2>2, <2>3 DEF ReplaceOrRemoveData
<1> QED BY <1>3, <1>4

LEMMA RivalKeepsParts ==
  ASSUME EvidenceInv, RivalData
  PROVE  EvidenceParts'
<1>1. /\ FilesInv /\ Inv /\ "shard" \in Name
      /\ {"data", "copy", "json"} \subseteq Name \ {"shard"}
      /\ Interferes /\ Watched /\ UNCHANGED <<unseen, versions>>
  BY DEF EvidenceInv, EvidenceParts, Inv, Name, RivalData
<1>2. /\ \A o \in 1 .. Len(objects) : o # dir["shard"] => objects'[o] = objects[o]
      /\ \A other \in Name \ {"shard"} : Same(other)
  BY <1>1, CreateFrame, UnlinkFrame DEF RivalData
<1>3. reading' = reading
      /\ (reading # NotOpen => objects'[reading.object] = objects[reading.object])
  <2>1. reading # NotOpen => objects'[reading.object] = objects[reading.object]
    BY <1>1, <1>2, FileOfRead
  <2> QED BY <1>1, <2>1, ReadingAlone
<1>4. /\ QuietInv' /\ UndisturbedInv'
      /\ pc' = pc /\ FileRead' = FileRead
      /\ UNCHANGED <<inner, ended, start, original, digest, round, converted, sound, artifact, document,
                     converter>>
  BY <1>1, Disturbed
<1>5. /\ pc \in AfterCopy => Blocks("copy")' = Blocks("copy")
      /\ dir["json"] # Nothing => Blocks("json")' = Blocks("json")
      /\ dir'["json"] = dir["json"]
      /\ dir'["data"] = dir["data"]
      /\ dir["data"] # Nothing => Blocks("data")' = Blocks("data")
  BY <1>1, <1>2 DEF Same, Blocks, Inv, ControlInv
<1>6. VersionsInv'
  BY <1>1, <1>3, <1>4, <1>5 DEF EvidenceInv, EvidenceParts, VersionsInv
<1>7. ConversionInv'
  <2>1. Same("json") /\ (Window => Blocks("copy")' = Blocks("copy"))
    BY <1>1, <1>2, <1>5 DEF Window, AfterCopy
  <2> QED BY <1>1, <1>3, <1>4, <2>1, ConversionStays
<1> QED BY <1>4, <1>6, <1>7 DEF EvidenceParts

LEMMA DamageInputKeepsParts ==
  ASSUME EvidenceInv, DamageInput
  PROVE  EvidenceParts'
<1>1. /\ FilesInv /\ Inv
      /\ Name = {"marker", "data", "shard", "copy", "json"}
      /\ Interferes /\ Watched /\ UNCHANGED versions
  BY DEF EvidenceInv, Inv, Name, DamageInput
<1>2. /\ Same("data") /\ Same("json")
      /\ \A o \in 1 .. Len(objects) : o # dir["copy"] => objects'[o] = objects[o]
      /\ dir' = dir
  <2>1. CASE dir["copy"] # Nothing /\ \E blocks \in {<<9>>, digest} : Rewrite("copy", blocks)
    <3>1. "copy" \in Name
      BY <1>1
    <3>2. /\ \A o \in 1 .. Len(objects) : o # dir["copy"] => objects'[o] = objects[o]
          /\ \A other \in Name \ {"copy"} : Same(other)
          /\ dir' = dir
      BY <1>1, <2>1, <3>1, RewriteFrame
    <3> QED BY <1>1, <3>2
  <2>2. CASE UNCHANGED files
    BY <2>2 DEF files, Same
  <2> QED BY <2>1, <2>2 DEF DamageInput
<1>3. reading' = reading
      /\ (reading # NotOpen => objects'[reading.object] = objects[reading.object])
  <2>1. reading # NotOpen => objects'[reading.object] = objects[reading.object]
    BY <1>1, <1>2, FileOfRead
  <2> QED BY <1>1, <2>1, ReadingAlone
<1>4. /\ QuietInv' /\ UndisturbedInv'
      /\ pc' = pc /\ FileRead' = FileRead
      /\ UNCHANGED <<inner, ended, start, original, digest, round, converted, sound, artifact, document,
                     converter>>
  BY <1>1, Disturbed
<1>5. /\ dir["json"] # Nothing => Blocks("json")' = Blocks("json")
      /\ dir["data"] # Nothing => Blocks("data")' = Blocks("data")
  BY <1>2 DEF Same, Blocks
<1>6. unseen \subseteq unseen' /\ unseen' \subseteq unseen \cup {"copy", "staged"}
  BY DEF DamageInput, Unnoticed
<1>7. Window => Blocks("copy")' = Blocks("copy") \/ "copy" \in unseen'
  <2>1. CASE UNCHANGED files
    BY <2>1 DEF files, Blocks
  <2>2. CASE Unnoticed("copy", round = 2 /\ pc \notin {"surroundings", "verify"}
                               /\ converter \in {"none", "reading"})
    <3>1. Window => round = 2 /\ pc \notin {"surroundings", "verify"} /\ converter \in {"none", "reading"}
      BY <1>1 DEF Window, Inv, ControlInv, EvidenceInv, EvidenceParts, ConversionInv, NeitherStagedNorJson
    <3> QED BY <2>2, <3>1 DEF Unnoticed
  <2> QED BY <2>1, <2>2 DEF DamageInput
<1>8. VersionsInv'
  BY <1>1, <1>2, <1>3, <1>4, <1>5, <1>6 DEF EvidenceInv, EvidenceParts, VersionsInv
<1>9. Window' <=> Window
  BY <1>4 DEF Window
<1>10. NeitherStagedNorJson' => NeitherStagedNorJson
  BY <1>6 DEF NeitherStagedNorJson
<1>11. ConversionInv'
  BY <1>2, <1>3, <1>4, <1>5, <1>6, <1>7, <1>9, <1>10
     DEF EvidenceInv, EvidenceParts, ConversionInv, Moment, Status
<1> QED BY <1>4, <1>8, <1>11 DEF EvidenceParts

(* A document that is changed once the converter has closed it is one      *)
(* that nothing more is claimed of.                                        *)
LEMMA DamageDocumentKeepsParts ==
  ASSUME EvidenceInv, DamageDocument
  PROVE  EvidenceParts'
<1>1. /\ FilesInv /\ Inv
      /\ Name = {"marker", "data", "shard", "copy", "json"}
      /\ Interferes /\ Watched /\ UNCHANGED versions
  BY DEF EvidenceInv, Inv, Name, DamageDocument
<1>2. /\ Same("data") /\ Same("copy")
      /\ \A o \in 1 .. Len(objects) : o # dir["json"] => objects'[o] = objects[o]
  BY <1>1, CreateFrame, RewriteFrame, ReplaceFrame, UnlinkFrame DEF DamageDocument
<1>3. /\ QuietInv' /\ UndisturbedInv'
      /\ pc' = pc /\ FileRead' = FileRead
      /\ UNCHANGED <<inner, ended, start, original, digest, round, converted, sound, artifact, document,
                     converter>>
  BY <1>1, Disturbed
<1>4. /\ pc \in AfterCopy => Blocks("copy")' = Blocks("copy")
      /\ dir'["data"] = dir["data"]
      /\ dir["data"] # Nothing => Blocks("data")' = Blocks("data")
  BY <1>1, <1>2 DEF Same, Blocks, Inv, ControlInv
<1>5. unseen \subseteq unseen' /\ (converter = "succeeded" => "json" \in unseen')
  BY DEF DamageDocument, Unnoticed
<1>6. FileRead = "data" => reading' = reading
  <2> SUFFICES ASSUME FileRead = "data"
               PROVE  reading' = reading
    OBVIOUS
  <2>1. reading # NotOpen => objects'[reading.object] = objects[reading.object]
    BY <1>1, <1>2, FileOfRead
  <2> QED BY <1>1, <2>1, ReadingAlone
<1>7. VersionsInv'
  BY <1>1, <1>3, <1>4, <1>5, <1>6 DEF EvidenceInv, EvidenceParts, VersionsInv
<1>8. Window' <=> Window
  BY <1>3 DEF Window
<1>9. Window => pc \in AfterCopy
  BY DEF Window, AfterCopy
<1>10. converter = "succeeded" => ~NeitherStagedNorJson'
  BY <1>5 DEF NeitherStagedNorJson
<1>11. pc = "json" \/ artifact = "snapshot" => converter = "succeeded"
  BY DEF EvidenceInv, EvidenceParts, ConversionInv, NeitherStagedNorJson, Window
<1>12. ConversionInv'
  BY <1>3, <1>4, <1>5, <1>8, <1>9, <1>10, <1>11 DEF EvidenceInv, EvidenceParts, ConversionInv, NeitherStagedNorJson, Window
<1> QED BY <1>3, <1>7, <1>12 DEF EvidenceParts

LEMMA ReadKeepsParts ==
  ASSUME EvidenceInv, OpenFile \/ ReadBlock
  PROVE  EvidenceParts'
<1>1. /\ UNCHANGED <<pc, objects, dir, staged, inner, ended, start, original, digest, round, converted, sound,
                     artifact, document, converter, interferences, quiet, unseen, versions>>
      /\ pc \in Reads
  BY DEF OpenFile, ReadBlock, IsOpen, files, evidence
<1>2. CASE OpenFile
  <2>1. /\ reading'.object = dir[FileRead] /\ reading'.initial = Status(dir[FileRead])
        /\ reading'.seen = {Moment(objects[dir[FileRead]])}
        /\ dir[FileRead] # Nothing
    BY <1>2 DEF OpenFile, CanOpen
  <2>2. FileRead' = FileRead /\ (pc = "json" => FileRead = "json")
    BY <1>1 DEF FileRead
  <2>3. FileRead = "data" => \A moment \in reading'.seen : moment.blocks \in versions
    BY <2>1 DEF EvidenceInv, EvidenceParts, VersionsInv, Moment, Blocks
  <2>4. VersionsInv'
    BY <1>1, <2>1, <2>2, <2>3 DEF EvidenceInv, EvidenceParts, VersionsInv, Blocks
  <2>5. ConversionInv'
    BY <1>1, <2>1, <2>2 DEF EvidenceInv, EvidenceParts, ConversionInv, NeitherStagedNorJson, Window, Verified, Moment, Status, Blocks
  <2>6. QuietInv'
    BY <1>1, <2>1, <2>2 DEF EvidenceInv, EvidenceParts, QuietInv, Verified, Moment, Status, Blocks, SameData
  <2>7. UndisturbedInv'
    BY <1>1 DEF EvidenceInv, EvidenceParts, UndisturbedInv, Blocks, SameData
  <2> QED BY <2>4, <2>5, <2>6, <2>7 DEF EvidenceParts
<1>3. CASE ReadBlock
  <2>1. reading # NotOpen
    BY <1>3 DEF ReadBlock, IsOpen
  <2>2. reading \in Reading
    BY <2>1 DEF EvidenceInv, EvidenceParts, Inv, ReadInv
  <2>3. reading'.object = reading.object /\ reading'.initial = reading.initial
        /\ reading'.seen = reading.seen
    BY <1>3, <2>2 DEF ReadBlock, Reading
  <2>4. FileRead' = FileRead
    BY <1>1 DEF FileRead
  <2>5. VersionsInv'
    BY <1>1, <2>1, <2>3, <2>4 DEF EvidenceInv, EvidenceParts, VersionsInv, Blocks
  <2>6. ConversionInv'
    BY <1>1, <2>1, <2>3, <2>4 DEF EvidenceInv, EvidenceParts, ConversionInv, NeitherStagedNorJson, Window, Verified, Moment, Status, Blocks
  <2>7. QuietInv'
    BY <1>1, <2>1, <2>3, <2>4 DEF EvidenceInv, EvidenceParts, QuietInv, Verified, Moment, Status, Blocks, SameData
  <2>8. UndisturbedInv'
    BY <1>1 DEF EvidenceInv, EvidenceParts, UndisturbedInv, Blocks, SameData
  <2> QED BY <2>5, <2>6, <2>7, <2>8 DEF EvidenceParts
<1> QED BY <1>2, <1>3

-----------------------------------------------------------------------------
(* What the controller reads *)

(* Data that are read and accepted are what the data file held at one      *)
(* moment, unless two of its states were alike.                            *)
LEMMA DataReadIsVersion ==
  ASSUME EvidenceInv, ReadAll, FileRead = "data"
  PROVE  reading.got \in versions \/ TwoAlike(reading.seen)
<1>1. reading # NotOpen /\ ReadingIsOneMoment
  BY OneMoment DEF EvidenceInv, ReadAll, HasRead, IsOpen
<1> QED BY <1>1 DEF ReadingIsOneMoment, EvidenceInv, EvidenceParts, VersionsInv

(* A read of the data in which no two states were alike settles that what  *)
(* was digested was there, and no read says anything of the rest.          *)
LEMMA ReadAgainSettles ==
  ASSUME EvidenceInv, ReadAgain, FileRead = "data", digest \in versions \/ "data" \in unseen
  PROVE  /\ digest \in versions \/ "data" \in unseen'
         /\ unseen' \subseteq unseen
         /\ "copy" \in unseen => "copy" \in unseen'
         /\ NeitherStagedNorJson' <=> NeitherStagedNorJson
<1>1. digest \in versions \/ TwoAlike(reading.seen)
  BY DataReadIsVersion DEF ReadAgain
<1>2. unseen' = unseen \/ unseen' = unseen \ {"data"}
  BY DEF ReadAgain
<1>3. digest \in versions \/ unseen' = unseen
  BY <1>1 DEF ReadAgain
<1> QED BY <1>2, <1>3 DEF NeitherStagedNorJson

(* A file that nothing writes is read as it is.                            *)
LEMMA QuietReadIsWhole ==
  ASSUME Inv, reading # NotOpen, AtTheEnd, reading.seen = {Moment(objects[reading.object])},
         reading.initial = Status(reading.object)
  PROVE  reading.got = objects[reading.object].blocks /\ SameStatus(reading.object)
         /\ reading.initial.size = Len(reading.got)
<1> DEFINE now == Moment(objects[reading.object])
<1>1. /\ reading \in Reading /\ reading.object \in 1 .. Len(objects)
      /\ Still => Chain(reading.seen) /\ Begins(reading.got, reading.seen)
  BY DEF Inv, ReadInv
<1>2. objects[reading.object] \in File /\ Len(objects[reading.object].blocks) <= MaxBlocks + 1
  BY <1>1 DEF Inv, FilesInv
<1>3. /\ now.blocks = objects[reading.object].blocks /\ now.stamp = reading.initial.stamp
      /\ reading.initial.size = Len(objects[reading.object].blocks)
  BY DEF Moment, Status
<1>0. reading.seen = {now}
  OBVIOUS
<1> HIDE DEF now
<1>4. Still
  BY <1>0, <1>3 DEF Still, SizesTell
<1>5. Len(reading.got) <= Len(now.blocks) /\ Agree(reading.got, now.blocks)
  BY <1>0, <1>1, <1>4 DEF Begins
<1>6. /\ now.blocks \in Seq(Block) /\ reading.got \in Seq(Block)
      /\ Len(now.blocks) \in Nat /\ Len(reading.got) \in Nat
  BY <1>1, <1>2, <1>3 DEF Reading, File
<1>7. Len(reading.got) >= Len(now.blocks)
  BY <1>2, <1>3, <1>6 DEF AtTheEnd, Wanted
<1>8. Len(reading.got) = Len(now.blocks)
  BY <1>5, <1>6, <1>7
<1>9. \A i \in 1 .. Len(reading.got) : reading.got[i] = now.blocks[i]
  BY <1>5, <1>6, <1>8 DEF Agree
<1>10. reading.got = now.blocks
  BY <1>6, <1>8, <1>9, SeqEqual
<1> QED BY <1>3, <1>10 DEF SameStatus

LEMMA QuietDataRead ==
  ASSUME EvidenceInv, quiet, IsOpen, AtTheEnd, FileRead = "data"
  PROVE  /\ reading.got = Blocks("data") /\ SameStatus(reading.object)
         /\ reading.initial.size = Len(reading.got)
<1>1. /\ reading # NotOpen /\ reading.object = dir["data"]
      /\ reading.seen = {Moment(objects[reading.object])} /\ reading.initial = Status(reading.object)
  BY DEF EvidenceInv, EvidenceParts, QuietInv, IsOpen
<1> QED BY <1>1, QuietReadIsWhole DEF EvidenceInv, EvidenceParts, Blocks

(* Data that nothing writes have one state.                                *)
LEMMA QuietIsNotAlike ==
  ASSUME EvidenceInv, quiet, reading # NotOpen, FileRead = "data"
  PROVE  ~TwoAlike(reading.seen)
BY DEF EvidenceInv, EvidenceParts, QuietInv, TwoAlike

(* Undisturbed, the verification of the original and the copy succeeds.    *)
LEMMA UndisturbedVerification ==
  ASSUME EvidenceInv, interferences = 0, pc = "verify"
  PROVE  /\ ~Unreadable
         /\ ReadAll => reading.got = digest /\ Blocks("copy") = digest
<1>1. /\ FileRead = "data" /\ pc \in AfterCopy /\ ~UntilTheEnd /\ pc # "marker" /\ pc \in Reads
  BY DEF FileRead, AfterCopy, UntilTheEnd, Reads
<1>2. /\ quiet /\ dir["data"] # Nothing /\ Blocks("data") = <<1, 1>> /\ digest = <<1, 1>>
      /\ Blocks("copy") = digest
  BY <1>1 DEF EvidenceInv, EvidenceParts, UndisturbedInv, VersionsInv
<1>3. ~TooLarge(Len(Blocks("data"))) /\ ~TooLarge(Len(digest))
  <2>1. Len(<<1, 1>>) = 2 /\ ~(2 > MaxBlocks)
    OBVIOUS
  <2> QED BY <1>2, <2>1 DEF TooLarge
<1>4. CanOpen
  BY <1>1, <1>2, <1>3 DEF CanOpen, Blocks
<1>5. HasRead => /\ reading.got = digest /\ SameStatus(reading.object)
                 /\ reading.initial.size = Len(reading.got)
  BY <1>1, <1>2, QuietDataRead DEF HasRead
<1>6. HasRead => ReadAll
  BY <1>1, <1>3, <1>5 DEF ReadAll, Unchanged
<1> QED BY <1>2, <1>4, <1>5, <1>6 DEF Unreadable, ReadAll

(* The document of the converter is read as it wrote it.                   *)
LEMMA DocumentRead ==
  ASSUME EvidenceInv, pc = "json", NeitherStagedNorJson
  PROVE  /\ ReadAll => reading.got = Document(converted)
         /\ ~Unreadable /\ (ReadAll => Whole("json", reading.got))
<1>1. /\ FileRead = "json" /\ UntilTheEnd /\ pc \in Reads /\ pc # "marker"
      /\ converter = "succeeded"
      /\ dir["json"] # Nothing /\ Blocks("json") = Document(converted)
  BY DEF FileRead, UntilTheEnd, Reads, EvidenceInv, EvidenceParts, ConversionInv, NeitherStagedNorJson, Window, Inv, ControlInv
<1>2. ~TooLarge(Len(Document(converted)))
  <2>1. Len(Document(converted)) = 2 /\ ~(2 > MaxBlocks)
    BY DocumentIsFile DEF EvidenceInv, EvidenceParts, Inv, ControlInv
  <2> QED BY <2>1 DEF TooLarge
<1>3. CanOpen
  BY <1>1, <1>2 DEF CanOpen, Blocks
<1>4. HasRead => reading.got = Document(converted) /\ SameStatus(reading.object)
  <2> SUFFICES ASSUME HasRead
               PROVE  reading.got = Document(converted) /\ SameStatus(reading.object)
    OBVIOUS
  <2>1. reading # NotOpen /\ AtTheEnd
    BY DEF HasRead, IsOpen
  <2>2. reading.object = dir["json"]
    BY <2>1 DEF EvidenceInv, EvidenceParts, ConversionInv, NeitherStagedNorJson, Window
  <2>3. reading.seen = {Moment(objects[reading.object])} /\ reading.initial = Status(reading.object)
    BY <2>1 DEF EvidenceInv, EvidenceParts, ConversionInv, NeitherStagedNorJson, Window
  <2> QED BY <1>1, <2>1, <2>2, <2>3, QuietReadIsWhole DEF EvidenceInv, EvidenceParts, Blocks
<1>5. HasRead => ReadAll
  BY <1>1, <1>2, <1>4 DEF ReadAll, Unchanged
<1>6. Whole("json", Document(converted))
  <2> DEFINE head == FoldLeft(LAMBDA number, block : 10 * number + block, 0, converted)
  <2>1. Document(converted) = <<head, 0>>
    BY DEF Document
  <2> HIDE DEF head
  <2>2. Last(<<head, 0>>) = 0 /\ <<head, 0>> # <<>>
    BY DEF Last
  <2> QED BY <2>1, <2>2 DEF Whole
<1> QED BY <1>3, <1>4, <1>5, <1>6 DEF Unreadable, ReadAll

-----------------------------------------------------------------------------
(* The controller's verdicts *)

LEMMA DecidesKeepsParts ==
  ASSUME EvidenceInv, NEW state \in Verdicts \ {"none", "snapshot"}, Decides(state), pc # "converting",
         interferences = 0 => converter # "succeeded"
  PROVE  EvidenceParts'
<1>1. /\ pc' = "done" /\ artifact' = state /\ reading' = NotOpen
      /\ UNCHANGED <<objects, dir, staged, inner, ended, start, original, digest, round, converted, sound,
                     document, converter, interferences, quiet, unseen, versions>>
  BY DEF Decides, Concludes, files
<1>2. pc' \notin AfterCopy
  BY <1>1 DEF AfterCopy
<1>3. VersionsInv'
  BY <1>1, <1>2 DEF EvidenceInv, EvidenceParts, VersionsInv, Blocks
<1>4. ConversionInv'
  BY <1>1, <1>2 DEF EvidenceInv, EvidenceParts, ConversionInv, NeitherStagedNorJson, Window, Verified, Blocks
<1>5. QuietInv'
  BY <1>1 DEF EvidenceInv, EvidenceParts, QuietInv, Verified
<1>6. UndisturbedInv'
  BY <1>1, <1>2 DEF EvidenceInv, EvidenceParts, UndisturbedInv, Blocks
<1> QED BY <1>3, <1>4, <1>5, <1>6 DEF EvidenceParts

LEMMA SnapshotChangedKeepsParts ==
  ASSUME EvidenceInv, SnapshotChanged, pc \in {"surroundings", "verify", "reidentify"},
         interferences = 0 => round # 3
  PROVE  EvidenceParts'
<1>1. CASE round < 3
  <2>1. converter = "none" /\ Decides("unexpected_parallel_data")
    BY <1>1 DEF SnapshotChanged, EvidenceInv, Inv, ControlInv, AfterCopy
  <2>2. "unexpected_parallel_data" \in Verdicts \ {"none", "snapshot"}
    BY DEF Verdicts
  <2> QED BY <2>1, <2>2, DecidesKeepsParts
<1>2. CASE ~(round < 3)
  <2>1. /\ sound' = FALSE /\ pc' = "classify" /\ reading' = NotOpen
        /\ UNCHANGED <<objects, dir, staged, inner, ended, start, original, digest, round, converted,
                       artifact, document, converter, interferences, quiet, unseen, versions>>
    BY <1>2 DEF SnapshotChanged, Concludes, files
  <2>2. round = 3 /\ artifact = "none" /\ interferences # 0 /\ pc \in AfterCopy
    BY <1>2 DEF EvidenceInv, EvidenceParts, Inv, ControlInv, AfterCopy
  <2>3. VersionsInv'
    BY <2>1, <2>2 DEF EvidenceInv, EvidenceParts, VersionsInv, Blocks
  <2>4. ConversionInv'
    BY <2>1, <2>2 DEF EvidenceInv, EvidenceParts, ConversionInv, NeitherStagedNorJson, Window, Verified, Blocks
  <2>5. QuietInv'
    BY <2>1, <2>2 DEF EvidenceInv, EvidenceParts, QuietInv, Verified
  <2>6. UndisturbedInv'
    BY <2>1, <2>2 DEF UndisturbedInv
  <2> QED BY <2>3, <2>4, <2>5, <2>6 DEF EvidenceParts
<1> QED BY <1>1, <1>2

(* Before the conversion there is no converter.                            *)
LEMMA NoConverterYet ==
  ASSUME EvidenceInv, pc \in {"scan", "identify", "digest", "copy", "destination", "staged"}
  PROVE  converter = "none" /\ round # 3 /\ artifact = "none"
BY DEF EvidenceInv, EvidenceParts, ConversionInv, NeitherStagedNorJson, Window, Inv, ControlInv

LEMMA UnlinkMarkerKeepsParts ==
  ASSUME EvidenceInv, UnlinkMarker
  PROVE  EvidenceParts'
<1>1. /\ Inv /\ FilesInv /\ pc = "unlink" /\ reading' = reading
      /\ {"data", "shard", "copy", "json"} \subseteq Name \ {"marker"} /\ "marker" \in Name
      /\ pc' \in {"scan", "done"} /\ artifact' # "snapshot"
      /\ UNCHANGED <<staged, inner, ended, start, original, digest, round, converted, sound,
                     document, converter, interferences, quiet, unseen, versions>>
  BY DEF UnlinkMarker, EvidenceInv, EvidenceParts, Inv, ControlInv, Name
<1>2. reading = NotOpen /\ round = 0 /\ converter = "none"
  BY <1>1 DEF Inv, ReadInv, Reads, EvidenceInv, ControlInv
<1>3. Same("data") /\ Same("shard")
  <2>1. CASE dir["marker"] = Nothing
    BY <2>1 DEF UnlinkMarker, files, Same
  <2>2. CASE dir["marker"] # Nothing
    BY <1>1, <2>2, UnlinkFrame DEF UnlinkMarker
  <2> QED BY <2>1, <2>2
<1>4. /\ pc' \notin AfterCopy \cup {"copy", "digest", "running", "converting", "json"}
      /\ dir'["data"] = dir["data"] /\ dir'["shard"] = dir["shard"]
      /\ dir["data"] # Nothing => Blocks("data")' = Blocks("data")
  BY <1>1, <1>3 DEF AfterCopy, Same, Blocks
<1>5. VersionsInv'
  BY <1>1, <1>2, <1>4 DEF EvidenceInv, EvidenceParts, VersionsInv
<1>6. ConversionInv'
  BY <1>1, <1>2, <1>4 DEF EvidenceInv, EvidenceParts, ConversionInv, NeitherStagedNorJson, Window, Verified
<1>7. QuietInv'
  BY <1>1, <1>2 DEF QuietInv
<1>8. UndisturbedInv'
  BY <1>1, <1>2, <1>4 DEF EvidenceInv, EvidenceParts, UndisturbedInv
<1> QED BY <1>5, <1>6, <1>7, <1>8 DEF EvidenceParts

-----------------------------------------------------------------------------
(* The snapshot and its verification *)

LEMMA SnapshotKeepsParts ==
  ASSUME EvidenceInv, Scan \/ Identify \/ Digest
  PROVE  EvidenceParts'
<1>1. /\ pc \in {"scan", "identify", "digest"} /\ pc # "converting"
      /\ converter = "none" /\ round # 3 /\ round = 0 /\ artifact = "none"
      /\ dir["data"] # Nothing => Blocks("data") \in versions
  BY NoConverterYet DEF Scan, Identify, Digest, EvidenceInv, EvidenceParts, Inv, ControlInv, VersionsInv
<1>2. \A state \in {"unexpected_parallel_data", "data_missing"} : Decides(state) => EvidenceParts'
  BY <1>1, DecidesKeepsParts DEF Verdicts
<1>3. CASE Scan /\ Continues("identify")
  <2>1. /\ pc' = "identify" /\ reading' = NotOpen
        /\ UNCHANGED <<objects, dir, staged, inner, ended, start, original, digest, round, converted, sound,
                       artifact, document, converter, interferences, quiet, unseen, versions>>
    BY <1>3 DEF Continues, Concludes, files, evidence
  <2>2. VersionsInv' /\ ConversionInv'
    BY <1>1, <2>1 DEF EvidenceInv, EvidenceParts, VersionsInv, ConversionInv, NeitherStagedNorJson, Window, Verified, Blocks, AfterCopy
  <2>3. QuietInv' /\ UndisturbedInv'
    BY <1>1, <2>1 DEF EvidenceInv, EvidenceParts, QuietInv, UndisturbedInv, Blocks, AfterCopy
  <2> QED BY <2>2, <2>3 DEF EvidenceParts
<1>4. CASE Identify /\ dir["data"] # Nothing
  <2>1. /\ pc' = "digest" /\ reading' = NotOpen /\ original' = objects[dir["data"]].inode
        /\ UNCHANGED <<objects, dir, staged, inner, ended, start, digest, round, converted, sound,
                       artifact, document, converter, interferences, quiet, unseen, versions>>
    BY <1>4 DEF Identify, Concludes, files
  <2>2. SameData'
    BY <1>4, <2>1 DEF SameData
  <2>3. VersionsInv' /\ ConversionInv'
    BY <1>1, <2>1 DEF EvidenceInv, EvidenceParts, VersionsInv, ConversionInv, NeitherStagedNorJson, Window, Verified, Blocks, AfterCopy
  <2>4. QuietInv' /\ UndisturbedInv'
    BY <1>1, <2>1, <2>2 DEF EvidenceInv, EvidenceParts, QuietInv, UndisturbedInv, Blocks, AfterCopy
  <2> QED BY <2>3, <2>4 DEF EvidenceParts
<1>5. CASE Digest /\ ReadAll /\ digest' = reading.got /\ pc' = "copy" /\ Concludes
           /\ unseen' = unseen \cup (IF TwoAlike(reading.seen) THEN {"data"} ELSE {})
           /\ UNCHANGED <<start, original, round, converted, sound, artifact, document, converter, quiet>>
  <2>1. /\ reading' = NotOpen
        /\ UNCHANGED <<objects, dir, staged, inner, ended, interferences, versions>>
    BY <1>5 DEF Concludes, files
  <2>2. FileRead = "data" /\ reading # NotOpen
    BY <1>5 DEF Digest, FileRead, ReadAll, HasRead, IsOpen
  <2>3. digest' \in versions \/ "data" \in unseen'
    BY <1>5, <2>2, DataReadIsVersion
  <2>4. SameData' <=> SameData
    BY <1>5, <2>1 DEF SameData
  <2>5. quiet => unseen' = unseen
    BY <1>5, <2>2, QuietIsNotAlike
  <2>6. VersionsInv'
    BY <1>1, <1>5, <2>1, <2>3 DEF EvidenceInv, EvidenceParts, VersionsInv, Blocks
  <2>7. ConversionInv'
    BY <1>1, <1>5, <2>1 DEF EvidenceInv, EvidenceParts, ConversionInv, NeitherStagedNorJson, Window, Blocks
  <2>8. QuietInv' /\ UndisturbedInv'
    BY <1>1, <1>5, <2>1, <2>4, <2>5 DEF EvidenceInv, EvidenceParts, QuietInv, UndisturbedInv, Blocks, AfterCopy, Digest
  <2> QED BY <2>6, <2>7, <2>8 DEF EvidenceParts
<1> QED BY <1>2, <1>3, <1>4, <1>5 DEF Scan, Identify, Digest

LEMMA CopyKeepsParts ==
  ASSUME EvidenceInv, Copy
  PROVE  EvidenceParts'
<1>1. /\ pc = "copy" /\ pc # "converting" /\ FilesInv /\ Inv
      /\ converter = "none" /\ round # 3 /\ round = 0 /\ artifact = "none"
      /\ "copy" \in Name /\ {"data", "shard", "json"} \subseteq Name \ {"copy"}
  BY NoConverterYet DEF Copy, EvidenceInv, Inv, ControlInv, Name
<1>2. CASE Decides("unexpected_parallel_data")
  BY <1>1, <1>2, DecidesKeepsParts DEF Verdicts
<1>3. CASE ReadAgain /\ Create("copy", 1, reading.got)
           /\ reading' = NotOpen /\ round' = 1 /\ pc' = "surroundings"
           /\ UNCHANGED <<staged, inner, ended, start, original, digest, converted, sound, artifact,
                          document, converter, interferences, quiet, versions>>
  <2>1. Same("data") /\ Same("shard") /\ objects'[dir'["copy"]].blocks = digest
    BY <1>1, <1>3, CreateFrame DEF ReadAgain
  <2>2. /\ dir'["data"] = dir["data"] /\ dir'["shard"] = dir["shard"]
        /\ dir["data"] # Nothing => Blocks("data")' = Blocks("data")
        /\ Blocks("copy")' = digest
    BY <2>1 DEF Same, Blocks
  <2>3. SameData' <=> SameData
    BY <1>3, <2>1 DEF SameData, Same
  <2>4. FileRead = "data" /\ (digest \in versions \/ "data" \in unseen)
    BY <1>1 DEF FileRead, EvidenceInv, EvidenceParts, VersionsInv
  <2>5. unseen' \subseteq unseen /\ (digest \in versions \/ "data" \in unseen')
    BY <1>3, <2>4, ReadAgainSettles
  <2>6. VersionsInv' /\ ConversionInv'
    BY <1>1, <1>3, <2>2, <2>5 DEF EvidenceInv, EvidenceParts, VersionsInv, ConversionInv, NeitherStagedNorJson, Window, Verified, AfterCopy
  <2>7. QuietInv' /\ UndisturbedInv'
    BY <1>1, <1>3, <2>2, <2>3, <2>5 DEF EvidenceInv, EvidenceParts, QuietInv, UndisturbedInv, AfterCopy
  <2> QED BY <2>6, <2>7 DEF EvidenceParts
<1> QED BY <1>2, <1>3 DEF Copy

LEMMA VerificationKeepsParts ==
  ASSUME EvidenceInv, Surroundings \/ Verify \/ Reidentify
  PROVE  EvidenceParts'
<1>1. /\ pc \in {"surroundings", "verify", "reidentify"} /\ pc \in AfterCopy /\ artifact = "none"
      /\ round \in 1 .. 3 /\ pc # "done"
  BY DEF Surroundings, Verify, Reidentify, AfterCopy, EvidenceInv, EvidenceParts, Inv, ControlInv
<1>2. interferences = 0 => SameData /\ dir["shard"] = Nothing
  BY <1>1 DEF EvidenceInv, EvidenceParts, UndisturbedInv
<1>3. CASE SnapshotChanged
  <2>1. CASE interferences = 0 /\ round = 3
    <3>1. ~Surroundings
      <4> SUFFICES ASSUME Surroundings
                   PROVE  FALSE
        OBVIOUS
      <4>1. Continues("verify")
        BY <1>2, <2>1 DEF Surroundings
      <4> QED BY <1>3, <2>1, <4>1 DEF Continues, SnapshotChanged
    <3>2. ~Verify
      <4> SUFFICES ASSUME Verify
                   PROVE  FALSE
        OBVIOUS
      <4>1. Passes
        BY <2>1, UndisturbedVerification DEF Verify
      <4> QED BY <1>3, <2>1, <4>1 DEF Passes, SnapshotChanged
    <3>3. ~Reidentify
      <4> SUFFICES ASSUME Reidentify
                   PROVE  FALSE
        OBVIOUS
      <4>1. UNCHANGED sound
        BY <1>2, <2>1 DEF Reidentify
      <4>2. sound' = FALSE /\ sound
        BY <1>1, <1>3, <2>1 DEF SnapshotChanged, EvidenceInv, EvidenceParts, UndisturbedInv
      <4> QED BY <4>1, <4>2
    <3> QED BY <3>1, <3>2, <3>3
  <2>2. CASE interferences = 0 => round # 3
    BY <1>1, <1>3, <2>2, SnapshotChangedKeepsParts
  <2> QED BY <2>1, <2>2
<1>4. CASE Surroundings /\ dir["shard"] = Nothing /\ SameData /\ Continues("verify")
  <2>1. /\ pc = "surroundings" /\ pc' = "verify" /\ reading' = NotOpen
        /\ UNCHANGED <<objects, dir, staged, inner, ended, start, original, digest, round, converted, sound,
                       artifact, document, converter, interferences, quiet, unseen, versions>>
    BY <1>4 DEF Surroundings, Continues, Concludes, files, evidence
  <2>2. SameData'
    BY <1>4, <2>1 DEF SameData
  <2>3. VersionsInv' /\ ConversionInv'
    BY <1>1, <2>1 DEF EvidenceInv, EvidenceParts, VersionsInv, ConversionInv, NeitherStagedNorJson, Window, Verified, Blocks, AfterCopy
  <2>4. QuietInv' /\ UndisturbedInv'
    BY <1>1, <1>4, <2>1, <2>2 DEF EvidenceInv, EvidenceParts, QuietInv, UndisturbedInv, Verified, Blocks, AfterCopy
  <2> QED BY <2>3, <2>4 DEF EvidenceParts
<1>5. CASE pc = "verify" /\ ReadAgain /\ Blocks("copy") = digest /\ Passes
  <2>1. /\ pc' = "reidentify" /\ reading' = NotOpen
        /\ UNCHANGED <<objects, dir, staged, inner, ended, start, original, digest, round, converted, sound,
                       artifact, document, converter, interferences, quiet, versions>>
    BY <1>5 DEF Passes, Concludes, files, evidence
  <2>2. SameData' <=> SameData
    BY <2>1 DEF SameData
  <2>3. quiet => Blocks("data") = digest
    <3>1. IsOpen /\ AtTheEnd /\ FileRead = "data" /\ reading.got = digest
      BY <1>5 DEF ReadAgain, ReadAll, HasRead, FileRead
    <3> QED BY <3>1, QuietDataRead
  <2>4. /\ digest \in versions \/ "data" \in unseen'
        /\ unseen' \subseteq unseen
        /\ "copy" \in unseen => "copy" \in unseen'
        /\ NeitherStagedNorJson' <=> NeitherStagedNorJson
    <3>1. FileRead = "data" /\ (digest \in versions \/ "data" \in unseen)
      BY <1>1, <1>5 DEF FileRead, EvidenceInv, EvidenceParts, VersionsInv
    <3> QED BY <1>5, <3>1, ReadAgainSettles
  <2>5. VersionsInv'
    BY <1>1, <2>1, <2>4 DEF EvidenceInv, EvidenceParts, VersionsInv, Blocks, AfterCopy
  <2>6. ConversionInv'
    BY <1>1, <1>5, <2>1, <2>4 DEF EvidenceInv, EvidenceParts, ConversionInv, NeitherStagedNorJson, Window, Blocks, AfterCopy
  <2>7. QuietInv'
    BY <1>1, <1>5, <2>1, <2>2, <2>3 DEF EvidenceInv, EvidenceParts, QuietInv, Verified, Blocks, AfterCopy
  <2>8. UndisturbedInv'
    BY <1>1, <1>5, <2>1, <2>2, <2>4 DEF EvidenceInv, EvidenceParts, UndisturbedInv, Blocks, AfterCopy
  <2> QED BY <2>5, <2>6, <2>7, <2>8 DEF EvidenceParts
<1>6. CASE Reidentify /\ SameData
  <2>1. /\ pc = "reidentify" /\ reading' = NotOpen
        /\ \/ round = 1 /\ pc' = "surroundings" /\ round' = 2
           \/ round = 2 /\ pc' = "destination" /\ round' = 2
           \/ round = 3 /\ pc' = "classify" /\ round' = 3
        /\ UNCHANGED <<objects, dir, staged, inner, ended, start, original, digest, converted, sound,
                       artifact, document, converter, interferences, quiet, unseen, versions>>
    BY <1>1, <1>6 DEF Reidentify, Concludes, files
  <2>2. SameData' <=> SameData
    BY <2>1 DEF SameData
  <2>3. Verified
    BY <2>1 DEF Verified
  <2>4. VersionsInv'
    BY <1>1, <2>1 DEF EvidenceInv, EvidenceParts, VersionsInv, Blocks, AfterCopy
  <2>5. ConversionInv'
    BY <1>1, <2>1, <2>3 DEF EvidenceInv, EvidenceParts, ConversionInv, NeitherStagedNorJson, Window, Verified, Blocks, AfterCopy
  <2>6. QuietInv'
    BY <1>1, <2>1, <2>2, <2>3 DEF EvidenceInv, EvidenceParts, QuietInv, Verified, Blocks, AfterCopy
  <2>7. UndisturbedInv'
    BY <1>1, <2>1, <2>2 DEF EvidenceInv, EvidenceParts, UndisturbedInv, Blocks, AfterCopy
  <2> QED BY <2>4, <2>5, <2>6, <2>7 DEF EvidenceParts
<1> QED BY <1>3, <1>4, <1>5, <1>6 DEF Surroundings, Verify, Reidentify

-----------------------------------------------------------------------------
(* The conversion *)

LEMMA BeforeConversionKeepsParts ==
  ASSUME EvidenceInv, Destination \/ EnsureStaged
  PROVE  EvidenceParts'
<1>1. /\ pc \in {"destination", "staged"} /\ pc # "converting"
      /\ pc \in AfterCopy
      /\ converter = "none" /\ round # 3 /\ artifact = "none"
  BY NoConverterYet DEF Destination, EnsureStaged, AfterCopy
<1>2. \A state \in {"unexpected_parallel_data", "generation_failed"} : Decides(state) => EvidenceParts'
  BY <1>1, DecidesKeepsParts DEF Verdicts
<1>3. ASSUME reading' = NotOpen,
             \/ pc' = "staged" /\ converter' = "none"
             \/ pc' = "converting" /\ converter' = "reading",
             UNCHANGED files, UNCHANGED evidence,
             UNCHANGED <<staged, inner, ended, interferences, quiet, unseen, versions>>
      PROVE  EvidenceParts'
  <2>1. /\ UNCHANGED <<objects, dir, start, original, digest, round, converted, sound, artifact, document>>
        /\ pc' \in AfterCopy /\ pc' \notin {"json", "classify", "reidentify", "running"}
    BY <1>3 DEF files, evidence, AfterCopy
  <2>a. Window /\ (NeitherStagedNorJson' <=> NeitherStagedNorJson)
    BY <1>1, <1>3 DEF Window, NeitherStagedNorJson, EvidenceInv, Inv, ControlInv
  <2>2. VersionsInv' /\ ConversionInv'
    BY <1>1, <1>3, <2>1, <2>a DEF EvidenceInv, EvidenceParts, VersionsInv, ConversionInv, Blocks
  <2>3. SameData' <=> SameData
    BY <2>1 DEF SameData
  <2>4. QuietInv' /\ UndisturbedInv'
    BY <1>1, <1>3, <2>1, <2>3 DEF EvidenceInv, EvidenceParts, QuietInv, UndisturbedInv, Verified, Blocks
  <2> QED BY <2>2, <2>4 DEF EvidenceParts
<1>4. CASE Destination
  <2>1. CASE Decides("unexpected_parallel_data")
    BY <1>2, <2>1
  <2>2. CASE Continues("staged")
    <3>1. /\ pc' = "staged" /\ converter' = "none" /\ reading' = NotOpen
          /\ UNCHANGED files /\ UNCHANGED evidence
          /\ UNCHANGED <<staged, inner, ended, interferences, quiet, unseen, versions>>
      BY <1>1, <2>2 DEF Continues, Concludes
    <3> QED BY <1>3, <3>1
  <2> QED BY <1>4, <2>1, <2>2 DEF Destination
<1>5. CASE EnsureStaged
  BY <1>2, <1>3, <1>5 DEF EnsureStaged, Concludes
<1> QED BY <1>4, <1>5

LEMMA ConverterKeepsParts ==
  ASSUME EvidenceInv, ConverterReads \/ ConverterWrites \/ ConverterCloses
  PROVE  EvidenceParts'
<1>1. /\ pc = "converting" /\ pc \in AfterCopy /\ pc' = pc
      /\ FilesInv /\ reading' = reading /\ reading = NotOpen
      /\ artifact = "none" /\ round = 2
      /\ UNCHANGED <<staged, inner, ended, start, original, digest, round, sound, artifact, document,
                     interferences, quiet, unseen, versions>>
      /\ "json" \in Name /\ {"data", "shard", "copy"} \subseteq Name \ {"json"}
  BY DEF ConverterReads, ConverterWrites, ConverterCloses, ConverterActs, AfterCopy, EvidenceInv, EvidenceParts, Inv, ControlInv,
         ReadInv, Reads, Name
<1>2. Same("data") /\ Same("shard") /\ Same("copy")
  <2>1. CASE ConverterReads
    BY <2>1 DEF ConverterReads, files, Same
  <2>2. CASE ConverterWrites
    BY <1>1, <2>2, CreateFrame, RewriteFrame DEF ConverterWrites
  <2>3. CASE ConverterCloses
    <3>1. (dir["json"] # Nothing /\ \E blocks : Rewrite("json", blocks)) \/ UNCHANGED files
      BY <2>3 DEF ConverterCloses
    <3> QED BY <1>1, <3>1, RewriteFrame DEF files, Same
  <2> QED BY <2>1, <2>2, <2>3
<1>3. /\ dir'["data"] = dir["data"] /\ dir'["shard"] = dir["shard"]
      /\ dir["data"] # Nothing => Blocks("data")' = Blocks("data")
      /\ Blocks("copy")' = Blocks("copy")
  BY <1>1, <1>2 DEF Same, Blocks, EvidenceInv, EvidenceParts, Inv, ControlInv
<1>4. SameData' <=> SameData
  BY <1>1, <1>2 DEF SameData, Same
<1>5. /\ converter' \in {"writing", "closing", "succeeded"}
      /\ converted' = digest \/ "copy" \in unseen
      /\ converter' = "succeeded" /\ NeitherStagedNorJson =>
           dir'["json"] # Nothing /\ Blocks("json")' = Document(converted')
  <2>1. CASE ConverterReads
    BY <1>1, <2>1 DEF ConverterReads, ConverterActs, EvidenceInv, EvidenceParts, ConversionInv, NeitherStagedNorJson, Window
  <2>2. CASE ConverterWrites
    BY <1>1, <2>2 DEF ConverterWrites, ConverterActs, EvidenceInv, EvidenceParts, ConversionInv, NeitherStagedNorJson, Window
  <2>3. CASE ConverterCloses
    <3>1. /\ converter = "closing" /\ converter' = "succeeded" /\ converted' = converted
      BY <2>3 DEF ConverterCloses, ConverterActs
    <3>2. NeitherStagedNorJson => dir["json"] # Nothing /\ Rewrite("json", Document(converted))
      BY <2>3 DEF ConverterCloses, NeitherStagedNorJson
    <3>3. NeitherStagedNorJson => dir' = dir /\ objects'[dir["json"]].blocks = Document(converted)
      BY <1>1, <3>2, RewriteFrame
    <3> QED BY <3>1, <3>2, <3>3 DEF EvidenceInv, EvidenceParts, ConversionInv, NeitherStagedNorJson, Window, Blocks
  <2> QED BY <2>1, <2>2, <2>3
<1>6. VersionsInv'
  BY <1>1, <1>3 DEF EvidenceInv, EvidenceParts, VersionsInv
<1>7. ConversionInv'
  BY <1>1, <1>3, <1>5 DEF EvidenceInv, EvidenceParts, ConversionInv, NeitherStagedNorJson, Window
<1>8. QuietInv'
  BY <1>1 DEF QuietInv
<1>9. UndisturbedInv'
  BY <1>1, <1>3, <1>4 DEF EvidenceInv, EvidenceParts, UndisturbedInv
<1> QED BY <1>6, <1>7, <1>8, <1>9 DEF EvidenceParts

LEMMA ConverterEndsKeepsParts ==
  ASSUME EvidenceInv, ConverterEnds
  PROVE  EvidenceParts'
<1>1. /\ pc = "converting" /\ pc \in AfterCopy /\ pc' = "surroundings" /\ pc' \in AfterCopy
      /\ reading' = NotOpen /\ sound' = staged /\ round' = 3 /\ artifact = "none"
      /\ converter' = "succeeded" => converter = "succeeded"
      /\ converter' \in Ended
      /\ UNCHANGED <<objects, dir, staged, inner, ended, start, original, digest, converted, artifact,
                     document, interferences, unseen, versions>>
  BY DEF ConverterEnds, Concludes, AfterCopy, files, EvidenceInv, EvidenceParts, Inv, ControlInv, Ended
<1>2. SameData' <=> SameData
  BY <1>1 DEF SameData
<1>3. VersionsInv'
  BY <1>1 DEF EvidenceInv, EvidenceParts, VersionsInv, Blocks
<1>4. ConversionInv'
  BY <1>1 DEF EvidenceInv, EvidenceParts, ConversionInv, NeitherStagedNorJson, Window, Verified, Blocks, Ended
<1>5. QuietInv'
  BY <1>1 DEF QuietInv, Verified
<1>6. UndisturbedInv'
  <2>1. quiet' = TRUE
    BY DEF ConverterEnds
  <2> QED BY <1>1, <1>2, <2>1 DEF EvidenceInv, EvidenceParts, UndisturbedInv, Blocks
<1> QED BY <1>3, <1>4, <1>5, <1>6 DEF EvidenceParts

LEMMA ClassifyKeepsParts ==
  ASSUME EvidenceInv, Classify
  PROVE  EvidenceParts'
<1>1. /\ pc = "classify" /\ pc # "converting" /\ pc \in AfterCopy /\ round = 3 /\ artifact = "none"
      /\ converter \in Ended /\ start = "valid" /\ ended = "usable_exit"
      /\ interferences = 0 => sound
  BY DEF Classify, AfterCopy, EvidenceInv, EvidenceParts, Inv, ControlInv, StartInv, AcceptedStartIsWhole, UndisturbedInv
<1>2. \/ converter # "succeeded" /\ \E state \in Verdicts \ {"none", "snapshot"} : Decides(state)
      \/ ~sound /\ \E state \in Verdicts \ {"none", "snapshot"} : Decides(state)
      \/ converter = "succeeded" /\ sound /\ Continues("json")
  BY <1>1 DEF Classify, Ended, Verdicts
<1>3. CASE (converter # "succeeded" \/ ~sound) /\ \E state \in Verdicts \ {"none", "snapshot"} : Decides(state)
  BY <1>1, <1>3, DecidesKeepsParts
<1>4. CASE converter = "succeeded" /\ sound /\ Continues("json")
  <2>1. /\ pc' = "json" /\ pc' \in AfterCopy /\ reading' = NotOpen
        /\ UNCHANGED <<objects, dir, staged, inner, ended, start, original, digest, round, converted, sound,
                       artifact, document, converter, interferences, quiet, unseen, versions>>
    BY <1>4 DEF Continues, Concludes, files, evidence, AfterCopy
  <2>2. Verified
    BY <1>1, <1>4 DEF Verified
  <2>3. SameData' <=> SameData
    BY <2>1 DEF SameData
  <2>4. VersionsInv'
    BY <1>1, <2>1 DEF EvidenceInv, EvidenceParts, VersionsInv, Blocks
  <2>5. ConversionInv'
    BY <1>1, <1>4, <2>1, <2>2 DEF EvidenceInv, EvidenceParts, ConversionInv, NeitherStagedNorJson, Window, Blocks
  <2>6. QuietInv'
    BY <1>1, <2>1, <2>2, <2>3 DEF EvidenceInv, EvidenceParts, QuietInv, Blocks
  <2>7. UndisturbedInv'
    BY <1>1, <2>1, <2>3 DEF EvidenceInv, EvidenceParts, UndisturbedInv, Blocks
  <2> QED BY <2>4, <2>5, <2>6, <2>7 DEF EvidenceParts
<1> QED BY <1>2, <1>3, <1>4

(* What is read and taken for the document is that of the converter,       *)
(* unless that, or Coverage.py, was changed unseen.                        *)
LEMMA ReadDocumentKeepsParts ==
  ASSUME EvidenceInv, ReadDocument
  PROVE  EvidenceParts'
<1>1. /\ pc = "json" /\ pc # "converting" /\ pc \in AfterCopy /\ artifact = "none"
      /\ round = 3 /\ converter = "succeeded" /\ sound /\ start = "valid" /\ ended = "usable_exit"
      /\ digest \in versions \/ "data" \in unseen
      /\ Verified
  BY DEF ReadDocument, AfterCopy, Verified, EvidenceInv, EvidenceParts, Inv, ControlInv, ConversionInv, NeitherStagedNorJson, Window, VersionsInv
<1>2. interferences = 0 => NeitherStagedNorJson
  BY DEF EvidenceInv, EvidenceParts, UndisturbedInv, NeitherStagedNorJson
<1>3. CASE ReadAll /\ artifact' = "snapshot" /\ document' = reading.got /\ pc' = "done" /\ Concludes
           /\ UNCHANGED <<start, original, digest, round, converted, sound, converter, quiet, unseen>>
  <2>1. /\ reading' = NotOpen
        /\ UNCHANGED <<objects, dir, staged, inner, ended, interferences, versions>>
    BY <1>3 DEF Concludes, files
  <2>2. NeitherStagedNorJson => document' = Document(converted)
    BY <1>1, <1>3, DocumentRead
  <2>3. SameData' <=> SameData
    BY <1>3, <2>1 DEF SameData
  <2>4. pc' \notin AfterCopy
    BY <1>3 DEF AfterCopy
  <2>5. VersionsInv'
    BY <1>1, <1>3, <2>1, <2>4 DEF EvidenceInv, EvidenceParts, VersionsInv, Blocks
  <2>6. ConversionInv'
    BY <1>1, <1>3, <2>1, <2>2 DEF EvidenceInv, EvidenceParts, ConversionInv, Window, NeitherStagedNorJson, Blocks
  <2>7. QuietInv'
    BY <1>1, <1>3, <2>1, <2>3 DEF EvidenceInv, EvidenceParts, QuietInv, Verified, Blocks
  <2>8. UndisturbedInv'
    BY <1>1, <1>3, <2>1, <2>3, <2>4 DEF EvidenceInv, EvidenceParts, UndisturbedInv, Blocks
  <2> QED BY <2>5, <2>6, <2>7, <2>8 DEF EvidenceParts
<1>4. CASE /\ Unreadable \/ (ReadAll /\ ~Whole("json", reading.got))
           /\ \E state \in {"artifact_invalid", "artifact_missing"} : Decides(state)
  <2>1. interferences # 0
    BY <1>1, <1>2, <1>4, DocumentRead
  <2> QED BY <1>1, <1>4, <2>1, DecidesKeepsParts DEF Verdicts
<1> QED BY <1>3, <1>4 DEF ReadDocument

-----------------------------------------------------------------------------
(* The theorem *)

LEMMA EvidenceInit ==
  ASSUME Init
  PROVE  EvidenceInv
<1>1. \A name \in Name : dir[name] = Nothing
  BY DEF Init
<1>2. Inv
  BY InitInv
<1>3. VersionsInv /\ ConversionInv
  BY <1>1 DEF Init, VersionsInv, ConversionInv, NeitherStagedNorJson, Window, Verified, AfterCopy, Name
<1>4. QuietInv /\ UndisturbedInv
  BY <1>1 DEF Init, QuietInv, UndisturbedInv, Verified, AfterCopy, Name
<1> QED BY <1>2, <1>3, <1>4 DEF EvidenceInv, EvidenceParts

LEMMA EvidenceStep ==
  ASSUME EvidenceInv, Next
  PROVE  EvidenceInv'
<1>1. Inv'
  BY FilesAndRead, ControlStep, DocumentStep, StartStep DEF Inv, EvidenceInv, EvidenceParts
<1>2. EvidenceParts'
  <2>1. CASE PublishStart \/ PublishRest \/ Ends \/ Measure \/ PrimaryEnds \/ JudgeMarker \/ UnlinkMarker
    BY <2>1, LauncherKeepsParts, EarlyKeepsParts, UnlinkMarkerKeepsParts
  <2>2. CASE WriteData \/ ReplaceOrRemoveData \/ RivalData \/ DamageInput \/ DamageDocument
             \/ OpenFile \/ ReadBlock
    BY <2>2, DataKeepsParts, RivalKeepsParts, DamageInputKeepsParts, DamageDocumentKeepsParts, ReadKeepsParts
  <2>3. CASE Scan \/ Identify \/ Digest \/ Copy \/ Surroundings \/ Verify \/ Reidentify
    BY <2>3, SnapshotKeepsParts, CopyKeepsParts, VerificationKeepsParts
  <2>4. CASE \/ Destination \/ EnsureStaged \/ ConverterReads \/ ConverterWrites \/ ConverterCloses
             \/ ConverterEnds \/ Classify \/ ReadDocument
    BY <2>4, BeforeConversionKeepsParts, ConverterKeepsParts, ConverterEndsKeepsParts, ClassifyKeepsParts, ReadDocumentKeepsParts
  <2> QED BY <2>1, <2>2, <2>3, <2>4 DEF Next
<1> QED BY <1>1, <1>2 DEF EvidenceInv, EvidenceParts

LEMMA EvidenceStutter ==
  ASSUME EvidenceInv, UNCHANGED vars
  PROVE  EvidenceInv'
<1>1. UNCHANGED <<pc, objects, dir, staged, inner, ended, reading, start, original, digest, round, converted,
                  sound, artifact, document, converter, interferences, quiet, unseen, versions>>
  BY DEF vars, files, evidence
<1>2. Inv'
  BY StutterKeeps DEF EvidenceInv, EvidenceParts
<1>3. FileRead' = FileRead /\ (SameData' <=> SameData)
  BY <1>1 DEF FileRead, SameData
<1>4. VersionsInv' /\ ConversionInv' /\ QuietInv' /\ UndisturbedInv'
  BY <1>1, <1>3 DEF EvidenceInv, EvidenceParts, VersionsInv, ConversionInv, NeitherStagedNorJson, Window, QuietInv, UndisturbedInv, Verified, Moment, Status, Blocks
<1> QED BY <1>2, <1>4 DEF EvidenceInv, EvidenceParts

(* prepare_coverage_data_snapshot, verify_coverage_data_snapshot and       *)
(* _generate_coverage_json: an accepted document is the whole conversion   *)
(* of what the converter read, that is the data that were digested, which  *)
(* were those of one moment: for any number of interferences, and but for  *)
(* what `unseen' records, the changes that no later look can tell.  And    *)
(* without interference no evidence that could be converted is refused.    *)
THEOREM AcceptedDocumentIsConversion == Spec => []AcceptedIsConvertedOriginal
<1>1. EvidenceInv => AcceptedIsConvertedOriginal
  <2> SUFFICES ASSUME EvidenceInv
               PROVE  AcceptedIsConvertedOriginal
    OBVIOUS
  <2>1. ASSUME artifact = "snapshot"
        PROVE  /\ converter = "succeeded" /\ start = "valid" /\ ended = "usable_exit"
               /\ document = Document(converted) \/ unseen \cap {"staged", "json"} # {}
               /\ converted = digest \/ "copy" \in unseen
               /\ digest \in versions \/ "data" \in unseen
               /\ quiet => SameData /\ Blocks("data") = digest /\ dir["shard"] = Nothing /\ staged
    BY <2>1 DEF EvidenceInv, EvidenceParts, VersionsInv, ConversionInv, Window, QuietInv, Verified, NeitherStagedNorJson
  <2>2. interferences = 0 => unseen = {}
    BY DEF EvidenceInv, EvidenceParts, UndisturbedInv
  <2>3. ASSUME pc = "done", interferences = 0, converter = "succeeded"
        PROVE  artifact = "snapshot"
    BY <2>3 DEF EvidenceInv, EvidenceParts, UndisturbedInv, Inv, ControlInv
  <2> QED BY <2>1, <2>2, <2>3 DEF AcceptedIsConvertedOriginal
<1>2. Init => EvidenceInv
  BY EvidenceInit
<1>3. EvidenceInv /\ [Next]_vars => EvidenceInv'
  BY EvidenceStep, EvidenceStutter
<1> QED BY <1>1, <1>2, <1>3, PTL DEF Spec
=============================================================================
