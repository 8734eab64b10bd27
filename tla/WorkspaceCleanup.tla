-------------------------- MODULE WorkspaceCleanup --------------------------
(***************************************************************************)
(* execution_workspace.py: remove_run_workspace on a POSIX system.  The    *)
(* run directory of a Check is removed in two walks over its tree: the     *)
(* first only validates and records every entry in a manifest, the second  *)
(* deletes what still matches the manifest.  A leaf is renamed into a      *)
(* fresh private quarantine directory and looked at once more before it is *)
(* unlinked there.                                                         *)
(*                                                                         *)
(* All the while others may move objects away and put objects in place:    *)
(* in the run directory, and at the names of the run directory, of the     *)
(* quarantine and of their parent.  They do not look inside the quarantine,*)
(* which has a random name and is private to the user.                     *)
(*                                                                         *)
(* An object stands for a (device, inode) pair with its type, a directory  *)
(* descriptor for the directory object, and an object has one link.        *)
(***************************************************************************)
EXTENDS Naturals, Sequences, FiniteSets

CONSTANTS
  SubDirectory,  \* directories other than the parent, the run directory and the quarantine
  Leaf,          \* files, symbolic links and everything else
  Name,          \* entry names in the run directory and below
  Contents,      \* what the run directory holds at first: [objects -> places]
  MaxEntries,    \* _MAX_CLEANUP_ENTRIES
  MaxDepth,      \* _MAX_CLEANUP_DEPTH
  MoveBound,     \* bound: objects moved by others
  FaultBound     \* bound: system calls that raise OSError

Directory == {"parent", "run", "quarantine"} \cup SubDirectory
Object == Directory \cup Leaf

(* Where an object can be: a directory and a name in it.                   *)
RunPlace == <<"parent", "run">>
QuarantinePlace == <<"parent", "quarantine">>
LeafPlace == <<"quarantine", "leaf">>
TreePlace == ({"run"} \cup SubDirectory) \X Name
Place == {RunPlace, QuarantinePlace, LeafPlace} \cup TreePlace
Gone == <<"nowhere", "gone">>   \* unlinked
Away == <<"nowhere", "away">>   \* elsewhere in the file system
Top == <<"nowhere", "top">>     \* where the path of the parent leads

ASSUME WorkspaceCleanupAssumption ==
  /\ SubDirectory \cap (Leaf \cup {"parent", "run", "quarantine"}) = {}
  /\ Leaf \cap {"parent", "run", "quarantine"} = {}
  /\ {"nowhere", "none"} \cap (SubDirectory \cup Leaf) = {}
  /\ DOMAIN Contents \subseteq SubDirectory \cup Leaf
  /\ \A o \in DOMAIN Contents :
       /\ Contents[o] \in TreePlace
       /\ Contents[o][1] = "run" \/ Contents[o][1] \in DOMAIN Contents
       /\ \A p \in DOMAIN Contents : Contents[p] = Contents[o] => p = o
  /\ MaxEntries \in Nat /\ MaxDepth \in Nat
  /\ MoveBound \in Nat /\ FaultBound \in Nat

VARIABLES
  home,        \* the place of each object
  pc,          \* the position of the cleanup
  pass,        \* "validate", then "delete"
  stack,       \* the open directories of the walk
  count,       \* entries the pass observed
  manifest,    \* the validated entries: a set of [place, object]
  remaining,   \* places of the manifest that the second pass has yet to delete
  entry,       \* the entry at hand and the object found there
  removing,    \* the directory being removed: its place and the object held open
  quarantine,  \* the object taken for the quarantine, or "none"
  trusted,     \* cleanup_allowed
  everHeld,    \* ever_contained_data
  late,        \* is the deadline of the cleanup over?
  failure,     \* the kind of the failure, or "none"
  retained,    \* which of "run" and "quarantine" the observation reports
  unlinked,    \* history: objects the cleanup unlinked
  missed,      \* history: the look at the quarantine failed, or was disturbed
  moves, faults

cleanupVars == <<pc, pass, stack, count, manifest, remaining, entry, removing, quarantine,
                 trusted, everHeld, failure, retained, unlinked>>
vars == <<home, cleanupVars, missed, late, moves, faults>>

(* The looks at the quarantine after a failure; those at the run directory *)
(* come before them.                                                       *)
QuarantineLook == {"observeQuarantine", "relativeQuarantine", "lexicalQuarantine"}
Look == {"observeRun", "relativeRun", "lexicalRun"} \cup QuarantineLook

Kind == {"none", "budget_exceeded", "unsafe_tree", "io_failed"}
Frame == [object : Directory, place : Place, todo : SUBSET Name, maybe : SUBSET Name]
Entry == [place : Place, object : Object]
NoEntry == [place |-> Gone, object |-> "none"]

TypeOK ==
  /\ home \in [Object -> Place \cup {Gone, Away, Top}]
  /\ pc \in {"openParent", "mkdir", "statQuarantine", "openQuarantine", "openRoot", "walk",
             "openDirectory", "rename", "checkLeaf", "unlink", "verify", "rmdir", "check",
             "openRun", "close", "finish", "returned"} \cup Look
  /\ pass \in {"validate", "delete"}
  /\ stack \in Seq(Frame)
  /\ count \in 0 .. MaxEntries
  /\ manifest \in SUBSET Entry
  /\ remaining \in SUBSET {m.place : m \in manifest}
  /\ entry \in Entry \cup {NoEntry}
  /\ removing \in Entry \cup {NoEntry}
  /\ quarantine \in Object \cup {"none"}
  /\ trusted \in BOOLEAN
  /\ everHeld \in BOOLEAN
  /\ late \in BOOLEAN
  /\ failure \in Kind
  /\ retained \in SUBSET {"run", "quarantine"}
  /\ unlinked \in SUBSET Object
  /\ missed \in BOOLEAN
  /\ moves \in 0 .. MoveBound
  /\ faults \in 0 .. FaultBound

(* The object at a place, or "none"; two objects never share a place.      *)
At(place) ==
  IF \E o \in Object : home[o] = place THEN CHOOSE o \in Object : home[o] = place ELSE "none"

Listing(d) == {n \in Name : At(<<d, n>>) # "none"}
Empty(d) == \A o \in Object : home[o][1] # d

Init ==
  /\ home = [o \in Object |->
               IF o = "parent" THEN Top
               ELSE IF o = "run" THEN RunPlace
               ELSE IF o \in DOMAIN Contents THEN Contents[o]
               ELSE IF o = "quarantine" THEN Gone
               ELSE Away]
  /\ pc = "openParent"
  /\ pass = "validate"
  /\ stack = << >>
  /\ count = 0
  /\ manifest = {}
  /\ remaining = {}
  /\ entry = NoEntry
  /\ removing = NoEntry
  /\ quarantine = "none"
  /\ trusted = TRUE
  /\ everHeld = FALSE
  /\ late = FALSE
  /\ failure = "none"
  /\ retained = {}
  /\ unlinked = {}
  /\ missed = FALSE
  /\ moves = 0
  /\ faults = 0

-----------------------------------------------------------------------------
(* The others.                                                             *)

(* What they can move: the objects in their reach, but none out of the     *)
(* quarantine, and those that are elsewhere.                               *)
InReach == {o \in Object : moves < MoveBound /\ home[o] \notin {Gone, Away, LeafPlace}}
Elsewhere == {o \in Object : moves < MoveBound /\ home[o] = Away}

(* A move of the quarantine or of its parent disturbs the look at it, and  *)
(* what was seen does not hold until the end.  The other objects no longer *)
(* matter then, and stay where they are.                                   *)
Move(o, place) ==
  /\ pc # "returned"
  /\ pc \in Look \cup {"finish"} => o \in {"parent", "run", quarantine}
  /\ moves' = moves + 1
  /\ missed' = (missed \/ (pc \in QuarantineLook \cup {"finish"} /\ o \in {"parent", quarantine}))
  /\ home' = [home EXCEPT ![o] = place]

(* An object in reach is moved away from its place.                        *)
TakeAway(o) ==
  /\ Move(o, Away)
  /\ UNCHANGED <<cleanupVars, late, faults>>

(* An object elsewhere comes, or comes back, to a vacant place.  An open   *)
(* scan of the directory may or may not come across the new entry.  The    *)
(* parent is not an entry of any of these directories.                     *)
PutInPlace(o, place) ==
  /\ Move(o, place)
  /\ o # "parent"
  /\ At(place) = "none"
  /\ place # LeafPlace
  /\ place = QuarantinePlace => pc \notin {"openParent", "mkdir"}
  /\ home[place[1]] # Gone
  /\ o \in {"run", "quarantine"} => place[1] = "parent"
  /\ o \in SubDirectory => place[1] \in {"parent", "run"}
  /\ stack' = [i \in 1 .. Len(stack) |->
                 IF stack[i].object = place[1] /\ place[2] \in Name
                 THEN [stack[i] EXCEPT !.maybe = @ \cup {place[2]}] ELSE stack[i]]
  /\ UNCHANGED <<pc, pass, count, manifest, remaining, entry, removing, quarantine, trusted,
                 everHeld, failure, retained, unlinked, late, faults>>

PutParentBack ==
  /\ "parent" \in Elsewhere
  /\ Move("parent", Top)
  /\ UNCHANGED <<cleanupVars, late, faults>>

-----------------------------------------------------------------------------
(* Failures.                                                               *)

(* Mutant: a quarantine that is empty again is removed, too.               *)
RaiseDropsAny(kind) ==
  LET drop == failure = "none" /\ quarantine' # "none" /\ trusted'
  IN  /\ failure' = IF failure = "none" THEN kind ELSE failure
      /\ pc' = IF drop THEN "verify" ELSE "observeRun"
      /\ removing' = IF drop THEN [place |-> QuarantinePlace, object |-> quarantine']
                     ELSE NoEntry
      /\ stack' = << >>

(* An exception: the walk closes its directories, and a quarantine that    *)
(* never held anything is removed if that is still possible.  A failure of *)
(* that removal only adds to the message.                                  *)
Raise(kind) ==
  LET drop == failure = "none" /\ quarantine' # "none" /\ trusted' /\ ~everHeld'
  IN  /\ failure' = IF failure = "none" THEN kind ELSE failure
      /\ pc' = IF drop THEN "verify" ELSE "observeRun"
      /\ removing' = IF drop THEN [place |-> QuarantinePlace, object |-> quarantine']
                     ELSE NoEntry
      /\ stack' = << >>

quarantineVars == <<quarantine, trusted, everHeld>>
walkVars == <<pass, count, manifest, remaining, entry>>

(* Either nothing is wrong, and the step goes on, or there is a failure.   *)
Refuse(kind) ==
  /\ kind # "none"
  /\ UNCHANGED quarantineVars
  /\ Raise(kind)
  /\ UNCHANGED <<home, walkVars, retained, unlinked>>

Running == pc \notin {"openParent", "close", "finish", "returned"} \cup Look

(* Only what is still running looks at the clock.                          *)
DeadlinePasses ==
  /\ Running /\ ~late
  /\ late' = TRUE
  /\ UNCHANGED <<home, cleanupVars, missed, moves, faults>>

(* The quarantine is not trusted unless it was opened, and holds data from *)
(* just before the first rename is tried.                                  *)
Abort(kind) ==
  /\ Running
  /\ trusted' = (trusted /\ pc # "openQuarantine")
  /\ everHeld' = (everHeld \/ (pc = "rename" /\ kind = "io_failed"))
  /\ UNCHANGED quarantine
  /\ Raise(IF pc = "openQuarantine" THEN "unsafe_tree" ELSE kind)
  /\ UNCHANGED <<home, walkVars, retained, unlinked, missed, late, moves>>

SystemCallFails ==
  /\ faults < FaultBound
  /\ faults' = faults + 1
  /\ Abort("io_failed")

(* check_deadline comes before every system call that matters.             *)
BudgetExceeded ==
  /\ late
  /\ Abort("budget_exceeded")
  /\ UNCHANGED faults

(* A step of the cleanup that is in time.                                  *)
InTime(position) == pc = position /\ ~late /\ UNCHANGED <<missed, late, moves, faults>>

-----------------------------------------------------------------------------
(* The parent and the quarantine.                                          *)

OpenParent ==
  /\ pc = "openParent"
  /\ \/ home["parent"] = Top /\ pc' = "mkdir" /\ UNCHANGED failure
     \/ /\ pc' = "returned"
        /\ failure' \in {"unsafe_tree", "io_failed"}
        /\ home["parent"] = Top => faults < FaultBound
  /\ UNCHANGED <<home, walkVars, stack, removing, quarantineVars, retained, unlinked, missed,
                 late, moves, faults>>

MakeQuarantine ==
  /\ InTime("mkdir")
  /\ home' = [home EXCEPT !["quarantine"] = QuarantinePlace]
  /\ pc' = "statQuarantine"
  /\ UNCHANGED <<walkVars, stack, removing, quarantineVars, failure, retained, unlinked>>

(* What is found under the name becomes the quarantine; what replaced the  *)
(* created directory is not private and is not trusted.                    *)
StatQuarantine ==
  LET o == At(QuarantinePlace)
  IN  /\ InTime("statQuarantine")
      /\ quarantine' = o
      /\ UNCHANGED everHeld
      /\ \/ o = "quarantine" /\ pc' = "openQuarantine"
           /\ UNCHANGED <<trusted, stack, removing, failure>>
         \/ o = "none" /\ UNCHANGED trusted /\ Raise("io_failed")
         \/ o \notin {"none", "quarantine"} /\ trusted' = FALSE /\ Raise("unsafe_tree")
      /\ UNCHANGED <<home, walkVars, retained, unlinked>>

OpenQuarantine ==
  /\ InTime("openQuarantine")
  /\ UNCHANGED <<quarantine, everHeld>>
  /\ \/ /\ At(QuarantinePlace) = quarantine
        /\ pc' = "openRoot"
        /\ UNCHANGED <<trusted, stack, removing, failure>>
     \/ /\ At(QuarantinePlace) # quarantine
        /\ trusted' = FALSE
        /\ Raise("unsafe_tree")
  /\ UNCHANGED <<home, walkVars, retained, unlinked>>

-----------------------------------------------------------------------------
(* _walk_cleanup_tree, which is called once for each pass.                 *)

(* Opening without following links, and comparing what was opened.         *)
OpenFailure(place, expected) ==
  IF At(place) = expected THEN "none" ELSE IF At(place) = "none" THEN "io_failed" ELSE "unsafe_tree"

Opened(o, place) == [object |-> o, place |-> place, todo |-> Listing(o), maybe |-> {}]

OpenDirectory(position, place, o) ==
  /\ InTime(position)
  /\ \/ Refuse(OpenFailure(place, o))
     \/ /\ OpenFailure(place, o) = "none"
        /\ stack' = Append(stack, Opened(o, place))
        /\ pc' = "walk"
        /\ UNCHANGED <<home, walkVars, removing, quarantineVars, failure, retained, unlinked>>

OpenRoot == OpenDirectory("openRoot", RunPlace, "run")
OpenSubdirectory == OpenDirectory("openDirectory", entry.place, entry.object)

Current == stack[Len(stack)]
Validated == {m.object : m \in manifest}

(* Mutant: one entry more than the limit is let through.                   *)
VisitFailureLate(place, o) ==
  IF count > MaxEntries \/ Len(stack) > MaxDepth THEN "budget_exceeded"
  ELSE IF pass = "delete"
       THEN IF place \in remaining /\ [place |-> place, object |-> o] \in manifest
            THEN "none" ELSE "unsafe_tree"
  ELSE IF o = "none" THEN "io_failed"
  ELSE IF \E m \in manifest : m.place = place THEN "unsafe_tree" ELSE "none"

VisitFailure(place, o) ==
  IF count = MaxEntries \/ Len(stack) > MaxDepth THEN "budget_exceeded"
  ELSE IF pass = "delete"
       THEN IF place \in remaining /\ [place |-> place, object |-> o] \in manifest
            THEN "none" ELSE "unsafe_tree"
  ELSE IF o = "none" THEN "io_failed"
  ELSE IF \E m \in manifest : m.place = place THEN "unsafe_tree" ELSE "none"

(* The next entry of the current directory is looked at: a first walk      *)
(* records it, a second one deletes it if it is the one on record.         *)
Visit(n) ==
  LET place == <<Current.object, n>>
      o == At(place)
  IN  /\ InTime("walk")
      /\ n \in Current.todo \cup Current.maybe
      /\ \/ Refuse(VisitFailure(place, o))
         \/ /\ VisitFailure(place, o) = "none"
            /\ count' = count + 1
            /\ entry' = [place |-> place, object |-> o]
            /\ manifest' = manifest \cup {entry'}
            /\ remaining' = IF o \in Directory THEN remaining \ {place} ELSE remaining
            /\ stack' = [stack EXCEPT ![Len(stack)].todo = @ \ {n},
                                      ![Len(stack)].maybe = @ \ {n}]
            /\ pc' = IF o \in Directory THEN "openDirectory"
                     ELSE IF pass = "delete" THEN "rename" ELSE "walk"
            /\ UNCHANGED <<home, pass, removing, quarantineVars, failure, retained, unlinked>>

(* A scan may end when what it has not returned is no longer there.        *)
Scanned == \A n \in Current.todo : At(<<Current.object, n>>) = "none"

EndOfSubdirectory ==
  /\ InTime("walk")
  /\ Len(stack) > 1 /\ Scanned
  /\ \/ /\ pass = "validate"
        /\ stack' = SubSeq(stack, 1, Len(stack) - 1)
        /\ UNCHANGED <<pc, removing>>
     \/ /\ pass = "delete"
        /\ removing' = [place |-> Current.place, object |-> Current.object]
        /\ pc' = "verify"
        /\ UNCHANGED stack
  /\ UNCHANGED <<home, walkVars, quarantineVars, failure, retained, unlinked>>

EndOfValidation ==
  /\ InTime("walk")
  /\ Len(stack) = 1 /\ Scanned /\ pass = "validate"
  /\ stack' = << >>
  /\ pass' = "delete"
  /\ remaining' = {m.place : m \in manifest}
  /\ count' = 0
  /\ pc' = "openRoot"
  /\ UNCHANGED <<home, manifest, entry, removing, quarantineVars, failure, retained, unlinked>>

(* Mutant: entries that went missing are not asked for.                    *)
EndOfDeletionAnyway ==
  /\ InTime("walk")
  /\ Len(stack) = 1 /\ Scanned /\ pass = "delete"
  /\ stack' = << >>
  /\ pc' = "openRun"
  /\ UNCHANGED <<home, walkVars, removing, quarantineVars, failure, retained, unlinked>>

EndOfDeletion ==
  /\ InTime("walk")
  /\ Len(stack) = 1 /\ Scanned /\ pass = "delete"
  /\ \/ Refuse(IF remaining = {} THEN "none" ELSE "unsafe_tree")
     \/ /\ remaining = {}
        /\ stack' = << >>
        /\ pc' = "openRun"
        /\ UNCHANGED <<home, walkVars, removing, quarantineVars, failure, retained, unlinked>>

-----------------------------------------------------------------------------
(* _quarantine_and_remove_leaf: whatever is under the name now is renamed. *)

(* Mutant: a leaf that went missing is waited for.                         *)
RenameLeafOnceThere ==
  LET o == At(entry.place)
  IN  /\ InTime("rename")
      /\ o # "none"
      /\ everHeld' = TRUE
      /\ home' = [home EXCEPT ![o] = LeafPlace]
      /\ pc' = "checkLeaf"
      /\ UNCHANGED <<quarantine, trusted, stack, removing, failure, walkVars, retained, unlinked>>

RenameLeaf ==
  LET o == At(entry.place)
  IN  /\ InTime("rename")
      /\ everHeld' = TRUE
      /\ UNCHANGED <<quarantine, trusted>>
      /\ \/ o = "none" /\ Raise("io_failed") /\ UNCHANGED home
         \/ /\ o # "none"
            /\ home' = [home EXCEPT ![o] = LeafPlace]
            /\ pc' = "checkLeaf"
            /\ UNCHANGED <<stack, removing, failure>>
      /\ UNCHANGED <<walkVars, retained, unlinked>>

(* Mutant: what was renamed is not looked at again.                        *)
LeafUnchecked ==
  /\ InTime("checkLeaf")
  /\ remaining' = remaining \ {entry.place}
  /\ pc' = "unlink"
  /\ UNCHANGED <<home, pass, count, manifest, entry, stack, removing, quarantineVars, failure,
                 retained, unlinked>>

CheckLeaf ==
  /\ InTime("checkLeaf")
  /\ \/ Refuse(IF At(LeafPlace) = entry.object THEN "none" ELSE "unsafe_tree")
     \/ /\ At(LeafPlace) = entry.object
        /\ remaining' = remaining \ {entry.place}
        /\ pc' = "unlink"
        /\ UNCHANGED <<home, pass, count, manifest, entry, stack, removing, quarantineVars,
                       failure, retained, unlinked>>

UnlinkLeaf ==
  /\ InTime("unlink")
  /\ home' = [home EXCEPT ![At(LeafPlace)] = Gone]
  /\ unlinked' = unlinked \cup {At(LeafPlace)}
  /\ pc' = "walk"
  /\ UNCHANGED <<walkVars, stack, removing, quarantineVars, failure, retained>>

-----------------------------------------------------------------------------
(* The removal of a directory that is held open: one below the run         *)
(* directory, the run directory, or the quarantine.                        *)

OpenRun ==
  /\ InTime("openRun")
  /\ \/ Refuse(OpenFailure(RunPlace, "run"))
     \/ /\ OpenFailure(RunPlace, "run") = "none"
        /\ removing' = [place |-> RunPlace, object |-> "run"]
        /\ pc' = "verify"
        /\ UNCHANGED <<home, walkVars, stack, quarantineVars, failure, retained, unlinked>>

VerifyDirectory ==
  /\ InTime("verify")
  /\ \/ Refuse(OpenFailure(removing.place, removing.object))
     \/ /\ OpenFailure(removing.place, removing.object) = "none"
        /\ pc' = "rmdir"
        /\ UNCHANGED <<home, walkVars, stack, removing, quarantineVars, failure, retained,
                       unlinked>>

(* rmdir goes by the name.                                                 *)
RemoveDirectory ==
  LET o == At(removing.place)
      removable == o \in Directory /\ Empty(o)
  IN  /\ InTime("rmdir")
      /\ \/ Refuse(IF removable THEN "none" ELSE "io_failed")
         \/ /\ removable
            /\ home' = [home EXCEPT ![o] = Gone]
            /\ unlinked' = unlinked \cup {o}
            /\ pc' = "check"
            /\ UNCHANGED <<walkVars, stack, removing, quarantineVars, failure, retained>>

(* The directory held open must be the one that was removed.               *)
CheckDirectory ==
  /\ InTime("check")
  /\ \/ Refuse(IF home[removing.object] = Gone THEN "none" ELSE "unsafe_tree")
     \/ /\ home[removing.object] = Gone
        /\ pc' = IF failure # "none" THEN "observeRun"
                 ELSE IF removing.place = QuarantinePlace THEN "close"
                 ELSE IF removing.place = RunPlace THEN "verify" ELSE "walk"
        /\ removing' = IF removing.place = RunPlace
                       THEN [place |-> QuarantinePlace, object |-> quarantine] ELSE NoEntry
        /\ stack' = IF stack = << >> THEN stack ELSE SubSeq(stack, 1, Len(stack) - 1)
        /\ UNCHANGED <<home, walkVars, quarantineVars, failure, retained, unlinked>>

-----------------------------------------------------------------------------
(* The end: descriptors are closed, and after a failure what is still      *)
(* there under its own name is reported.                                   *)

CloseDescriptors ==
  /\ pc = "close"
  /\ \/ UNCHANGED <<failure, faults>>
     \/ failure' = "io_failed" /\ faults < FaultBound /\ faults' = faults + 1
  /\ pc' = "returned"
  /\ UNCHANGED <<home, walkVars, stack, removing, quarantineVars, retained, unlinked, missed,
                 late, moves>>

InPlace(o, place) == home["parent"] = Top /\ o \in Directory /\ home[o] = place

(* One stat of a look: what it finds must be what is looked for, or the    *)
(* look is over and nothing is reported.                                   *)
Stat(position, found, next, otherwise) ==
  /\ pc = position
  /\ pc' = IF found THEN next ELSE otherwise
  /\ UNCHANGED <<home, walkVars, stack, removing, quarantineVars, failure, retained, unlinked,
                 missed, late, moves, faults>>

(* The last stat of a look, by the full path.                              *)
LastStat(position, which, found, next) ==
  /\ pc = position
  /\ pc' = next
  /\ retained' = IF found THEN retained \cup {which} ELSE retained
  /\ UNCHANGED <<home, walkVars, stack, removing, quarantineVars, failure, unlinked, missed,
                 late, moves, faults>>

(* The path of the parent, the name relative to the parent that is held    *)
(* open, and the full path.                                                *)
ObserveRun == Stat("observeRun", home["parent"] = Top, "relativeRun", "observeQuarantine")
RelativeRun == Stat("relativeRun", home["run"] = RunPlace, "lexicalRun", "observeQuarantine")
LexicalRun == LastStat("lexicalRun", "run", InPlace("run", RunPlace), "observeQuarantine")

(* Mutant: only a quarantine that held something is looked for.            *)
ObserveUsedQuarantine ==
  Stat("observeQuarantine", everHeld /\ quarantine # "none" /\ home["parent"] = Top,
       "relativeQuarantine", "finish")

ObserveQuarantine ==
  Stat("observeQuarantine", quarantine # "none" /\ home["parent"] = Top, "relativeQuarantine",
       "finish")

RelativeQuarantine ==
  Stat("relativeQuarantine", quarantine \in Directory /\ home[quarantine] = QuarantinePlace,
       "lexicalQuarantine", "finish")

LexicalQuarantine ==
  LastStat("lexicalQuarantine", "quarantine", InPlace(quarantine, QuarantinePlace), "finish")

(* A stat raises OSError: the object is not reported.                      *)
LookFails ==
  /\ pc \in Look
  /\ faults < FaultBound
  /\ faults' = faults + 1
  /\ pc' = IF pc \in QuarantineLook THEN "finish" ELSE "observeQuarantine"
  /\ missed' = (missed \/ pc \in QuarantineLook)
  /\ UNCHANGED <<home, walkVars, stack, removing, quarantineVars, failure, retained, unlinked,
                 late, moves>>

(* The descriptors are closed on the way out; an error of that is dropped. *)
Finish ==
  /\ pc = "finish"
  /\ pc' = "returned"
  /\ UNCHANGED <<home, walkVars, stack, removing, quarantineVars, failure, retained, unlinked,
                 missed, late, moves, faults>>

-----------------------------------------------------------------------------
Others ==
  \/ \E o \in InReach : TakeAway(o)
  \/ \E o \in Elsewhere : \E place \in Place : PutInPlace(o, place)
  \/ PutParentBack
  \/ DeadlinePasses

Cleanup ==
  \/ BudgetExceeded
  \/ OpenParent
  \/ MakeQuarantine
  \/ StatQuarantine
  \/ OpenQuarantine
  \/ OpenRoot
  \/ OpenSubdirectory
  \/ \E n \in Name : Visit(n)
  \/ EndOfSubdirectory
  \/ EndOfValidation
  \/ EndOfDeletion
  \/ RenameLeaf
  \/ CheckLeaf
  \/ UnlinkLeaf
  \/ OpenRun
  \/ VerifyDirectory
  \/ RemoveDirectory
  \/ CheckDirectory
  \/ CloseDescriptors
  \/ ObserveRun
  \/ RelativeRun
  \/ LexicalRun
  \/ ObserveQuarantine
  \/ RelativeQuarantine
  \/ LexicalQuarantine
  \/ Finish

Next == Others \/ Cleanup \/ SystemCallFails \/ LookFails

Spec == Init /\ [][Next]_vars

(* The controller goes on with the cleanup.                                *)
FairSpec == Spec /\ WF_vars(Cleanup)

-----------------------------------------------------------------------------
(* Others never lose a file: a leaf that the first walk did not record, or *)
(* that took the name of one it did, is not unlinked.                      *)
OnlyValidatedIsUnlinked == unlinked \cap Leaf \subseteq Validated

(* A cleanup reported as complete removed exactly the objects it validated *)
(* with the run directory and the quarantine, although rmdir goes by name  *)
(* and may hit a directory that someone else put there.                    *)
SuccessIsExact ==
  pc = "returned" /\ failure = "none" =>
    /\ unlinked = Validated \cup {"run", "quarantine"}
    /\ \A o \in unlinked : home[o] = Gone

(* Nothing more is deleted after a failure, except a quarantine that never *)
(* held anything (or an empty directory that took its name).               *)
FailureStopsDeletion ==
  [][failure # "none" =>
       \A o \in unlinked' \ unlinked : ~everHeld /\ trusted /\ home[o] = QuarantinePlace]_vars

(* A quarantine that was seen once, whatever was found then and whatever   *)
(* went wrong since, may hold objects of the run directory: if it is in    *)
(* its place in the end it is reported.  Reporting is best effort: not if  *)
(* one of the stats that look for it raised OSError, nor if it or its      *)
(* parent was moved after the first of them.                               *)
KnownQuarantineIsReported ==
  pc = "returned" /\ quarantine # "none" /\ InPlace(quarantine, QuarantinePlace) =>
    "quarantine" \in retained \/ missed

(* The cleanup comes to an end whatever is done to the tree meanwhile.     *)
CleanupReturns == <>(pc = "returned")
=============================================================================
