----------------------- MODULE WorkspaceCleanupProofs -----------------------
(***************************************************************************)
(* For every tree, every limit and any number of moves and failures: what  *)
(* remove_run_workspace unlinks, and what it claims in the end.            *)
(***************************************************************************)
EXTENDS WorkspaceCleanup, SequenceTheorems, TLAPS

Setup == {"openParent", "mkdir", "statQuarantine", "openQuarantine"}
Walk == {"openRoot", "walk", "openDirectory", "rename", "checkLeaf", "unlink", "openRun"}
Removal == {"verify", "rmdir", "check"}
Final == Look \cup {"finish", "returned"}

USE DEF Look, QuarantineLook

(* Where objects can be: the parent only where it belongs, the run         *)
(* directory and the quarantine only in the parent, and in the quarantine  *)
(* one object at most, while a leaf is deleted or after a failure to.      *)
HomeInv ==
  /\ home \in [Object -> Place \cup {Gone, Away, Top}]
  /\ home["parent"] \in {Top, Away}
  /\ \A o \in {"run", "quarantine"} : home[o] \in {RunPlace, QuarantinePlace, Gone, Away}
  /\ \A o \in Object : home[o] = LeafPlace => everHeld /\ pc \in {"checkLeaf", "unlink"} \cup Final
  /\ \A o, p \in Object : home[o] = LeafPlace /\ home[p] = LeafPlace => o = p

(* How the failure, the quarantine and the pass belong to the position.    *)
ControlInv ==
  /\ pc \in Setup \cup Walk \cup Removal \cup Final \cup {"close"}
  /\ pass \in {"validate", "delete"}
  /\ trusted \in BOOLEAN /\ everHeld \in BOOLEAN /\ late \in BOOLEAN
  /\ failure \in Kind
  /\ failure # "none" => pc \in Removal \cup Final
  /\ pc \in Look \cup {"finish"} => failure # "none"
  /\ quarantine \in Object \cup {"none"}
  /\ pc \in {"openParent", "mkdir", "statQuarantine"} => quarantine = "none"
  /\ pc \in {"openQuarantine", "close"} \cup Walk \cup Removal => quarantine = "quarantine"
  /\ pc \in Setup => pass = "validate" /\ ~everHeld /\ manifest = {}
  /\ pc \in {"rename", "checkLeaf", "unlink", "openRun", "close"} => pass = "delete"
  /\ pc \in Removal /\ failure = "none" => pass = "delete"
  /\ pc = "returned" /\ failure = "none" => pass = "delete"
  /\ pc \in {"checkLeaf", "unlink"} => everHeld

(* What the first walk recorded, and what the second has yet to delete.    *)
ManifestInv ==
  /\ manifest \subseteq [place : TreePlace, object : SubDirectory \cup Leaf]
  /\ \A m, n \in manifest : m.place = n.place => m = n
  /\ remaining \subseteq {m.place : m \in manifest}
  /\ entry \in Entry \cup {NoEntry}
  /\ pc \in {"openDirectory", "rename", "checkLeaf", "unlink"} => entry \in manifest
  /\ pc = "openDirectory" => entry.object \in SubDirectory
  /\ pc = "unlink" => home[entry.object] = LeafPlace
  /\ pc \in {"openRun", "close"} => remaining = {}
  /\ pc = "returned" /\ failure = "none" => remaining = {}

(* The directories of a walk are below the run directory, and on record.   *)
StackInv ==
  /\ stack \in Seq(Frame)
  /\ \A i \in 1 .. Len(stack) : stack[i].object \in {"run"} \cup SubDirectory
  /\ \A i \in 2 .. Len(stack) : [place |-> stack[i].place, object |-> stack[i].object] \in manifest
  /\ pc \in {"walk", "openDirectory", "rename", "checkLeaf", "unlink"} => stack # << >>
  /\ pc \in Setup \cup {"openRoot", "openRun", "close"} => stack = << >>
  /\ pc = "returned" /\ failure = "none" => stack = << >>

(* The directory that is being removed.                                    *)
RemovalInv ==
  /\ removing \in Entry \cup {NoEntry}
  /\ pc \in Removal =>
       /\ removing \in Entry
       /\ removing.place = QuarantinePlace => removing.object = "quarantine"
       /\ removing.place = RunPlace => removing.object = "run"
       /\ failure # "none" => trusted /\ ~everHeld /\ removing.place = QuarantinePlace
       /\ removing.place \in {RunPlace, QuarantinePlace} =>
            stack = << >> /\ (failure = "none" => remaining = {})
       /\ removing.place \notin {RunPlace, QuarantinePlace} =>
            Len(stack) > 1 /\ stack[Len(stack)].object = removing.object
       /\ pc = "rmdir" => home[removing.object] # Gone

(* What is unlinked is gone for good, and nothing else is.                 *)
GoneInv ==
  /\ unlinked \in SUBSET Object
  /\ \A o \in unlinked : home[o] = Gone
  /\ failure = "none" => \A o \in Object : home[o] = Gone =>
       o \in unlinked \/ (o = "quarantine" /\ pc \in {"openParent", "mkdir"})
  /\ pass = "validate" /\ failure = "none" => unlinked = {}
  /\ unlinked \cap Leaf \subseteq Validated

(* The second walk accounts for every entry on record ...                  *)
Deleting(m) ==
  \/ pc \in {"openDirectory", "unlink"} /\ m = entry
  \/ \E i \in 2 .. Len(stack) : stack[i].object = m.object

CompleteInv ==
  failure = "none" =>
    /\ pass = "delete" =>
         \A m \in manifest : m.place \in remaining \/ m.object \in unlinked \/ Deleting(m)
    /\ pc \in Removal /\ removing.place = QuarantinePlace => "run" \in unlinked
    /\ pc \in {"close", "returned"} => {"run", "quarantine"} \subseteq unlinked

(* ... and unlinks nothing else, unless rmdir hit a directory in the place *)
(* of the one held open, which the check after it will see.                *)
ExactInv ==
  failure = "none" /\ (pc = "check" => home[removing.object] = Gone) =>
    unlinked \subseteq Validated \cup {"run", "quarantine"}

(* A quarantine that is left in its place has been reported, or missed.    *)
ReportInv ==
  /\ pc = "close" => home["quarantine"] = Gone
  /\ pc \in {"finish", "returned"} /\ quarantine # "none"
       /\ InPlace(quarantine, QuarantinePlace) => "quarantine" \in retained \/ missed

BoundInv ==
  /\ count \in 0 .. MaxEntries
  /\ retained \in SUBSET {"run", "quarantine"}
  /\ moves \in 0 .. MoveBound
  /\ faults \in 0 .. FaultBound

(* The inductive invariant; the bounds are one of their own.               *)
Safe ==
  /\ HomeInv /\ ControlInv /\ ManifestInv /\ StackInv /\ RemovalInv
  /\ GoneInv /\ CompleteInv /\ ExactInv /\ ReportInv

-----------------------------------------------------------------------------
(* Places and the objects found there.                                     *)

LEMMA PlacesDiffer ==
  /\ \A p \in Place : p # Gone /\ p # Away /\ p # Top
  /\ Gone # Away /\ Gone # Top /\ Away # Top
  /\ RunPlace # QuarantinePlace /\ RunPlace # LeafPlace /\ QuarantinePlace # LeafPlace
  /\ \A p \in TreePlace : p # RunPlace /\ p # QuarantinePlace /\ p # LeafPlace
  /\ {RunPlace, QuarantinePlace, LeafPlace} \subseteq Place /\ TreePlace \subseteq Place
BY WorkspaceCleanupAssumption DEF Place, TreePlace, Gone, Away, Top, RunPlace, QuarantinePlace, LeafPlace

LEMMA ObjectsDiffer ==
  /\ {"parent", "run", "quarantine"} \subseteq Directory /\ SubDirectory \subseteq Directory
  /\ Directory \subseteq Object /\ Leaf \subseteq Object
  /\ "none" \notin Object /\ Directory \cap Leaf = {}
  /\ \A o \in Object : o \notin {"parent", "run", "quarantine"} => o \in SubDirectory \cup Leaf
  /\ {"parent", "run", "quarantine"} \cap (SubDirectory \cup Leaf) = {}
BY WorkspaceCleanupAssumption DEF Object, Directory

LEMMA AtFact ==
  \A place : \/ At(place) \in Object /\ home[At(place)] = place
             \/ At(place) = "none" /\ \A o \in Object : home[o] # place
BY DEF At

(* In the quarantine there is one object at most.                          *)
LEMMA InQuarantine ==
  HomeInv => \A o \in Object : home[o] = LeafPlace => At(LeafPlace) = o
BY AtFact DEF HomeInv

(* What is found in the tree is neither of the three fixed directories.    *)
LEMMA InTree ==
  HomeInv => \A place \in TreePlace : At(place) # "none" => At(place) \in SubDirectory \cup Leaf
BY AtFact, PlacesDiffer, ObjectsDiffer DEF HomeInv

(* The steps of the others and of the clock.                               *)
LEMMA OthersFrame ==
  ASSUME Others
  PROVE  /\ UNCHANGED <<pc, pass, count, manifest, remaining, entry, removing, quarantine,
                        trusted, everHeld, failure, retained, unlinked>>
         /\ pc # "returned" \/ UNCHANGED vars
BY DEF Others, TakeAway, PutInPlace, PutParentBack, DeadlinePasses, Move, Running, cleanupVars

(* What others move is neither unlinked nor in the quarantine.             *)
LEMMA OthersMove ==
  ASSUME HomeInv, Others
  PROVE  /\ home' \in [Object -> Place \cup {Gone, Away, Top}]
         /\ \A o \in Object : home[o] \in {Gone, LeafPlace} \/ home'[o] \in {Gone, LeafPlace} =>
                                home'[o] = home[o]
         /\ home'["parent"] \in {Top, Away}
         /\ \A o \in {"run", "quarantine"} : home'[o] \in {RunPlace, QuarantinePlace, Gone, Away}
<1>1. ASSUME NEW o \in InReach, TakeAway(o)
      PROVE  /\ o \in Object /\ home[o] \notin {Gone, LeafPlace}
             /\ home' = [home EXCEPT ![o] = Away]
  BY <1>1 DEF TakeAway, Move, InReach
<1>2. ASSUME NEW o \in Elsewhere, NEW place \in Place, PutInPlace(o, place)
      PROVE  /\ o \in Object /\ home[o] = Away /\ place # LeafPlace /\ o # "parent"
             /\ o \in {"run", "quarantine"} => place \in {RunPlace, QuarantinePlace}
             /\ home' = [home EXCEPT ![o] = place]
  <2>1. place[1] = "parent" => place \in {RunPlace, QuarantinePlace}
    BY WorkspaceCleanupAssumption DEF Place, TreePlace, RunPlace, QuarantinePlace, LeafPlace
  <2>2. QED
    BY <1>2, <2>1 DEF PutInPlace, Move, Elsewhere
<1>3. PutParentBack => home["parent"] = Away /\ home' = [home EXCEPT !["parent"] = Top]
  BY DEF PutParentBack, Move, Elsewhere
<1>4. DeadlinePasses => home' = home
  BY DEF DeadlinePasses
<1> USE PlacesDiffer, ObjectsDiffer DEF HomeInv
<1>5. CASE \E o \in InReach : TakeAway(o)
  BY <1>1, <1>5
<1>6. CASE \E o \in Elsewhere : \E place \in Place : PutInPlace(o, place)
  BY <1>2, <1>6
<1>7. CASE PutParentBack \/ DeadlinePasses
  BY <1>3, <1>4, <1>7
<1>8. QED
  BY <1>5, <1>6, <1>7 DEF Others

(* Who moves the quarantine or its parent after the look has disturbed it. *)
LEMMA OthersDisturb ==
  ASSUME HomeInv, Others, pc = "finish"
  PROVE  ~missed' =>
           /\ ~missed /\ home'["parent"] = home["parent"]
           /\ quarantine \in Object => home'[quarantine] = home[quarantine]
<1>1. ASSUME NEW o, NEW place, Move(o, place)
      PROVE  ~missed' =>
               ~missed /\ o # "parent" /\ o # quarantine /\ home' = [home EXCEPT ![o] = place]
  BY <1>1, Zenon DEF Move
<1>2. CASE DeadlinePasses
  BY <1>2 DEF DeadlinePasses
<1>3. CASE \E o, place : Move(o, place)
  BY <1>1, <1>3, ObjectsDiffer DEF HomeInv
<1>4. QED
  BY <1>2, <1>3 DEF Others, TakeAway, PutInPlace, PutParentBack

-----------------------------------------------------------------------------
(* A failure of any kind, and which steps change what.                     *)

Aborts == BudgetExceeded \/ SystemCallFails

LEMMA RefuseFrame ==
  ASSUME NEW kind, Refuse(kind)
  PROVE  /\ UNCHANGED <<home, pass, count, manifest, remaining, entry, quarantine, trusted,
                        everHeld, retained, unlinked>>
         /\ kind # "none" /\ Raise(kind) /\ stack' = << >>
         /\ failure' = IF failure = "none" THEN kind ELSE failure
BY DEF Refuse, Raise, quarantineVars, walkVars

LEMMA AbortFrame ==
  ASSUME Aborts
  PROVE  /\ UNCHANGED <<home, pass, count, manifest, remaining, entry, quarantine, retained, unlinked>>
         /\ Running /\ stack' = << >> /\ failure' \in {failure, "unsafe_tree", "io_failed", "budget_exceeded"}
         /\ failure' # "none"
BY DEF Aborts, BudgetExceeded, SystemCallFails, Abort, Raise, quarantineVars, walkVars, Kind

(* The way out.                                                            *)
Ending ==
  \/ CloseDescriptors \/ ObserveRun \/ RelativeRun \/ LexicalRun
  \/ ObserveQuarantine \/ RelativeQuarantine \/ LexicalQuarantine \/ LookFails \/ Finish

(* The steps of the cleanup that move no object, and the five that do.     *)
Looking ==
  \/ BudgetExceeded \/ SystemCallFails \/ OpenParent \/ StatQuarantine \/ OpenQuarantine
  \/ OpenRoot \/ OpenSubdirectory \/ (\E n \in Name : Visit(n))
  \/ EndOfSubdirectory \/ EndOfValidation \/ EndOfDeletion \/ CheckLeaf
  \/ OpenRun \/ VerifyDirectory \/ CheckDirectory
  \/ Ending

LEMMA EndingFrame ==
  ASSUME Ending
  PROVE  /\ UNCHANGED <<home, walkVars, stack, removing, quarantineVars, unlinked, late, moves>>
         /\ \/ pc = "close" /\ pc' = "returned" /\ failure' \in {failure, "io_failed"}
               /\ UNCHANGED <<retained, missed>>
            \/ pc \in Look /\ pc' \in Look \cup {"finish"} /\ failure' = failure
            \/ pc = "finish" /\ pc' = "returned" /\ UNCHANGED <<failure, retained, missed>>
         /\ retained' \in {retained, retained \cup {"run"}, retained \cup {"quarantine"}}
         /\ faults' = faults \/ (faults < FaultBound /\ faults' = faults + 1)
         /\ missed => missed'
<1> USE DEF walkVars, quarantineVars
<1>1. CASE CloseDescriptors \/ Finish
  BY <1>1 DEF CloseDescriptors, Finish
<1>2. CASE ObserveRun \/ RelativeRun \/ ObserveQuarantine \/ RelativeQuarantine
  BY <1>2 DEF ObserveRun, RelativeRun, ObserveQuarantine, RelativeQuarantine, Stat
<1>3. CASE LexicalRun \/ LexicalQuarantine
  BY <1>3 DEF LexicalRun, LexicalQuarantine, LastStat
<1>4. CASE LookFails
  <2>1. missed => missed'
    BY <1>4, Zenon DEF LookFails
  <2>2. QED
    BY <1>4, <2>1 DEF LookFails
<1>5. QED
  BY <1>1, <1>2, <1>3, <1>4 DEF Ending

LEMMA Steps ==
  ASSUME [Next]_vars
  PROVE  Others \/ Looking \/ MakeQuarantine \/ RenameLeaf \/ UnlinkLeaf \/ RemoveDirectory \/ UNCHANGED vars
BY DEF Next, Cleanup, Looking, Ending

LEMMA LookingFrame ==
  ASSUME Looking
  PROVE  home' = home /\ unlinked' = unlinked
<1> USE DEF InTime, walkVars, quarantineVars
<1>1. ASSUME NEW kind, Refuse(kind)
      PROVE  home' = home /\ unlinked' = unlinked
  BY <1>1, RefuseFrame
<1>2. CASE BudgetExceeded \/ SystemCallFails
  BY <1>2, AbortFrame DEF Aborts
<1>3. CASE OpenParent \/ StatQuarantine \/ OpenQuarantine
  BY <1>3 DEF OpenParent, StatQuarantine, OpenQuarantine
<1>4. CASE OpenRoot \/ OpenSubdirectory
  BY <1>1, <1>4 DEF OpenRoot, OpenSubdirectory, OpenDirectory
<1>5. CASE \E n \in Name : Visit(n)
  BY <1>1, <1>5 DEF Visit
<1>6. CASE EndOfSubdirectory \/ EndOfValidation \/ EndOfDeletion \/ CheckLeaf
  BY <1>1, <1>6 DEF EndOfSubdirectory, EndOfValidation, EndOfDeletion, CheckLeaf
<1>7. CASE OpenRun \/ VerifyDirectory \/ CheckDirectory
  BY <1>1, <1>7 DEF OpenRun, VerifyDirectory, CheckDirectory
<1>8. CASE Ending
  BY <1>8, EndingFrame
<1>9. QED
  BY <1>2, <1>3, <1>4, <1>5, <1>6, <1>7, <1>8 DEF Looking

-----------------------------------------------------------------------------
(* Every failure of a step: only the quarantine's record may change, and   *)
(* the quarantine is dropped only if it was opened and never held anything.*)
Raises ==
  /\ Running
  /\ UNCHANGED <<home, pass, count, manifest, remaining, entry, retained, unlinked, late, moves>>
  /\ \E kind \in Kind \ {"none"} : Raise(kind)
  /\ quarantine' \in Object \cup {"none"} /\ trusted' \in BOOLEAN /\ everHeld' \in BOOLEAN
  /\ everHeld => everHeld'
  /\ pc = "statQuarantine" => quarantine' = "none" \/ ~trusted'
  /\ pc = "openQuarantine" => ~trusted'
  /\ pc # "statQuarantine" => quarantine' = quarantine

LEMMA RaisesFrame ==
  ASSUME ControlInv, Raises
  PROVE  /\ failure' \in Kind \ {"none"}
         /\ stack' = << >>
         /\ \/ pc' = "observeRun" /\ removing' = NoEntry
            \/ /\ pc' = "verify" /\ trusted' /\ ~everHeld' /\ quarantine' = "quarantine"
               /\ removing' = [place |-> QuarantinePlace, object |-> "quarantine"]
BY DEF Raises, Raise, ControlInv, Running, Kind, Setup, Walk, Removal, Final

LEMMA RaisesPreserves ==
  ASSUME Safe, Raises
  PROVE  Safe'
<1>0. /\ ControlInv
      /\ UNCHANGED <<home, pass, manifest, remaining, entry, retained, unlinked, late>>
      /\ everHeld => everHeld'
      /\ quarantine' \in Object \cup {"none"} /\ trusted' \in BOOLEAN /\ everHeld' \in BOOLEAN
  BY DEF Raises, Safe
<1> USE <1>0, RaisesFrame DEF Setup, Walk, Removal, Final
<1>1. HomeInv'
  BY DEF Safe, HomeInv
<1>2. ControlInv'
  BY DEF ControlInv
<1>3. ManifestInv'
  BY DEF Safe, ManifestInv
<1>4. StackInv'
  <2>1. << >> \in Seq(Frame) /\ Len(<< >>) = 0
    BY EmptySeq
  <2>2. QED
    BY <2>1 DEF StackInv
<1>5. RemovalInv'
  BY PlacesDiffer, ObjectsDiffer DEF RemovalInv, Entry
<1>6. GoneInv'
  BY DEF Safe, GoneInv, Validated
<1>7. CompleteInv' /\ ExactInv' /\ ReportInv'
  BY DEF CompleteInv, ExactInv, ReportInv
<1>8. QED
  BY <1>1, <1>2, <1>3, <1>4, <1>5, <1>6, <1>7 DEF Safe

LEMMA RefuseRaises ==
  ASSUME ControlInv, NEW kind \in Kind, Refuse(kind), Running, UNCHANGED <<late, moves>>,
         pc \notin {"statQuarantine", "openQuarantine"}
  PROVE  Raises
BY DEF Refuse, Raises, quarantineVars, walkVars, ControlInv

LEMMA AbortRaises ==
  ASSUME ControlInv, Aborts
  PROVE  Raises
BY DEF Aborts, BudgetExceeded, SystemCallFails, Abort, Raises, Kind, quarantineVars, walkVars,
   ControlInv, Running

-----------------------------------------------------------------------------
(* The others: they move objects, and a scan may see what they add.        *)

LEMMA OthersKeepStack ==
  ASSUME StackInv, Others
  PROVE  /\ stack' \in Seq(Frame) /\ Len(stack') = Len(stack)
         /\ stack = << >> <=> stack' = << >>
         /\ \A i \in 1 .. Len(stack) : /\ stack'[i].object = stack[i].object
                                       /\ stack'[i].place = stack[i].place
<1>1. PICK l \in Nat : l = Len(stack) /\ stack \in [1 .. l -> Frame]
  BY LenProperties DEF StackInv
<1>2. ASSUME NEW o \in Object, NEW place \in Place, PutInPlace(o, place)
      PROVE  /\ stack' \in Seq(Frame) /\ Len(stack') = l
             /\ \A i \in 1 .. l : /\ stack'[i].object = stack[i].object
                                  /\ stack'[i].place = stack[i].place
  <2> DEFINE changed(i) == IF stack[i].object = place[1] /\ place[2] \in Name
                           THEN [stack[i] EXCEPT !.maybe = @ \cup {place[2]}] ELSE stack[i]
  <2>1. stack' = [i \in 1 .. l |-> changed(i)]
    BY <1>1, <1>2 DEF PutInPlace
  <2>2. \A i \in 1 .. l : /\ changed(i) \in Frame
                          /\ changed(i).object = stack[i].object
                          /\ changed(i).place = stack[i].place
    BY <1>1 DEF Frame
  <2> HIDE DEF changed
  <2>3. stack' \in [1 .. l -> Frame] /\ \A i \in 1 .. l : stack'[i] = changed(i)
    BY <2>1, <2>2
  <2>4. stack' \in Seq(Frame) /\ Len(stack') = l
    BY <2>3
  <2>5. QED
    BY <2>2, <2>3, <2>4
<1>3. (\A o \in Object, place \in Place : ~PutInPlace(o, place)) => stack' = stack
  BY DEF Others, Elsewhere, TakeAway, PutParentBack, DeadlinePasses, cleanupVars
<1>4. stack' \in Seq(Frame) /\ Len(stack') = l
      /\ \A i \in 1 .. l : stack'[i].object = stack[i].object /\ stack'[i].place = stack[i].place
  BY <1>1, <1>2, <1>3 DEF StackInv
<1>5. stack = << >> <=> l = 0
  BY <1>1, EmptySeq DEF StackInv
<1>6. stack' = << >> <=> l = 0
  BY <1>4, EmptySeq
<1>7. QED
  BY <1>1, <1>4, <1>5, <1>6

LEMMA OthersPreserve ==
  ASSUME Safe, Others
  PROVE  Safe'
<1>0. /\ UNCHANGED <<pc, pass, manifest, remaining, entry, removing, quarantine, trusted, everHeld,
                     failure, retained, unlinked>>
      /\ pc # "returned" \/ UNCHANGED vars
      /\ late' \in BOOLEAN
  <2>1. late' \in BOOLEAN
    BY DEF Others, TakeAway, PutInPlace, PutParentBack, DeadlinePasses, Safe, ControlInv
  <2>2. QED
    BY <2>1, OthersFrame
<1>1. /\ home' \in [Object -> Place \cup {Gone, Away, Top}]
      /\ \A o \in Object : home[o] \in {Gone, LeafPlace} \/ home'[o] \in {Gone, LeafPlace} =>
                             home'[o] = home[o]
      /\ home'["parent"] \in {Top, Away}
      /\ \A o \in {"run", "quarantine"} : home'[o] \in {RunPlace, QuarantinePlace, Gone, Away}
  BY OthersMove DEF Safe
<1>2. /\ stack' \in Seq(Frame) /\ Len(stack') = Len(stack)
      /\ stack = << >> <=> stack' = << >>
      /\ \A i \in 1 .. Len(stack) : /\ stack'[i].object = stack[i].object
                                    /\ stack'[i].place = stack[i].place
  BY OthersKeepStack DEF Safe
<1>3. Len(stack) \in Nat
  BY LenProperties DEF Safe, StackInv
<1> USE <1>0
<1>4. HomeInv'
  BY <1>1 DEF Safe, HomeInv
<1>5. ControlInv'
  BY DEF Safe, ControlInv
<1>6. ManifestInv'
  <2>1. pc = "unlink" => entry.object \in Object
    BY ObjectsDiffer DEF Safe, ManifestInv
  <2>2. QED
    BY <1>1, <2>1 DEF Safe, ManifestInv
<1>7. StackInv'
  BY <1>2, <1>3 DEF Safe, StackInv
<1>8. RemovalInv'
  <2>1. removing \in Entry => removing.object \in Object
    BY DEF Entry
  <2>2. Len(stack) > 1 => stack'[Len(stack')].object = stack[Len(stack)].object
    BY <1>2, <1>3
  <2>3. QED
    BY <1>1, <1>2, <2>1, <2>2 DEF Safe, RemovalInv
<1>9. GoneInv'
  BY <1>1 DEF Safe, GoneInv, Validated
<1>10. CompleteInv'
  <2>1. ASSUME NEW m, Deleting(m)
        PROVE  Deleting(m)'
    BY <1>2, <1>3, <2>1 DEF Deleting
  <2>2. QED
    BY <2>1 DEF Safe, CompleteInv
<1>11. ExactInv'
  <2>1. pc = "check" => removing.object \in Object
    BY DEF Safe, RemovalInv, Removal, Entry
  <2>2. QED
    BY <1>1, <2>1 DEF Safe, ExactInv, Validated
<1>12. ReportInv'
  <2>1. pc = "close" => home'["quarantine"] = Gone
    BY <1>1, ObjectsDiffer DEF Safe, ReportInv
  <2>2. pc = "finish" /\ InPlace(quarantine, QuarantinePlace)' /\ ~missed' =>
          InPlace(quarantine, QuarantinePlace) /\ ~missed
    BY OthersDisturb, ObjectsDiffer DEF Safe, InPlace
  <2>3. QED
    BY <2>1, <2>2 DEF Safe, ReportInv, InPlace, vars, cleanupVars
<1>13. QED
  BY <1>4, <1>5, <1>6, <1>7, <1>8, <1>9, <1>10, <1>11, <1>12 DEF Safe

-----------------------------------------------------------------------------
(* The setup: the tree is not touched yet.                                 *)

LEMMA SetupPreserves ==
  ASSUME Safe, OpenParent \/ MakeQuarantine \/ StatQuarantine \/ OpenQuarantine, ~Raises
  PROVE  Safe'
<1>0. /\ pc \in Setup /\ pc' \in Setup \cup {"openRoot", "returned"}
      /\ pc' = "returned" => failure' # "none"
      /\ failure' \in Kind /\ (failure' # "none" => pc' = "returned")
      /\ pc' \in {"mkdir", "statQuarantine"} => quarantine' = "none"
      /\ pc' \in {"openQuarantine", "openRoot"} => quarantine' = "quarantine"
      /\ quarantine' \in Object \cup {"none"}
      /\ pc' = "returned" => quarantine' = "none"
      /\ UNCHANGED <<walkVars, stack, removing, trusted, everHeld, retained, unlinked, late>>
      /\ pc' # "openParent" /\ (pc = "mkdir" => pc' = "statQuarantine")
      /\ pc = "openParent" => pc' \in {"mkdir", "returned"}
      /\ home' = home \/ (pc = "mkdir" /\ home' = [home EXCEPT !["quarantine"] = QuarantinePlace])
      /\ pc' = "statQuarantine" => pc = "mkdir" /\ home' = [home EXCEPT !["quarantine"] = QuarantinePlace]
  <2>1. Safe /\ ControlInv /\ {"run", "quarantine"} \subseteq Object
    BY ObjectsDiffer DEF Safe
  <2>2. CASE OpenParent
    BY <2>1, <2>2 DEF OpenParent, quarantineVars, ControlInv, Setup, Kind, Removal, Final
  <2>3. CASE MakeQuarantine
    BY <2>1, <2>3 DEF MakeQuarantine, InTime, quarantineVars, ControlInv, Setup, Kind, Removal, Final
  <2>4. CASE StatQuarantine
    <3>1. ASSUME At(QuarantinePlace) # "quarantine"
          PROVE  Raises
      BY <2>1, <2>4, <3>1, AtFact DEF StatQuarantine, InTime, Raises, Running, ControlInv, walkVars, Kind
    <3>2. QED
      BY <2>1, <2>4, <3>1 DEF StatQuarantine, InTime, ControlInv, Setup, Kind, Removal, Final
  <2>5. CASE OpenQuarantine
    <3>1. ASSUME At(QuarantinePlace) # quarantine
          PROVE  Raises
      BY <2>1, <2>5, <3>1 DEF OpenQuarantine, InTime, Raises, Running, ControlInv, walkVars, Kind
    <3>2. QED
      BY <2>1, <2>5, <3>1 DEF OpenQuarantine, InTime, ControlInv, Setup, Kind, Removal, Final
  <2>6. QED
    BY <2>2, <2>3, <2>4, <2>5
<1> USE <1>0 DEF Setup, walkVars
<1>1. HomeInv'
  BY PlacesDiffer, ObjectsDiffer DEF Safe, HomeInv, ControlInv, Final
<1>2. ControlInv'
  BY DEF Safe, ControlInv, Walk, Removal, Final
<1>3. ManifestInv'
  BY DEF Safe, ManifestInv, ControlInv
<1>4. StackInv'
  BY DEF Safe, StackInv
<1>5. RemovalInv'
  BY DEF Safe, RemovalInv, Removal
<1>6. GoneInv'
  BY PlacesDiffer, ObjectsDiffer DEF Safe, GoneInv, ControlInv, Validated, HomeInv, Removal, Final
<1>7. CompleteInv' /\ ExactInv' /\ ReportInv'
  BY DEF Safe, CompleteInv, ExactInv, ReportInv, ControlInv, GoneInv, Removal, Final
<1>8. QED
  BY <1>1, <1>2, <1>3, <1>4, <1>5, <1>6, <1>7 DEF Safe

-----------------------------------------------------------------------------
(* The stack of open directories.                                          *)

LEMMA StackLength ==
  ASSUME StackInv
  PROVE  /\ Len(stack) \in Nat /\ (stack = << >> <=> Len(stack) = 0)
         /\ stack # << >> => Current \in Frame /\ Current.object \in {"run"} \cup SubDirectory
         /\ \A i \in 1 .. Len(stack) : stack[i] \in Frame
<1>1. Len(stack) \in Nat /\ (stack = << >> <=> Len(stack) = 0) /\ \A i \in 1 .. Len(stack) : stack[i] \in Frame
  BY LenProperties, EmptySeq DEF StackInv
<1>2. stack # << >> => Len(stack) \in 1 .. Len(stack)
  BY <1>1
<1>3. QED
  BY <1>1, <1>2 DEF StackInv, Current

LEMMA Push ==
  ASSUME StackInv, NEW frame \in Frame, stack' = Append(stack, frame)
  PROVE  /\ stack' \in Seq(Frame) /\ Len(stack') = Len(stack) + 1
         /\ \A i \in 1 .. Len(stack) : stack'[i] = stack[i]
         /\ stack'[Len(stack) + 1] = frame
BY AppendProperties DEF StackInv

LEMMA Pop ==
  ASSUME StackInv, Len(stack) > 1, stack' = SubSeq(stack, 1, Len(stack) - 1)
  PROVE  /\ stack' \in Seq(Frame) /\ Len(stack') = Len(stack) - 1
         /\ \A i \in 1 .. Len(stack) - 1 : stack'[i] = stack[i]
         /\ stack' # << >>
<1>1. PICK l \in Nat : l = Len(stack) /\ l > 1
  BY LenProperties DEF StackInv
<1>2. l - 1 \in Int /\ 1 <= l - 1 /\ (l - 1) - 1 + 1 = l - 1
  BY <1>1
<1>3. \A i \in 1 .. l - 1 : stack[i] \in Frame
  BY <1>1, StackLength
<1>4. /\ stack' \in Seq(Frame) /\ Len(stack') = l - 1
      /\ \A i \in 1 .. l - 1 : stack'[i] = stack[1 + i - 1]
  BY <1>1, <1>2, <1>3, SubSeqProperties
<1>5. \A i \in 1 .. l - 1 : 1 + i - 1 = i
  OBVIOUS
<1>6. stack' # << >>
  <2>1. Len(<< >>) = 0 /\ l - 1 # 0
    BY <1>2, EmptySeq
  <2>2. QED
    BY <1>4, <2>1
<1>7. QED
  BY <1>1, <1>4, <1>5, <1>6

LEMMA MarkVisited ==
  ASSUME StackInv, stack # << >>, NEW n \in Name,
         stack' = [stack EXCEPT ![Len(stack)].todo = @ \ {n}, ![Len(stack)].maybe = @ \ {n}]
  PROVE  /\ stack' \in Seq(Frame) /\ Len(stack') = Len(stack) /\ stack' # << >>
         /\ \A i \in 1 .. Len(stack) : /\ stack'[i].object = stack[i].object
                                       /\ stack'[i].place = stack[i].place
<1>1. PICK l \in Nat \ {0} : l = Len(stack) /\ stack \in [1 .. l -> Frame]
  BY StackLength, LenProperties DEF StackInv
<1> DEFINE marked == [[stack[l] EXCEPT !.todo = @ \ {n}] EXCEPT !.maybe = @ \ {n}]
<1>2. l \in 1 .. l /\ stack[l] \in Frame
  BY <1>1
<1>3. marked \in Frame /\ marked.object = stack[l].object /\ marked.place = stack[l].place
  BY <1>2 DEF Frame
<1>4. stack' = [stack EXCEPT ![l] = marked]
  BY <1>1, <1>2
<1> HIDE DEF marked
<1>5. /\ stack' \in Seq(Frame) /\ Len(stack') = l
      /\ \A j \in 1 .. l : stack'[j] = IF j = l THEN marked ELSE stack[j]
  <2>1. stack \in Seq(Frame) /\ l \in 1 .. Len(stack) /\ marked \in Frame
    BY <1>1, <1>2, <1>3 DEF StackInv
  <2>2. /\ [stack EXCEPT ![l] = marked] \in Seq(Frame)
        /\ Len([stack EXCEPT ![l] = marked]) = Len(stack)
        /\ \A j \in 1 .. Len(stack) :
             [stack EXCEPT ![l] = marked][j] = IF j = l THEN marked ELSE stack[j]
    BY <2>1, ExceptSeq
  <2>3. QED
    BY <1>1, <1>4, <2>2
<1>6. stack' # << >>
  BY <1>5, EmptySeq
<1>7. QED
  BY <1>1, <1>3, <1>5, <1>6

-----------------------------------------------------------------------------
(* The walks.                                                              *)

LEMMA OpenPreserves ==
  ASSUME Safe, OpenRoot \/ OpenSubdirectory, ~Raises
  PROVE  Safe'
<1>1. PICK place, o :
        /\ \/ pc = "openRoot" /\ place = RunPlace /\ o = "run"
           \/ pc = "openDirectory" /\ place = entry.place /\ o = entry.object
        /\ OpenDirectory(pc, place, o)
  BY DEF OpenRoot, OpenSubdirectory, OpenDirectory, InTime
<1>2. /\ stack' = Append(stack, Opened(o, place)) /\ pc' = "walk"
      /\ UNCHANGED <<home, walkVars, removing, quarantineVars, failure, retained, unlinked, late>>
  <2>1. Refuse(OpenFailure(place, o)) => Raises
    BY <1>1, RefuseRaises DEF Safe, OpenDirectory, OpenFailure, InTime, Kind, Running
  <2>2. QED
    BY <1>1, <2>1 DEF OpenDirectory, InTime
<1>3. /\ pc = "openDirectory" => entry \in manifest /\ o \in SubDirectory
      /\ entry \in manifest => entry \in [place : TreePlace, object : SubDirectory \cup Leaf]
  BY <1>1 DEF Safe, ManifestInv
<1>4. Opened(o, place) \in Frame /\ o \in {"run"} \cup SubDirectory
  BY <1>1, <1>3, ObjectsDiffer, PlacesDiffer DEF Opened, Frame, Listing
<1>5. /\ stack' \in Seq(Frame) /\ Len(stack') = Len(stack) + 1
      /\ \A i \in 1 .. Len(stack) : stack'[i] = stack[i]
      /\ stack'[Len(stack) + 1] = Opened(o, place)
  BY <1>2, <1>4, Push DEF Safe
<1>6. /\ Len(stack) \in Nat /\ (stack = << >> <=> Len(stack) = 0)
      /\ Opened(o, place).object = o /\ Opened(o, place).place = place
  BY StackLength DEF Safe, Opened
<1> USE <1>2 DEF walkVars, quarantineVars
<1>7. HomeInv'
  BY <1>1 DEF Safe, HomeInv, Final
<1>8. ControlInv'
  BY <1>1 DEF Safe, ControlInv, Setup, Walk, Removal, Final
<1>9. ManifestInv'
  BY DEF Safe, ManifestInv
<1>10. StackInv'
  <2>1. stack' # << >>
    BY <1>2, <1>4, AppendProperties DEF Safe, StackInv
  <2>2. \A i \in 1 .. Len(stack') : stack'[i].object \in {"run"} \cup SubDirectory
    BY <1>4, <1>5, <1>6 DEF Safe, StackInv
  <2>3. pc = "openRoot" => Len(stack') = 1
    BY <1>5, <1>6 DEF Safe, StackInv
  <2>4. pc = "openDirectory" => [place |-> place, object |-> o] \in manifest
    BY <1>1, <1>3
  <2>5. \A i \in 2 .. Len(stack') :
          [place |-> stack'[i].place, object |-> stack'[i].object] \in manifest
    BY <1>1, <1>5, <1>6, <2>3, <2>4 DEF Safe, StackInv
  <2>6. QED
    BY <1>5, <2>1, <2>2, <2>5 DEF StackInv, Setup
<1>11. RemovalInv'
  BY DEF Safe, RemovalInv, Removal
<1>12. GoneInv'
  BY <1>1 DEF Safe, GoneInv, Validated
<1>13. CompleteInv'
  <2>1. ASSUME NEW m, Deleting(m)
        PROVE  Deleting(m)'
    <3>1. CASE \E i \in 2 .. Len(stack) : stack[i].object = m.object
      BY <1>5, <1>6, <3>1 DEF Deleting
    <3>2. CASE pc = "openDirectory" /\ m = entry
      <4>1. Len(stack) # 0 /\ o = m.object
        BY <1>1, <1>6, <3>2 DEF Safe, StackInv
      <4>2. Len(stack) + 1 \in 2 .. Len(stack')
        BY <1>5, <1>6, <4>1
      <4>3. QED
        BY <1>5, <1>6, <4>1, <4>2 DEF Deleting
    <3>3. QED
      BY <1>1, <2>1, <3>1, <3>2 DEF Deleting
  <2>2. QED
    BY <2>1 DEF Safe, CompleteInv, Removal
<1>14. ExactInv' /\ ReportInv'
  BY <1>1 DEF Safe, ExactInv, ReportInv, Validated
<1>15. QED
  BY <1>7, <1>8, <1>9, <1>10, <1>11, <1>12, <1>13, <1>14 DEF Safe

LEMMA VisitPreserves ==
  ASSUME Safe, NEW n \in Name, Visit(n), ~Raises
  PROVE  Safe'
<1> DEFINE place == <<Current.object, n>>
           o == At(place)
<1>1. /\ pc = "walk" /\ VisitFailure(place, o) = "none"
      /\ entry' = [place |-> place, object |-> o]
      /\ manifest' = manifest \cup {entry'}
      /\ remaining' = IF o \in Directory THEN remaining \ {place} ELSE remaining
      /\ stack' = [stack EXCEPT ![Len(stack)].todo = @ \ {n}, ![Len(stack)].maybe = @ \ {n}]
      /\ pc' = IF o \in Directory THEN "openDirectory"
               ELSE IF pass = "delete" THEN "rename" ELSE "walk"
      /\ UNCHANGED <<home, pass, removing, quarantineVars, failure, retained, unlinked, late>>
  <2>1. Refuse(VisitFailure(place, o)) => Raises
    BY RefuseRaises DEF Safe, Visit, VisitFailure, InTime, Kind, Running
  <2>2. QED
    BY <2>1 DEF Visit, InTime
<1>2. /\ pass = "delete" => place \in remaining /\ entry' \in manifest
      /\ pass = "validate" => o # "none" /\ \A m \in manifest : m.place # place
  BY <1>1 DEF VisitFailure
<1>3. place \in TreePlace
  BY <1>1, StackLength DEF Safe, StackInv, TreePlace
<1>4. entry' \in [place : TreePlace, object : SubDirectory \cup Leaf]
  <2>1. pass = "delete" => entry' \in [place : TreePlace, object : SubDirectory \cup Leaf]
    BY <1>2 DEF Safe, ManifestInv
  <2>2. pass = "validate" => o \in SubDirectory \cup Leaf
    BY <1>2, <1>3, InTree DEF Safe
  <2>3. QED
    BY <1>1, <1>3, <2>1, <2>2 DEF Safe, ControlInv
<1>5. /\ stack' \in Seq(Frame) /\ Len(stack') = Len(stack) /\ stack' # << >>
      /\ \A i \in 1 .. Len(stack) : /\ stack'[i].object = stack[i].object
                                    /\ stack'[i].place = stack[i].place
  BY <1>1, MarkVisited DEF Safe, StackInv
<1>6. Len(stack) \in Nat /\ o \in SubDirectory \cup Leaf /\ (o \in Directory <=> o \in SubDirectory)
  <2>1. o \in SubDirectory \cup Leaf
    BY <1>1, <1>4
  <2>2. QED
    BY <2>1, StackLength, ObjectsDiffer DEF Safe
<1> HIDE DEF place, o
<1> USE <1>1 DEF quarantineVars
<1>7. HomeInv'
  BY DEF Safe, HomeInv, Final
<1>8. ControlInv'
  BY DEF Safe, ControlInv, Setup, Walk, Removal, Final
<1>9. ManifestInv'
  <2>1. \A m, k \in manifest' : m.place = k.place => m = k
    BY <1>2, <1>4 DEF Safe, ManifestInv, ControlInv
  <2>2. entry' \in Entry
    BY <1>4, PlacesDiffer, ObjectsDiffer DEF Entry
  <2>3. QED
    BY <1>4, <1>6, <2>1, <2>2 DEF Safe, ManifestInv
<1>10. StackInv'
  BY <1>5, <1>6 DEF Safe, StackInv, Setup
<1>11. RemovalInv'
  BY DEF Safe, RemovalInv, Removal
<1>12. GoneInv'
  BY DEF Safe, GoneInv, Validated
<1>13. CompleteInv'
  <2>1. ASSUME NEW m, Deleting(m)
        PROVE  Deleting(m)'
    BY <1>5, <1>6, <2>1 DEF Deleting
  <2>2. ASSUME pass = "delete", NEW m \in manifest, m.place = place, o \in Directory
        PROVE  Deleting(m)'
    BY <1>2, <2>2 DEF Safe, ManifestInv, Deleting
  <2>3. pass = "delete" => manifest' = manifest
    BY <1>2
  <2>4. QED
    BY <2>1, <2>2, <2>3 DEF Safe, CompleteInv, Removal
<1>14. ExactInv' /\ ReportInv'
  BY DEF Safe, ExactInv, ReportInv, Validated
<1>15. QED
  BY <1>7, <1>8, <1>9, <1>10, <1>11, <1>12, <1>13, <1>14 DEF Safe

LEMMA EndOfSubdirectoryPreserves ==
  ASSUME Safe, EndOfSubdirectory
  PROVE  Safe'
<1>1. /\ pc = "walk" /\ Len(stack) > 1
      /\ UNCHANGED <<home, walkVars, quarantineVars, failure, retained, unlinked, late>>
      /\ pass = "validate" => stack' = SubSeq(stack, 1, Len(stack) - 1) /\ pc' = pc /\ removing' = removing
      /\ pass = "delete" =>
           /\ stack' = stack /\ pc' = "verify"
           /\ removing' = [place |-> Current.place, object |-> Current.object]
  BY DEF EndOfSubdirectory, InTime
<1>2. pass \in {"validate", "delete"} /\ failure = "none" /\ quarantine = "quarantine"
  BY <1>1 DEF Safe, ControlInv, Walk, Removal, Final
<1>3. Len(stack) \in Nat
  BY StackLength DEF Safe
<1>4. pass = "validate" =>
        /\ stack' \in Seq(Frame) /\ Len(stack') = Len(stack) - 1 /\ stack' # << >>
        /\ \A i \in 1 .. Len(stack) - 1 : stack'[i] = stack[i]
  BY <1>1, Pop DEF Safe
<1>5. pass = "delete" =>
        /\ removing' \in [place : TreePlace, object : SubDirectory \cup Leaf]
        /\ removing' \in Entry
        /\ removing'.object = stack[Len(stack)].object
        /\ removing'.place \notin {RunPlace, QuarantinePlace}
  <2>1. [place |-> Current.place, object |-> Current.object] \in manifest
    <3>1. Len(stack) \in 2 .. Len(stack)
      BY <1>1, <1>3
    <3>2. QED
      BY <3>1 DEF Safe, StackInv, Current
  <2>2. [place |-> Current.place, object |-> Current.object]
          \in [place : TreePlace, object : SubDirectory \cup Leaf]
    BY <2>1 DEF Safe, ManifestInv
  <2>3. QED
    BY <1>1, <2>2, PlacesDiffer, ObjectsDiffer DEF Entry, Current
<1> USE <1>1, <1>2 DEF walkVars, quarantineVars
<1>6. HomeInv'
  BY DEF Safe, HomeInv, Final
<1>7. ControlInv'
  BY DEF Safe, ControlInv, Setup, Walk, Removal, Final
<1>8. ManifestInv'
  BY DEF Safe, ManifestInv
<1>9. StackInv'
  BY <1>3, <1>4 DEF Safe, StackInv, Setup
<1>10. RemovalInv'
  BY <1>5 DEF Safe, RemovalInv, Removal
<1>11. GoneInv'
  BY DEF Safe, GoneInv, Validated
<1>12. CompleteInv'
  BY <1>5, PlacesDiffer DEF Safe, CompleteInv, Deleting, Removal
<1>13. ExactInv' /\ ReportInv'
  BY DEF Safe, ExactInv, ReportInv, Validated
<1>14. QED
  BY <1>6, <1>7, <1>8, <1>9, <1>10, <1>11, <1>12, <1>13 DEF Safe

LEMMA EndOfPassPreserves ==
  ASSUME Safe, EndOfValidation \/ EndOfDeletion, ~Raises
  PROVE  Safe'
<1>1. /\ pc = "walk" /\ Len(stack) = 1 /\ stack' = << >> /\ pass' = "delete"
      /\ UNCHANGED <<home, manifest, entry, removing, quarantineVars, failure, retained, unlinked, late>>
      /\ \/ /\ pass = "validate" /\ pc' = "openRoot"
            /\ remaining' = {m.place : m \in manifest}
         \/ /\ pass = "delete" /\ pc' = "openRun"
            /\ remaining = {} /\ remaining' = {}
  <2>1. Refuse(IF remaining = {} THEN "none" ELSE "unsafe_tree") /\ pc = "walk" /\ UNCHANGED <<late, moves>> => Raises
    BY RefuseRaises DEF Safe, Kind, Running
  <2>2. CASE EndOfValidation
    BY <2>2 DEF EndOfValidation, InTime
  <2>3. CASE EndOfDeletion
    BY <2>1, <2>3 DEF EndOfDeletion, InTime, walkVars
  <2>4. QED
    BY <2>2, <2>3
<1>2. << >> \in Seq(Frame) /\ Len(<< >>) = 0
  BY EmptySeq
<1> USE <1>1 DEF quarantineVars
<1>3. HomeInv'
  BY DEF Safe, HomeInv, Final
<1>4. ControlInv'
  BY DEF Safe, ControlInv, Setup, Walk, Removal, Final
<1>5. ManifestInv'
  BY DEF Safe, ManifestInv
<1>6. StackInv'
  BY <1>2 DEF StackInv
<1>7. RemovalInv'
  BY DEF Safe, RemovalInv, Removal
<1>8. GoneInv'
  BY DEF Safe, GoneInv, Validated
<1>9. CompleteInv'
  <2>1. ~\E i \in 2 .. Len(stack) : TRUE
    OBVIOUS
  <2>2. QED
    BY <2>1 DEF Safe, CompleteInv, Deleting, Removal
<1>10. ExactInv' /\ ReportInv'
  BY DEF Safe, ExactInv, ReportInv, Validated
<1>11. QED
  BY <1>3, <1>4, <1>5, <1>6, <1>7, <1>8, <1>9, <1>10 DEF Safe

-----------------------------------------------------------------------------
(* The deletion of a leaf.                                                 *)

LEMMA RenamePreserves ==
  ASSUME Safe, RenameLeaf, ~Raises
  PROVE  Safe'
<1> DEFINE o == At(entry.place)
<1>1. /\ pc = "rename" /\ o # "none" /\ everHeld' = TRUE
      /\ home' = [home EXCEPT ![o] = LeafPlace] /\ pc' = "checkLeaf"
      /\ UNCHANGED <<quarantine, trusted, stack, removing, failure, walkVars, retained, unlinked, late>>
  <2>1. ASSUME o = "none"
        PROVE  Raises
    BY <2>1, AtFact DEF RenameLeaf, InTime, Raises, Running, Safe, ControlInv, walkVars, Kind
  <2>2. QED
    BY <2>1 DEF RenameLeaf, InTime
<1>2. o \in SubDirectory \cup Leaf /\ home[o] \in TreePlace /\ o \in Object
  BY <1>1, AtFact, InTree, ObjectsDiffer DEF Safe, ManifestInv
<1> HIDE DEF o
<1> USE <1>1 DEF walkVars
<1>3. HomeInv'
  <2>1. \A p \in Object : home[p] # LeafPlace
    BY DEF Safe, HomeInv, Final
  <2>2. /\ home \in [Object -> Place \cup {Gone, Away, Top}]
        /\ home["parent"] \in {Top, Away}
        /\ \A p \in {"run", "quarantine"} : home[p] \in {RunPlace, QuarantinePlace, Gone, Away}
        /\ o \notin {"parent", "run", "quarantine"} /\ LeafPlace \in Place
    BY <1>2, PlacesDiffer, ObjectsDiffer DEF Safe, HomeInv
  <2>3. /\ home' \in [Object -> Place \cup {Gone, Away, Top}]
        /\ home'["parent"] = home["parent"]
        /\ \A p \in {"run", "quarantine"} : home'[p] = home[p]
        /\ \A p \in Object : home'[p] = LeafPlace => p = o
    BY <1>2, <2>1, <2>2, ObjectsDiffer
  <2>4. QED
    BY <2>2, <2>3 DEF HomeInv
<1>4. ControlInv'
  BY DEF Safe, ControlInv, Setup, Walk, Removal, Final
<1>5. ManifestInv'
  BY DEF Safe, ManifestInv
<1>6. StackInv'
  BY DEF Safe, StackInv, Setup
<1>7. RemovalInv'
  BY DEF Safe, RemovalInv, Removal
<1>8. GoneInv'
  BY <1>2, PlacesDiffer DEF Safe, GoneInv, Validated, HomeInv
<1>9. CompleteInv'
  BY DEF Safe, CompleteInv, Deleting, Removal
<1>10. ExactInv' /\ ReportInv'
  BY DEF Safe, ExactInv, ReportInv, Validated
<1>11. QED
  BY <1>3, <1>4, <1>5, <1>6, <1>7, <1>8, <1>9, <1>10 DEF Safe

LEMMA CheckLeafPreserves ==
  ASSUME Safe, CheckLeaf, ~Raises
  PROVE  Safe'
<1>1. /\ pc = "checkLeaf" /\ At(LeafPlace) = entry.object /\ pc' = "unlink"
      /\ remaining' = remaining \ {entry.place}
      /\ UNCHANGED <<home, pass, manifest, entry, stack, removing, quarantineVars, failure,
                     retained, unlinked, late>>
  <2>1. Refuse(IF At(LeafPlace) = entry.object THEN "none" ELSE "unsafe_tree") => Raises
    BY RefuseRaises DEF Safe, CheckLeaf, InTime, Kind, Running
  <2>2. QED
    BY <2>1 DEF CheckLeaf, InTime
<1> USE <1>1 DEF quarantineVars
<1>2. HomeInv'
  BY DEF Safe, HomeInv, Final
<1>3. ControlInv'
  BY DEF Safe, ControlInv, Setup, Walk, Removal, Final
<1>4. ManifestInv'
  <2>1. entry.object \in Object
    BY ObjectsDiffer DEF Safe, ManifestInv
  <2>2. home[entry.object] = LeafPlace
    BY <2>1, AtFact, ObjectsDiffer
  <2>3. QED
    BY <2>2 DEF Safe, ManifestInv
<1>5. StackInv'
  BY DEF Safe, StackInv, Setup
<1>6. RemovalInv'
  BY DEF Safe, RemovalInv, Removal
<1>7. GoneInv'
  BY DEF Safe, GoneInv, Validated
<1>8. CompleteInv'
  BY DEF Safe, CompleteInv, Deleting, Removal, ManifestInv
<1>9. ExactInv' /\ ReportInv'
  BY DEF Safe, ExactInv, ReportInv, Validated
<1>10. QED
  BY <1>2, <1>3, <1>4, <1>5, <1>6, <1>7, <1>8, <1>9 DEF Safe

LEMMA UnlinkPreserves ==
  ASSUME Safe, UnlinkLeaf
  PROVE  Safe'
<1>1. /\ pc = "unlink" /\ pc' = "walk"
      /\ entry \in manifest /\ entry.object \in Object \ {"parent", "run", "quarantine"}
      /\ At(LeafPlace) = entry.object
      /\ UNCHANGED <<walkVars, stack, removing, quarantineVars, failure, retained, late>>
  <2>1. entry \in manifest /\ entry.object \in Object \ {"parent", "run", "quarantine"}
    BY ObjectsDiffer DEF Safe, ManifestInv, UnlinkLeaf, InTime
  <2>2. QED
    BY <2>1, InQuarantine DEF UnlinkLeaf, InTime, Safe, ManifestInv
<1>2. /\ home' = [home EXCEPT ![entry.object] = Gone]
      /\ unlinked' = unlinked \cup {entry.object}
  BY <1>1 DEF UnlinkLeaf
<1>3. home[entry.object] = LeafPlace
  BY <1>1 DEF Safe, ManifestInv
<1> USE <1>1, <1>2 DEF walkVars, quarantineVars
<1>4. HomeInv'
  <2>1. \A o \in Object : home'[o] # LeafPlace
    BY <1>3, PlacesDiffer DEF Safe, HomeInv
  <2>2. QED
    BY <2>1 DEF Safe, HomeInv
<1>5. ControlInv'
  BY DEF Safe, ControlInv, Setup, Walk, Removal, Final
<1>6. ManifestInv'
  BY DEF Safe, ManifestInv
<1>7. StackInv'
  BY DEF Safe, StackInv, Setup
<1>8. RemovalInv'
  BY DEF Safe, RemovalInv, Removal
<1>9. GoneInv'
  BY DEF Safe, GoneInv, Validated, HomeInv, ControlInv
<1>10. CompleteInv'
  BY DEF Safe, CompleteInv, Deleting, Removal
<1>11. ExactInv' /\ ReportInv'
  BY DEF Safe, ExactInv, ReportInv, Validated
<1>12. QED
  BY <1>4, <1>5, <1>6, <1>7, <1>8, <1>9, <1>10, <1>11 DEF Safe

-----------------------------------------------------------------------------
(* The removal of a directory.                                             *)

LEMMA StartRemovalPreserves ==
  ASSUME Safe, OpenRun \/ VerifyDirectory, ~Raises
  PROVE  Safe'
<1>1. /\ UNCHANGED <<home, walkVars, stack, quarantineVars, failure, retained, unlinked, late>>
      /\ \/ /\ pc = "openRun" /\ pc' = "verify"
            /\ removing' = [place |-> RunPlace, object |-> "run"]
         \/ /\ pc = "verify" /\ pc' = "rmdir" /\ removing' = removing
            /\ At(removing.place) = removing.object
  <2>1. OpenRun /\ Refuse(OpenFailure(RunPlace, "run")) => Raises
    BY RefuseRaises DEF Safe, OpenRun, OpenFailure, InTime, Kind, Running
  <2>2. VerifyDirectory /\ Refuse(OpenFailure(removing.place, removing.object)) => Raises
    BY RefuseRaises DEF Safe, VerifyDirectory, OpenFailure, InTime, Kind, Running
  <2>3. QED
    BY <2>1, <2>2 DEF OpenRun, VerifyDirectory, OpenFailure, InTime
<1> USE <1>1 DEF walkVars, quarantineVars
<1>2. HomeInv'
  BY DEF Safe, HomeInv, Final
<1>3. ControlInv'
  BY DEF Safe, ControlInv, Setup, Walk, Removal, Final
<1>4. ManifestInv'
  BY DEF Safe, ManifestInv
<1>5. StackInv'
  BY DEF Safe, StackInv, Setup
<1>6. RemovalInv'
  <2>1. CASE pc = "openRun"
    <3>1. failure = "none" /\ stack = << >> /\ remaining = {}
      BY <2>1 DEF Safe, ControlInv, StackInv, ManifestInv, Removal, Final
    <3>2. QED
      BY <2>1, <3>1, PlacesDiffer, ObjectsDiffer DEF RemovalInv, Entry
  <2>2. CASE pc = "verify"
    <3>1. removing.object \in Object /\ removing.place \in Place
      BY <2>2 DEF Safe, RemovalInv, Removal, Entry
    <3>2. home[removing.object] # Gone
      BY <2>2, <3>1, AtFact, PlacesDiffer, ObjectsDiffer
    <3>3. QED
      BY <2>2, <3>2 DEF Safe, RemovalInv, Removal
  <2>3. QED
    BY <2>1, <2>2
<1>7. GoneInv'
  BY DEF Safe, GoneInv, Validated
<1>8. CompleteInv'
  BY PlacesDiffer DEF Safe, CompleteInv, Deleting, Removal
<1>9. ExactInv' /\ ReportInv'
  BY DEF Safe, ExactInv, ReportInv, Validated
<1>10. QED
  BY <1>2, <1>3, <1>4, <1>5, <1>6, <1>7, <1>8, <1>9 DEF Safe

(* rmdir may hit another directory than the one held open; it then leaves  *)
(* that one where it is.                                                   *)
LEMMA RemovePreserves ==
  ASSUME Safe, RemoveDirectory, ~Raises
  PROVE  Safe'
<1> DEFINE o == At(removing.place)
<1>1. /\ pc = "rmdir" /\ pc' = "check" /\ o \in Directory
      /\ home' = [home EXCEPT ![o] = Gone] /\ unlinked' = unlinked \cup {o}
      /\ UNCHANGED <<walkVars, stack, removing, quarantineVars, failure, retained, late>>
  <2>1. Refuse(IF o \in Directory /\ Empty(o) THEN "none" ELSE "io_failed") => Raises
    BY RefuseRaises DEF Safe, RemoveDirectory, InTime, Kind, Running
  <2>2. QED
    BY <2>1 DEF RemoveDirectory, InTime
<1>2. /\ removing.place \in Place /\ removing.object \in Object
      /\ home[removing.object] # Gone
  BY <1>1 DEF Safe, RemovalInv, Removal, Entry
<1>3. o \in Object /\ home[o] = removing.place /\ o # "parent" /\ o \notin Leaf
  BY <1>1, <1>2, AtFact, PlacesDiffer, ObjectsDiffer DEF Safe, HomeInv
<1>4. home'[removing.object] = Gone => o = removing.object
  BY <1>1, <1>2, <1>3 DEF Safe, HomeInv
<1> HIDE DEF o
<1> USE <1>1 DEF walkVars, quarantineVars
<1>5. HomeInv'
  <2>1. \A p \in Object : home[p] # LeafPlace
    BY DEF Safe, HomeInv, Final
  <2>2. \A p \in Object : home'[p] = home[p] \/ home'[p] = Gone
    BY <1>3 DEF Safe, HomeInv
  <2>3. home' \in [Object -> Place \cup {Gone, Away, Top}] /\ home'["parent"] = home["parent"]
    BY <1>3, ObjectsDiffer DEF Safe, HomeInv
  <2>4. \A p \in {"run", "quarantine"} : home'[p] = home[p] \/ home'[p] = Gone
    BY <2>2, ObjectsDiffer
  <2>5. QED
    BY <2>1, <2>2, <2>3, <2>4, PlacesDiffer DEF Safe, HomeInv
<1>6. ControlInv'
  BY DEF Safe, ControlInv, Setup, Walk, Removal, Final
<1>7. ManifestInv'
  BY DEF Safe, ManifestInv
<1>8. StackInv'
  BY DEF Safe, StackInv, Setup
<1>9. RemovalInv'
  BY DEF Safe, RemovalInv, Removal
<1>10. GoneInv'
  BY <1>3 DEF Safe, GoneInv, Validated, HomeInv, ControlInv, Removal
<1>11. CompleteInv'
  BY DEF Safe, CompleteInv, Deleting, Removal
<1>12. ExactInv'
  <2>1. SUFFICES ASSUME failure = "none", o = removing.object
                 PROVE  o \in Validated \cup {"run", "quarantine"}
    BY <1>4 DEF Safe, ExactInv, Validated
  <2>2. CASE removing.place \in {RunPlace, QuarantinePlace}
    BY <2>1, <2>2 DEF Safe, RemovalInv, Removal
  <2>3. CASE removing.place \notin {RunPlace, QuarantinePlace}
    <3>1. Len(stack) > 1 /\ stack[Len(stack)].object = o
      BY <2>1, <2>3 DEF Safe, RemovalInv, Removal
    <3>2. Len(stack) \in 2 .. Len(stack)
      BY <3>1, StackLength DEF Safe
    <3>3. [place |-> stack[Len(stack)].place, object |-> o] \in manifest
      BY <3>1, <3>2 DEF Safe, StackInv
    <3>4. QED
      BY <3>3 DEF Validated
  <2>4. QED
    BY <2>2, <2>3
<1>13. ReportInv'
  BY DEF ReportInv
<1>14. QED
  BY <1>5, <1>6, <1>7, <1>8, <1>9, <1>10, <1>11, <1>12, <1>13 DEF Safe

LEMMA CheckDirectoryPreserves ==
  ASSUME Safe, CheckDirectory, ~Raises
  PROVE  Safe'
<1>1. /\ pc = "check" /\ home[removing.object] = Gone
      /\ pc' = IF failure # "none" THEN "observeRun"
               ELSE IF removing.place = QuarantinePlace THEN "close"
               ELSE IF removing.place = RunPlace THEN "verify" ELSE "walk"
      /\ removing' = IF removing.place = RunPlace
                     THEN [place |-> QuarantinePlace, object |-> quarantine] ELSE NoEntry
      /\ stack' = IF stack = << >> THEN stack ELSE SubSeq(stack, 1, Len(stack) - 1)
      /\ UNCHANGED <<home, walkVars, quarantineVars, failure, retained, unlinked, late>>
  <2>1. Refuse(IF home[removing.object] = Gone THEN "none" ELSE "unsafe_tree") => Raises
    BY RefuseRaises DEF Safe, CheckDirectory, InTime, Kind, Running
  <2>2. QED
    BY <2>1 DEF CheckDirectory, InTime
<1>2. /\ removing \in Entry
      /\ removing.place = QuarantinePlace => removing.object = "quarantine"
      /\ removing.place = RunPlace => removing.object = "run"
      /\ failure # "none" => removing.place = QuarantinePlace
      /\ removing.place \in {RunPlace, QuarantinePlace} =>
           stack = << >> /\ (failure = "none" => remaining = {})
      /\ removing.place \notin {RunPlace, QuarantinePlace} =>
           Len(stack) > 1 /\ stack[Len(stack)].object = removing.object
  BY <1>1 DEF Safe, RemovalInv, Removal
<1>3. removing.object \in Object /\ quarantine = "quarantine" /\ pass \in {"validate", "delete"}
      /\ (failure = "none" => pass = "delete")
  BY <1>1, <1>2 DEF Safe, ControlInv, Removal, Entry
<1>4. failure = "none" => removing.object \in unlinked
  BY <1>1, <1>3 DEF Safe, GoneInv
<1>5. Len(stack) \in Nat /\ (stack = << >> <=> Len(stack) = 0)
  BY StackLength DEF Safe
<1>6. removing.place \notin {RunPlace, QuarantinePlace} =>
        /\ stack' \in Seq(Frame) /\ Len(stack') = Len(stack) - 1 /\ stack' # << >>
        /\ \A i \in 1 .. Len(stack) - 1 : stack'[i] = stack[i]
  BY <1>1, <1>2, <1>5, Pop DEF Safe
<1> USE <1>1 DEF walkVars, quarantineVars
<1>7. HomeInv'
  BY DEF Safe, HomeInv, Final
<1>8. ControlInv'
  BY <1>3 DEF Safe, ControlInv, Setup, Walk, Removal, Final
<1>9. ManifestInv'
  BY <1>2 DEF Safe, ManifestInv
<1>10. StackInv'
  <2>1. CASE removing.place \notin {RunPlace, QuarantinePlace}
    BY <1>2, <1>5, <1>6, <2>1 DEF Safe, StackInv, Setup
  <2>2. CASE removing.place \in {RunPlace, QuarantinePlace}
    BY <1>2, <2>2, PlacesDiffer DEF Safe, StackInv, Setup
  <2>3. QED
    BY <2>1, <2>2
<1>11. RemovalInv'
  BY <1>2, <1>3, PlacesDiffer, ObjectsDiffer DEF RemovalInv, Removal, Entry
<1>12. GoneInv'
  BY DEF Safe, GoneInv, Validated
<1>13. CompleteInv'
  <2>1. ASSUME failure = "none", removing.place \notin {RunPlace, QuarantinePlace}, NEW m, Deleting(m)
        PROVE  Deleting(m)' \/ m.object \in unlinked
    BY <1>2, <1>4, <1>5, <1>6, <2>1 DEF Deleting
  <2>2. failure = "none" /\ removing.place \in {RunPlace, QuarantinePlace} => stack' = stack /\ pc' # "walk"
    BY <1>2
  <2>3. QED
    BY <1>2, <1>3, <1>4, <2>1, <2>2, PlacesDiffer DEF Safe, CompleteInv, Deleting, Removal
<1>14. ExactInv'
  BY DEF Safe, ExactInv, Validated
<1>15. ReportInv'
  BY <1>2 DEF ReportInv
<1>16. QED
  BY <1>7, <1>8, <1>9, <1>10, <1>11, <1>12, <1>13, <1>14, <1>15 DEF Safe

-----------------------------------------------------------------------------
(* The end.                                                                *)

LEMMA EndPreserves ==
  ASSUME Safe, Ending
  PROVE  Safe'
<1>1. /\ UNCHANGED <<home, walkVars, stack, removing, quarantineVars, unlinked, late>>
      /\ \/ pc = "close" /\ pc' = "returned" /\ failure' \in {failure, "io_failed"}
            /\ UNCHANGED <<retained, missed>>
         \/ pc \in Look /\ pc' \in Look \cup {"finish"} /\ failure' = failure
         \/ pc = "finish" /\ pc' = "returned" /\ UNCHANGED <<failure, retained, missed>>
  BY EndingFrame
<1>2. failure' \in Kind /\ (failure' = "none" => failure = "none" /\ pc = "close")
  BY <1>1 DEF Safe, ControlInv, Kind
<1> USE <1>1, <1>2 DEF walkVars, quarantineVars
<1>3. HomeInv'
  BY DEF Safe, HomeInv, Final
<1>4. ControlInv'
  BY DEF Safe, ControlInv, Setup, Walk, Removal, Final
<1>5. ManifestInv'
  BY DEF Safe, ManifestInv
<1>6. StackInv'
  BY DEF Safe, StackInv, Setup
<1>7. RemovalInv'
  BY DEF Safe, RemovalInv, Removal
<1>8. GoneInv'
  BY DEF Safe, GoneInv, Validated
<1>9. CompleteInv'
  BY DEF Safe, CompleteInv, Deleting, Removal
<1>10. ExactInv'
  BY DEF Safe, ExactInv, Validated
<1>11. ReportInv'
  <2>1. pc = "close" => quarantine = "quarantine" /\ home["quarantine"] = Gone
    BY DEF Safe, ControlInv, ReportInv
  <2>2. InPlace(quarantine, QuarantinePlace)' <=> InPlace(quarantine, QuarantinePlace)
    BY DEF InPlace
  <2>3. pc = "close" => ~InPlace(quarantine, QuarantinePlace)
    BY <2>1, PlacesDiffer DEF InPlace
  <2>4. pc \in Look /\ pc' = "finish" /\ InPlace(quarantine, QuarantinePlace) /\ quarantine # "none" =>
          "quarantine" \in retained' \/ missed'
    <3> USE DEF InPlace
    <3>1. CASE ObserveRun \/ RelativeRun \/ ObserveQuarantine \/ RelativeQuarantine
      BY <3>1 DEF ObserveRun, RelativeRun, ObserveQuarantine, RelativeQuarantine, Stat
    <3>2. CASE LexicalRun \/ LexicalQuarantine
      BY <3>2 DEF LexicalRun, LexicalQuarantine, LastStat
    <3>3. CASE LookFails
      BY <3>3 DEF LookFails
    <3>4. CASE CloseDescriptors \/ Finish
      BY <3>4 DEF CloseDescriptors, Finish
    <3>5. QED
      BY <3>1, <3>2, <3>3, <3>4 DEF Ending
  <2>5. QED
    BY <2>2, <2>3, <2>4 DEF Safe, ReportInv
<1>12. QED
  BY <1>3, <1>4, <1>5, <1>6, <1>7, <1>8, <1>9, <1>10, <1>11 DEF Safe

LEMMA InitSafe == Init => Safe
<1> SUFFICES ASSUME Init
             PROVE  Safe
  OBVIOUS
<1>1. /\ home \in [Object -> Place \cup {Gone, Away, Top}]
      /\ home["parent"] = Top /\ home["run"] = RunPlace /\ home["quarantine"] = Gone
      /\ \A o \in Object \ {"parent", "run", "quarantine"} : home[o] \in TreePlace \cup {Away}
  <2>1. DOMAIN Contents \subseteq SubDirectory \cup Leaf /\ \A o \in DOMAIN Contents : Contents[o] \in TreePlace
    BY WorkspaceCleanupAssumption
  <2>2. QED
    BY <2>1, PlacesDiffer, ObjectsDiffer DEF Init
<1>2. << >> \in Seq(Frame) /\ Len(<< >>) = 0
  BY EmptySeq
<1> USE DEF Init, Setup, Walk, Removal, Final
<1>3. HomeInv
  BY <1>1, PlacesDiffer, ObjectsDiffer DEF HomeInv
<1>4. ControlInv
  BY DEF ControlInv, Kind
<1>5. ManifestInv
  BY DEF ManifestInv
<1>6. StackInv
  BY <1>2 DEF StackInv
<1>7. RemovalInv
  BY DEF RemovalInv
<1>8. GoneInv
  BY <1>1, PlacesDiffer, ObjectsDiffer DEF GoneInv
<1>9. CompleteInv /\ ExactInv /\ ReportInv
  BY DEF CompleteInv, ExactInv, ReportInv
<1>10. QED
  BY <1>3, <1>4, <1>5, <1>6, <1>7, <1>8, <1>9 DEF Safe

LEMMA StepSafe ==
  ASSUME Safe, [Next]_vars
  PROVE  Safe'
<1>1. CASE Raises
  BY <1>1, RaisesPreserves
<1>2. CASE Others
  BY <1>2, OthersPreserve
<1>3. CASE Aborts
  BY <1>1, <1>3, AbortRaises DEF Safe
<1>4. CASE OpenParent \/ MakeQuarantine \/ StatQuarantine \/ OpenQuarantine
  BY <1>1, <1>4, SetupPreserves
<1>5. CASE OpenRoot \/ OpenSubdirectory \/ \E n \in Name : Visit(n)
  BY <1>1, <1>5, OpenPreserves, VisitPreserves
<1>6. CASE EndOfSubdirectory \/ EndOfValidation \/ EndOfDeletion
  BY <1>1, <1>6, EndOfSubdirectoryPreserves, EndOfPassPreserves
<1>7. CASE RenameLeaf \/ CheckLeaf \/ UnlinkLeaf
  BY <1>1, <1>7, RenamePreserves, CheckLeafPreserves, UnlinkPreserves
<1>8. CASE OpenRun \/ VerifyDirectory \/ RemoveDirectory \/ CheckDirectory
  BY <1>1, <1>8, StartRemovalPreserves, RemovePreserves, CheckDirectoryPreserves
<1>9. CASE Ending
  BY <1>9, EndPreserves
<1>10. CASE UNCHANGED vars
  <2>1. InPlace(quarantine, QuarantinePlace)' <=> InPlace(quarantine, QuarantinePlace)
    BY <1>10 DEF InPlace, At, vars, cleanupVars
  <2>2. HomeInv' /\ ControlInv' /\ ManifestInv' /\ StackInv'
    BY <1>10 DEF Safe, HomeInv, ControlInv, ManifestInv, StackInv, vars, cleanupVars
  <2>3. RemovalInv' /\ GoneInv' /\ CompleteInv' /\ ExactInv'
    BY <1>10 DEF Safe, RemovalInv, GoneInv, CompleteInv, Deleting, ExactInv, Validated, vars, cleanupVars
  <2>4. ReportInv'
    BY <1>10, <2>1 DEF Safe, ReportInv, vars, cleanupVars
  <2>5. QED
    BY <2>2, <2>3, <2>4 DEF Safe
<1>11. QED
  BY <1>2, <1>3, <1>4, <1>5, <1>6, <1>7, <1>8, <1>9, <1>10
     DEF Next, Cleanup, Aborts, Ending

LEMMA AlwaysSafe == Spec => []Safe
BY InitSafe, StepSafe, PTL DEF Spec

-----------------------------------------------------------------------------
(* See OnlyValidatedIsUnlinked: no file of somebody else is ever unlinked. *)
THEOREM ForeignFilesSurvive == Spec => []OnlyValidatedIsUnlinked
<1>1. Safe => OnlyValidatedIsUnlinked
  BY DEF Safe, GoneInv, OnlyValidatedIsUnlinked
<1>2. QED
  BY <1>1, AlwaysSafe, PTL

(* See SuccessIsExact: a cleanup without a failure removed what it had     *)
(* validated, all of it and nothing else.                                  *)
THEOREM ReportedSuccessIsExact == Spec => []SuccessIsExact
<1>1. ASSUME Safe, pc = "returned", failure = "none"
      PROVE  /\ unlinked = Validated \cup {"run", "quarantine"}
             /\ \A o \in unlinked : home[o] = Gone
  <2>1. unlinked \subseteq Validated \cup {"run", "quarantine"}
    BY <1>1 DEF Safe, ExactInv
  <2>2. \A m \in manifest : m.object \in unlinked
    <3>1. pass = "delete" /\ remaining = {} /\ stack = << >>
      BY <1>1 DEF Safe, ControlInv, ManifestInv, StackInv
    <3>2. ~\E i \in 2 .. Len(stack) : TRUE
      BY <3>1, StackLength, <1>1 DEF Safe
    <3>3. QED
      BY <1>1, <3>1, <3>2 DEF Safe, CompleteInv, Deleting
  <2>3. {"run", "quarantine"} \subseteq unlinked /\ \A o \in unlinked : home[o] = Gone
    BY <1>1 DEF Safe, CompleteInv, GoneInv
  <2>4. QED
    BY <2>1, <2>2, <2>3 DEF Validated
<1>2. Safe => SuccessIsExact
  BY <1>1 DEF SuccessIsExact
<1>3. QED
  BY <1>2, AlwaysSafe, PTL

(* See KnownQuarantineIsReported: what may hold objects of the run         *)
(* directory is not left behind unmentioned.                               *)
THEOREM QuarantineIsReported == Spec => []KnownQuarantineIsReported
<1>1. Safe => KnownQuarantineIsReported
  BY DEF Safe, ReportInv, KnownQuarantineIsReported
<1>2. QED
  BY <1>1, AlwaysSafe, PTL

(* See FailureStopsDeletion: after a failure only a quarantine that never  *)
(* held anything is removed.                                               *)
THEOREM NothingIsDeletedAfterFailure == Spec => FailureStopsDeletion
<1>1. ASSUME Safe, [Next]_vars, failure # "none", NEW o \in unlinked' \ unlinked
      PROVE  ~everHeld /\ trusted /\ home[o] = QuarantinePlace
  <2>1. unlinked' # unlinked /\ pc \in Removal \cup Final
    BY <1>1 DEF Safe, ControlInv
  <2>2. RemoveDirectory /\ unlinked' = unlinked \cup {At(removing.place)} /\ pc = "rmdir"
    <3>1. ~Others /\ ~Looking /\ ~MakeQuarantine /\ ~RenameLeaf /\ ~UnlinkLeaf /\ unlinked' # unlinked
      BY <2>1, OthersFrame, LookingFrame DEF MakeQuarantine, RenameLeaf, UnlinkLeaf, InTime,
         Removal, Final
    <3>2. RemoveDirectory
      BY <1>1, <3>1, Steps DEF vars, cleanupVars
    <3>3. QED
      BY <3>1, <3>2, RefuseFrame DEF RemoveDirectory, InTime
  <2>3. removing.place = QuarantinePlace /\ trusted /\ ~everHeld
    BY <1>1, <2>2 DEF Safe, RemovalInv, Removal
  <2>4. At(removing.place) \in Directory
    BY <2>1, <2>2, RefuseFrame DEF RemoveDirectory
  <2>5. QED
    BY <1>1, <2>2, <2>3, <2>4, AtFact, ObjectsDiffer
<1>2. Safe /\ [Next]_vars =>
        [failure # "none" =>
           \A o \in unlinked' \ unlinked : ~everHeld /\ trusted /\ home[o] = QuarantinePlace]_vars
  BY <1>1
<1>3. QED
  BY <1>2, AlwaysSafe, PTL DEF Spec, FailureStopsDeletion

-----------------------------------------------------------------------------
(* Types.                                                                  *)

LEMMA StepBounds ==
  ASSUME BoundInv, [Next]_vars
  PROVE  BoundInv'
<1> USE WorkspaceCleanupAssumption DEF BoundInv, InTime, walkVars, quarantineVars
<1>1. CASE Others
  BY <1>1 DEF Others, TakeAway, PutInPlace, PutParentBack, DeadlinePasses, Move, cleanupVars,
     InReach, Elsewhere
<1>2. ASSUME NEW kind, Refuse(kind), UNCHANGED <<moves, faults>>
      PROVE  BoundInv'
  BY <1>2, RefuseFrame
<1>3. CASE Aborts
  <2>1. UNCHANGED <<count, retained, moves>> /\ faults' \in 0 .. FaultBound
    BY <1>3, AbortFrame DEF Aborts, BudgetExceeded, SystemCallFails, Abort
  <2>2. QED
    BY <2>1
<1>4. CASE OpenParent \/ MakeQuarantine \/ StatQuarantine \/ OpenQuarantine
  BY <1>4 DEF OpenParent, MakeQuarantine, StatQuarantine, OpenQuarantine
<1>5. CASE OpenRoot \/ OpenSubdirectory
  BY <1>2, <1>5 DEF OpenRoot, OpenSubdirectory, OpenDirectory
<1>6. ASSUME NEW n \in Name, Visit(n)
      PROVE  BoundInv'
  <2> DEFINE place == <<Current.object, n>>
  <2>1. CASE Refuse(VisitFailure(place, At(place)))
    BY <1>2, <1>6, <2>1 DEF Visit
  <2>2. CASE ~Refuse(VisitFailure(place, At(place)))
    <3>1. count # MaxEntries /\ count' = count + 1 /\ UNCHANGED <<retained, moves, faults>>
      BY <1>6, <2>2 DEF Visit, VisitFailure
    <3>2. QED
      BY <3>1
  <2>3. QED
    BY <2>1, <2>2
<1>7. CASE EndOfSubdirectory \/ EndOfValidation \/ EndOfDeletion
  <2>1. \/ count' \in {0, count} /\ UNCHANGED <<retained, moves, faults>>
        \/ \E kind \in Kind : Refuse(kind) /\ UNCHANGED <<moves, faults>>
    BY <1>7 DEF EndOfSubdirectory, EndOfValidation, EndOfDeletion, Kind
  <2>2. 0 \in 0 .. MaxEntries
    OBVIOUS
  <2>3. QED
    BY <1>2, <2>1, <2>2
<1>8. CASE RenameLeaf \/ CheckLeaf \/ UnlinkLeaf
  BY <1>2, <1>8 DEF RenameLeaf, CheckLeaf, UnlinkLeaf
<1>9. CASE OpenRun \/ VerifyDirectory \/ RemoveDirectory \/ CheckDirectory
  BY <1>2, <1>9 DEF OpenRun, VerifyDirectory, RemoveDirectory, CheckDirectory
<1>10. CASE Ending
  <2>1. count' = count /\ moves' = moves /\ faults' \in 0 .. FaultBound
    BY <1>10, EndingFrame
  <2>2. retained' \in SUBSET {"run", "quarantine"}
    BY <1>10, EndingFrame
  <2>3. QED
    BY <2>1, <2>2
<1>11. CASE UNCHANGED vars
  BY <1>11 DEF vars, cleanupVars
<1>12. QED
  BY <1>1, <1>3, <1>4, <1>5, <1>6, <1>7, <1>8, <1>9, <1>10, <1>11
     DEF Next, Cleanup, Aborts, Ending

LEMMA StepMissed ==
  ASSUME missed \in BOOLEAN, [Next]_vars
  PROVE  missed' \in BOOLEAN
<1>1. CASE missed' = missed
  BY <1>1
<1>2. CASE Others
  <2>1. ASSUME NEW o, NEW place, Move(o, place)
        PROVE  missed' \in BOOLEAN
    BY <2>1, Zenon DEF Move
  <2>2. CASE DeadlinePasses
    BY <1>1, <2>2 DEF DeadlinePasses
  <2>3. QED
    BY <1>2, <2>1, <2>2 DEF Others, TakeAway, PutInPlace, PutParentBack
<1>3. CASE LookFails
  BY <1>3, Zenon DEF LookFails
<1>4. CASE ~Others /\ ~LookFails
  <2>1. missed' = missed
    BY <1>4 DEF Next, Cleanup, BudgetExceeded, SystemCallFails, Abort, OpenParent, MakeQuarantine,
       StatQuarantine, OpenQuarantine, OpenRoot, OpenSubdirectory, OpenDirectory, Visit,
       EndOfSubdirectory, EndOfValidation, EndOfDeletion, RenameLeaf, CheckLeaf, UnlinkLeaf,
       OpenRun, VerifyDirectory, RemoveDirectory, CheckDirectory, CloseDescriptors, ObserveRun,
       RelativeRun, LexicalRun, ObserveQuarantine, RelativeQuarantine, LexicalQuarantine, Stat,
       LastStat, Finish, InTime, vars
  <2>2. QED
    BY <1>1, <2>1
<1>5. QED
  BY <1>2, <1>3, <1>4

(* See TypeOK: the state of a cleanup is always well typed.                *)
THEOREM TypeCorrect == Spec => []TypeOK
<1>1. Init => BoundInv /\ missed \in BOOLEAN
  <2>1. Init => missed \in BOOLEAN
    BY DEF Init
  <2>2. Init => BoundInv
    BY WorkspaceCleanupAssumption DEF Init, BoundInv
  <2>3. QED
    BY <2>1, <2>2
<1>2. ASSUME Safe, BoundInv, missed \in BOOLEAN
      PROVE  TypeOK
  <2>1. manifest \in SUBSET Entry
    BY <1>2, PlacesDiffer, ObjectsDiffer DEF Safe, ManifestInv, Entry
  <2>2. QED
    BY <1>2, <2>1 DEF Safe, HomeInv, ControlInv, ManifestInv, StackInv, RemovalInv, GoneInv,
       BoundInv, TypeOK, Setup, Walk, Removal, Final
<1>3. BoundInv /\ missed \in BOOLEAN /\ [Next]_vars => BoundInv' /\ (missed \in BOOLEAN)'
  BY StepBounds, StepMissed
<1>4. QED
  BY <1>1, <1>2, <1>3, AlwaysSafe, PTL DEF Spec
=============================================================================
