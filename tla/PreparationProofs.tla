------------------------- MODULE PreparationProofs -------------------------
(***************************************************************************)
(* Theorems about the module Preparation, for every tuple of directories   *)
(* and of plans, every number of edits, failures, stops, deaths and        *)
(* rebuilds, also of a workspace that a rollback has left half restored.   *)
(***************************************************************************)
EXTENDS Preparation, SequenceTheorems, TLAPS

Plan0 == Plans \cup {0}

Points == {"start", "lock", "done"} \cup UnderLock \cup Undoing

JobRecords ==
    [kind : {"import", "rebuild"}, pc : Points,
     expected : Plan0, edited : BOOLEAN, plan : Plan0, old : Plan0, oldConfig : Plan0,
     at : 1 .. Len(Parts), moved : Seq({"old", "new"} \X Part), stopped : BOOLEAN]

DiskType ==
    /\ setup \in Nat \cup {None} /\ book \in Plan0
    /\ root \in Layouts /\ stage \in Layouts \cup {None}
    /\ versions \in [Plans -> Versions \cup {None}]
    /\ config \in Plan0 /\ rows \subseteq Plans /\ work \in BOOLEAN

TypeOK ==
    /\ source \in Nat /\ DiskType
    /\ lock \in {None, "worker", "command"}
    /\ job \in JobRecords \cup {NoJob}
    /\ from \in [Plans -> Origins \cup {None}]
    /\ cut \subseteq {"record", "rollback", "cleanup"}
    /\ deaths \in Nat

-----------------------------------------------------------------------------
(* Why the properties hold.                                                *)

\* The workspace of plan p.
Whole(p) == [d \in Part |-> IF d \in Dirs[p] THEN p ELSE 0]

Swapping == job.kind = "rebuild" /\ job.pc \in InSwap \cup Undoing
Locked == UnderLock \cup Undoing \cup {"done"}

\* The project lock is the worker's while it changes the workspace, and until then it
\* has nothing to lose: a workspace with results is refused under the lock.
LockHeld ==
    /\ lock = "worker" <=> job.pc \in Locked
    /\ lock = "worker" => ~ work
    /\ work \/ lock = "command" => book # 0

\* A plan that was made has an origin that fits; what is installed was made.
Origin(p) == from[p].source = setup \/ from[p].edited

PlansMade ==
    /\ setup # None => \A p \in Made : Origin(p)
    /\ rows \subseteq Made
    /\ book # 0 => book \in rows
    /\ job.pc \in {"lock", "read"} => setup # None /\ (source = setup \/ job.edited)
    /\ job.pc \in {"write"} \cup InSwap \cup Undoing \cup {"register"} => job.plan \in Made
    /\ job.pc \in InSwap \cup Undoing => job.plan \in rows

Unmoved ==
    job.pc \in {"start", "lock", "read", "write", "register"} => job.at = 1 /\ job.moved = <<>>

\* An import finds a draft and fills it.
Importing ==
    job.kind = "import" =>
        /\ job.pc \in {"start", "lock", "read", "write", "register", "book", "done"}
        /\ job.pc # "start" => stage = None
        /\ job.pc \in {"lock", "read", "write", "register", "book"} => book = 0 /\ config = 0
        /\ job.pc \in {"lock", "read"} => rows = {} /\ root = NoDirs
        /\ job.pc = "write" => \A d \in Part : root[d] = 0 \/ root[d] = Whole(job.plan)[d]
        /\ job.pc \in {"register", "book"} => root = Whole(job.plan)

\* A rebuild starts from a whole plan and builds another one in the stage.
Rebuilding ==
    job.kind = "rebuild" /\ job.pc \in UnderLock \cup Undoing =>
        /\ job.old \in rows /\ setup # None
        /\ job.pc # "read" => job.old # job.plan
        /\ stage # None /\ job.oldConfig \in {0, job.old}
        /\ book = job.old \/ (book = job.plan /\ job.pc \in {"installed", "undoBook"})
        /\ job.pc = "installed" => book = job.plan
        /\ job.pc \in {"read", "write", "register", "old", "noteOld", "new", "noteNew", "config",
                       "undoMoves"} => config = job.oldConfig
        /\ job.pc \in {"book", "installed"} => config = 0
        /\ job.pc = "undoBook" => config \in {0, job.old}
        /\ job.pc \in InSwap \cup Undoing \cup {"register"} => versions[job.plan] # None
        /\ job.pc = "read" => stage = NoDirs
        /\ job.pc = "write" => \A d \in Part : stage[d] = 0 \/ stage[d] = Whole(job.plan)[d]
        /\ job.pc = "register" =>
              stage = Whole(job.plan) /\ versions[job.plan].dirs = NoDirs

\* The directories that a list of renames names, and the order of the list: what is put
\* back last was moved first.
Recorded(moved, which) == {d \in Part : \E k \in 1 .. Len(moved) : moved[k] = <<which, d>>}

Stack(moved) ==
    \A k, l \in 1 .. Len(moved) :
        /\ moved[k] = moved[l] => k = l
        /\ moved[k][1] = "new" /\ moved[l][1] = "old" /\ moved[k][2] = moved[l][2] => l < k

\* The renames that were made: one more than recorded, between a rename and its record.
OldMoved == Recorded(job.moved, "old") \cup (IF job.pc = "noteOld" THEN {Here} ELSE {})
NewMoved == Recorded(job.moved, "new") \cup (IF job.pc = "noteNew" THEN {Here} ELSE {})

\* Where the directories of the old plan and of the new one are during the swap.
Placed ==
    /\ \A d \in Part :
         /\ d \in NewMoved => root[d] = job.plan
         /\ d \in OldMoved \ NewMoved => root[d] = 0
         /\ d \notin OldMoved => versions[job.plan].dirs[d] = 0
         /\ stage[d] = IF d \in NewMoved THEN 0 ELSE Whole(job.plan)[d]
    /\ NewMoved \subseteq Dirs[job.plan]

\* What the swap has found in the workspace, and puts back if it is rolled back: the old
\* plan, as far as an earlier rollback was not cut short, and otherwise directories of
\* other plans as well, while those of the old plan are in an earlier version.
Found(d) == IF d \in OldMoved THEN versions[job.plan].dirs[d]
            ELSE IF d \in NewMoved THEN 0 ELSE root[d]

Uncut == cut \cap {"record", "rollback"} = {}

InVersion(d) ==
    \E q \in Plans \ {job.plan} : versions[q] # None /\ versions[q].dirs[d] = job.old

Restorable ==
    /\ \A d \in Dirs[job.old] : Found(d) = job.old \/ InVersion(d)
    /\ Uncut => \A d \in Part : Found(d) = Whole(job.old)[d]

\* How far the swap has come: the directories before Here are through, those after it
\* are untouched.
Through == {d \in Part : root[d] = Whole(job.plan)[d]}

Progress ==
    /\ job.pc \in {"old", "noteOld", "new", "noteNew"} =>
        /\ \A i \in 1 .. Len(Parts) :
             /\ i < job.at => Parts[i] \in Through
             /\ i > job.at => Parts[i] \notin OldMoved \cup NewMoved
        /\ Here \notin Recorded(job.moved, "new")
        /\ job.pc \in {"old", "noteOld"} => Here \notin Recorded(job.moved, "old")
        /\ job.pc = "new" => root[Here] = 0
    /\ job.pc \in {"config", "book", "installed"} => Part \subseteq Through
    /\ job.pc = "undoBook" /\ book = job.plan => Part \subseteq Through

\* As long as every rename has its record.
SwapIsTracked ==
    Swapping /\ "record" \notin cut => Placed /\ Restorable /\ Stack(job.moved) /\ Progress

\* A version is made for a plan that is new.
VersionsAreNew ==
    /\ \A p \in Plans \ Made : versions[p] = None
    /\ job.pc = "write" => versions[job.plan] = None

\* Outside a swap the workspace is that of its plan, unless a death has left a stage
\* behind, and then no rebuild starts, or a rollback was cut short.
Sound == deaths = 0 \/ stage = None \/ lock = "worker"
Settled == book # 0 /\ ~ Swapping /\ Sound /\ Uncut => root = Whole(book)

StageIsRemoved ==
    deaths = 0 /\ "cleanup" \notin cut /\ job.pc \in {"idle", "start", "lock"} => stage = None

IInv == /\ TypeOK /\ LockHeld /\ PlansMade /\ Unmoved /\ Importing /\ Rebuilding
        /\ ChoicesFitPlan /\ StageIsRemoved

SwapInv == VersionsAreNew /\ SwapIsTracked /\ Settled /\ PlanSurvives

-----------------------------------------------------------------------------
(* The constants. *)

LEMMA PlansType ==
    /\ Plans = 1 .. Len(Dirs) /\ 1 \in Plans /\ 0 \notin Plans
    /\ \A p \in Plans : p \in Nat /\ Dirs[p] \subseteq Part
  BY DirsAssumption DEF Plans

LEMMA PartsType ==
    /\ Len(Parts) \in Nat \ {0}
    /\ \A i \in 1 .. Len(Parts) : Parts[i] \in Part
    /\ \A d \in Part : \E i \in 1 .. Len(Parts) : Parts[i] = d
    /\ \A i, k \in 1 .. Len(Parts) : Parts[i] = Parts[k] => i = k
  BY PartsAssumption DEF Part, ToSet, IsInjective

LEMMA LayoutType ==
    /\ NoDirs \in Layouts
    /\ \A p \in Plans : Whole(p) \in Layouts
    /\ \A f \in Layouts, d \in Part, p \in Plan0 : [f EXCEPT ![d] = p] \in Layouts
    /\ \A f \in Layouts, d \in Part : f[d] \in Plan0
  BY DEF NoDirs, Layouts, Whole, Plan0

LEMMA NoneIsNew ==
    None \notin Nat /\ None \notin {"worker", "command"} /\ None \notin Layouts
    /\ None \notin Versions /\ None \notin Origins
  BY NoneAssumption

-----------------------------------------------------------------------------
(* What a step does with the record of the worker. *)

JobKeeps == /\ job' \in JobRecords
            /\ job'.kind = job.kind /\ job'.expected = job.expected /\ job'.plan = job.plan
            /\ job'.old = job.old /\ job'.oldConfig = job.oldConfig

GoesTo(c) == /\ JobKeeps /\ job'.pc = c
             /\ job'.edited = job.edited /\ job'.at = job.at /\ job'.moved = job.moved

LEMMA JobFields ==
  ASSUME TypeOK
  PROVE  /\ job.pc # "idle" <=> job \in JobRecords
         /\ job.pc = "idle" <=> Idle
         /\ job.pc = "idle" => job.kind = "none"
  BY DEF TypeOK, JobRecords, Idle, NoJob, Points, UnderLock, InSwap, Undoing

LEMMA PcStep ==
  ASSUME job \in JobRecords, NEW c \in Points,
         job' = [job EXCEPT !.pc = c] \/ job' = [job EXCEPT !.pc = c, !.stopped = TRUE]
  PROVE  GoesTo(c)
  BY DEF JobRecords, GoesTo, JobKeeps

LEMMA LockStep ==
  ASSUME job \in JobRecords, book \in Plan0, config \in Plan0,
         job' = [job EXCEPT !.pc = "read", !.old = book, !.oldConfig = config]
  PROVE  /\ job' \in JobRecords /\ job'.pc = "read" /\ job'.old = book /\ job'.oldConfig = config
         /\ job'.kind = job.kind /\ job'.plan = job.plan /\ job'.edited = job.edited
         /\ job'.expected = job.expected /\ job'.at = job.at /\ job'.moved = job.moved
  BY DEF JobRecords, Points, UnderLock

LEMMA ReadStep ==
  ASSUME job \in JobRecords, NEW p \in Plans, job' = [job EXCEPT !.pc = "write", !.plan = p]
  PROVE  /\ job' \in JobRecords /\ job'.pc = "write" /\ job'.plan = p
         /\ job'.kind = job.kind /\ job'.old = job.old /\ job'.oldConfig = job.oldConfig
         /\ job'.edited = job.edited /\ job'.expected = job.expected
         /\ job'.at = job.at /\ job'.moved = job.moved
  BY DEF JobRecords, Points, UnderLock, Plan0

LEMMA EditStep ==
  ASSUME job \in JobRecords, job' = [job EXCEPT !.edited = TRUE]
  PROVE  /\ JobKeeps /\ job'.pc = job.pc /\ job'.at = job.at /\ job'.moved = job.moved
         /\ job'.edited = TRUE
  BY DEF JobRecords, JobKeeps

\* The next directory, or what comes after the last one.
PartEnds(moved) ==
    /\ JobKeeps /\ job'.moved = moved
    /\ \/ job.at = Len(Parts) /\ job'.at = job.at /\ job'.pc = "config"
       \/ job.at < Len(Parts) /\ job'.at = job.at + 1 /\ job'.pc = "old"

LEMMA PartStep ==
  ASSUME job \in JobRecords, NEW m \in Seq({"old", "new"} \X Part),
         job' = [AfterPart EXCEPT !.moved = m] \/ (job' = AfterPart /\ m = job.moved)
  PROVE  PartEnds(m)
  <1>1. job.at \in 1 .. Len(Parts) /\ Len(Parts) \in Nat
    BY PartsType DEF JobRecords
  <1>2. CASE job.at = Len(Parts)
    <2>1. AfterPart = [job EXCEPT !.pc = "config"]
      BY <1>2 DEF AfterPart
    <2>2. job' = [job EXCEPT !.pc = "config", !.moved = m]
      BY <2>1 DEF JobRecords
    <2>3. "config" \in Points
      BY DEF Points, UnderLock, InSwap
    <2>4. JobKeeps
      BY <2>2, <2>3 DEF JobRecords, JobKeeps
    <2> QED BY <1>2, <2>2, <2>4 DEF JobRecords, PartEnds
  <1>3. CASE job.at # Len(Parts)
    <2>1. AfterPart = [job EXCEPT !.pc = "old", !.at = @ + 1]
      BY <1>3 DEF AfterPart
    <2>2. job.at + 1 \in 1 .. Len(Parts) /\ job.at < Len(Parts)
      BY <1>1, <1>3
    <2>3. job' = [job EXCEPT !.pc = "old", !.at = @ + 1, !.moved = m]
      BY <2>1 DEF JobRecords
    <2>4. "old" \in Points
      BY DEF Points, UnderLock, InSwap
    <2>5. JobKeeps
      BY <2>2, <2>3, <2>4 DEF JobRecords, JobKeeps
    <2> QED BY <2>2, <2>3, <2>5 DEF JobRecords, PartEnds
  <1> QED BY <1>2, <1>3

LEMMA RecordStep ==
  ASSUME job \in JobRecords, NEW m \in Seq({"old", "new"} \X Part), NEW c \in Points,
         job' = [job EXCEPT !.pc = c, !.moved = m]
  PROVE  JobKeeps /\ job'.pc = c /\ job'.at = job.at /\ job'.moved = m /\ job'.edited = job.edited
  BY DEF JobRecords, JobKeeps

LEMMA UndoneStep ==
  ASSUME job \in JobRecords, job.moved # <<>>, job' = Undone
  PROVE  /\ JobKeeps /\ job'.pc = job.pc /\ job'.at = job.at
         /\ job'.moved = Front(job.moved) /\ job'.edited = job.edited
         /\ LastMove \in {"old", "new"} \X Part
  <1>1. job.moved \in Seq({"old", "new"} \X Part) /\ Len(job.moved) \in Nat \ {0}
    BY DEF JobRecords
  <1>2. Front(job.moved) \in Seq({"old", "new"} \X Part)
    BY <1>1 DEF Front
  <1>3. LastMove \in {"old", "new"} \X Part
    BY <1>1 DEF LastMove
  <1> QED BY <1>2, <1>3 DEF JobRecords, JobKeeps, Undone

NewJobAs(kind, revision) ==
    /\ job' \in JobRecords /\ job'.kind = kind /\ job'.pc = "start" /\ job'.expected = revision
    /\ job'.edited = FALSE /\ job'.plan = 0 /\ job'.at = 1 /\ job'.moved = <<>>

LEMMA NewStep ==
  ASSUME NEW k \in {"import", "rebuild"}, NEW r \in Plan0, job' = NewJob(k, r)
  PROVE  NewJobAs(k, r)
  BY PartsType DEF NewJob, NewJobAs, JobRecords, Points, Plan0

LEMMA PrepareKeeps == ASSUME IInv, Prepare PROVE IInv'
  <1> USE DEF IInv
  <1>1. NewJobAs("import", 0)
    BY NewStep DEF Prepare, Plan0
  <1>2. TypeOK'
    BY <1>1 DEF Prepare, NewJobAs, TypeOK, DiskType, diskVars
  <1>3. LockHeld'
    BY <1>1, JobFields DEF Prepare, NewJobAs, LockHeld, diskVars, Locked, UnderLock, InSwap,
       Undoing
  <1>4. PlansMade'
    BY <1>1 DEF Prepare, NewJobAs, PlansMade, Made, Origin, diskVars, InSwap, Undoing
  <1>5. Importing'
    BY <1>1 DEF NewJobAs, Importing
  <1>6. Rebuilding'
    BY <1>1 DEF NewJobAs, Rebuilding
  <1>7. ChoicesFitPlan'
    BY DEF Prepare, ChoicesFitPlan, diskVars
  <1>8. StageIsRemoved'
    BY JobFields DEF Prepare, StageIsRemoved, diskVars
  <1>9. Unmoved'
    BY <1>1 DEF NewJobAs, Unmoved
  <1> QED BY <1>2, <1>3, <1>4, <1>5, <1>6, <1>7, <1>8, <1>9

LEMMA ReprepareKeeps == ASSUME IInv, Reprepare PROVE IInv'
  <1> USE DEF IInv
  <1>1. NewJobAs("rebuild", config)
    BY NewStep DEF Reprepare, TypeOK, DiskType
  <1>2. TypeOK'
    BY <1>1 DEF Reprepare, NewJobAs, TypeOK, DiskType, diskVars
  <1>3. LockHeld'
    BY <1>1, JobFields DEF Reprepare, NewJobAs, LockHeld, diskVars, Locked, UnderLock, InSwap,
       Undoing
  <1>4. PlansMade'
    BY <1>1 DEF Reprepare, NewJobAs, PlansMade, Made, Origin, diskVars, InSwap, Undoing
  <1>5. Importing'
    BY <1>1 DEF NewJobAs, Importing
  <1>6. Rebuilding'
    BY <1>1 DEF NewJobAs, Rebuilding, UnderLock, InSwap, Undoing
  <1>7. ChoicesFitPlan'
    BY DEF Reprepare, ChoicesFitPlan, diskVars
  <1>8. StageIsRemoved'
    BY JobFields DEF Reprepare, StageIsRemoved, diskVars
  <1>9. Unmoved'
    BY <1>1 DEF NewJobAs, Unmoved
  <1> QED BY <1>2, <1>3, <1>4, <1>5, <1>6, <1>7, <1>8, <1>9

LEMMA ConfigureKeeps == ASSUME IInv, Configure PROVE IInv'
  <1> USE DEF IInv
  <1>1. job' = job
    BY DEF Configure
  <1>2. TypeOK'
    BY DEF Configure, TypeOK, DiskType
  <1>3. LockHeld'
    BY DEF Configure, LockHeld
  <1>4. PlansMade'
    BY DEF Configure, PlansMade, Made, Origin
  <1>5. Importing'
    BY DEF Configure, Importing
  <1>6. Rebuilding'
    BY JobFields DEF Configure, Rebuilding
  <1>7. ChoicesFitPlan'
    BY DEF Configure, ChoicesFitPlan
  <1>8. StageIsRemoved'
    BY DEF Configure, StageIsRemoved
  <1>9. Unmoved'
    BY DEF Configure, Unmoved
  <1> QED BY <1>2, <1>3, <1>4, <1>5, <1>6, <1>7, <1>8, <1>9

LEMMA WorkerStartsKeeps == ASSUME IInv, WorkerStarts PROVE IInv'
  <1> USE DEF IInv
  <1>1. GoesTo("lock")
    BY JobFields, PcStep DEF WorkerStarts, Points
  <1>2. TypeOK'
    BY <1>1 DEF WorkerStarts, TypeOK, DiskType, diskVars, GoesTo, JobKeeps
  <1>3. LockHeld'
    BY DEF WorkerStarts, LockHeld, diskVars, Locked, UnderLock, InSwap, Undoing
  <1>4. PlansMade'
    BY DEF WorkerStarts, StartChecks, PlansMade, Made, Origin, diskVars, InSwap, Undoing
  <1>5. Importing'
    BY DEF WorkerStarts, StartChecks, DraftIsValid, ChoicesFitPlan, Importing, diskVars
  <1>6. Rebuilding'
    BY DEF WorkerStarts, Rebuilding, UnderLock, InSwap, Undoing
  <1>7. ChoicesFitPlan'
    BY DEF WorkerStarts, ChoicesFitPlan, diskVars
  <1>8. StageIsRemoved'
    BY DEF WorkerStarts, StageIsRemoved, diskVars
  <1>9. Unmoved'
    BY DEF WorkerStarts, Unmoved
  <1> QED BY <1>2, <1>3, <1>4, <1>5, <1>6, <1>7, <1>8, <1>9

LEMMA WorkerRefusesKeeps == ASSUME IInv, WorkerRefuses PROVE IInv'
  <1> USE DEF IInv
  <1>1. job' = NoJob
    BY DEF WorkerRefuses, End
  <1>2. TypeOK'
    BY <1>1 DEF WorkerRefuses, TypeOK, DiskType, diskVars
  <1>3. LockHeld'
    BY <1>1 DEF WorkerRefuses, NoJob, LockHeld, diskVars, Locked, UnderLock, InSwap, Undoing
  <1>4. PlansMade'
    BY <1>1 DEF WorkerRefuses, NoJob, PlansMade, Made, Origin, diskVars, InSwap, Undoing
  <1>5. Importing'
    BY <1>1 DEF NoJob, Importing
  <1>6. Rebuilding'
    BY <1>1 DEF NoJob, Rebuilding
  <1>7. ChoicesFitPlan'
    BY DEF WorkerRefuses, ChoicesFitPlan, diskVars
  <1>8. StageIsRemoved'
    BY DEF WorkerRefuses, StageIsRemoved, diskVars
  <1>9. Unmoved'
    BY <1>1 DEF NoJob, Unmoved
  <1> QED BY <1>2, <1>3, <1>4, <1>5, <1>6, <1>7, <1>8, <1>9

LEMMA WorkerIsRefusedKeeps == ASSUME IInv, WorkerIsRefused PROVE IInv'
  <1> USE DEF IInv
  <1>1. job' = NoJob
    BY DEF WorkerIsRefused, End
  <1>2. TypeOK'
    BY <1>1 DEF WorkerIsRefused, TypeOK, DiskType, diskVars
  <1>3. LockHeld'
    BY <1>1 DEF WorkerIsRefused, NoJob, LockHeld, diskVars, Locked, UnderLock, InSwap, Undoing
  <1>4. PlansMade'
    BY <1>1 DEF WorkerIsRefused, NoJob, PlansMade, Made, Origin, diskVars, InSwap, Undoing
  <1>5. Importing'
    BY <1>1 DEF NoJob, Importing
  <1>6. Rebuilding'
    BY <1>1 DEF NoJob, Rebuilding
  <1>7. ChoicesFitPlan'
    BY DEF WorkerIsRefused, ChoicesFitPlan, diskVars
  <1>8. StageIsRemoved'
    BY DEF WorkerIsRefused, StageIsRemoved, diskVars
  <1>9. Unmoved'
    BY <1>1 DEF NoJob, Unmoved
  <1> QED BY <1>2, <1>3, <1>4, <1>5, <1>6, <1>7, <1>8, <1>9

LEMMA WorkerLocksKeeps == ASSUME IInv, WorkerLocks PROVE IInv'
  <1> USE DEF IInv
  <1>1. /\ job' \in JobRecords /\ job'.pc = "read" /\ job'.old = book /\ job'.oldConfig = config
        /\ job'.kind = job.kind /\ job'.edited = job.edited
        /\ job'.at = 1 /\ job'.moved = <<>>
    BY JobFields, LockStep DEF WorkerLocks, TypeOK, DiskType, Unmoved
  <1>2. TypeOK'
    BY <1>1, LayoutType DEF WorkerLocks, TypeOK, DiskType
  <1>3. LockHeld'
    BY DEF WorkerLocks, LockedChecks, MayRebuild, NothingUnexpected, LockHeld, Locked, UnderLock
  <1>4. PlansMade'
    BY DEF WorkerLocks, PlansMade, Made, Origin, InSwap, Undoing
  <1>5. Importing'
    BY DEF WorkerLocks, Importing
  <1>6. Rebuilding'
    BY LayoutType, NoneIsNew DEF WorkerLocks, LockedChecks, MayRebuild, ChoicesFitPlan, PlansMade,
       Rebuilding, InSwap, Undoing
  <1>7. ChoicesFitPlan'
    BY DEF WorkerLocks, ChoicesFitPlan
  <1>8. StageIsRemoved'
    BY <1>1 DEF StageIsRemoved
  <1>9. Unmoved'
    BY <1>1 DEF Unmoved
  <1> QED BY <1>2, <1>3, <1>4, <1>5, <1>6, <1>7, <1>8, <1>9

LEMMA ReadSourceKeeps == ASSUME IInv, ReadSource PROVE IInv'
  <1> USE DEF IInv
  <1>1. PICK p \in Plans :
          /\ p \notin Made
          /\ from' = [from EXCEPT ![p] = [source |-> source, edited |-> job.edited]]
          /\ job' = [job EXCEPT !.pc = "write", !.plan = p]
    BY DEF ReadSource
  <1>2. /\ job \in JobRecords /\ job.pc = "read"
        /\ UNCHANGED <<source, setup, book, root, stage, versions, config, rows, work, lock, cut,
                       deaths>>
    BY JobFields DEF ReadSource, diskVars
  <1>3. /\ job' \in JobRecords /\ job'.pc = "write" /\ job'.plan = p
        /\ job'.kind = job.kind /\ job'.old = job.old /\ job'.oldConfig = job.oldConfig
        /\ job'.at = job.at /\ job'.moved = job.moved
    BY <1>1, <1>2, ReadStep
  <1>4. TypeOK'
    <2>1. [source |-> source, edited |-> job.edited] \in Origins
      BY <1>2 DEF TypeOK, Origins, JobRecords
    <2> QED BY <1>1, <1>2, <1>3, <2>1 DEF TypeOK, DiskType
  <1>5. Made' = Made \cup {p} /\ \A q \in Made : from'[q] = from[q]
    <2>1. [source |-> source, edited |-> job.edited] # None
      BY <1>2, NoneIsNew DEF TypeOK, Origins, JobRecords
    <2> QED BY <1>1, <2>1 DEF TypeOK, Made
  <1>6. PlansMade'
    <2>1. from'[p] = [source |-> source, edited |-> job.edited]
      BY <1>1 DEF TypeOK
    <2>2. Origin(p)'
      BY <1>2, <2>1 DEF Origin, PlansMade
    <2> QED BY <1>2, <1>3, <1>5, <2>2 DEF PlansMade, Origin, InSwap, Undoing
  <1>7. Importing'
    BY <1>2, <1>3, LayoutType DEF Importing, NoDirs
  <1>8. Rebuilding'
    <2>1. job.kind = "rebuild" => job.old # p
      BY <1>1, <1>2 DEF Rebuilding, UnderLock, PlansMade
    <2> QED BY <1>2, <1>3, <2>1 DEF Rebuilding, UnderLock, InSwap, Undoing, NoDirs
  <1>9. LockHeld' /\ ChoicesFitPlan' /\ StageIsRemoved' /\ Unmoved'
    BY <1>2, <1>3 DEF LockHeld, Locked, UnderLock, ChoicesFitPlan, StageIsRemoved, Unmoved
  <1> QED BY <1>4, <1>6, <1>7, <1>8, <1>9

LEMMA WriteDirectoryKeeps == ASSUME IInv, WriteDirectory PROVE IInv'
  <1> USE DEF IInv
  <1>1. /\ job \in JobRecords /\ job.pc = "write" /\ job' = job
        /\ UNCHANGED <<source, setup, book, versions, config, rows, work, lock, from, cut, deaths>>
    BY JobFields DEF WriteDirectory
  <1>2. job.plan \in Plans /\ Dirs[job.plan] \subseteq Part
    BY <1>1, PlansType DEF PlansMade, Made
  <1>3. PICK d \in Dirs[job.plan] :
          IF job.kind = "import" THEN root' = [root EXCEPT ![d] = job.plan] /\ stage' = stage
          ELSE stage' = [stage EXCEPT ![d] = job.plan] /\ root' = root
    BY DEF WriteDirectory, Unwritten, Target
  <1>4. d \in Part /\ Whole(job.plan)[d] = job.plan
    BY <1>2, <1>3 DEF Whole
  <1>5. CASE job.kind = "import"
    <2>1. /\ root' \in Layouts /\ stage' = stage /\ root'[d] = job.plan
          /\ \A c \in Part : c # d => root'[c] = root[c]
      BY <1>2, <1>3, <1>5 DEF TypeOK, DiskType, Layouts
    <2>2. TypeOK'
      BY <1>1, <2>1 DEF TypeOK, DiskType
    <2>3. Importing'
      BY <1>1, <1>4, <2>1 DEF Importing
    <2> QED BY <1>1, <1>5, <2>2, <2>3 DEF LockHeld, PlansMade, Made, Origin, Rebuilding,
               ChoicesFitPlan, StageIsRemoved, Unmoved
  <1>6. CASE job.kind = "rebuild"
    <2>1. stage \in Layouts
      BY <1>1, <1>6 DEF Rebuilding, UnderLock, TypeOK, DiskType
    <2>2. /\ stage' \in Layouts /\ root' = root /\ stage'[d] = job.plan
          /\ \A c \in Part : c # d => stage'[c] = stage[c]
      BY <1>2, <1>3, <1>6, <2>1 DEF Layouts
    <2>3. TypeOK'
      BY <1>1, <2>2 DEF TypeOK, DiskType
    <2>4. Rebuilding'
      BY <1>1, <1>4, <2>2, NoneIsNew DEF Rebuilding
    <2> QED BY <1>1, <1>6, <2>3, <2>4 DEF LockHeld, PlansMade, Made, Origin, Importing,
               ChoicesFitPlan, StageIsRemoved, Unmoved
  <1> QED BY <1>1, <1>5, <1>6 DEF JobRecords

\* When nothing is left to write, the target is whole.
LEMMA WrittenIsWhole ==
  ASSUME TypeOK, PlansMade, NEW layout \in Layouts, job.plan \in Plans,
         \A d \in Part : layout[d] = 0 \/ layout[d] = Whole(job.plan)[d],
         \A d \in Dirs[job.plan] : layout[d] = job.plan
  PROVE  layout = Whole(job.plan)
  <1>1. \A d \in Part : layout[d] = Whole(job.plan)[d]
    BY PlansType DEF Whole
  <1>2. layout = [d \in Part |-> layout[d]] /\ Whole(job.plan) = [d \in Part |-> Whole(job.plan)[d]]
    BY DEF Layouts, Whole
  <1> QED BY <1>1, <1>2

LEMMA ImportWrittenKeeps == ASSUME IInv, ImportWritten PROVE IInv'
  <1> USE DEF IInv
  <1>1. /\ job \in JobRecords /\ job.pc = "write" /\ job.kind = "import"
        /\ UNCHANGED <<source, diskVars, lock, from, cut, deaths>>
    BY JobFields DEF ImportWritten, At
  <1>2. GoesTo("register")
    BY <1>1, PcStep DEF ImportWritten, Points, UnderLock
  <1>3. job.plan \in Plans /\ root \in Layouts
    BY <1>1 DEF PlansMade, Made, TypeOK, DiskType
  <1>4. \A d \in Dirs[job.plan] : root[d] = job.plan
    BY DEF ImportWritten, At, Unwritten, Target
  <1>5. root = Whole(job.plan)
    BY <1>1, <1>3, <1>4, WrittenIsWhole DEF Importing
  <1>6. TypeOK'
    BY <1>1, <1>2 DEF TypeOK, DiskType, diskVars, GoesTo, JobKeeps
  <1>7. Importing'
    BY <1>1, <1>2, <1>5 DEF Importing, diskVars, GoesTo, JobKeeps
  <1> QED BY <1>1, <1>2, <1>6, <1>7 DEF LockHeld, Locked, PlansMade, Made, Origin, Rebuilding,
             ChoicesFitPlan, StageIsRemoved, Unmoved, diskVars, GoesTo, JobKeeps, UnderLock,
             InSwap, Undoing

LEMMA PutVersionAsideKeeps == ASSUME IInv, PutVersionAside PROVE IInv'
  <1> USE DEF IInv
  <1>1. /\ job \in JobRecords /\ job.pc = "write" /\ job.kind = "rebuild"
        /\ UNCHANGED <<source, setup, book, root, stage, config, rows, work, lock, from, cut, deaths>>
    BY JobFields DEF PutVersionAside, At
  <1>2. GoesTo("register")
    BY <1>1, PcStep DEF PutVersionAside, Points, UnderLock
  <1>3. job.plan \in Plans /\ stage \in Layouts
    BY <1>1 DEF PlansMade, Made, Rebuilding, UnderLock, TypeOK, DiskType
  <1>4. \A d \in Dirs[job.plan] : stage[d] = job.plan
    BY DEF PutVersionAside, At, Unwritten, Target
  <1>5. stage = Whole(job.plan)
    BY <1>1, <1>3, <1>4, WrittenIsWhole DEF Rebuilding, UnderLock
  <1> DEFINE v == [plan |-> job.old, config |-> job.oldConfig, dirs |-> NoDirs]
  <1>6. v \in Versions /\ v # None
    BY <1>1, LayoutType, NoneIsNew DEF JobRecords, Versions, Plan0
  <1>7. versions' = [versions EXCEPT ![job.plan] = v]
    BY DEF PutVersionAside
  <1>8. versions' \in [Plans -> Versions \cup {None}] /\ versions'[job.plan] = v /\ v.dirs = NoDirs
    BY <1>3, <1>6, <1>7 DEF TypeOK, DiskType
  <1>9. TypeOK'
    BY <1>1, <1>2, <1>8 DEF TypeOK, DiskType, GoesTo, JobKeeps
  <1>10. Rebuilding'
    BY <1>1, <1>2, <1>5, <1>6, <1>8 DEF Rebuilding, GoesTo, JobKeeps, UnderLock
  <1> QED BY <1>1, <1>2, <1>9, <1>10 DEF LockHeld, Locked, PlansMade, Made, Origin, Importing,
             ChoicesFitPlan, StageIsRemoved, Unmoved, GoesTo, JobKeeps, UnderLock, InSwap, Undoing


LEMMA RegisterChunksKeeps == ASSUME IInv, RegisterChunks PROVE IInv'
  <1> USE DEF IInv
  <1>1. GoesTo(IF job.kind = "import" THEN "book" ELSE "old")
    BY JobFields, PcStep DEF RegisterChunks, Points, UnderLock, InSwap
  <1>2. TypeOK'
    BY <1>1 DEF RegisterChunks, Made, PlansMade, TypeOK, DiskType, GoesTo, JobKeeps
  <1>3. LockHeld'
    BY DEF RegisterChunks, LockHeld, Locked, UnderLock, InSwap
  <1>4. PlansMade'
    BY DEF RegisterChunks, Made, PlansMade, Origin
  <1>5. Importing'
    BY DEF RegisterChunks, Importing
  <1>6. Rebuilding'
    BY DEF RegisterChunks, Rebuilding, UnderLock
  <1>7. ChoicesFitPlan'
    BY DEF RegisterChunks, ChoicesFitPlan
  <1>8. StageIsRemoved'
    BY DEF RegisterChunks, StageIsRemoved
  <1>9. Unmoved'
    BY DEF RegisterChunks, Unmoved
  <1> QED BY <1>2, <1>3, <1>4, <1>5, <1>6, <1>7, <1>8, <1>9

LEMMA ResetChoicesKeeps == ASSUME IInv, ResetChoices PROVE IInv'
  <1> USE DEF IInv
  <1>1. GoesTo("book")
    BY JobFields, PcStep DEF ResetChoices, Points, UnderLock, InSwap
  <1>2. TypeOK'
    BY <1>1 DEF ResetChoices, Plan0, TypeOK, DiskType, GoesTo, JobKeeps
  <1>3. LockHeld'
    BY DEF ResetChoices, LockHeld, Locked, UnderLock, InSwap
  <1>4. PlansMade'
    BY DEF ResetChoices, PlansMade, Made, Origin, InSwap
  <1>5. Importing'
    BY DEF ResetChoices, Importing
  <1>6. Rebuilding'
    BY DEF ResetChoices, Rebuilding, UnderLock, InSwap
  <1>7. ChoicesFitPlan'
    BY DEF ResetChoices, ChoicesFitPlan
  <1>8. StageIsRemoved'
    BY DEF ResetChoices, StageIsRemoved
  <1>9. Unmoved'
    BY DEF ResetChoices, Unmoved
  <1> QED BY <1>2, <1>3, <1>4, <1>5, <1>6, <1>7, <1>8, <1>9

LEMMA SwapEndsKeeps == ASSUME IInv, SwapEnds PROVE IInv'
  <1> USE DEF IInv
  <1>1. GoesTo("done")
    BY JobFields, PcStep DEF SwapEnds, Points
  <1>2. TypeOK'
    BY <1>1 DEF SwapEnds, TypeOK, DiskType, diskVars, GoesTo, JobKeeps
  <1>3. LockHeld'
    BY DEF SwapEnds, LockHeld, diskVars, Locked, UnderLock, InSwap
  <1>4. PlansMade'
    BY DEF SwapEnds, PlansMade, Made, Origin, diskVars, InSwap
  <1>5. Importing'
    BY DEF SwapEnds, Importing
  <1>6. Rebuilding'
    BY DEF SwapEnds, Rebuilding, UnderLock, InSwap, Undoing
  <1>7. ChoicesFitPlan'
    BY DEF SwapEnds, ChoicesFitPlan, diskVars
  <1>8. StageIsRemoved'
    BY DEF SwapEnds, StageIsRemoved
  <1>9. Unmoved'
    BY DEF SwapEnds, Unmoved
  <1> QED BY <1>2, <1>3, <1>4, <1>5, <1>6, <1>7, <1>8, <1>9

LEMMA UndoBookKeeps == ASSUME IInv, UndoBook PROVE IInv'
  <1> USE DEF IInv
  <1>1. GoesTo("undoConfig")
    BY JobFields, PcStep DEF UndoBook, Points, Undoing
  <1>2. TypeOK'
    BY <1>1 DEF UndoBook, JobRecords, TypeOK, DiskType, GoesTo, JobKeeps
  <1>3. LockHeld'
    BY DEF UndoBook, LockHeld, Locked, Undoing
  <1>4. PlansMade'
    BY JobFields DEF UndoBook, JobRecords, Importing, Rebuilding, PlansMade, Made, Origin, Undoing
  <1>5. Importing'
    BY DEF UndoBook, Importing
  <1>6. Rebuilding'
    BY DEF UndoBook, Rebuilding, Undoing
  <1>7. ChoicesFitPlan'
    BY JobFields DEF UndoBook, JobRecords, Importing, Rebuilding, ChoicesFitPlan, Undoing
  <1>8. StageIsRemoved'
    BY DEF UndoBook, StageIsRemoved
  <1>9. Unmoved'
    BY DEF UndoBook, Unmoved
  <1> QED BY <1>2, <1>3, <1>4, <1>5, <1>6, <1>7, <1>8, <1>9

LEMMA UndoConfigKeeps == ASSUME IInv, UndoConfig PROVE IInv'
  <1> USE DEF IInv
  <1>1. GoesTo("undoMoves")
    BY JobFields, PcStep DEF UndoConfig, Points, Undoing
  <1>2. TypeOK'
    BY <1>1 DEF UndoConfig, JobRecords, TypeOK, DiskType, GoesTo, JobKeeps
  <1>3. LockHeld'
    BY DEF UndoConfig, LockHeld, Locked, Undoing
  <1>4. PlansMade'
    BY DEF UndoConfig, PlansMade, Made, Origin, Undoing
  <1>5. Importing'
    BY DEF UndoConfig, Importing
  <1>6. Rebuilding'
    BY DEF UndoConfig, Rebuilding, Undoing
  <1>7. ChoicesFitPlan'
    BY JobFields DEF UndoConfig, JobRecords, Importing, Rebuilding, ChoicesFitPlan, Undoing
  <1>8. StageIsRemoved'
    BY DEF UndoConfig, StageIsRemoved
  <1>9. Unmoved'
    BY DEF UndoConfig, Unmoved
  <1> QED BY <1>2, <1>3, <1>4, <1>5, <1>6, <1>7, <1>8, <1>9

LEMMA RemoveVersionKeeps == ASSUME IInv, RemoveVersion PROVE IInv'
  <1> USE DEF IInv
  <1>1. GoesTo("done")
    BY JobFields, PcStep DEF RemoveVersion, Points
  <1>2. TypeOK'
    BY <1>1 DEF RemoveVersion, TypeOK, DiskType, GoesTo, JobKeeps
  <1>3. LockHeld'
    BY DEF RemoveVersion, LockHeld, Locked, Undoing
  <1>4. PlansMade'
    BY DEF RemoveVersion, PlansMade, Made, Origin, Undoing
  <1>5. Importing'
    BY DEF RemoveVersion, Importing
  <1>6. Rebuilding'
    BY DEF RemoveVersion, Rebuilding, InSwap, Undoing
  <1>7. ChoicesFitPlan'
    BY DEF RemoveVersion, ChoicesFitPlan
  <1>8. StageIsRemoved'
    BY DEF RemoveVersion, StageIsRemoved
  <1>9. Unmoved'
    BY DEF RemoveVersion, Unmoved
  <1> QED BY <1>2, <1>3, <1>4, <1>5, <1>6, <1>7, <1>8, <1>9

LEMMA InstallBookKeeps == ASSUME IInv, InstallBook PROVE IInv'
  <1> USE DEF IInv
  <1>1. GoesTo(IF job.kind = "import" THEN "done" ELSE "installed")
    BY JobFields, PcStep DEF InstallBook, Points, UnderLock, InSwap
  <1>2. TypeOK'
    BY <1>1 DEF InstallBook, JobRecords, TypeOK, DiskType, GoesTo, JobKeeps
  <1>3. LockHeld'
    BY DEF InstallBook, LockHeld, Locked, UnderLock, InSwap
  <1>4. PlansMade'
    BY DEF InstallBook, Made, PlansMade, Origin, InSwap
  <1>5. Importing'
    BY DEF InstallBook, Importing
  <1>6. Rebuilding'
    BY DEF InstallBook, Rebuilding, UnderLock, InSwap
  <1>7. ChoicesFitPlan'
    BY JobFields DEF InstallBook, JobRecords, Importing, Rebuilding, ChoicesFitPlan, UnderLock,
       InSwap
  <1>8. StageIsRemoved'
    BY DEF InstallBook, StageIsRemoved
  <1>9. Unmoved'
    BY DEF InstallBook, Unmoved
  <1> QED BY <1>2, <1>3, <1>4, <1>5, <1>6, <1>7, <1>8, <1>9

LEMMA WorkerEndsKeeps == ASSUME IInv, WorkerEnds PROVE IInv'
  <1> USE DEF IInv
  <1>1. job' = NoJob
    BY DEF WorkerEnds, End
  <1>2. TypeOK'
    BY <1>1 DEF WorkerEnds, TypeOK, DiskType
  <1>3. LockHeld'
    BY <1>1, NoneIsNew DEF WorkerEnds, NoJob, LockHeld, Locked, UnderLock, InSwap, Undoing
  <1>4. PlansMade'
    BY <1>1 DEF WorkerEnds, NoJob, PlansMade, Made, Origin, InSwap, Undoing
  <1>5. Importing'
    BY <1>1 DEF NoJob, Importing
  <1>6. Rebuilding'
    BY <1>1 DEF NoJob, Rebuilding
  <1>7. ChoicesFitPlan'
    BY DEF WorkerEnds, ChoicesFitPlan
  <1>8. StageIsRemoved'
    BY DEF WorkerEnds, StageIsRemoved
  <1>9. Unmoved'
    BY <1>1 DEF NoJob, Unmoved
  <1> QED BY <1>2, <1>3, <1>4, <1>5, <1>6, <1>7, <1>8, <1>9

LEMMA WorkerDiesKeeps == ASSUME IInv, WorkerDies PROVE IInv'
  <1> USE DEF IInv
  <1>1. job' = NoJob
    BY DEF WorkerDies, End
  <1>2. TypeOK'
    BY <1>1 DEF WorkerDies, TypeOK, DiskType, diskVars
  <1>3. LockHeld'
    BY <1>1, NoneIsNew DEF WorkerDies, NoJob, LockHeld, diskVars, Locked, UnderLock, InSwap,
       Undoing
  <1>4. PlansMade'
    BY <1>1 DEF WorkerDies, NoJob, PlansMade, Made, Origin, diskVars, InSwap, Undoing
  <1>5. Importing'
    BY <1>1 DEF NoJob, Importing
  <1>6. Rebuilding'
    BY <1>1 DEF NoJob, Rebuilding
  <1>7. ChoicesFitPlan'
    BY DEF WorkerDies, ChoicesFitPlan, diskVars
  <1>8. StageIsRemoved'
    BY DEF WorkerDies, StageIsRemoved, TypeOK
  <1>9. Unmoved'
    BY <1>1 DEF NoJob, Unmoved
  <1> QED BY <1>2, <1>3, <1>4, <1>5, <1>6, <1>7, <1>8, <1>9

LEMMA OperationFailsKeeps == ASSUME IInv, OperationFails PROVE IInv'
  <1> USE DEF IInv
  <1>1. GoesTo(Raise)
    BY JobFields, PcStep DEF OperationFails, Points, UnderLock, InSwap, Undoing, Raise
  <1>2. TypeOK'
    BY <1>1 DEF OperationFails, CutHere, TypeOK, DiskType, diskVars, GoesTo, JobKeeps
  <1>3. LockHeld'
    BY DEF OperationFails, Raise, LockHeld, diskVars, Locked, Undoing
  <1>4. PlansMade'
    BY DEF OperationFails, Raise, PlansMade, Made, Origin, diskVars, InSwap, Undoing
  <1>5. Importing'
    BY DEF OperationFails, Raise, Importing, diskVars, UnderLock, InSwap, Undoing
  <1>6. Rebuilding'
    BY DEF OperationFails, Raise, Rebuilding, diskVars, UnderLock, InSwap, Undoing
  <1>7. ChoicesFitPlan'
    BY DEF OperationFails, ChoicesFitPlan, diskVars
  <1>8. StageIsRemoved'
    BY DEF OperationFails, Raise, StageIsRemoved
  <1>9. Unmoved'
    BY DEF OperationFails, Raise, Unmoved
  <1> QED BY <1>2, <1>3, <1>4, <1>5, <1>6, <1>7, <1>8, <1>9

LEMMA StopInterruptsKeeps == ASSUME IInv, StopInterrupts PROVE IInv'
  <1> USE DEF IInv
  <1>1. GoesTo(Raise)
    BY JobFields, PcStep DEF StopInterrupts, Points, UnderLock, InSwap, Undoing, Raise
  <1>2. TypeOK'
    BY <1>1 DEF StopInterrupts, CutHere, TypeOK, DiskType, diskVars, GoesTo, JobKeeps
  <1>3. LockHeld'
    BY DEF StopInterrupts, Raise, LockHeld, diskVars, Locked, Undoing
  <1>4. PlansMade'
    BY DEF StopInterrupts, Raise, PlansMade, Made, Origin, diskVars, InSwap, Undoing
  <1>5. Importing'
    BY DEF StopInterrupts, Raise, Importing, diskVars, UnderLock, InSwap, Undoing
  <1>6. Rebuilding'
    BY DEF StopInterrupts, Raise, Rebuilding, diskVars, UnderLock, InSwap, Undoing
  <1>7. ChoicesFitPlan'
    BY DEF StopInterrupts, ChoicesFitPlan, diskVars
  <1>8. StageIsRemoved'
    BY DEF StopInterrupts, Raise, StageIsRemoved
  <1>9. Unmoved'
    BY DEF StopInterrupts, Raise, Unmoved
  <1> QED BY <1>2, <1>3, <1>4, <1>5, <1>6, <1>7, <1>8, <1>9

LEMMA StopsEarlyKeeps == ASSUME IInv, StopsEarly PROVE IInv'
  <1> USE DEF IInv
  <1>1. job' = NoJob
    BY DEF StopsEarly, End
  <1>2. TypeOK'
    BY <1>1 DEF StopsEarly, TypeOK, DiskType, diskVars
  <1>3. LockHeld'
    BY <1>1 DEF StopsEarly, NoJob, LockHeld, diskVars, Locked, UnderLock, InSwap, Undoing
  <1>4. PlansMade'
    BY <1>1 DEF StopsEarly, NoJob, PlansMade, Made, Origin, diskVars, InSwap, Undoing
  <1>5. Importing'
    BY <1>1 DEF NoJob, Importing
  <1>6. Rebuilding'
    BY <1>1 DEF NoJob, Rebuilding
  <1>7. ChoicesFitPlan'
    BY DEF StopsEarly, ChoicesFitPlan, diskVars
  <1>8. StageIsRemoved'
    BY DEF StopsEarly, StageIsRemoved, diskVars
  <1>9. Unmoved'
    BY <1>1 DEF NoJob, Unmoved
  <1> QED BY <1>2, <1>3, <1>4, <1>5, <1>6, <1>7, <1>8, <1>9

LEMMA StageStaysKeeps == ASSUME IInv, StageStays PROVE IInv'
  <1> USE DEF IInv
  <1>1. job' = NoJob
    BY DEF StageStays, End
  <1>2. TypeOK'
    BY <1>1 DEF StageStays, TypeOK, DiskType, diskVars
  <1>3. LockHeld'
    BY <1>1, NoneIsNew DEF StageStays, NoJob, LockHeld, diskVars, Locked, UnderLock, InSwap, Undoing
  <1>4. PlansMade'
    BY <1>1 DEF StageStays, NoJob, PlansMade, diskVars, Made, Origin, InSwap, Undoing
  <1>5. Importing'
    BY <1>1 DEF NoJob, Importing
  <1>6. Rebuilding'
    BY <1>1 DEF NoJob, Rebuilding
  <1>7. ChoicesFitPlan'
    BY DEF StageStays, ChoicesFitPlan, diskVars
  <1>8. StageIsRemoved'
    BY DEF StageStays, StageIsRemoved
  <1>9. Unmoved'
    BY <1>1 DEF NoJob, Unmoved
  <1> QED BY <1>2, <1>3, <1>4, <1>5, <1>6, <1>7, <1>8, <1>9

LEMMA CommandBeginsKeeps == ASSUME IInv, CommandBegins PROVE IInv'
  <1> USE DEF IInv
  <1>1. job' = job
    BY DEF CommandBegins
  <1>2. TypeOK'
    BY DEF CommandBegins, TypeOK, DiskType, diskVars
  <1>3. LockHeld'
    BY NoneIsNew DEF CommandBegins, LockHeld, diskVars
  <1>4. PlansMade'
    BY DEF CommandBegins, PlansMade, Made, Origin, diskVars
  <1>5. Importing'
    BY DEF CommandBegins, Importing, diskVars
  <1>6. Rebuilding'
    BY DEF CommandBegins, Rebuilding, diskVars
  <1>7. ChoicesFitPlan'
    BY DEF CommandBegins, ChoicesFitPlan, diskVars
  <1>8. StageIsRemoved'
    BY DEF CommandBegins, StageIsRemoved, diskVars
  <1>9. Unmoved'
    BY DEF CommandBegins, Unmoved
  <1> QED BY <1>2, <1>3, <1>4, <1>5, <1>6, <1>7, <1>8, <1>9

LEMMA CommandEndsKeeps == ASSUME IInv, CommandEnds PROVE IInv'
  <1> USE DEF IInv
  <1>1. job' = job
    BY DEF CommandEnds
  <1>2. TypeOK'
    BY DEF CommandEnds, TypeOK, DiskType
  <1>3. LockHeld'
    BY NoneIsNew DEF CommandEnds, LockHeld
  <1>4. PlansMade'
    BY DEF CommandEnds, PlansMade, Made, Origin
  <1>5. Importing'
    BY DEF CommandEnds, Importing
  <1>6. Rebuilding'
    BY DEF CommandEnds, Rebuilding
  <1>7. ChoicesFitPlan'
    BY DEF CommandEnds, ChoicesFitPlan
  <1>8. StageIsRemoved'
    BY DEF CommandEnds, StageIsRemoved
  <1>9. Unmoved'
    BY DEF CommandEnds, Unmoved
  <1> QED BY <1>2, <1>3, <1>4, <1>5, <1>6, <1>7, <1>8, <1>9

LEMMA SourceEditedKeeps == ASSUME IInv, SourceEdited PROVE IInv'
  <1> USE DEF IInv
  <1>1. \/ job' = job /\ job.pc \notin {"lock", "read"}
        \/ /\ JobKeeps /\ job'.pc = job.pc /\ job'.at = job.at /\ job'.moved = job.moved
           /\ job'.edited = TRUE
    BY JobFields, EditStep DEF SourceEdited
  <1>2. TypeOK'
    BY <1>1 DEF SourceEdited, TypeOK, DiskType, diskVars, JobKeeps
  <1>3. LockHeld'
    BY DEF SourceEdited, LockHeld, diskVars
  <1>4. PlansMade'
    BY DEF SourceEdited, PlansMade, Made, Origin, diskVars
  <1>5. Importing'
    BY DEF SourceEdited, Importing, diskVars
  <1>6. Rebuilding'
    BY DEF SourceEdited, Rebuilding, diskVars
  <1>7. ChoicesFitPlan'
    BY DEF SourceEdited, ChoicesFitPlan, diskVars
  <1>8. StageIsRemoved'
    BY DEF SourceEdited, StageIsRemoved, diskVars
  <1>9. Unmoved'
    BY <1>1 DEF Unmoved
  <1> QED BY <1>2, <1>3, <1>4, <1>5, <1>6, <1>7, <1>8, <1>9
-----------------------------------------------------------------------------
(* The renames and their records. *)

\* A rename changes one directory of a version.
Moves(p, d, x) == versions' = [versions EXCEPT ![p].dirs[d] = x]

LEMMA VersionStep ==
  ASSUME TypeOK, NEW p \in Plans, versions[p] # None, NEW d \in Part, NEW x \in Plan0,
         Moves(p, d, x)
  PROVE  /\ versions' \in [Plans -> Versions \cup {None}] /\ versions'[p] # None
         /\ versions'[p].dirs[d] = x
         /\ \A c \in Part : c # d => versions'[p].dirs[c] = versions[p].dirs[c]
         /\ \A q \in Plans : q # p => versions'[q] = versions[q]
  <1>1. versions \in [Plans -> Versions \cup {None}] /\ versions[p] \in Versions
    BY DEF TypeOK, DiskType
  <1>2. versions[p].dirs \in Layouts
    BY <1>1 DEF Versions
  <1> DEFINE dirs == [versions[p].dirs EXCEPT ![d] = x]
             v == [versions[p] EXCEPT !.dirs = dirs]
  <1>3. dirs \in Layouts /\ dirs[d] = x /\ \A c \in Part : c # d => dirs[c] = versions[p].dirs[c]
    BY <1>2, LayoutType DEF Layouts
  <1>4. v \in Versions /\ v.dirs = dirs
    BY <1>1, <1>3 DEF Versions
  <1>5. versions' = [versions EXCEPT ![p] = v]
    BY <1>1 DEF Moves
  <1>6. versions'[p] = v /\ versions' \in [Plans -> Versions \cup {None}]
        /\ \A q \in Plans : q # p => versions'[q] = versions[q]
    BY <1>1, <1>4, <1>5
  <1> QED BY <1>3, <1>4, <1>6, NoneIsNew

\* The worker during the swap and its rollback.
LEMMA SwapFields ==
  ASSUME IInv, job.pc \in (InSwap \ {"book"}) \cup Undoing
  PROVE  /\ job \in JobRecords /\ job.kind = "rebuild" /\ Swapping /\ job.pc \in Locked
         /\ job.plan \in Plans /\ job.old \in Plans /\ job.old # job.plan
         /\ stage \in Layouts /\ root \in Layouts
         /\ versions[job.plan] \in Versions /\ versions[job.plan] # None
         /\ versions[job.plan].dirs \in Layouts
         /\ Here \in Part /\ job.at \in 1 .. Len(Parts)
         /\ job.moved \in Seq({"old", "new"} \X Part)
  <1> USE DEF IInv
  <1>1. job \in JobRecords /\ job.kind = "rebuild"
    BY JobFields DEF InSwap, Undoing, Importing, JobRecords
  <1>2. job.plan \in Plans /\ job.old \in Plans /\ job.old # job.plan
    BY <1>1 DEF PlansMade, Rebuilding, UnderLock, Made, InSwap, Undoing
  <1>3. stage # None /\ versions[job.plan] # None
    BY <1>1 DEF Rebuilding, UnderLock
  <1>4. stage \in Layouts /\ root \in Layouts /\ versions[job.plan] \in Versions
    BY <1>2, <1>3 DEF TypeOK, DiskType
  <1>5. versions[job.plan].dirs \in Layouts
    BY <1>4 DEF Versions
  <1>6. job.at \in 1 .. Len(Parts) /\ job.moved \in Seq({"old", "new"} \X Part)
    BY <1>1 DEF JobRecords
  <1> QED BY <1>1, <1>2, <1>3, <1>4, <1>5, <1>6, PartsType DEF Swapping, Locked, UnderLock, Here

\* A step of the swap or the rollback that leaves the plan, its choices and the lock alone
\* keeps the invariant, when what it writes has its type.
LEMMA SwapStepKeeps ==
  ASSUME IInv, job.pc \in (InSwap \ {"book"}) \cup Undoing,
         JobKeeps, job'.pc \in (InSwap \ {"book", "installed"}) \cup {"undoMoves", "done"},
         job'.pc \in {"undoMoves"} => job.pc = "undoMoves",
         job.pc \in {"config", "installed", "undoBook", "undoConfig"} => job'.pc = "done",
         root' \in Layouts, stage' \in Layouts,
         versions' \in [Plans -> Versions \cup {None}], versions'[job.plan] # None,
         UNCHANGED <<source, setup, book, config, rows, work, lock, from, cut, deaths>>
  PROVE  IInv'
  <1> USE DEF IInv
  <1>1. /\ job.kind = "rebuild" /\ job \in JobRecords /\ job.pc \in Locked /\ job'.pc \in Locked
        /\ job'.pc \notin {"start", "lock", "idle", "read", "write", "register", "book", "installed"}
    BY SwapFields DEF Locked, UnderLock, InSwap
  <1>2. TypeOK'
    BY DEF TypeOK, DiskType, JobKeeps
  <1>3. PlansMade' /\ Unmoved' /\ Importing'
    BY DEF PlansMade, Made, Origin, Unmoved, Importing, JobKeeps, InSwap, Undoing
  <1>4. Rebuilding'
    BY NoneIsNew DEF Rebuilding, JobKeeps, UnderLock, InSwap, Undoing
  <1>5. LockHeld' /\ ChoicesFitPlan' /\ StageIsRemoved'
    BY <1>1 DEF LockHeld, ChoicesFitPlan, StageIsRemoved
  <1> QED BY <1>2, <1>3, <1>4, <1>5

LEMMA MoveOldKeeps == ASSUME IInv, MoveOld PROVE IInv'
  <1>1. job.pc = "old" /\ UNCHANGED <<source, setup, book, stage, config, rows, work, lock, from, cut, deaths>>
    BY DEF MoveOld
  <1>2. /\ job \in JobRecords /\ job.plan \in Plans /\ Here \in Part
        /\ stage \in Layouts /\ root \in Layouts /\ versions[job.plan] # None
    BY <1>1, SwapFields DEF InSwap
  <1>3. CASE root[Here] = 0
    <2>1. GoesTo("new") /\ UNCHANGED <<root, versions>>
      BY <1>2, <1>3, PcStep DEF MoveOld, Points, UnderLock, InSwap
    <2> QED BY <1>1, <1>2, <2>1, SwapStepKeeps DEF GoesTo, InSwap, IInv, TypeOK, DiskType
  <1>4. CASE root[Here] # 0
    <2>1. GoesTo("noteOld")
      BY <1>2, <1>4, PcStep DEF MoveOld, Points, UnderLock, InSwap
    <2>2. root[Here] \in Plan0 /\ 0 \in Plan0
      BY <1>2, LayoutType DEF Plan0
    <2>3. Moves(job.plan, Here, root[Here])
      BY <1>4 DEF MoveOld, Moves
    <2>4. versions' \in [Plans -> Versions \cup {None}] /\ versions'[job.plan] # None
      BY <1>2, <2>2, <2>3, VersionStep DEF IInv
    <2>5. root' \in Layouts
      BY <1>2, <1>4, <2>2, LayoutType DEF MoveOld
    <2> QED BY <1>1, <1>2, <2>1, <2>4, <2>5, SwapStepKeeps DEF GoesTo, InSwap
  <1> QED BY <1>3, <1>4

LEMMA MoveNewKeeps == ASSUME IInv, MoveNew PROVE IInv'
  <1>1. job.pc = "new" /\ UNCHANGED <<source, setup, book, versions, config, rows, work, lock, from, cut, deaths>>
    BY DEF MoveNew
  <1>2. /\ job \in JobRecords /\ job.plan \in Plans /\ Here \in Part
        /\ stage \in Layouts /\ root \in Layouts /\ versions[job.plan] # None
        /\ job.moved \in Seq({"old", "new"} \X Part)
    BY <1>1, SwapFields DEF InSwap
  <1>3. versions' \in [Plans -> Versions \cup {None}] /\ versions'[job.plan] # None
    BY <1>1, <1>2 DEF IInv, TypeOK, DiskType
  <1>4. CASE stage[Here] = 0
    <2>1. PartEnds(job.moved) /\ UNCHANGED <<root, stage>>
      BY <1>2, <1>4, PartStep DEF MoveNew
    <2> QED BY <1>1, <1>2, <1>3, <2>1, SwapStepKeeps DEF PartEnds, InSwap
  <1>5. CASE stage[Here] # 0
    <2>1. GoesTo("noteNew")
      BY <1>2, <1>5, PcStep DEF MoveNew, Points, UnderLock, InSwap
    <2>2. stage[Here] \in Plan0 /\ 0 \in Plan0
      BY <1>2, LayoutType DEF Plan0
    <2>3. root' \in Layouts /\ stage' \in Layouts
      BY <1>2, <1>5, <2>2, LayoutType DEF MoveNew
    <2> QED BY <1>1, <1>3, <2>1, <2>3, SwapStepKeeps DEF GoesTo, InSwap
  <1> QED BY <1>4, <1>5

\* What a record adds.
LEMMA RecordShape ==
  ASSUME IInv, RecordMove
  PROVE  /\ UNCHANGED <<source, diskVars, lock, from, cut, deaths>>
         /\ \/ /\ job.pc = "noteOld" /\ JobKeeps /\ job'.pc = "new" /\ job'.at = job.at
               /\ job'.moved = Append(job.moved, <<"old", Here>>)
            \/ job.pc = "noteNew" /\ PartEnds(Append(job.moved, <<"new", Here>>))
  <1>1. job.pc \in {"noteOld", "noteNew"}
    BY DEF RecordMove
  <1>2. job \in JobRecords /\ Here \in Part /\ job.moved \in Seq({"old", "new"} \X Part)
    BY <1>1, SwapFields DEF InSwap
  <1>3. /\ Append(job.moved, <<"old", Here>>) \in Seq({"old", "new"} \X Part)
        /\ Append(job.moved, <<"new", Here>>) \in Seq({"old", "new"} \X Part)
    BY <1>2
  <1>4. CASE job.pc = "noteOld"
    <2>1. job' = [job EXCEPT !.pc = "new", !.moved = Append(job.moved, <<"old", Here>>)]
      BY <1>4 DEF RecordMove
    <2> QED BY <1>2, <1>3, <1>4, RecordStep DEF RecordMove, Points, UnderLock, InSwap
  <1>5. CASE job.pc = "noteNew"
    <2>1. AfterPart.moved = job.moved
      BY <1>2 DEF AfterPart, JobRecords
    <2>2. job' = [AfterPart EXCEPT !.moved = Append(job.moved, <<"new", Here>>)]
      BY <1>5, <2>1 DEF RecordMove
    <2> QED BY <1>2, <1>3, <1>5, <2>2, PartStep DEF RecordMove
  <1> QED BY <1>1, <1>4, <1>5

LEMMA RecordMoveKeeps == ASSUME IInv, RecordMove PROVE IInv'
  <1>1. job.pc \in {"noteOld", "noteNew"} /\ UNCHANGED <<source, diskVars, lock, from, cut, deaths>>
    BY DEF RecordMove
  <1>2. /\ job.plan \in Plans /\ stage \in Layouts /\ root \in Layouts
        /\ versions[job.plan] # None
    BY <1>1, SwapFields DEF InSwap
  <1>3. JobKeeps /\ job'.pc \in {"new", "old", "config"}
    BY RecordShape DEF PartEnds
  <1> QED BY <1>1, <1>2, <1>3, SwapStepKeeps DEF InSwap, IInv, TypeOK, DiskType, diskVars

LEMMA UndoNewKeeps == ASSUME IInv, UndoNew PROVE IInv'
  <1>1. /\ job.pc = "undoMoves" /\ job.moved # <<>> /\ job' = Undone
        /\ UNCHANGED <<source, setup, book, versions, config, rows, work, lock, from, cut, deaths>>
    BY DEF UndoNew
  <1>2. /\ job \in JobRecords /\ job.plan \in Plans /\ stage \in Layouts /\ root \in Layouts
        /\ versions[job.plan] # None
    BY <1>1, SwapFields DEF Undoing
  <1>3. JobKeeps /\ job'.pc = "undoMoves" /\ LastMove[2] \in Part
    BY <1>1, <1>2, UndoneStep
  <1>4. root' \in Layouts /\ stage' \in Layouts
    <2>1. root[LastMove[2]] \in Plan0 /\ 0 \in Plan0
      BY <1>2, <1>3, LayoutType DEF Plan0
    <2> QED BY <1>2, <1>3, <2>1, LayoutType DEF UndoNew
  <1> QED BY <1>1, <1>2, <1>3, <1>4, SwapStepKeeps DEF Undoing, IInv, TypeOK, DiskType

LEMMA UndoOldKeeps == ASSUME IInv, UndoOld PROVE IInv'
  <1>1. /\ job.pc = "undoMoves" /\ job.moved # <<>>
        /\ UNCHANGED <<source, setup, book, stage, config, rows, work, lock, from, cut, deaths>>
    BY DEF UndoOld
  <1>2. /\ job \in JobRecords /\ job.plan \in Plans /\ stage \in Layouts /\ root \in Layouts
        /\ versions[job.plan] # None /\ versions[job.plan].dirs \in Layouts
    BY <1>1, SwapFields DEF Undoing
  <1> DEFINE d == LastMove[2]
  <1>3. CASE root[d] # 0
    <2>1. GoesTo("done") /\ UNCHANGED <<root, versions>>
      BY <1>2, <1>3, PcStep DEF UndoOld, Points
    <2> QED BY <1>1, <1>2, <2>1, SwapStepKeeps DEF GoesTo, Undoing, IInv, TypeOK, DiskType
  <1>4. CASE root[d] = 0
    <2>1. job' = Undone
      BY <1>4 DEF UndoOld
    <2>2. JobKeeps /\ job'.pc = "undoMoves" /\ d \in Part
      BY <1>1, <1>2, <2>1, UndoneStep
    <2>3. versions[job.plan].dirs[d] \in Plan0 /\ 0 \in Plan0
      BY <1>2, <2>2, LayoutType DEF Plan0
    <2>4. Moves(job.plan, d, 0)
      BY <1>4 DEF UndoOld, Moves
    <2>5. versions' \in [Plans -> Versions \cup {None}] /\ versions'[job.plan] # None
      BY <1>2, <2>2, <2>3, <2>4, VersionStep DEF IInv
    <2>6. root' \in Layouts
      BY <1>2, <2>2, LayoutType DEF UndoOld
    <2> QED BY <1>1, <1>2, <2>2, <2>5, <2>6, SwapStepKeeps DEF Undoing
  <1> QED BY <1>3, <1>4

-----------------------------------------------------------------------------
(* The invariant of every build. *)

LEMMA InitKeeps == ASSUME Init PROVE IInv
  <1> USE DEF Init
  <1>1. /\ job = NoJob /\ stage = None /\ lock = None /\ config = 0 /\ work = FALSE
        /\ source = 1 /\ cut = {} /\ deaths = 0 /\ versions = [p \in Plans |-> None]
    OBVIOUS
  <1>2. /\ setup \in Nat \cup {None} /\ book \in Plan0 /\ root \in Layouts /\ rows \subseteq Plans
        /\ from \in [Plans -> Origins \cup {None}]
        /\ rows \subseteq Made /\ (book # 0 => book \in rows)
        /\ setup # None => Made = {}
    <2>1. CASE setup = 1 /\ book = 0 /\ root = NoDirs /\ rows = {} /\ from = [p \in Plans |-> None]
      BY <2>1, LayoutType DEF Plan0, Made
    <2>2. CASE /\ setup = None /\ book = 1 /\ rows = {1}
               /\ root = [d \in Part |-> IF d \in Dirs[1] THEN 1 ELSE 0]
               /\ from = [p \in Plans |-> IF p = 1 THEN [source |-> 1, edited |-> FALSE] ELSE None]
      <3>1. root = Whole(1) /\ 1 \in Plans
        BY <2>2, PlansType DEF Whole
      <3>2. [source |-> 1, edited |-> FALSE] \in Origins
        BY DEF Origins
      <3>3. [source |-> 1, edited |-> FALSE] # None
        BY <3>2, NoneIsNew
      <3> QED BY <2>2, <3>1, <3>2, <3>3, LayoutType DEF Plan0, Made
    <2> QED BY <2>1, <2>2
  <1>3. TypeOK
    <2>1. versions \in [Plans -> Versions \cup {None}] /\ stage \in Layouts \cup {None}
      BY <1>1
    <2>2. DiskType
      BY <1>1, <1>2, <2>1 DEF DiskType, Plan0
    <2> QED BY <1>1, <1>2, <2>2 DEF TypeOK
  <1>4. job.pc = "idle" /\ job.kind = "none"
    BY <1>1 DEF NoJob
  <1> QED BY <1>2, <1>3, <1>4, NoneIsNew DEF IInv, LockHeld, Locked, UnderLock, InSwap, Undoing,
             PlansMade, Unmoved, Importing, Rebuilding, ChoicesFitPlan, StageIsRemoved

LEMMA StutterKeeps == ASSUME IInv, UNCHANGED vars PROVE IInv'
  BY DEF IInv, vars, diskVars, TypeOK, DiskType, LockHeld, PlansMade, Made, Origin, Unmoved,
     Importing, Rebuilding, ChoicesFitPlan, StageIsRemoved

LEMMA StepKeeps == ASSUME IInv, [Next]_vars PROVE IInv'
  BY StutterKeeps, PrepareKeeps, ReprepareKeeps, ConfigureKeeps, WorkerStartsKeeps,
     WorkerRefusesKeeps, WorkerLocksKeeps, WorkerIsRefusedKeeps, ReadSourceKeeps,
     WriteDirectoryKeeps, ImportWrittenKeeps, PutVersionAsideKeeps, RegisterChunksKeeps,
     MoveOldKeeps, MoveNewKeeps, RecordMoveKeeps, ResetChoicesKeeps, InstallBookKeeps,
     SwapEndsKeeps, WorkerEndsKeeps, OperationFailsKeeps, StopInterruptsKeeps, StopsEarlyKeeps,
     StageStaysKeeps, UndoBookKeeps,
     UndoConfigKeeps, UndoNewKeeps, UndoOldKeeps, RemoveVersionKeeps, WorkerDiesKeeps,
     CommandBeginsKeeps, CommandEndsKeeps, SourceEditedKeeps DEF Next

LEMMA Inductive == Spec => []IInv
  BY InitKeeps, StepKeeps, PTL DEF Spec

\* Every variable has its type: in particular a version that is put aside is never read
\* or changed after it was removed, and no directory of a stage that is gone is moved.
THEOREM TypeCorrect == Spec => []TypeOK
  <1>1. IInv => TypeOK
    BY DEF IInv
  <1> QED BY <1>1, Inductive, PTL

\* Choices are never read against the sections of another plan, also between the writes of
\* a rebuild and of its rollback, and after a death between any two of them.
THEOREM ChoicesFit == Spec => []ChoicesFitPlan
  <1>1. IInv => ChoicesFitPlan
    BY DEF IInv
  <1> QED BY <1>1, Inductive, PTL

\* A configured workspace holds a plan of the source it was configured for, whenever the
\* source is edited, and also after a rollback.
THEOREM MadeFromSource == Spec => []MadeFromSelected
  <1>1. IInv => MadeFromSelected
    BY DEF IInv, PlansMade, MadeFromSelected, Origin
  <1> QED BY <1>1, Inductive, PTL

\* A plan with results is not replaced: who makes results holds the lock, and a rebuild
\* checks for them once it has the lock.
THEOREM WorkKept == Spec => WorkIsKept
  <1>1. IInv /\ [Next]_vars => [book' # book => ~ work]_vars
    <2> SUFFICES ASSUME IInv, Next, book' # book PROVE ~ work
      OBVIOUS
    <2>1. InstallBook \/ UndoBook
      BY DEF Next, Prepare, Reprepare, Configure, WorkerStarts, WorkerRefuses, WorkerLocks,
         WorkerIsRefused, ReadSource, WriteDirectory, ImportWritten, PutVersionAside,
         RegisterChunks, MoveOld, MoveNew, RecordMove, ResetChoices, SwapEnds, WorkerEnds,
         OperationFails, StopInterrupts, StopsEarly, StageStays, UndoConfig, UndoNew, UndoOld,
         RemoveVersion, WorkerDies,
         CommandBegins, CommandEnds, SourceEdited, diskVars
    <2> QED BY <2>1 DEF InstallBook, UndoBook, IInv, LockHeld, Locked, UnderLock, InSwap, Undoing
  <1> QED BY <1>1, Inductive, PTL DEF Spec, WorkIsKept

-----------------------------------------------------------------------------
(* The list of renames. *)

Renames == {"old", "new"} \X Part

LEMMA AppendIsRecorded ==
  ASSUME NEW m \in Seq(Renames), NEW w \in {"old", "new"}, NEW v \in {"old", "new"}, NEW d \in Part
  PROVE  Recorded(Append(m, <<w, d>>), v) = Recorded(m, v) \cup (IF v = w THEN {d} ELSE {})
  <1> DEFINE n == Append(m, <<w, d>>)
  <1>1. /\ Len(n) = Len(m) + 1 /\ Len(m) \in Nat /\ n[Len(m) + 1] = <<w, d>>
        /\ \A k \in 1 .. Len(m) : n[k] = m[k]
    BY AppendProperties DEF Renames
  <1> HIDE DEF n
  <1>2. \A c \in Part : c \in Recorded(n, v) <=> c \in Recorded(m, v) \/ (v = w /\ c = d)
    BY <1>1 DEF Recorded
  <1> QED BY <1>2 DEF n, Recorded

LEMMA AppendIsStack ==
  ASSUME NEW m \in Seq(Renames), NEW w \in {"old", "new"}, NEW d \in Part, Stack(m),
         d \notin Recorded(m, w), w = "old" => d \notin Recorded(m, "new")
  PROVE  Stack(Append(m, <<w, d>>))
  <1> DEFINE n == Append(m, <<w, d>>)
  <1>1. /\ Len(n) = Len(m) + 1 /\ Len(m) \in Nat /\ n[Len(m) + 1] = <<w, d>>
        /\ \A k \in 1 .. Len(m) : n[k] = m[k] /\ m[k] \in Renames
    BY AppendProperties DEF Renames
  <1> HIDE DEF n
  <1>2. \A k \in 1 .. Len(m) : m[k] # <<w, d>> /\ (w = "old" => m[k] # <<"new", d>>)
    BY DEF Recorded
  <1>3. \A k \in 1 .. Len(m) : m[k] = <<m[k][1], m[k][2]>>
    BY <1>1 DEF Renames
  <1>4. ASSUME NEW k \in 1 .. Len(n), NEW l \in 1 .. Len(n)
        PROVE  /\ n[k] = n[l] => k = l
               /\ n[k][1] = "new" /\ n[l][1] = "old" /\ n[k][2] = n[l][2] => l < k
    <2>1. \A i \in 1 .. Len(n) : i \in Nat /\ (i \in 1 .. Len(m) \/ i = Len(m) + 1)
      BY <1>1
    <2>2. CASE k \in 1 .. Len(m) /\ l \in 1 .. Len(m)
      BY <1>1, <2>2 DEF Stack
    <2>3. CASE k = Len(m) + 1 /\ l = Len(m) + 1
      BY <1>1, <2>3
    <2>4. CASE k = Len(m) + 1 /\ l \in 1 .. Len(m)
      BY <1>1, <1>2, <2>4
    <2>5. CASE k \in 1 .. Len(m) /\ l = Len(m) + 1
      BY <1>1, <1>2, <1>3, <2>5
    <2> QED BY <1>4, <2>1, <2>2, <2>3, <2>4, <2>5
  <1>5. Stack(n)
    BY <1>4 DEF Stack
  <1> QED BY <1>5 DEF n

LEMMA FrontIsRecorded ==
  ASSUME NEW m \in Seq(Renames), m # <<>>, Stack(m), NEW v \in {"old", "new"}
  PROVE  LET last == m[Len(m)]
         IN  /\ last \in Renames /\ last[2] \in Recorded(m, last[1])
             /\ Recorded(Front(m), v) = Recorded(m, v) \ (IF v = last[1] THEN {last[2]} ELSE {})
             /\ Stack(Front(m))
             /\ last[1] = "old" => last[2] \notin Recorded(m, "new")
  <1> DEFINE last == m[Len(m)]
             n == Front(m)
  <1>1. /\ Len(m) \in Nat \ {0} /\ Len(n) = Len(m) - 1
        /\ \A k \in 1 .. Len(n) : n[k] = m[k]
        /\ \A k \in 1 .. Len(m) : m[k] \in Renames
    <2>1. Len(m) \in Nat \ {0} /\ \A k \in 1 .. Len(m) : m[k] \in Renames
      OBVIOUS
    <2>2. 1 \in Int /\ Len(m) - 1 \in Int /\ \A k \in 1 .. Len(m) - 1 : m[k] \in Renames
      BY <2>1
    <2>3. /\ Len(SubSeq(m, 1, Len(m) - 1)) =
                IF 1 <= Len(m) - 1 THEN Len(m) - 1 - 1 + 1 ELSE 0
          /\ \A k \in 1 .. Len(m) - 1 - 1 + 1 : SubSeq(m, 1, Len(m) - 1)[k] = m[1 + k - 1]
      BY <2>2, SubSeqProperties
    <2>4. /\ \A k \in Nat : 1 + k - 1 = k
          /\ \A i \in Nat \ {0} : i - 1 - 1 + 1 = i - 1 /\ (~ (1 <= i - 1) => i - 1 = 0)
      OBVIOUS
    <2>5. Len(SubSeq(m, 1, Len(m) - 1)) = Len(m) - 1
      BY <2>1, <2>3, <2>4
    <2>6. \A k \in 1 .. Len(m) - 1 : SubSeq(m, 1, Len(m) - 1)[k] = m[k]
      <3> TAKE k \in 1 .. Len(m) - 1
      <3>1. k \in 1 .. Len(m) - 1 - 1 + 1 /\ 1 + k - 1 = k
        BY <2>1, <2>4
      <3>2. SubSeq(m, 1, Len(m) - 1)[k] = m[1 + k - 1]
        BY <2>3, <3>1
      <3> QED BY <3>1, <3>2
    <2> QED BY <2>1, <2>5, <2>6 DEF Front
  <1> HIDE DEF n
  <1>2. last \in Renames /\ last = <<last[1], last[2]>> /\ last[2] \in Part
    BY <1>1 DEF Renames
  <1>3. last[2] \in Recorded(m, last[1])
    BY <1>1, <1>2 DEF Recorded
  <1>4. \A k \in 1 .. Len(n) : n[k] # last
    BY <1>1 DEF Stack
  <1>5. \A c \in Part : c \in Recorded(n, v) <=> c \in Recorded(m, v) /\ <<v, c>> # last
    BY SMTT(30), <1>1, <1>4 DEF Recorded
  <1>6. Recorded(n, v) = Recorded(m, v) \ (IF v = last[1] THEN {last[2]} ELSE {})
    <2>1. \A c \in Part : <<v, c>> = last <=> v = last[1] /\ c = last[2]
      BY <1>2
    <2>2. Recorded(n, v) \subseteq Part /\ Recorded(m, v) \subseteq Part
      BY DEF Recorded
    <2> HIDE DEF last
    <2> QED BY <1>5, <2>1, <2>2
  <1>7. Stack(n)
    BY <1>1 DEF Stack
  <1>8. last[1] = "old" => last[2] \notin Recorded(m, "new")
    <2>1. ASSUME NEW k \in 1 .. Len(m), last[1] = "old", m[k] = <<"new", last[2]>> PROVE FALSE
      BY <1>1, <2>1 DEF Stack
    <2> QED BY <2>1 DEF Recorded
  <1> QED BY <1>3, <1>6, <1>7, <1>8 DEF n

-----------------------------------------------------------------------------
(* The invariant of the swap, as long as no stop has fallen between a      *)
(* rename and its record.                                                  *)

LEMMA HereType ==
  ASSUME IInv, job.pc \in (InSwap \ {"book"}) \cup Undoing
  PROVE  /\ Here \in Part
         /\ \A i \in 1 .. Len(Parts) : Parts[i] = Here <=> i = job.at
  BY SwapFields, PartsType DEF Here

LEMMA LayoutIsWhole ==
  ASSUME NEW f \in Layouts, NEW p \in Plans, \A d \in Part : f[d] = Whole(p)[d]
  PROVE  f = Whole(p)
  <1>1. f = [d \in Part |-> f[d]] /\ Whole(p) = [d \in Part |-> Whole(p)[d]]
    BY DEF Layouts, Whole
  <1> QED BY <1>1

\* What is on disk during the swap is enough to put the old plan back.
LEMMA SwapSurvives == IInv /\ Swapping /\ SwapIsTracked => PlanSurvives
  <1> SUFFICES ASSUME IInv, Swapping, SwapIsTracked, book # 0
               PROVE  book \in rows /\ ("record" \notin cut => \A d \in Dirs[book] : Kept(d, book))
    BY DEF PlanSurvives
  <1> USE DEF IInv
  <1>1. book \in rows /\ job.kind = "rebuild" /\ job.pc \in UnderLock \cup Undoing
    BY DEF PlansMade, Swapping, UnderLock
  <1>2. job.plan \in Plans /\ job.old \in Plans /\ versions[job.plan] # None
    BY <1>1 DEF Swapping, PlansMade, Made, Rebuilding
  <1>3. ASSUME "record" \notin cut, book = job.old, NEW d \in Dirs[job.old]
        PROVE  Kept(d, job.old)
    <2>1. d \in Part /\ job.old # 0 /\ (Found(d) = job.old \/ InVersion(d))
      BY <1>2, <1>3, PlansType DEF SwapIsTracked, Restorable
    <2>2. CASE InVersion(d)
      BY <2>2 DEF InVersion, Kept
    <2>3. CASE Found(d) = job.old
      BY <1>2, <2>1, <2>3 DEF Found, Kept
    <2> QED BY <2>1, <2>2, <2>3
  <1>4. ASSUME "record" \notin cut, book = job.plan, job.pc \in {"installed", "undoBook"},
               NEW d \in Dirs[job.plan]
        PROVE  Kept(d, job.plan)
    <2>1. d \in Part /\ d \in Through
      BY <1>2, <1>4, PlansType DEF SwapIsTracked, Progress
    <2> QED BY <1>4, <2>1 DEF Through, Whole, Kept
  <1>5. book = job.old \/ (book = job.plan /\ job.pc \in {"installed", "undoBook"})
    BY <1>1 DEF Rebuilding
  <1> QED BY <1>1, <1>3, <1>4, <1>5

LEMMA WholeSurvives == IInv /\ (book # 0 => root = Whole(book)) => PlanSurvives
  <1> SUFFICES ASSUME IInv, book # 0, root = Whole(book)
               PROVE  book \in rows /\ \A d \in Dirs[book] : Kept(d, book)
    BY DEF PlanSurvives
  <1>1. book \in rows /\ book \in Plans
    BY DEF IInv, PlansMade, TypeOK, DiskType
  <1> QED BY <1>1, PlansType DEF Whole, Kept

\* What the tracked state says where the swap ends.
LEMMA SwapDone ==
  ASSUME IInv, Swapping, Part \subseteq Through
  PROVE  root = Whole(job.plan)
  <1>1. /\ root \in Layouts /\ job.plan \in Plans
    BY DEF IInv, TypeOK, DiskType, PlansMade, Made, Swapping
  <1>2. ASSUME NEW d \in Part PROVE root[d] = Whole(job.plan)[d]
    BY DEF Through
  <1> QED BY <1>1, <1>2, LayoutIsWhole

LEMMA SwapUndone ==
  ASSUME IInv, Swapping, SwapIsTracked, Uncut, job.pc = "undoMoves", job.moved = <<>>
  PROVE  root = Whole(job.old)
  <1>1. /\ root \in Layouts /\ job.old \in Plans
    BY DEF IInv, TypeOK, DiskType, Swapping, Rebuilding, UnderLock
  <1>2. OldMoved = {} /\ NewMoved = {}
    BY DEF OldMoved, NewMoved, Recorded
  <1>3. "record" \notin cut
    BY DEF Uncut
  <1>4. ASSUME NEW d \in Part PROVE root[d] = Whole(job.old)[d]
    BY <1>2, <1>3, <1>4 DEF SwapIsTracked, Restorable, Found
  <1> QED BY <1>1, <1>4, LayoutIsWhole

\* A step after which the same is found leaves it restorable.
LEMMA FoundStays ==
  ASSUME Restorable, JobKeeps, job.old \in Plans, UNCHANGED cut,
         \A d \in Part : Found(d)' = Found(d),
         \A q \in Plans \ {job.plan} : versions'[q] = versions[q]
  PROVE  Restorable'
  <1>1. job'.old = job.old /\ job'.plan = job.plan /\ Dirs[job.old] \subseteq Part
    BY PlansType DEF JobKeeps
  <1>2. \A d \in Part : InVersion(d) => InVersion(d)'
    BY <1>1 DEF InVersion
  <1>3. Uncut' = Uncut
    BY DEF Uncut
  <1> QED BY <1>1, <1>2, <1>3 DEF Restorable, Whole

\* A step of the swap that moves nothing.
LEMMA NothingMoves ==
  ASSUME Placed, Restorable, JobKeeps, job.old \in Plans,
         OldMoved' = OldMoved, NewMoved' = NewMoved, UNCHANGED <<root, stage, versions, cut>>
  PROVE  Placed' /\ Restorable' /\ Through' = Through
  <1>1. job'.plan = job.plan
    BY DEF JobKeeps
  <1>2. Placed'
    BY <1>1 DEF Placed, Whole
  <1>3. \A d \in Part : Found(d)' = Found(d)
    BY <1>1 DEF Found
  <1>4. Restorable'
    BY <1>3, FoundStays
  <1> QED BY <1>1, <1>2, <1>4 DEF Through, Whole

LEMMA RegisterTracks ==
  ASSUME IInv, SwapInv, "record" \notin cut, RegisterChunks, job.kind = "rebuild"
  PROVE  SwapIsTracked'
  <1> USE DEF IInv
  <1>1. /\ job \in JobRecords /\ job.pc = "register" /\ GoesTo("old")
        /\ UNCHANGED <<root, stage, versions, book, cut>>
    BY JobFields, PcStep DEF RegisterChunks, Points, UnderLock, InSwap
  <1>2. /\ job.moved = <<>> /\ job.at = 1 /\ job.old \in Plans /\ job.plan \in Plans
        /\ book = job.old /\ book # 0 /\ lock = "worker" /\ ~ Swapping
    BY <1>1, PlansType DEF Unmoved, Rebuilding, PlansMade, Made, UnderLock, LockHeld, Locked,
       Swapping, InSwap, Undoing
  <1>3. stage = Whole(job.plan) /\ versions[job.plan].dirs = NoDirs
    BY <1>1 DEF Rebuilding, UnderLock
  <1>4. OldMoved' = {} /\ NewMoved' = {} /\ job'.plan = job.plan /\ job'.old = job.old
    BY <1>1, <1>2 DEF OldMoved, NewMoved, Recorded, GoesTo, JobKeeps
  <1>5. Placed'
    BY <1>1, <1>3, <1>4 DEF Placed, NoDirs, Whole
  <1>6. Restorable'
    <2>1. \A d \in Part : Found(d)' = root[d]
      BY <1>1, <1>4 DEF Found
    <2>2. ASSUME NEW d \in Dirs[job.old] PROVE Found(d)' = job.old \/ InVersion(d)'
      <3>1. d \in Part /\ Kept(d, job.old)
        BY <1>2, PlansType DEF SwapInv, PlanSurvives
      <3>2. CASE root[d] = job.old
        BY <2>1, <3>1, <3>2
      <3>3. ASSUME NEW q \in Plans, versions[q] # None, versions[q].dirs[d] = job.old
            PROVE  InVersion(d)'
        <4>1. q # job.plan
          BY <1>2, <1>3, <3>1, <3>3 DEF NoDirs
        <4> QED BY <1>1, <1>4, <3>3, <4>1 DEF InVersion
      <3> QED BY <3>1, <3>2, <3>3 DEF Kept
    <2>3. Uncut' => root = Whole(job.old)
      BY <1>1, <1>2 DEF SwapInv, Settled, Sound, Uncut
    <2> QED BY <1>2, <1>4, <2>1, <2>2, <2>3, PlansType DEF Restorable, Whole
  <1>7. Stack(job'.moved)
    BY <1>1, <1>2 DEF Stack, GoesTo
  <1>8. Progress'
    BY <1>1, <1>2, <1>4 DEF Progress, GoesTo, Recorded
  <1> QED BY <1>5, <1>6, <1>7, <1>8 DEF SwapIsTracked

\* A rename of Here leaves the other directories where they are.
LEMMA OthersStay ==
  ASSUME IInv, job.pc \in {"old", "new"}, Progress, job'.plan = job.plan,
         \A c \in Part : c # Here => root'[c] = root[c],
         OldMoved' \subseteq OldMoved \cup {Here}, NewMoved' \subseteq NewMoved \cup {Here},
         NEW i \in 1 .. Len(Parts)
  PROVE  /\ i < job.at => Parts[i] \in Through'
         /\ i > job.at => Parts[i] \notin OldMoved' \cup NewMoved'
  <1>1. Parts[i] \in Part /\ job.at \in Nat /\ i \in Nat
    BY SwapFields, PartsType DEF InSwap
  <1>2. i # job.at => Parts[i] # Here
    BY HereType DEF InSwap
  <1>3. /\ i < job.at => Parts[i] \in Through
        /\ i > job.at => Parts[i] \notin OldMoved \cup NewMoved
    BY DEF Progress
  <1>4. Parts[i] # Here /\ Parts[i] \in Through => Parts[i] \in Through'
    BY <1>1 DEF Through, Whole
  <1> QED BY <1>1, <1>2, <1>3, <1>4

LEMMA MoveOldTracks == ASSUME IInv, SwapInv, "record" \notin cut, MoveOld PROVE SwapIsTracked'
  <1>1. job.pc = "old" /\ UNCHANGED <<book, stage, cut>>
    BY DEF MoveOld
  <1>2. /\ job \in JobRecords /\ job.plan \in Plans /\ job.old \in Plans
        /\ Swapping /\ Here \in Part /\ root \in Layouts /\ versions[job.plan] # None
        /\ job.at \in 1 .. Len(Parts)
        /\ \A i \in 1 .. Len(Parts) : Parts[i] = Here <=> i = job.at
    BY <1>1, SwapFields, HereType DEF InSwap
  <1>3. /\ Placed /\ Restorable /\ Stack(job.moved) /\ Progress
        /\ Here \notin OldMoved /\ Here \notin NewMoved
        /\ OldMoved = Recorded(job.moved, "old") /\ NewMoved = Recorded(job.moved, "new")
    BY <1>1, <1>2 DEF SwapInv, SwapIsTracked, Progress, OldMoved, NewMoved
  <1>4. CASE root[Here] = 0
    <2>1. GoesTo("new") /\ UNCHANGED <<root, versions>>
      BY <1>2, <1>4, PcStep DEF MoveOld, Points, UnderLock, InSwap
    <2>2. OldMoved' = OldMoved /\ NewMoved' = NewMoved /\ Here' = Here
      BY <1>1, <2>1 DEF OldMoved, NewMoved, GoesTo, Here
    <2>3. Placed' /\ Restorable' /\ Through' = Through
      BY <1>1, <1>2, <1>3, <2>1, <2>2, NothingMoves DEF GoesTo
    <2>4. Progress'
      BY <1>1, <1>3, <1>4, <2>1, <2>2, <2>3 DEF Progress, GoesTo, JobKeeps
    <2> QED BY <1>3, <2>1, <2>3, <2>4 DEF SwapIsTracked, GoesTo
  <1>5. CASE root[Here] # 0
    <2>1. /\ GoesTo("noteOld") /\ root' = [root EXCEPT ![Here] = 0]
          /\ versions' = [versions EXCEPT ![job.plan].dirs[Here] = root[Here]]
      BY <1>2, <1>5, PcStep DEF MoveOld, Points, UnderLock, InSwap
    <2>2. /\ OldMoved' = OldMoved \cup {Here} /\ NewMoved' = NewMoved /\ Here' = Here
          /\ job'.plan = job.plan
      BY <1>1, <2>1 DEF OldMoved, NewMoved, GoesTo, Here, JobKeeps
    <2>3. /\ versions'[job.plan].dirs[Here] = root[Here]
          /\ \A c \in Part : c # Here => versions'[job.plan].dirs[c] = versions[job.plan].dirs[c]
          /\ \A q \in Plans \ {job.plan} : versions'[q] = versions[q]
      <3>1. TypeOK /\ job.plan \in Plans /\ versions[job.plan] # None /\ Here \in Part
            /\ root[Here] \in Plan0
        BY <1>2, LayoutType DEF IInv
      <3>2. Moves(job.plan, Here, root[Here])
        BY <2>1 DEF Moves
      <3> QED BY <3>1, <3>2, VersionStep
    <2>4. root'[Here] = 0 /\ \A c \in Part : c # Here => root'[c] = root[c]
      BY <1>2, <2>1 DEF Layouts
    <2>5. Placed'
      BY <1>1, <1>3, <2>2, <2>3, <2>4 DEF Placed, Whole
    <2>6. \A d \in Part : Found(d)' = Found(d)
      BY <1>3, <2>2, <2>3, <2>4 DEF Found
    <2>7. Restorable'
      BY <1>1, <1>2, <1>3, <2>1, <2>3, <2>6, FoundStays DEF GoesTo
    <2>8. Progress'
      <3>1. ASSUME NEW i \in 1 .. Len(Parts)
            PROVE  /\ i < job.at => Parts[i] \in Through'
                   /\ i > job.at => Parts[i] \notin OldMoved' \cup NewMoved'
        BY <1>1, <1>3, <2>2, <2>4, OthersStay
      <3> QED BY <1>1, <1>3, <2>1, <2>2, <3>1 DEF Progress, GoesTo
    <2> QED BY <1>3, <2>1, <2>5, <2>7, <2>8 DEF SwapIsTracked, GoesTo
  <1> QED BY <1>4, <1>5

\* A directory that is through lets the swap go on to the next one.
LEMMA NextPart ==
  ASSUME IInv, job.pc \in {"new", "noteNew"}, Progress, NEW m, PartEnds(m), UNCHANGED root,
         OldMoved' = OldMoved, NewMoved' = NewMoved, Here \in Through
  PROVE  Progress'
  <1>1. /\ job.at \in 1 .. Len(Parts) /\ Len(Parts) \in Nat
        /\ \A i \in 1 .. Len(Parts) : Parts[i] = Here <=> i = job.at
    BY SwapFields, HereType, PartsType DEF InSwap
  <1>2. Through' = Through
    BY DEF Through, PartEnds, JobKeeps, Whole
  <1>3. \A i \in 1 .. Len(Parts) : i <= job.at => Parts[i] \in Through
    BY <1>1 DEF Progress
  <1>4. CASE job.at = Len(Parts) /\ job'.pc = "config"
    <2>1. Part \subseteq Through
      BY <1>1, <1>3, <1>4, PartsType
    <2> QED BY <1>2, <1>4, <2>1 DEF Progress
  <1>5. CASE job.at < Len(Parts) /\ job'.at = job.at + 1 /\ job'.pc = "old"
    <2>1. /\ \A i \in 1 .. Len(Parts) : i < job'.at => Parts[i] \in Through
          /\ \A i \in 1 .. Len(Parts) : i > job'.at => Parts[i] \notin OldMoved \cup NewMoved
      <3>1. ASSUME NEW i \in 1 .. Len(Parts)
            PROVE  /\ i < job.at + 1 => i <= job.at
                   /\ i > job.at + 1 => i > job.at
        BY <1>1
      <3>2. \A i \in 1 .. Len(Parts) : i > job.at => Parts[i] \notin OldMoved \cup NewMoved
        BY DEF Progress
      <3> QED BY <1>3, <1>5, <3>1, <3>2
    <2>2. Here' \notin OldMoved' \cup NewMoved'
      <3>1. Here' = Parts[job.at + 1]
        BY <1>5 DEF Here
      <3>2. job.at + 1 \in 1 .. Len(Parts) /\ job.at + 1 > job.at
        BY <1>1, <1>5
      <3>3. Parts[job.at + 1] \notin OldMoved \cup NewMoved
        BY <3>2 DEF Progress
      <3> QED BY <3>1, <3>3
    <2>3. Here' \notin Recorded(job'.moved, "old") /\ Here' \notin Recorded(job'.moved, "new")
      BY <2>2 DEF OldMoved, NewMoved
    <2> QED BY <1>2, <1>5, <2>1, <2>3 DEF Progress
  <1> QED BY <1>4, <1>5 DEF PartEnds

LEMMA MoveNewTracks == ASSUME IInv, SwapInv, "record" \notin cut, MoveNew PROVE SwapIsTracked'
  <1>1. job.pc = "new" /\ UNCHANGED <<book, versions, cut>>
    BY DEF MoveNew
  <1>2. /\ job \in JobRecords /\ job.plan \in Plans /\ job.old \in Plans
        /\ Swapping /\ Here \in Part /\ root \in Layouts /\ stage \in Layouts
        /\ job.at \in 1 .. Len(Parts)
        /\ \A i \in 1 .. Len(Parts) : Parts[i] = Here <=> i = job.at
    BY <1>1, SwapFields, HereType DEF InSwap
  <1>3. /\ Placed /\ Restorable /\ Stack(job.moved) /\ Progress /\ Here \notin NewMoved
        /\ root[Here] = 0
        /\ OldMoved = Recorded(job.moved, "old") /\ NewMoved = Recorded(job.moved, "new")
    BY <1>1, <1>2 DEF SwapInv, SwapIsTracked, Progress, OldMoved, NewMoved
  <1>4. stage[Here] = Whole(job.plan)[Here]
    BY <1>2, <1>3 DEF Placed
  <1>5. CASE stage[Here] = 0
    <2>1. PartEnds(job.moved) /\ UNCHANGED <<root, stage>>
      BY <1>2, <1>5, PartStep DEF MoveNew, JobRecords
    <2>2. OldMoved' = OldMoved /\ NewMoved' = NewMoved
      BY <1>1, <2>1 DEF OldMoved, NewMoved, PartEnds
    <2>3. Here \in Through
      BY <1>2, <1>3, <1>4, <1>5 DEF Through
    <2>4. Placed' /\ Restorable'
      BY <1>1, <1>2, <1>3, <2>1, <2>2, NothingMoves DEF PartEnds
    <2>5. Progress'
      BY <1>1, <1>3, <2>1, <2>2, <2>3, NextPart
    <2> QED BY <1>3, <2>1, <2>4, <2>5 DEF SwapIsTracked, PartEnds
  <1>6. CASE stage[Here] # 0
    <2>1. /\ GoesTo("noteNew") /\ root' = [root EXCEPT ![Here] = stage[Here]]
          /\ stage' = [stage EXCEPT ![Here] = 0]
      BY <1>2, <1>6, PcStep DEF MoveNew, Points, UnderLock, InSwap
    <2>2. /\ OldMoved' = OldMoved /\ NewMoved' = NewMoved \cup {Here} /\ Here' = Here
          /\ job'.plan = job.plan
      BY <1>1, <2>1 DEF OldMoved, NewMoved, GoesTo, Here, JobKeeps
    <2>3. Here \in Dirs[job.plan] /\ stage[Here] = job.plan
      BY <1>2, <1>4, <1>6, PlansType DEF Whole
    <2>4. /\ root'[Here] = job.plan /\ stage'[Here] = 0
          /\ \A c \in Part : c # Here => root'[c] = root[c] /\ stage'[c] = stage[c]
      BY <1>2, <2>1, <2>3 DEF Layouts
    <2>5. Placed'
      BY <1>1, <1>3, <2>2, <2>3, <2>4 DEF Placed, Whole
    <2>6. \A d \in Part : Found(d)' = Found(d)
      BY <1>1, <1>3, <2>2, <2>4 DEF Found
    <2>7. Restorable'
      BY <1>1, <1>2, <1>3, <2>1, <2>6, FoundStays DEF GoesTo
    <2>8. Progress'
      <3>1. ASSUME NEW i \in 1 .. Len(Parts)
            PROVE  /\ i < job.at => Parts[i] \in Through'
                   /\ i > job.at => Parts[i] \notin OldMoved' \cup NewMoved'
        BY <1>1, <1>3, <2>2, <2>4, OthersStay
      <3> QED BY <1>1, <1>3, <2>1, <2>2, <3>1 DEF Progress, GoesTo
    <2> QED BY <1>3, <2>1, <2>5, <2>7, <2>8 DEF SwapIsTracked, GoesTo
  <1> QED BY <1>5, <1>6

LEMMA RecordTracks == ASSUME IInv, SwapInv, "record" \notin cut, RecordMove PROVE SwapIsTracked'
  <1>1. job.pc \in {"noteOld", "noteNew"}
    BY DEF RecordMove
  <1>2. /\ UNCHANGED <<book, root, stage, versions, cut>>
        /\ job.moved \in Seq(Renames) /\ Swapping /\ Here \in Part
        /\ job.plan \in Plans /\ job.old \in Plans
    BY <1>1, RecordShape, SwapFields DEF InSwap, diskVars, Renames
  <1>3. Placed /\ Restorable /\ Stack(job.moved) /\ Progress
    BY <1>2 DEF SwapInv, SwapIsTracked
  <1>4. CASE job.pc = "noteOld"
    <2>1. /\ JobKeeps /\ job'.pc = "new" /\ job'.at = job.at
          /\ job'.moved = Append(job.moved, <<"old", Here>>)
      BY <1>4, RecordShape
    <2>2. Here' = Here
      BY <2>1 DEF Here
    <2>3. Here \notin Recorded(job.moved, "old") /\ Here \notin Recorded(job.moved, "new")
      BY <1>3, <1>4 DEF Progress
    <2>4. /\ Recorded(job'.moved, "old") = Recorded(job.moved, "old") \cup {Here}
          /\ Recorded(job'.moved, "new") = Recorded(job.moved, "new")
      BY <1>2, <2>1, AppendIsRecorded
    <2>5. OldMoved' = OldMoved /\ NewMoved' = NewMoved /\ Here \in OldMoved \ NewMoved
      BY <1>4, <2>1, <2>3, <2>4 DEF OldMoved, NewMoved
    <2>6. Placed' /\ Restorable' /\ Through' = Through
      BY <1>2, <1>3, <2>1, <2>5, NothingMoves
    <2>7. Stack(job'.moved)
      BY <1>2, <1>3, <2>1, <2>3, AppendIsStack
    <2>8. root[Here] = 0
      BY <1>2, <1>3, <2>5 DEF Placed
    <2>9. Progress'
      BY <1>2, <1>3, <1>4, <2>1, <2>2, <2>3, <2>4, <2>5, <2>6, <2>8 DEF Progress
    <2> QED BY <2>6, <2>7, <2>9 DEF SwapIsTracked
  <1>5. CASE job.pc = "noteNew"
    <2>1. PartEnds(Append(job.moved, <<"new", Here>>))
      BY <1>5, RecordShape
    <2>2. Here \notin Recorded(job.moved, "new") /\ Here \in NewMoved
      BY <1>2, <1>3, <1>5 DEF Progress, NewMoved
    <2>3. Here \in Through
      BY <1>2, <1>3, <2>2 DEF Placed, Through, Whole
    <2>4. /\ Recorded(job'.moved, "new") = Recorded(job.moved, "new") \cup {Here}
          /\ Recorded(job'.moved, "old") = Recorded(job.moved, "old")
      BY <1>2, <2>1, AppendIsRecorded DEF PartEnds
    <2>5. OldMoved' = OldMoved /\ NewMoved' = NewMoved
      BY <1>5, <2>1, <2>4 DEF OldMoved, NewMoved, PartEnds
    <2>6. Placed' /\ Restorable'
      BY <1>2, <1>3, <2>1, <2>5, NothingMoves DEF PartEnds
    <2>7. Stack(job'.moved)
      BY <1>2, <1>3, <2>1, <2>2, AppendIsStack DEF PartEnds
    <2>8. Progress'
      BY <1>2, <1>3, <1>5, <2>1, <2>3, <2>5, NextPart
    <2> QED BY <2>6, <2>7, <2>8 DEF SwapIsTracked
  <1> QED BY <1>1, <1>4, <1>5

\* The other steps of a swap do not move anything ...
LEMMA OtherTracks ==
  ASSUME IInv, SwapInv, "record" \notin cut, Swapping, job.old \in Plans,
         NEW c \in Points, GoesTo(c),
         job.pc \notin {"noteOld", "noteNew"}, c \notin {"noteOld", "noteNew"},
         UNCHANGED <<root, stage, versions, cut>>
  PROVE  Placed' /\ Restorable' /\ Stack(job'.moved) /\ Through' = Through
  <1>1. Placed /\ Restorable /\ Stack(job.moved)
    BY DEF SwapInv, SwapIsTracked
  <1>2. OldMoved' = OldMoved /\ NewMoved' = NewMoved
    BY DEF OldMoved, NewMoved, GoesTo
  <1> QED BY <1>1, <1>2, NothingMoves DEF GoesTo

LEMMA ResetTracks ==
  ASSUME IInv, SwapInv, "record" \notin cut, ResetChoices PROVE SwapIsTracked'
  <1>1. job.pc = "config" /\ UNCHANGED <<root, stage, versions, cut>>
    BY DEF ResetChoices
  <1>2. job \in JobRecords /\ Swapping /\ job.old \in Plans
    BY <1>1, SwapFields DEF InSwap
  <1>3. "book" \in Points /\ GoesTo("book")
    BY <1>2, PcStep DEF ResetChoices, Points, UnderLock, InSwap
  <1>4. Part \subseteq Through
    BY <1>1, <1>2 DEF SwapInv, SwapIsTracked, Progress
  <1> QED BY <1>1, <1>2, <1>3, <1>4, OtherTracks DEF SwapIsTracked, Progress, GoesTo

LEMMA InstallTracks ==
  ASSUME IInv, SwapInv, "record" \notin cut, InstallBook, job.kind = "rebuild"
  PROVE  SwapIsTracked'
  <1>1. job.pc = "book" /\ UNCHANGED <<root, stage, versions, cut>>
    BY DEF InstallBook
  <1>2. job \in JobRecords /\ Swapping /\ job.old \in Plans
    BY <1>1, JobFields DEF IInv, Swapping, Rebuilding, UnderLock, InSwap, TypeOK, DiskType
  <1>3. "installed" \in Points /\ GoesTo("installed")
    BY <1>2, PcStep DEF InstallBook, Points, UnderLock, InSwap
  <1>4. Part \subseteq Through
    BY <1>1, <1>2 DEF SwapInv, SwapIsTracked, Progress
  <1> QED BY <1>1, <1>2, <1>3, <1>4, OtherTracks DEF SwapIsTracked, Progress, GoesTo

\* ... a failure or a stop included, unless it falls between a rename and its record.
LEMMA RaiseTracks ==
  ASSUME IInv, SwapInv, "record" \notin cut', OperationFails \/ StopInterrupts
  PROVE  SwapIsTracked'
  <1>1. /\ job.pc \in UnderLock \cup Undoing /\ UNCHANGED <<root, stage, versions, book>>
        /\ job' = [job EXCEPT !.pc = Raise] \/ job' = [job EXCEPT !.pc = Raise, !.stopped = TRUE]
        /\ cut' = cut \cup CutHere
    BY DEF OperationFails, StopInterrupts, diskVars
  <1>2. job \in JobRecords /\ Raise \in Points
    BY <1>1, JobFields DEF IInv, Raise, Points, UnderLock, InSwap, Undoing
  <1>3. GoesTo(Raise)
    BY <1>1, <1>2, PcStep
  <1>4. CASE job.kind = "rebuild" /\ job.pc \in InSwap
    <2>1. /\ Raise = "undoBook" /\ Swapping /\ "record" \notin cut
          /\ job.pc \notin {"noteOld", "noteNew"} /\ UNCHANGED cut
      BY <1>1, <1>4 DEF Swapping, Raise, CutHere, Recording, InSwap, Undoing
    <2>2. job.old \in Plans
      BY <1>4, <2>1 DEF IInv, Rebuilding, UnderLock, TypeOK, DiskType
    <2>3. Placed' /\ Restorable' /\ Stack(job'.moved) /\ Through' = Through
      BY <1>1, <1>2, <1>3, <2>1, <2>2, OtherTracks
    <2>4. book = job.plan => Part \subseteq Through
      BY <1>4, <2>1, <2>2 DEF IInv, Rebuilding, SwapInv, SwapIsTracked, Progress, UnderLock,
         InSwap, Undoing
    <2>5. Progress'
      BY <1>1, <1>3, <2>1, <2>3, <2>4 DEF Progress, GoesTo, JobKeeps
    <2> QED BY <2>3, <2>5 DEF SwapIsTracked
  <1>5. CASE ~ (job.kind = "rebuild" /\ job.pc \in InSwap)
    <2>1. job'.pc = "done"
      BY <1>3, <1>5 DEF Raise, GoesTo
    <2> QED BY <2>1 DEF SwapIsTracked, Swapping, InSwap, Undoing
  <1> QED BY <1>4, <1>5

LEMMA UndoTracks ==
  ASSUME IInv, SwapInv, "record" \notin cut, UndoBook \/ UndoConfig PROVE SwapIsTracked'
  <1>1. job.pc \in {"undoBook", "undoConfig"} /\ UNCHANGED <<root, stage, versions, cut>>
    BY DEF UndoBook, UndoConfig
  <1>2. job \in JobRecords /\ Swapping /\ job.old \in Plans
    BY <1>1, SwapFields DEF Undoing
  <1>3. PICK c \in {"undoConfig", "undoMoves"} : GoesTo(c)
    BY <1>2, PcStep DEF UndoBook, UndoConfig, Points, Undoing
  <1>4. Placed' /\ Restorable' /\ Stack(job'.moved)
    BY <1>1, <1>2, <1>3, OtherTracks DEF Points, Undoing
  <1> QED BY <1>3, <1>4 DEF SwapIsTracked, Progress, GoesTo

\* What the last record of the list says.
LEMMA LastIsMoved ==
  ASSUME IInv, SwapInv, "record" \notin cut, job.pc = "undoMoves", job.moved # <<>>
  PROVE  /\ LastMove[2] \in Part /\ LastMove[1] \in {"old", "new"}
         /\ LastMove[1] = "new" => LastMove[2] \in NewMoved
         /\ LastMove[1] = "old" => LastMove[2] \in OldMoved /\ LastMove[2] \notin NewMoved
         /\ job' = Undone =>
              /\ JobKeeps /\ job'.pc = "undoMoves" /\ Stack(job'.moved)
              /\ OldMoved' = OldMoved \ (IF LastMove[1] = "old" THEN {LastMove[2]} ELSE {})
              /\ NewMoved' = NewMoved \ (IF LastMove[1] = "new" THEN {LastMove[2]} ELSE {})
  <1>1. job \in JobRecords /\ Swapping /\ job.moved \in Seq(Renames)
    BY SwapFields DEF Undoing, Renames
  <1>2. Stack(job.moved)
    BY <1>1 DEF SwapInv, SwapIsTracked
  <1>3. OldMoved = Recorded(job.moved, "old") /\ NewMoved = Recorded(job.moved, "new")
    BY DEF OldMoved, NewMoved
  <1>4. /\ LastMove \in Renames /\ LastMove[2] \in Recorded(job.moved, LastMove[1])
        /\ Stack(Front(job.moved))
        /\ LastMove[1] = "old" => LastMove[2] \notin Recorded(job.moved, "new")
    BY <1>1, <1>2, FrontIsRecorded DEF LastMove
  <1>5. LastMove[2] \in Part /\ LastMove[1] \in {"old", "new"}
    BY <1>4 DEF Renames
  <1>6. ASSUME job' = Undone
        PROVE  /\ JobKeeps /\ job'.pc = "undoMoves" /\ Stack(job'.moved)
               /\ OldMoved' = OldMoved \ (IF LastMove[1] = "old" THEN {LastMove[2]} ELSE {})
               /\ NewMoved' = NewMoved \ (IF LastMove[1] = "new" THEN {LastMove[2]} ELSE {})
    <2>1. JobKeeps /\ job'.pc = "undoMoves" /\ job'.moved = Front(job.moved)
      BY <1>1, <1>6, UndoneStep
    <2>2. OldMoved' = Recorded(Front(job.moved), "old") /\ NewMoved' = Recorded(Front(job.moved), "new")
      BY <2>1 DEF OldMoved, NewMoved
    <2>3. /\ Recorded(Front(job.moved), "old") =
               Recorded(job.moved, "old") \ (IF "old" = LastMove[1] THEN {LastMove[2]} ELSE {})
          /\ Recorded(Front(job.moved), "new") =
               Recorded(job.moved, "new") \ (IF "new" = LastMove[1] THEN {LastMove[2]} ELSE {})
      BY <1>1, <1>2, FrontIsRecorded DEF LastMove
    <2> QED BY <1>3, <1>4, <2>1, <2>2, <2>3
  <1> QED BY <1>3, <1>4, <1>5, <1>6

LEMMA UndoNewTracks == ASSUME IInv, SwapInv, "record" \notin cut, UndoNew PROVE SwapIsTracked'
  <1> DEFINE d == LastMove[2]
  <1>1. /\ job.pc = "undoMoves" /\ job.moved # <<>> /\ LastMove[1] = "new" /\ job' = Undone
        /\ stage' = [stage EXCEPT ![d] = root[d]] /\ root' = [root EXCEPT ![d] = 0]
        /\ UNCHANGED <<book, versions, cut>>
    BY DEF UndoNew
  <1>2. /\ Swapping /\ Placed /\ Restorable /\ root \in Layouts /\ stage \in Layouts
        /\ job.plan \in Plans /\ job.old \in Plans
    BY <1>1, SwapFields DEF Undoing, SwapInv, SwapIsTracked
  <1>3. /\ d \in Part /\ d \in NewMoved /\ JobKeeps /\ job'.pc = "undoMoves" /\ Stack(job'.moved)
        /\ OldMoved' = OldMoved /\ NewMoved' = NewMoved \ {d}
    BY <1>1, LastIsMoved
  <1> HIDE DEF d
  <1>4. root[d] = job.plan /\ d \in Dirs[job.plan]
    BY <1>2, <1>3 DEF Placed
  <1>5. /\ stage'[d] = job.plan /\ root'[d] = 0
        /\ \A c \in Part : c # d => root'[c] = root[c] /\ stage'[c] = stage[c]
    BY <1>1, <1>2, <1>3, <1>4 DEF Layouts
  <1>6. job'.plan = job.plan
    BY <1>3 DEF JobKeeps
  <1>7. Placed'
    BY <1>1, <1>2, <1>3, <1>4, <1>5, <1>6 DEF Placed, Whole
  <1>8. \A c \in Part : Found(c)' = Found(c)
    BY <1>1, <1>2, <1>3, <1>5, <1>6 DEF Found
  <1>9. Restorable'
    BY <1>1, <1>2, <1>3, <1>8, FoundStays
  <1> QED BY <1>3, <1>7, <1>9 DEF SwapIsTracked, Progress

\* The directory that is put back is not in the workspace: what took its place is back in
\* the stage.
LEMMA UndoOldTracks ==
  ASSUME IInv, SwapInv, "record" \notin cut, UndoOld
  PROVE  SwapIsTracked' /\ job'.pc = "undoMoves"
  <1> DEFINE d == LastMove[2]
  <1>1. /\ job.pc = "undoMoves" /\ job.moved # <<>> /\ LastMove[1] = "old"
        /\ UNCHANGED <<book, stage, cut>>
    BY DEF UndoOld
  <1>2. /\ Swapping /\ Placed /\ Restorable /\ root \in Layouts
        /\ job.plan \in Plans /\ job.old \in Plans
        /\ versions[job.plan] # None /\ versions[job.plan].dirs \in Layouts
    BY <1>1, SwapFields DEF Undoing, SwapInv, SwapIsTracked
  <1>3. d \in Part /\ d \in OldMoved /\ d \notin NewMoved
    BY <1>1, LastIsMoved
  <1>4. root[d] = 0
    BY <1>2, <1>3 DEF Placed
  <1>5. /\ root' = [root EXCEPT ![d] = versions[job.plan].dirs[d]]
        /\ versions' = [versions EXCEPT ![job.plan].dirs[d] = 0] /\ job' = Undone
    BY <1>4 DEF UndoOld
  <1>6. /\ JobKeeps /\ job'.pc = "undoMoves" /\ Stack(job'.moved)
        /\ OldMoved' = OldMoved \ {d} /\ NewMoved' = NewMoved
    BY <1>1, <1>5, LastIsMoved
  <1> HIDE DEF d
  <1>7. root'[d] = versions[job.plan].dirs[d] /\ \A c \in Part : c # d => root'[c] = root[c]
    BY <1>2, <1>3, <1>5 DEF Layouts
  <1>8. /\ versions'[job.plan].dirs[d] = 0
        /\ \A c \in Part : c # d => versions'[job.plan].dirs[c] = versions[job.plan].dirs[c]
        /\ \A q \in Plans \ {job.plan} : versions'[q] = versions[q]
    <2>1. TypeOK /\ 0 \in Plan0 /\ job.plan \in Plans /\ versions[job.plan] # None /\ d \in Part
      BY <1>2, <1>3 DEF Plan0, IInv
    <2>2. Moves(job.plan, d, 0)
      BY <1>5 DEF Moves
    <2> QED BY <2>1, <2>2, VersionStep
  <1>9. job'.plan = job.plan
    BY <1>6 DEF JobKeeps
  <1>10. Placed'
    BY <1>1, <1>2, <1>3, <1>6, <1>7, <1>8, <1>9 DEF Placed, Whole
  <1>11. \A c \in Part : Found(c)' = Found(c)
    BY <1>2, <1>3, <1>6, <1>7, <1>8, <1>9 DEF Found
  <1>12. Restorable'
    BY <1>1, <1>2, <1>6, <1>8, <1>11, FoundStays
  <1> QED BY <1>6, <1>10, <1>12 DEF SwapIsTracked, Progress

-----------------------------------------------------------------------------

\* The steps outside a swap.
OutsideSwap ==
    \/ Prepare \/ Reprepare \/ Configure \/ WorkerStarts \/ WorkerRefuses \/ WorkerLocks
    \/ WorkerIsRefused \/ ReadSource \/ WriteDirectory \/ ImportWritten \/ PutVersionAside
    \/ (RegisterChunks /\ job.kind = "import") \/ (InstallBook /\ job.kind = "import")
    \/ SwapEnds \/ WorkerEnds \/ RemoveVersion \/ WorkerDies \/ StopsEarly \/ StageStays

LEMMA OutsideTracks == ASSUME IInv, OutsideSwap PROVE SwapIsTracked'
  <1>1. CASE \/ Prepare \/ Reprepare \/ WorkerRefuses \/ WorkerIsRefused \/ WorkerEnds \/ WorkerDies
             \/ StopsEarly \/ StageStays
    <2>1. job'.pc \in {"start", "idle"}
      BY <1>1 DEF Prepare, Reprepare, NewJob, WorkerRefuses, WorkerIsRefused, WorkerEnds,
         WorkerDies, StopsEarly, StageStays, End, NoJob
    <2> QED BY <2>1 DEF SwapIsTracked, Swapping, InSwap, Undoing
  <1>2. CASE Configure \/ WriteDirectory
    <2>1. job' = job /\ job.pc \in {"idle", "write"}
      BY <1>2 DEF Configure, Idle, NoJob, WriteDirectory
    <2> QED BY <2>1 DEF SwapIsTracked, Swapping, InSwap, Undoing
  <1>3. CASE WorkerLocks \/ ReadSource
    <2>1. job'.pc \in {"read", "write"}
      BY <1>3, JobFields, LockStep, ReadStep DEF IInv, TypeOK, DiskType, WorkerLocks, ReadSource
    <2> QED BY <2>1 DEF SwapIsTracked, Swapping, InSwap, Undoing
  <1>4. CASE \/ WorkerStarts \/ ImportWritten \/ PutVersionAside \/ SwapEnds \/ RemoveVersion
             \/ (RegisterChunks /\ job.kind = "import") \/ (InstallBook /\ job.kind = "import")
    <2>1. job.pc # "idle"
      BY <1>4 DEF WorkerStarts, ImportWritten, PutVersionAside, SwapEnds, RemoveVersion,
         RegisterChunks, InstallBook, At
    <2>2. job \in JobRecords
      BY <2>1, JobFields DEF IInv
    <2>3. \E c \in {"lock", "register", "done"} : GoesTo(c) \/ (job.kind = "import" /\ GoesTo("book"))
      BY <1>4, <2>2, PcStep DEF WorkerStarts, ImportWritten, PutVersionAside, SwapEnds,
         RemoveVersion, RegisterChunks, InstallBook, Points, UnderLock, InSwap
    <2> QED BY <2>3 DEF GoesTo, JobKeeps, SwapIsTracked, Swapping, InSwap, Undoing
  <1> QED BY <1>1, <1>2, <1>3, <1>4 DEF OutsideSwap

\* A step of the command line, or an edit of the source.
LEMMA OthersTrack ==
  ASSUME IInv, SwapInv, "record" \notin cut, CommandBegins \/ CommandEnds \/ SourceEdited
  PROVE  SwapIsTracked'
  <1>1. UNCHANGED <<book, root, stage, versions, cut>>
    BY DEF CommandBegins, CommandEnds, SourceEdited, diskVars
  <1>2. CASE job' = job
    <2>1. SwapIsTracked
      BY DEF SwapInv
    <2>2. OldMoved' = OldMoved /\ NewMoved' = NewMoved /\ Here' = Here
      BY <1>2 DEF OldMoved, NewMoved, Here
    <2>3. Through' = Through
      BY <1>1, <1>2 DEF Through
    <2>4. Placed => Placed'
      BY <1>1, <1>2, <2>2 DEF Placed, Whole
    <2>5. Restorable => Restorable'
      BY <1>1, <1>2, <2>2 DEF Restorable, Found, InVersion, Uncut
    <2>6. Progress => Progress'
      BY <1>1, <1>2, <2>2, <2>3 DEF Progress
    <2> QED BY <1>2, <2>1, <2>4, <2>5, <2>6 DEF SwapIsTracked, Swapping
  <1>3. CASE job' # job
    <2>1. job.pc \in {"lock", "read"} /\ job' = [job EXCEPT !.edited = TRUE]
      BY <1>3 DEF CommandBegins, CommandEnds, SourceEdited
    <2>2. job'.pc = job.pc
      BY <2>1, JobFields, EditStep DEF IInv
    <2> QED BY <2>1, <2>2 DEF SwapIsTracked, Swapping, InSwap, Undoing
  <1> QED BY <1>2, <1>3

\* What has been cut short is not forgotten.
LEMMA CutGrows == ASSUME Next PROVE cut \subseteq cut'
  BY DEF Next, Prepare, Reprepare, Configure, WorkerStarts, WorkerRefuses, WorkerLocks,
     WorkerIsRefused, ReadSource, WriteDirectory, ImportWritten, PutVersionAside,
     RegisterChunks, MoveOld, MoveNew, RecordMove, ResetChoices, InstallBook, SwapEnds, WorkerEnds,
     OperationFails, StopInterrupts, StopsEarly, StageStays, UndoBook, UndoConfig, UndoNew, UndoOld,
     RemoveVersion, WorkerDies, CommandBegins, CommandEnds, SourceEdited

LEMMA TracksStep == ASSUME IInv, SwapInv, Next PROVE SwapIsTracked'
  <1>1. CASE "record" \in cut'
    BY <1>1 DEF SwapIsTracked
  <1>2. CASE "record" \notin cut'
    <2>1. "record" \notin cut
      BY <1>2, CutGrows
    <2>2. CASE OutsideSwap
      BY <2>2, OutsideTracks
    <2>3. CASE (RegisterChunks \/ InstallBook) /\ job.kind # "import"
      <3>1. job.kind = "rebuild"
        BY <2>3, JobFields DEF IInv, RegisterChunks, InstallBook, JobRecords
      <3> QED BY <2>1, <2>3, <3>1, RegisterTracks, InstallTracks
    <2>4. CASE ~ OutsideSwap /\ ~ ((RegisterChunks \/ InstallBook) /\ job.kind # "import")
      BY <1>2, <2>1, <2>4, MoveOldTracks, MoveNewTracks, RecordTracks, ResetTracks, RaiseTracks,
         UndoTracks, UndoNewTracks, UndoOldTracks, OthersTrack DEF Next, OutsideSwap
    <2> QED BY <2>2, <2>3, <2>4
  <1> QED BY <1>1, <1>2

-----------------------------------------------------------------------------
(* The versions. *)

\* A step other than ReadSource leaves a worker that writes where it was.
LEMMA WriteStays ==
  ASSUME IInv, Next, ~ ReadSource, job'.pc = "write"
  PROVE  job.pc = "write" /\ job'.plan = job.plan
  <1>1. CASE job' = job
    BY <1>1
  <1>2. CASE job' # job
    <2>1. CASE \/ Prepare \/ Reprepare \/ WorkerRefuses \/ WorkerIsRefused \/ WorkerEnds
               \/ WorkerDies \/ StopsEarly \/ StageStays
      BY <2>1 DEF Prepare, Reprepare, NewJob, WorkerRefuses, WorkerIsRefused, WorkerEnds,
         WorkerDies, StopsEarly, StageStays, End, NoJob
    <2>2. CASE \/ Configure \/ WriteDirectory \/ CommandBegins \/ CommandEnds
      BY <1>2, <2>2 DEF Configure, WriteDirectory, CommandBegins, CommandEnds
    <2>3. CASE SourceEdited
      <3>1. job.pc \in {"lock", "read"} /\ job' = [job EXCEPT !.edited = TRUE]
        BY <1>2, <2>3 DEF SourceEdited
      <3> QED BY <3>1, JobFields, EditStep DEF IInv
    <2>4. CASE MoveNew \/ RecordMove \/ UndoNew \/ UndoOld
      <3>1. job \in JobRecords /\ job.moved \in Seq(Renames)
        BY <2>4, SwapFields DEF MoveNew, RecordMove, UndoNew, UndoOld, InSwap, Undoing, Renames
      <3>2. CASE MoveNew
        <4>1. PartEnds(job.moved) \/ GoesTo("noteNew")
          BY <3>1, <3>2, PcStep, PartStep DEF MoveNew, Points, UnderLock, InSwap, JobRecords
        <4> QED BY <4>1 DEF GoesTo, PartEnds
      <3>3. CASE RecordMove
        BY <3>3, RecordShape DEF PartEnds
      <3>4. CASE UndoNew \/ UndoOld
        <4>1. job' = Undone \/ job' = [job EXCEPT !.pc = "done"]
          BY <3>4 DEF UndoNew, UndoOld
        <4>2. job.pc = "undoMoves" /\ job.moved # <<>>
          BY <3>4 DEF UndoNew, UndoOld
        <4>3. job' = Undone => job'.pc = "undoMoves"
          BY <3>1, <4>2, UndoneStep
        <4>4. job' = [job EXCEPT !.pc = "done"] => job'.pc = "done"
          BY <3>1 DEF JobRecords
        <4> QED BY <4>1, <4>3, <4>4
      <3> QED BY <2>4, <3>2, <3>3, <3>4
    <2>5. CASE WorkerLocks
      BY <2>5, JobFields, LockStep DEF IInv, TypeOK, DiskType, WorkerLocks
    <2>6. CASE OperationFails \/ StopInterrupts
      <3>1. job \in JobRecords /\ Raise \in Points \ {"write"}
        BY <2>6, JobFields DEF OperationFails, StopInterrupts, IInv, Raise, Points, UnderLock,
           InSwap, Undoing
      <3> QED BY <2>6, <3>1, PcStep DEF OperationFails, StopInterrupts, GoesTo
    <2>7. CASE \/ WorkerStarts \/ ImportWritten \/ PutVersionAside \/ RegisterChunks \/ MoveOld
               \/ ResetChoices \/ InstallBook \/ SwapEnds \/ UndoBook \/ UndoConfig \/ RemoveVersion
      <3>1. job \in JobRecords
        BY <2>7, JobFields DEF IInv, WorkerStarts, ImportWritten, PutVersionAside, RegisterChunks,
           MoveOld, ResetChoices, InstallBook, SwapEnds, UndoBook, UndoConfig, RemoveVersion, At
      <3>2. \E c \in Points \ {"write"} : job' = [job EXCEPT !.pc = c]
        BY <2>7 DEF WorkerStarts, ImportWritten, PutVersionAside, RegisterChunks,
           MoveOld, ResetChoices, InstallBook, SwapEnds, UndoBook, UndoConfig, RemoveVersion,
           Points, UnderLock, InSwap, Undoing
      <3> QED BY <3>1, <3>2, PcStep DEF GoesTo
    <2> QED BY <2>1, <2>2, <2>3, <2>4, <2>5, <2>6, <2>7 DEF Next
  <1> QED BY <1>1, <1>2

\* The version a step writes is that of a plan that was made.
LEMMA VersionsChange ==
  ASSUME IInv, Next, NEW q \in Plans, versions'[q] # versions[q]
  PROVE  /\ PutVersionAside \/ MoveOld \/ UndoOld \/ RemoveVersion
         /\ q = job.plan /\ q \in Made /\ UNCHANGED from
  <1>1. PutVersionAside \/ MoveOld \/ UndoOld \/ RemoveVersion
    BY DEF Next, Prepare, Reprepare, Configure, WorkerStarts, WorkerRefuses, WorkerLocks,
       WorkerIsRefused, ReadSource, WriteDirectory, ImportWritten, RegisterChunks, MoveNew,
       RecordMove, ResetChoices, InstallBook, SwapEnds, WorkerEnds, OperationFails, StopInterrupts,
       StopsEarly, StageStays, UndoBook, UndoConfig, UndoNew, WorkerDies, CommandBegins,
       CommandEnds, SourceEdited, diskVars
  <1>2. job.plan \in Made /\ UNCHANGED from
    BY <1>1 DEF PutVersionAside, MoveOld, UndoOld, RemoveVersion, At, IInv, PlansMade, InSwap, Undoing
  <1>3. versions \in [Plans -> Versions \cup {None}]
    BY DEF IInv, TypeOK, DiskType
  <1>4. ASSUME q # job.plan PROVE versions'[q] = versions[q]
    BY <1>1, <1>3, <1>4 DEF PutVersionAside, MoveOld, UndoOld, RemoveVersion
  <1> QED BY <1>1, <1>2, <1>4

LEMMA NewVersions == ASSUME IInv, VersionsAreNew, Next PROVE VersionsAreNew'
  <1>1. CASE ReadSource
    <2>1. UNCHANGED versions
      BY <1>1 DEF ReadSource, diskVars
    <2>2. job.pc = "read" /\ job \in JobRecords /\ from \in [Plans -> Origins \cup {None}]
      BY <1>1, JobFields DEF ReadSource, IInv, TypeOK
    <2>3. PICK p \in Plans \ Made :
             /\ from' = [from EXCEPT ![p] = [source |-> source, edited |-> job.edited]]
             /\ job' = [job EXCEPT !.pc = "write", !.plan = p]
      BY <1>1 DEF ReadSource
    <2>4. [source |-> source, edited |-> job.edited] \in Origins
      BY <2>2 DEF Origins, JobRecords, IInv, TypeOK
    <2>5. from'[p] # None /\ \A q \in Plans : q # p => from'[q] = from[q]
      BY <2>2, <2>3, <2>4, NoneIsNew
    <2>6. job'.plan = p
      BY <2>2, <2>3 DEF JobRecords
    <2> QED BY <2>1, <2>3, <2>5, <2>6 DEF VersionsAreNew, Made
  <1>2. CASE ~ ReadSource
    <2>1. Made \subseteq Made'
      BY <1>2 DEF Next, Prepare, Reprepare, Configure, WorkerStarts, WorkerRefuses, WorkerLocks,
         WorkerIsRefused, WriteDirectory, ImportWritten, PutVersionAside, RegisterChunks, MoveOld,
         MoveNew, RecordMove, ResetChoices, InstallBook, SwapEnds, WorkerEnds, OperationFails,
         StopInterrupts, StopsEarly, StageStays, UndoBook, UndoConfig, UndoNew, UndoOld,
         RemoveVersion, WorkerDies, CommandBegins, CommandEnds, SourceEdited, Made
    <2>2. \A p \in Plans \ Made : versions'[p] = versions[p]
      BY VersionsChange
    <2>3. ASSUME job'.pc = "write" PROVE versions'[job'.plan] = None
      <3>1. job.pc = "write" /\ job'.plan = job.plan /\ job.plan \in Plans
        BY <1>2, <2>3, WriteStays DEF IInv, PlansMade, Made
      <3>2. CASE versions'[job.plan] # versions[job.plan]
        <4>1. PutVersionAside
          BY <3>1, <3>2, VersionsChange DEF MoveOld, UndoOld, RemoveVersion
        <4>2. job'.pc = "register"
          BY <4>1, JobFields DEF PutVersionAside, At, IInv, JobRecords
        <4> QED BY <2>3, <4>2
      <3> QED BY <3>1, <3>2 DEF VersionsAreNew
    <2> QED BY <2>1, <2>2, <2>3 DEF VersionsAreNew
  <1> QED BY <1>1, <1>2

-----------------------------------------------------------------------------
(* The workspace outside a swap. *)

\* A step that leaves the installed plan alone, and that takes no stage away but under the
\* lock, leaves a settled workspace settled.
LEMMA SettledStays ==
  ASSUME Settled, ~ Swapping, UNCHANGED <<book, root>>, Sound' => Sound, Uncut' => Uncut
  PROVE  Settled'
  BY DEF Settled, Whole

\* The steps that are part of a swap.
LEMMA InsideSwap ==
  ASSUME IInv,
         \/ MoveOld \/ MoveNew \/ RecordMove \/ ResetChoices \/ UndoBook \/ UndoConfig
         \/ UndoNew \/ UndoOld \/ (InstallBook /\ job.kind # "import")
  PROVE  Swapping
  <1>1. job.pc \in InSwap \cup Undoing
    BY DEF MoveOld, MoveNew, RecordMove, ResetChoices, UndoBook, UndoConfig, UndoNew,
       UndoOld, InstallBook, InSwap, Undoing
  <1>2. job \in JobRecords
    BY <1>1, JobFields DEF IInv, InSwap, Undoing
  <1>3. CASE InstallBook /\ job.kind # "import"
    BY <1>1, <1>2, <1>3 DEF Swapping, JobRecords
  <1>4. CASE job.pc # "book"
    BY <1>1, <1>4, SwapFields DEF Swapping
  <1> QED BY <1>3, <1>4 DEF MoveOld, MoveNew, RecordMove, ResetChoices, UndoBook,
             UndoConfig, UndoNew, UndoOld

\* Within a swap there is nothing to show.
LEMMA SwapGoesOn ==
  ASSUME IInv, Swapping,
         \/ MoveOld \/ MoveNew \/ RecordMove \/ ResetChoices \/ InstallBook
         \/ (job.pc \in InSwap /\ (OperationFails \/ StopInterrupts))
         \/ UndoBook \/ UndoConfig \/ UndoNew \/ (UndoOld /\ job'.pc = "undoMoves")
  PROVE  Swapping'
  <1>1. job.kind = "rebuild" /\ job.pc \in InSwap \cup Undoing
    BY DEF Swapping
  <1>2. job \in JobRecords
    BY <1>1, JobFields DEF IInv
  <1>3. CASE MoveOld \/ ResetChoices \/ InstallBook \/ UndoBook \/ UndoConfig
    <2>1. \E c \in InSwap \cup Undoing : GoesTo(c)
      BY <1>1, <1>2, <1>3, PcStep DEF MoveOld, ResetChoices, InstallBook, UndoBook, UndoConfig,
         Points, UnderLock, InSwap, Undoing
    <2> QED BY <2>1 DEF Swapping, GoesTo, JobKeeps
  <1>4. CASE MoveNew
    <2>1. \/ PartEnds(job.moved) \/ GoesTo("noteNew")
      BY <1>2, <1>4, PcStep, PartStep DEF MoveNew, Points, UnderLock, InSwap, JobRecords
    <2> QED BY <1>1, <2>1 DEF Swapping, GoesTo, PartEnds, JobKeeps, InSwap
  <1>5. CASE RecordMove
    BY <1>1, <1>5, RecordShape DEF Swapping, PartEnds, JobKeeps, InSwap
  <1>6. CASE job.pc \in InSwap /\ (OperationFails \/ StopInterrupts)
    <2>1. Raise = "undoBook"
      BY <1>1, <1>6 DEF Raise
    <2>2. GoesTo("undoBook")
      BY <1>2, <1>6, <2>1, PcStep DEF OperationFails, StopInterrupts, Points, Undoing
    <2> QED BY <1>1, <2>2 DEF Swapping, GoesTo, JobKeeps, Undoing
  <1>7. CASE UndoNew
    BY <1>1, <1>2, <1>7, UndoneStep DEF UndoNew, Swapping, JobKeeps, Undoing
  <1>8. CASE UndoOld /\ job'.pc = "undoMoves"
    <2>1. job' = Undone \/ job' = [job EXCEPT !.pc = "done"]
      BY <1>8 DEF UndoOld
    <2>2. job'.kind = job.kind
      BY <1>2, <1>8, <2>1, UndoneStep DEF UndoOld, JobKeeps, JobRecords
    <2> QED BY <1>1, <1>8, <2>2 DEF Swapping, Undoing
  <1> QED BY <1>3, <1>4, <1>5, <1>6, <1>7, <1>8

\* The steps that end a swap, or fill a draft.
LEMMA ImportSettles ==
  ASSUME IInv, (WriteDirectory \/ InstallBook) /\ job.kind = "import" PROVE Settled'
  <1> USE DEF IInv
  <1>1. CASE WriteDirectory
    BY <1>1 DEF WriteDirectory, Importing, Settled
  <1>2. CASE InstallBook
    BY <1>2 DEF InstallBook, Importing, Settled
  <1> QED BY <1>1, <1>2

LEMMA SwapEndsSettles == ASSUME IInv, SwapInv, "record" \notin cut, SwapEnds PROVE Settled'
  <1>1. job.pc = "installed" /\ UNCHANGED <<book, root>>
    BY DEF SwapEnds, diskVars
  <1>2. Swapping /\ job.kind = "rebuild"
    BY <1>1, SwapFields DEF InSwap
  <1>3. book = job.plan
    BY <1>1, <1>2 DEF IInv, Rebuilding, UnderLock, InSwap
  <1>4. Part \subseteq Through
    BY <1>1, <1>2 DEF SwapInv, SwapIsTracked, Progress
  <1>5. root = Whole(job.plan)
    BY <1>2, <1>4, SwapDone
  <1> QED BY <1>1, <1>3, <1>5 DEF Settled, Whole

LEMMA RemoveVersionSettles == ASSUME IInv, SwapInv, Uncut, RemoveVersion PROVE Settled'
  <1>1. job.pc = "undoMoves" /\ job.moved = <<>> /\ UNCHANGED <<book, root>> /\ "record" \notin cut
    BY DEF RemoveVersion, Uncut
  <1>2. Swapping /\ job.kind = "rebuild" /\ job.old # job.plan
    BY <1>1, SwapFields DEF Undoing
  <1>3. book = job.old
    BY <1>1, <1>2 DEF IInv, Rebuilding, Undoing
  <1>4. root = Whole(job.old)
    BY <1>1, <1>2, SwapUndone DEF SwapInv
  <1> QED BY <1>1, <1>3, <1>4 DEF Settled, Whole

\* A rebuild starts in a settled workspace: the stage a dead worker left is noticed.
LEMMA WorkerLocksSettles == ASSUME IInv, SwapInv, WorkerLocks PROVE Settled'
  <1>1. /\ job.pc = "lock" /\ LockedChecks /\ UNCHANGED <<book, root, cut>>
    BY DEF WorkerLocks
  <1>2. ~ Swapping
    BY <1>1 DEF Swapping, InSwap, Undoing
  <1>3. CASE job.kind = "import"
    BY <1>1, <1>3 DEF LockedChecks, Settled
  <1>4. CASE job.kind # "import"
    <2>1. stage = None
      BY <1>1, <1>4 DEF LockedChecks, MayRebuild, NothingUnexpected
    <2> QED BY <1>1, <1>2, <2>1, SettledStays DEF SwapInv, Sound, Uncut
  <1> QED BY <1>3, <1>4

\* A worker that dies in a swap leaves its stage, and the lock.
LEMMA WorkerDiesSettles == ASSUME IInv, SwapInv, WorkerDies PROVE Settled'
  <1>1. UNCHANGED <<book, root, stage, cut>> /\ lock' # "worker" /\ deaths' # 0
    BY NoneIsNew DEF WorkerDies, diskVars, IInv, TypeOK
  <1>2. CASE Swapping
    <2>1. stage # None
      BY <1>2 DEF IInv, Rebuilding, Swapping, UnderLock
    <2> QED BY <1>1, <2>1 DEF Settled, Sound
  <1>3. CASE ~ Swapping
    BY <1>1, <1>3, SettledStays DEF SwapInv, Sound, Uncut
  <1> QED BY <1>2, <1>3

LEMMA SettledStep ==
  ASSUME IInv, SwapInv, Next, Uncut', UndoOld => job'.pc = "undoMoves" PROVE Settled'
  <1>0. Settled /\ Uncut /\ "record" \notin cut
    BY CutGrows DEF SwapInv, Uncut
  <1>1. CASE \/ ImportWritten \/ PutVersionAside \/ ReadSource \/ Prepare \/ Reprepare
             \/ Configure \/ WorkerStarts \/ WorkerRefuses \/ WorkerIsRefused \/ RegisterChunks
             \/ StopsEarly
    <2>1. UNCHANGED <<book, root, stage, lock, deaths>> /\ job.pc \notin InSwap \cup Undoing
      <3>1. CASE Prepare \/ Reprepare \/ Configure
        BY <3>1 DEF Prepare, Reprepare, Configure, diskVars, Idle, NoJob, InSwap, Undoing
      <3>2. CASE \/ ImportWritten \/ PutVersionAside \/ ReadSource \/ WorkerStarts
                 \/ WorkerRefuses \/ WorkerIsRefused \/ RegisterChunks \/ StopsEarly
        BY <3>2 DEF ImportWritten, PutVersionAside, ReadSource, WorkerStarts, StopsEarly,
           WorkerRefuses, WorkerIsRefused, RegisterChunks, diskVars, At, InSwap, Undoing
      <3> QED BY <1>1, <3>1, <3>2
    <2> QED BY <1>0, <2>1, SettledStays DEF Swapping, Sound
  <1>2. CASE WorkerEnds \/ StageStays \/ (WriteDirectory /\ job.kind # "import")
    <2>1. /\ UNCHANGED <<book, root>> /\ job.pc \in {"read", "write", "done"}
      BY <1>2 DEF WorkerEnds, StageStays, WriteDirectory, diskVars
    <2>2. ~ Swapping /\ Sound
      BY <2>1 DEF Swapping, Sound, InSwap, Undoing, IInv, LockHeld, Locked, UnderLock
    <2> QED BY <1>0, <2>1, <2>2, SettledStays
  <1>3. CASE CommandBegins \/ CommandEnds \/ SourceEdited
    <2>1. /\ UNCHANGED <<book, root, stage, deaths>> /\ (lock' = "worker" => lock = "worker")
          /\ job' = job \/ job.pc \in {"lock", "read"}
      BY <1>3, NoneIsNew DEF CommandBegins, CommandEnds, SourceEdited, diskVars
    <2>2. CASE Swapping
      <3>1. Swapping'
        BY <2>1, <2>2 DEF Swapping, InSwap, Undoing
      <3> QED BY <3>1 DEF Settled
    <2>3. CASE ~ Swapping
      BY <1>0, <2>1, <2>3, SettledStays DEF Sound
    <2> QED BY <2>2, <2>3
  <1>4. CASE OperationFails \/ StopInterrupts
    <2>1. UNCHANGED <<book, root, stage, lock, deaths>> /\ cut' = cut \cup CutHere
      BY <1>4 DEF OperationFails, StopInterrupts, diskVars
    <2>2. CASE Swapping
      <3>1. job.pc \notin Undoing
        BY <2>1 DEF Uncut, CutHere, Recording, Undoing
      <3> QED BY <1>4, <2>2, <3>1, SwapGoesOn DEF Swapping, Settled
    <2>3. CASE ~ Swapping
      BY <1>0, <2>1, <2>3, SettledStays DEF Sound
    <2> QED BY <2>2, <2>3
  <1>5. CASE \/ MoveOld \/ MoveNew \/ RecordMove \/ ResetChoices \/ UndoBook \/ UndoConfig
             \/ UndoNew \/ UndoOld \/ (InstallBook /\ job.kind # "import")
    <2>1. Swapping
      BY <1>5, InsideSwap
    <2>2. Swapping'
      BY <1>5, <2>1, SwapGoesOn
    <2> QED BY <2>2 DEF Settled
  <1> QED BY <1>0, <1>1, <1>2, <1>3, <1>4, <1>5, ImportSettles, SwapEndsSettles,
             RemoveVersionSettles, WorkerLocksSettles, WorkerDiesSettles DEF Next

-----------------------------------------------------------------------------
(* The installed plan survives. *)

\* What is installed stays kept when a version is put aside, and when one is removed that
\* everything was moved back from.
LEMMA KeptStays ==
  ASSUME PlanSurvives, "record" \notin cut, book # 0, UNCHANGED <<book, root>>,
         book \in Plans,
         \A q \in Plans, d \in Part :
            versions[q] # None /\ versions[q].dirs[d] = book => versions'[q] = versions[q]
  PROVE  \A d \in Dirs[book'] : Kept(d, book)'
  <1> SUFFICES ASSUME NEW d \in Dirs[book] PROVE Kept(d, book)'
    OBVIOUS
  <1>1. d \in Part /\ Kept(d, book)
    BY PlansType DEF PlanSurvives
  <1> QED BY <1>1 DEF Kept

LEMMA SurvivesStep ==
  ASSUME IInv, IInv', SwapInv, SwapIsTracked', Next PROVE PlanSurvives'
  <1>1. book' # 0 => book' \in rows'
    BY DEF IInv, PlansMade
  <1>2. CASE "record" \in cut' \/ book' = 0
    BY <1>1, <1>2 DEF PlanSurvives
  <1>3. CASE Swapping'
    <2>1. (IInv /\ Swapping /\ SwapIsTracked => PlanSurvives)'
      BY SwapSurvives, PTL
    <2> QED BY <1>3, <2>1
  <1>4. CASE "record" \notin cut' /\ book' # 0 /\ ~ Swapping'
    <2>1. "record" \notin cut /\ PlanSurvives
      BY <1>4, CutGrows DEF SwapInv
    <2>2. CASE InstallBook /\ job.kind = "import"
      <3>1. book' = job.plan /\ root' = Whole(job.plan)
        BY <2>2 DEF InstallBook, IInv, Importing
      <3>2. (IInv /\ (book # 0 => root = Whole(book)) => PlanSurvives)'
        BY WholeSurvives, PTL
      <3>3. (book # 0 => root = Whole(book))'
        BY <3>1 DEF Whole
      <3> QED BY <3>2, <3>3
    <2>3. CASE ~ (InstallBook /\ job.kind = "import")
      <3>1. ~ (\/ MoveOld \/ MoveNew \/ UndoBook \/ UndoNew \/ UndoOld
               \/ (InstallBook /\ job.kind # "import"))
        BY <1>4, <2>1, InsideSwap, SwapGoesOn, UndoOldTracks
      <3>2. ~ (WriteDirectory /\ job.kind = "import")
        BY <1>4 DEF WriteDirectory, IInv, Importing
      <3>3. UNCHANGED <<book, root>>
        BY <2>3, <3>1, <3>2 DEF Next, Prepare, Reprepare, Configure, WorkerStarts, WorkerRefuses,
           WorkerLocks, WorkerIsRefused, ReadSource, WriteDirectory, ImportWritten,
           PutVersionAside, RegisterChunks, RecordMove, ResetChoices, SwapEnds, WorkerEnds,
           OperationFails, StopInterrupts, StopsEarly, StageStays, UndoConfig, RemoveVersion,
           WorkerDies, CommandBegins, CommandEnds, SourceEdited, diskVars
      <3>4. book \in Plans /\ book # 0
        BY <1>4, <3>3 DEF IInv, TypeOK, DiskType, Plan0
      <3>5. ASSUME NEW q \in Plans, NEW d \in Part, versions[q] # None, versions[q].dirs[d] = book
            PROVE  versions'[q] = versions[q]
        <4>1. SUFFICES ASSUME versions'[q] # versions[q] PROVE FALSE
          OBVIOUS
        <4>2. q = job.plan /\ (PutVersionAside \/ RemoveVersion)
          BY <3>1, <4>1, VersionsChange
        <4>3. CASE PutVersionAside
          BY <3>5, <4>2, <4>3 DEF PutVersionAside, At, SwapInv, VersionsAreNew
        <4>4. CASE RemoveVersion
          <5>1. job.pc = "undoMoves" /\ job.moved = <<>>
            BY <4>4 DEF RemoveVersion
          <5>2. Placed
            BY <2>1, <5>1, SwapFields DEF Undoing, SwapInv, SwapIsTracked
          <5>3. OldMoved = {}
            BY <5>1 DEF OldMoved, Recorded
          <5> QED BY <3>4, <3>5, <4>2, <5>2, <5>3 DEF Placed
        <4> QED BY <4>2, <4>3, <4>4
      <3>6. \A d \in Dirs[book'] : Kept(d, book)'
        BY <2>1, <3>3, <3>4, <3>5, KeptStays
      <3> QED BY <1>1, <3>6 DEF PlanSurvives
    <2> QED BY <2>2, <2>3
  <1> QED BY <1>2, <1>3, <1>4

-----------------------------------------------------------------------------
(* The invariant of the swap. *)

LEMMA SwapInvInit == ASSUME Init PROVE SwapInv
  <1>1. /\ job.pc = "idle" /\ job.kind = "none" /\ (book # 0 => root = Whole(book))
        /\ \A p \in Plans : versions[p] = None
    BY DEF Init, NoJob, Whole
  <1>2. SwapIsTracked /\ Settled /\ VersionsAreNew
    BY <1>1 DEF SwapIsTracked, Settled, Swapping, VersionsAreNew
  <1> QED BY <1>1, <1>2, InitKeeps, WholeSurvives DEF SwapInv

LEMMA SwapInvStutters == ASSUME SwapInv, UNCHANGED vars PROVE SwapInv'
  <1>1. UNCHANGED <<book, root, stage, versions, rows, lock, job, from, cut, deaths>>
    BY DEF vars, diskVars
  <1>2. SwapIsTracked'
    <2>1. OldMoved' = OldMoved /\ NewMoved' = NewMoved /\ Here' = Here /\ Through' = Through
      BY <1>1 DEF OldMoved, NewMoved, Here, Through
    <2>2. /\ Placed => Placed'
          /\ Restorable => Restorable'
          /\ Progress => Progress'
      BY <1>1, <2>1 DEF Placed, Restorable, Found, InVersion, Uncut, Progress
    <2> QED BY <1>1, <2>2 DEF SwapInv, SwapIsTracked, Swapping
  <1>3. VersionsAreNew' /\ Settled' /\ PlanSurvives'
    BY <1>1 DEF SwapInv, VersionsAreNew, Made, Settled, Sound, Uncut, Swapping, PlanSurvives, Kept
  <1> QED BY <1>2, <1>3 DEF SwapInv

LEMMA SwapInvStep == ASSUME IInv, SwapInv, [Next]_vars PROVE SwapInv'
  <1>1. CASE UNCHANGED vars
    BY <1>1, SwapInvStutters
  <1>2. CASE Next
    <2>1. IInv' /\ SwapIsTracked'
      BY <1>2, StepKeeps, TracksStep
    <2>2. VersionsAreNew'
      BY <1>2, NewVersions DEF SwapInv
    <2>3. PlanSurvives'
      BY <1>2, <2>1, SurvivesStep
    <2>4. Settled'
      <3>1. CASE ~ Uncut'
        BY <3>1 DEF Settled
      <3>2. CASE Uncut'
        <4>1. "record" \notin cut
          BY <1>2, <3>2, CutGrows DEF Uncut
        <4> QED BY <1>2, <3>2, <4>1, SettledStep, UndoOldTracks
      <3> QED BY <3>1, <3>2
    <2> QED BY <2>1, <2>2, <2>3, <2>4 DEF SwapInv
  <1> QED BY <1>1, <1>2

LEMMA SwapInductive == Spec => [](IInv /\ SwapInv)
  <1>1. Init => IInv /\ SwapInv
    BY InitKeeps, SwapInvInit
  <1>2. IInv /\ SwapInv /\ [Next]_vars => (IInv /\ SwapInv)'
    BY StepKeeps, SwapInvStep
  <1> QED BY <1>1, <1>2, PTL DEF Spec

\* At every moment of a rebuild and of its rollback, also of one that is cut short, and
\* after a death anywhere in them, the directories of the installed plan are in the
\* workspace or in a version and its chunks are in the store: whatever part of it is moved,
\* it is never only in the stage, which is removed.  What a stop between a rename and its
\* record does to a directory is named in the property: from then on only the chunks are
\* promised.
THEOREM PlanKept == Spec => []PlanSurvives
  <1>1. SwapInv => PlanSurvives
    BY DEF SwapInv
  <1> QED BY <1>1, SwapInductive, PTL

\* As long as no worker died, the workspace between two jobs is that of the installed plan,
\* whichever writes failed or were stopped, however many rebuilds were rolled back, unless
\* a rename was left without its record or a rollback without its rest; and its stage is
\* gone unless the removal of a stage was cut short.
THEOREM SettledWhole == Spec => []SettledPlanIsWhole
  <1>1. IInv /\ SwapInv => SettledPlanIsWhole
    <2> SUFFICES ASSUME IInv, SwapInv, Idle, deaths = 0, book # 0
                 PROVE  /\ "cleanup" \notin cut => stage = None
                        /\ Uncut => \A d \in Part : root[d] = IF d \in Dirs[book] THEN book ELSE 0
      BY DEF SettledPlanIsWhole, Uncut
    <2>1. job.pc = "idle" /\ ~ Swapping
      BY DEF Idle, NoJob, Swapping
    <2>2. "cleanup" \notin cut => stage = None
      BY <2>1 DEF IInv, StageIsRemoved
    <2>3. Uncut => root = Whole(book)
      BY <2>1 DEF SwapInv, Settled, Sound
    <2> QED BY <2>2, <2>3 DEF Whole
  <1> QED BY <1>1, SwapInductive, PTL

=============================================================================
