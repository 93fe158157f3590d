---------------------------- MODULE Preparation ----------------------------
(***************************************************************************)
(* A workspace from its configured draft to its plan: Prepare imports the  *)
(* source into the draft, and Prepare again rebuilds an untouched plan in  *)
(* a stage and swaps it in, directory by directory.  Both run in a         *)
(* supervised worker under the project lock; the server accepts them after *)
(* checks of its own, a command line may take the lock in between, the     *)
(* source may be edited, and the worker can fail, be stopped or die        *)
(* between any two writes, those of a rollback included.                   *)
(***************************************************************************)
EXTENDS Naturals, Sequences, FiniteSets, SequencesExt

CONSTANTS
    Parts,        \* the directories of a plan, in the order they are swapped
    Dirs,         \* Dirs[p]: the directories plan p has
    MaxSources, MaxDeaths,
    MaxFailures,  \* bound on the failures and stops
    None

Part == ToSet(Parts)
Plans == DOMAIN Dirs
NoDirs == [d \in Part |-> 0]

ASSUME PartsAssumption == Parts \in Seq(Part) /\ Parts # <<>> /\ IsInjective(Parts)
ASSUME DirsAssumption == Dirs \in Seq(SUBSET Part) /\ Dirs # <<>>

VARIABLES
    source,     \* version of the book in the Library
    setup,      \* the version the draft was configured for (workspace.json)
    book,       \* book.json: the installed plan, or 0
    root,       \* root[d]: the plan whose directory d is in the workspace
    stage,      \* the directories of .reprepare-stage-*, or None
    versions,   \* history/prepare_versions: what the rebuild of plan p put aside
    config,     \* web.config.json: the plan whose sections it has choices for
    rows,       \* plans whose chunks the store has; none: there is no store
    work,       \* the store has results, receipts or terms
    lock,       \* who holds .lock
    job,        \* the supervised worker
    from,       \* from[p]: what plan p was made of
    cut,        \* history: what a failure or a stop has cut short
    failures, deaths

diskVars == <<setup, book, root, stage, versions, config, rows, work>>
vars == <<source, diskVars, lock, job, from, cut, failures, deaths>>

(* What is on disk, where it is there. *)
Layouts == [Part -> Plans \cup {0}]
Versions == [plan : Plans \cup {0}, config : Plans \cup {0}, dirs : Layouts]
Origins == [source : Nat, edited : BOOLEAN]

ASSUME NoneAssumption ==
    None \notin Nat \cup {"worker", "command"} \cup Layouts \cup Versions \cup Origins

NoJob == [kind |-> "none", pc |-> "idle"]
Idle == job = NoJob
At(kind, pc) == job.kind = kind /\ job.pc = pc

Made == {p \in Plans : from[p] # None}

-----------------------------------------------------------------------------
(* What a draft and an untouched workspace look like.                      *)

DraftIsValid == /\ setup # None /\ book = 0 /\ rows = {}
                /\ root = NoDirs /\ stage = None

SourceIsSelected == setup # None => source = setup

NothingUnexpected == ~ work /\ stage = None

MayRebuild(revision) == /\ book # 0 /\ SourceIsSelected
                        /\ config = revision
                        /\ NothingUnexpected

-----------------------------------------------------------------------------
(* The server.                                                             *)

NewJob(kind, revision) ==
    [kind |-> kind, pc |-> "start", expected |-> revision, edited |-> FALSE,
     plan |-> 0, old |-> 0, oldConfig |-> 0, at |-> 1, moved |-> <<>>, stopped |-> FALSE]

Prepare ==
    /\ Idle /\ DraftIsValid /\ SourceIsSelected
    /\ job' = NewJob("import", 0)
    /\ UNCHANGED <<source, diskVars, lock, from, cut, failures, deaths>>

(* check_reprepare takes the project lock for the time of its checks. *)
Reprepare ==
    /\ Idle /\ lock = None /\ rows # {}
    /\ MayRebuild(config)
    /\ job' = NewJob("rebuild", config)
    /\ UNCHANGED <<source, diskVars, lock, from, cut, failures, deaths>>

(* A choice for a section of the installed plan. *)
Configure ==
    /\ Idle /\ lock = None /\ book # 0
    /\ config' = book
    /\ UNCHANGED <<source, setup, book, root, stage, versions, rows, work, lock, job, from,
                   cut, failures, deaths>>

-----------------------------------------------------------------------------
(* The worker.                                                             *)

End == job' = NoJob

(* Faulty variant: the worker relies on the server's check of the source. *)
StartTrustsServer == job.kind = "import" => DraftIsValid

(* The setup of a workspace without workspace.json has no fingerprint to   *)
(* compare with: the rebuild of such a workspace ends here.                *)
StartChecks == /\ setup # None /\ source = setup
               /\ job.kind = "import" => DraftIsValid

WorkerStarts ==
    /\ job.pc = "start" /\ StartChecks
    /\ job' = [job EXCEPT !.pc = "lock"]
    /\ UNCHANGED <<source, diskVars, lock, from, cut, failures, deaths>>

WorkerRefuses ==
    /\ job.pc = "start" /\ ~ StartChecks
    /\ End
    /\ UNCHANGED <<source, diskVars, lock, from, cut, failures, deaths>>

(* Faulty variant: what the server saw of the workspace still holds. *)
LockedChecksRevision == IF job.kind = "import" THEN book = 0 /\ rows = {}
                        ELSE book # 0 /\ config = job.expected /\ stage = None

LockedChecks == IF job.kind = "import" THEN book = 0 /\ rows = {} ELSE MayRebuild(job.expected)

(* The rebuild remembers the plan and the choices it found under the lock. *)
WorkerLocks ==
    /\ job.pc = "lock" /\ lock = None /\ LockedChecks
    /\ lock' = "worker"
    /\ job' = [job EXCEPT !.pc = "read", !.old = book, !.oldConfig = config]
    /\ stage' = IF job.kind = "rebuild" THEN NoDirs ELSE stage
    /\ UNCHANGED <<source, setup, book, root, versions, config, rows, work, from, cut, failures, deaths>>

WorkerIsRefused ==
    /\ job.pc = "lock" /\ (lock # None \/ ~ LockedChecks)
    /\ End
    /\ UNCHANGED <<source, diskVars, lock, from, cut, failures, deaths>>

ReadSource ==
    /\ job.pc = "read"
    /\ \E p \in Plans :
          /\ p \notin Made /\ \A q \in Plans : q < p => q \in Made
          /\ from' = [from EXCEPT ![p] = [source |-> source, edited |-> job.edited]]
          /\ job' = [job EXCEPT !.pc = "write", !.plan = p]
    /\ UNCHANGED <<source, diskVars, lock, cut, failures, deaths>>

(* import_folder writes into the workspace, or into the stage. *)
Target == IF job.kind = "import" THEN root ELSE stage
Unwritten == {d \in Dirs[job.plan] : Target[d] # job.plan}

WriteDirectory ==
    /\ job.pc = "write"
    /\ \E d \in Unwritten :
          LET written == [Target EXCEPT ![d] = job.plan]
          IN IF job.kind = "import" THEN root' = written /\ stage' = stage
             ELSE stage' = written /\ root' = root
    /\ UNCHANGED <<source, setup, book, versions, config, rows, work, lock, job, from, cut, failures, deaths>>

ImportWritten ==
    /\ At("import", "write") /\ Unwritten = {}
    /\ job' = [job EXCEPT !.pc = "register"]
    /\ UNCHANGED <<source, diskVars, lock, from, cut, failures, deaths>>

PutVersionAside ==
    /\ At("rebuild", "write") /\ Unwritten = {}
    /\ versions' = [versions EXCEPT ![job.plan] =
                       [plan |-> job.old, config |-> job.oldConfig, dirs |-> NoDirs]]
    /\ job' = [job EXCEPT !.pc = "register"]
    /\ UNCHANGED <<source, setup, book, root, stage, config, rows, work, lock, from, cut, failures, deaths>>

RegisterChunks ==
    /\ job.pc = "register"
    /\ rows' = rows \cup {job.plan}
    /\ job' = [job EXCEPT !.pc = IF job.kind = "import" THEN "book" ELSE "old"]
    /\ UNCHANGED <<source, setup, book, root, stage, versions, config, work, lock, from, cut, failures, deaths>>

-----------------------------------------------------------------------------
(* The swap.  Every rename is followed by its record, which the rollback   *)
(* goes by.                                                                *)

Here == Parts[job.at]

MoveOld ==
    /\ job.pc = "old"
    /\ IF root[Here] = 0
       THEN job' = [job EXCEPT !.pc = "new"] /\ UNCHANGED <<root, versions>>
       ELSE /\ versions' = [versions EXCEPT ![job.plan].dirs[Here] = root[Here]]
            /\ root' = [root EXCEPT ![Here] = 0]
            /\ job' = [job EXCEPT !.pc = "noteOld"]
    /\ UNCHANGED <<source, setup, book, stage, config, rows, work, lock, from, cut, failures, deaths>>

AfterPart == IF job.at = Len(Parts) THEN [job EXCEPT !.pc = "config"]
         ELSE [job EXCEPT !.pc = "old", !.at = @ + 1]

MoveNew ==
    /\ job.pc = "new"
    /\ IF stage[Here] = 0
       THEN job' = AfterPart /\ UNCHANGED <<root, stage>>
       ELSE /\ root' = [root EXCEPT ![Here] = stage[Here]]
            /\ stage' = [stage EXCEPT ![Here] = 0]
            /\ job' = [job EXCEPT !.pc = "noteNew"]
    /\ UNCHANGED <<source, setup, book, versions, config, rows, work, lock, from, cut, failures, deaths>>

RecordMove ==
    /\ \/ /\ job.pc = "noteOld"
          /\ job' = [job EXCEPT !.pc = "new", !.moved = Append(@, <<"old", Here>>)]
       \/ /\ job.pc = "noteNew"
          /\ job' = [AfterPart EXCEPT !.moved = Append(@, <<"new", Here>>)]
    /\ UNCHANGED <<source, diskVars, lock, from, cut, failures, deaths>>

(* Faulty variant: the section choices are kept. *)
ResetNothing ==
    /\ job.pc = "config"
    /\ job' = [job EXCEPT !.pc = "book"]
    /\ UNCHANGED <<source, diskVars, lock, from, cut, failures, deaths>>

(* The choices are reset before the plan they would be misread against. *)
ResetChoices ==
    /\ job.pc = "config"
    /\ config' = 0
    /\ job' = [job EXCEPT !.pc = "book"]
    /\ UNCHANGED <<source, setup, book, root, stage, versions, rows, work, lock, from, cut, failures, deaths>>

InstallBook ==
    /\ job.pc = "book"
    /\ book' = job.plan
    /\ job' = [job EXCEPT !.pc = IF job.kind = "import" THEN "done" ELSE "installed"]
    /\ UNCHANGED <<source, setup, root, stage, versions, config, rows, work, lock, from, cut, failures, deaths>>

SwapEnds ==
    /\ job.pc = "installed"
    /\ job' = [job EXCEPT !.pc = "done"]
    /\ UNCHANGED <<source, diskVars, lock, from, cut, failures, deaths>>

(* The stage is removed and the lock released, whatever happened. *)
WorkerEnds ==
    /\ job.pc = "done"
    /\ stage' = None /\ lock' = None /\ End
    /\ UNCHANGED <<source, setup, book, root, versions, config, rows, work, from, cut, failures, deaths>>

-----------------------------------------------------------------------------
(* Exceptions.  Within the swap they are rolled back; one that comes in    *)
(* the rollback cuts that short.                                           *)

InSwap == {"old", "noteOld", "new", "noteNew", "config", "book", "installed"}
Recording == {"noteOld", "noteNew"}
Undoing == {"undoBook", "undoConfig", "undoMoves"}
UnderLock == {"read", "write", "register"} \cup InSwap

Raise == IF job.kind = "rebuild" /\ job.pc \in InSwap THEN "undoBook" ELSE "done"

\* A rename without its record, or a rollback without its rest.
CutHere == CASE job.pc \in Recording -> {"record"}
             [] job.pc \in Undoing -> {"rollback"}
             [] OTHER -> {}

OperationFails ==
    /\ job.pc \in (UnderLock \cup Undoing) \ Recording /\ failures < MaxFailures
    /\ failures' = failures + 1
    /\ job' = [job EXCEPT !.pc = Raise]
    /\ cut' = cut \cup CutHere
    /\ UNCHANGED <<source, diskVars, lock, from, deaths>>

(* The first interrupt raises KeyboardInterrupt, wherever the worker is;   *)
(* later ones are ignored.                                                 *)
StopInterrupts ==
    /\ job.pc \in UnderLock \cup Undoing /\ ~ job.stopped /\ failures < MaxFailures
    /\ failures' = failures + 1
    /\ job' = [job EXCEPT !.pc = Raise, !.stopped = TRUE]
    /\ cut' = cut \cup CutHere
    /\ UNCHANGED <<source, diskVars, lock, from, deaths>>

StopsEarly ==
    /\ job.pc \in {"start", "lock"} /\ failures < MaxFailures
    /\ failures' = failures + 1
    /\ End
    /\ UNCHANGED <<source, diskVars, lock, from, cut, deaths>>

(* A stop before the try that removes the stage or in its removal, or an   *)
(* error there, which is ignored: the stage stays, or some of it.          *)
StageStays ==
    /\ job.kind = "rebuild" /\ job.pc \in {"read", "done"} /\ failures < MaxFailures
    /\ failures' = failures + 1
    /\ lock' = None /\ End
    /\ cut' = cut \cup {"cleanup"}
    /\ UNCHANGED <<source, diskVars, from, deaths>>

UndoBook ==
    /\ job.pc = "undoBook"
    /\ book' = job.old
    /\ job' = [job EXCEPT !.pc = "undoConfig"]
    /\ UNCHANGED <<source, setup, root, stage, versions, config, rows, work, lock, from, cut, failures, deaths>>

UndoConfig ==
    /\ job.pc = "undoConfig"
    /\ config' = job.oldConfig
    /\ job' = [job EXCEPT !.pc = "undoMoves"]
    /\ UNCHANGED <<source, setup, book, root, stage, versions, rows, work, lock, from, cut, failures, deaths>>

LastMove == job.moved[Len(job.moved)]
Undone == [job EXCEPT !.moved = Front(@)]

UndoNew ==
    /\ job.pc = "undoMoves" /\ job.moved # <<>> /\ LastMove[1] = "new"
    /\ stage' = [stage EXCEPT ![LastMove[2]] = root[LastMove[2]]]
    /\ root' = [root EXCEPT ![LastMove[2]] = 0]
    /\ job' = Undone
    /\ UNCHANGED <<source, setup, book, versions, config, rows, work, lock, from, cut, failures, deaths>>

(* Faulty variant: the version is removed without putting it back first. *)
UndoOldLater ==
    /\ job.pc = "undoMoves" /\ job.moved # <<>> /\ LastMove[1] = "old"
    /\ job' = Undone
    /\ UNCHANGED <<source, diskVars, lock, from, cut, failures, deaths>>

(* A directory cannot be renamed over another one that has files. *)
UndoOld ==
    /\ job.pc = "undoMoves" /\ job.moved # <<>> /\ LastMove[1] = "old"
    /\ LET d == LastMove[2]
       IN IF root[d] # 0 THEN job' = [job EXCEPT !.pc = "done"] /\ UNCHANGED <<root, versions>>
          ELSE /\ root' = [root EXCEPT ![d] = versions[job.plan].dirs[d]]
               /\ versions' = [versions EXCEPT ![job.plan].dirs[d] = 0]
               /\ job' = Undone
    /\ UNCHANGED <<source, setup, book, stage, config, rows, work, lock, from, cut, failures, deaths>>

RemoveVersion ==
    /\ job.pc = "undoMoves" /\ job.moved = <<>>
    /\ versions' = [versions EXCEPT ![job.plan] = None]
    /\ job' = [job EXCEPT !.pc = "done"]
    /\ UNCHANGED <<source, setup, book, root, stage, config, rows, work, lock, from, cut, failures, deaths>>

-----------------------------------------------------------------------------
(* Everyone else.                                                          *)

(* SIGKILL, or the machine: what is on disk stays as it is. *)
WorkerDies ==
    /\ ~ Idle /\ deaths < MaxDeaths
    /\ deaths' = deaths + 1
    /\ End
    /\ lock' = IF lock = "worker" THEN None ELSE lock
    /\ UNCHANGED <<source, diskVars, from, cut, failures>>

(* A command line that analyses the book. *)
CommandBegins ==
    /\ lock = None /\ book # 0
    /\ lock' = "command"
    /\ UNCHANGED <<source, diskVars, job, from, cut, failures, deaths>>

CommandEnds ==
    /\ lock = "command"
    /\ work' = TRUE /\ lock' = None
    /\ UNCHANGED <<source, setup, book, root, stage, versions, config, rows, job, from, cut, failures, deaths>>

SourceEdited ==
    /\ source < MaxSources
    /\ source' = source + 1
    /\ job' = IF job.pc \in {"lock", "read"} THEN [job EXCEPT !.edited = TRUE] ELSE job
    /\ UNCHANGED <<diskVars, lock, from, cut, failures, deaths>>

-----------------------------------------------------------------------------
(* A configured draft, or a workspace imported on the command line.        *)

Init ==
    /\ source = 1
    /\ stage = None /\ versions = [p \in Plans |-> None] /\ config = 0
    /\ work = FALSE /\ lock = None /\ job = NoJob
    /\ cut = {} /\ failures = 0 /\ deaths = 0
    /\ \/ /\ setup = 1 /\ book = 0 /\ root = NoDirs /\ rows = {}
          /\ from = [p \in Plans |-> None]
       \/ /\ setup = None /\ book = 1 /\ rows = {1}
          /\ root = [d \in Part |-> IF d \in Dirs[1] THEN 1 ELSE 0]
          /\ from = [p \in Plans |-> IF p = 1 THEN [source |-> 1, edited |-> FALSE] ELSE None]

Next ==
    \/ Prepare \/ Reprepare \/ Configure
    \/ WorkerStarts \/ WorkerRefuses \/ WorkerLocks \/ WorkerIsRefused
    \/ ReadSource \/ WriteDirectory \/ ImportWritten \/ PutVersionAside \/ RegisterChunks
    \/ MoveOld \/ MoveNew \/ RecordMove \/ ResetChoices \/ InstallBook \/ SwapEnds \/ WorkerEnds
    \/ OperationFails \/ StopInterrupts \/ StopsEarly \/ StageStays
    \/ UndoBook \/ UndoConfig \/ UndoNew \/ UndoOld \/ RemoveVersion
    \/ WorkerDies \/ CommandBegins \/ CommandEnds \/ SourceEdited

Spec == Init /\ [][Next]_vars

-----------------------------------------------------------------------------
(* Properties.                                                             *)

Kept(d, p) == \/ root[d] = p
              \/ \E q \in Plans : versions[q] # None /\ versions[q].dirs[d] = p

(* The directories of the installed plan are in the workspace or in a      *)
(* version, and its chunks are in the store, at every moment of a rebuild, *)
(* of its rollback, also of one that was cut short, and after a death      *)
(* anywhere in them: the stage, which is removed, is never the only place  *)
(* of anything of the installed plan.  Excepted is what comes after a stop *)
(* between a rename and its record: the rollback then removes a directory  *)
(* that it does not know of (InterruptionIsHarmless).                      *)
PlanSurvives ==
    book # 0 =>
        /\ book \in rows
        /\ "record" \notin cut => \A d \in Dirs[book] : Kept(d, book)

(* Unless a worker died, the workspace between two jobs is exactly that of *)
(* the installed plan, whichever write of a rebuild failed or was stopped, *)
(* as long as its rollback was not cut short as well; the stage is gone    *)
(* unless its own removal was cut.                                         *)
SettledPlanIsWhole ==
    Idle /\ deaths = 0 /\ book # 0 =>
        /\ "cleanup" \notin cut => stage = None
        /\ cut \cap {"record", "rollback"} = {} =>
              \A d \in Part : root[d] = IF d \in Dirs[book] THEN book ELSE 0

(* "Keeping old pending rows also makes an interruption before book.json   *)
(* switches harmless to the old plan."  With no death between two jobs the *)
(* installed plan has all its directories, here or in a version.  The code *)
(* breaks this.                                                            *)
InterruptionIsHarmless ==
    Idle /\ deaths = 0 /\ book # 0 => \A d \in Dirs[book] : Kept(d, book)

(* Choices made for the sections of one plan are never read against        *)
(* another one, in which the same identifiers name other sections.         *)
ChoicesFitPlan == config \in {0, book}

(* A configured workspace holds a plan of the source it was configured     *)
(* for: an edit before the worker looked at the source is noticed.         *)
MadeFromSelected ==
    book # 0 /\ setup # None => from[book].source = setup \/ from[book].edited

(* A plan that has results is not replaced, whoever made them between the  *)
(* server's check and the worker's lock.                                   *)
WorkIsKept == [][book' # book => ~ work]_vars

=============================================================================
