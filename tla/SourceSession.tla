---------------------------- MODULE SourceSession ---------------------------
(***************************************************************************)
(* One persistent native session of the Codex app-server (a slot): its     *)
(* history begins with P0, which carries the source text, and each         *)
(* consumer pass is one turn on top of it that is reverted again as soon   *)
(* as its outcome is durable.  The manifest of the slot records an intent  *)
(* before the turn is asked for, so that a run that finds the slot after a *)
(* death can tell what became of it (source_sessions.py, called by         *)
(* Runner._run of engine.py).                                              *)
(*                                                                         *)
(* The native history belongs to the app-server, which is external: what   *)
(* it may do is read off the answers source_sessions.py provides for.      *)
(***************************************************************************)
EXTENDS Naturals, Sequences, FiniteSets

CONSTANTS Tasks,       \* the consumer tasks whose source is this slot's
          P0,          \* the task that loads the source
          None,
          MaxTurns,    \* bound on the submissions
          MaxDeaths    \* bound on the runs that die or stop with an error

ASSUME TasksAssumption == P0 \notin Tasks
ASSUME BoundsAssumption == MaxTurns \in Nat /\ MaxDeaths \in Nat

VARIABLES
    manifest,     \* the slot: state, p0, active submission, cleanup, compacted
    submissions,  \* the attempts and their evidence, in order
    job,          \* per task the accepted attempt, 0 when there is none
    history,      \* native: the active turns, named by their submission
    turn,         \* native: what became of each submission
    orphan,       \* an app-server lives on after its run
    op,           \* the run that holds the slot
    refused,      \* what the last run was refused for
    deaths

vars == <<manifest, submissions, job, history, turn, orphan, op, refused, deaths>>
native == <<history, turn, orphan>>

Attempts == 1 .. MaxTurns
Answers == {"good", "bad"}                     \* the answer validates, or not
Completed == Answers \cup {"silent"}            \* or the turn has no final answer
Ended == Completed \cup {"failed", "interrupted"}
Free == [at |-> "none", task |-> None, then |-> "end"]
Unrefused == [sub |-> 0, task |-> None]

Init ==
    /\ manifest = [state |-> "absent", p0 |-> "absent", active |-> 0,
                   cleanup |-> FALSE, compacted |-> FALSE]
    /\ submissions = <<>>
    /\ job = [t \in Tasks \cup {P0} |-> 0]
    /\ history = <<>>
    /\ turn = [i \in Attempts |-> "none"]
    /\ orphan = FALSE
    /\ op = Free
    /\ refused = Unrefused
    /\ deaths = 0

-----------------------------------------------------------------------------

Active == manifest.active
Ready == manifest.p0 = "ready"
Turns == {history[k] : k \in DOMAIN history}
Task(i) == submissions[i].task
At(place) == op.at = place
Goes(place) == op' = [op EXCEPT !.at = place]

(* The place a run goes on from once the slot is clean. *)
Continues == op' = IF op.then = "end" THEN Free ELSE [op EXCEPT !.at = op.then]

Refuses(i) == /\ op' = Free
              /\ refused' = [sub |-> i, task |-> op.task]

CleanKeepingActive(m) == [m EXCEPT !.state = "baseline_ready", !.cleanup = FALSE]
Clean(m) == [m EXCEPT !.state = "baseline_ready", !.active = 0, !.cleanup = FALSE]

(* Both the reply and the manifest may be lost after the request is sent:  *)
(* only a log without turn/start proves that it never was.                 *)
UnsentUnlessBound(i) == ~submissions[i].bound
ProvenUnsent(i) == ~submissions[i].logged

(* The turns that carry the text of an intent.  The text of a task is the  *)
(* same each time; the identity of the turn tells them apart once known.   *)
Matches(i) == {j \in Turns : Task(j) = Task(i) /\ (submissions[i].bound => j = i)}

(* Proof that removing a turn loses nothing (durable_cleanup_outcome). *)
DurableOutcome(i) ==
    /\ i # 0 /\ Task(i) # P0 /\ submissions[i].evidence
    /\ IF turn[i] \in Completed
       THEN \/ job[Task(i)] = i /\ submissions[i].validation = "passed"
            \/ submissions[i].validation = "failed"
       ELSE turn[i] \in Ended /\ submissions[i].validation = "not_run"

-----------------------------------------------------------------------------
(* A run of a task.  A saved result needs the slot only to clean it; the   *)
(* app-server of an earlier run must be gone, and a compacted slot is      *)
(* refused for good.                                                       *)

Dirty == manifest.state \notin {"absent", "baseline_ready"} \/ Active # 0

Begins(t) ==
    /\ At("none") /\ ~orphan /\ ~manifest.compacted
    /\ job[t] # 0 => Dirty
    /\ op' = [at |-> "reconcile", task |-> t,
              then |-> IF job[t] # 0 THEN "end" ELSE "candidates"]
    /\ refused' = Unrefused
    /\ UNCHANGED <<manifest, submissions, job, native, deaths>>

(* The revert was done natively and its reply, or the mark, was lost. *)
RevertedNever == FALSE
RevertedAlready ==
    /\ Ready /\ Len(history) = 1 /\ manifest.cleanup
    /\ manifest.state \in {"reverting", "accepted_cleanup_pending", "failed_cleanup_pending"}

ResumesReverted ==
    /\ At("reconcile") /\ RevertedAlready
    /\ IF DurableOutcome(Active) THEN Goes("cleanup") /\ UNCHANGED refused
       ELSE Refuses(Active)
    /\ UNCHANGED <<manifest, submissions, job, native, deaths>>

Recovers == At("reconcile") /\ ~RevertedAlready /\ Active # 0

ClearsUnsent ==
    /\ Recovers
    /\ Matches(Active) = {} /\ Len(history) = (IF Ready THEN 1 ELSE 0)
    /\ ProvenUnsent(Active)
    /\ manifest' = [Clean(manifest) EXCEPT !.state = IF Ready THEN @ ELSE "preparing"]
    /\ Continues
    /\ UNCHANGED <<submissions, job, native, refused, deaths>>

(* The outcome is uncertain, or the turn has not ended.  A thread without  *)
(* a turn cannot be resumed at all, which leaves the manifest as it is.    *)
HoldsUncertain ==
    /\ Recovers
    /\ \/ Matches(Active) = {} /\ ~ProvenUnsent(Active)
       \/ Cardinality(Matches(Active)) > 1
       \/ \E i \in Matches(Active) : turn[i] = "active"
    /\ manifest' = IF history = <<>> THEN manifest
                   ELSE [manifest EXCEPT !.state = "recovery_required"]
    /\ Refuses(Active)
    /\ UNCHANGED <<submissions, job, native, deaths>>

(* The receipt of the model and effort that were applied: written once. *)
Selection(i) ==
    IF turn[i] \in Answers /\ submissions[i].selection = "none"
    THEN {"verified", "rejected"} ELSE {submissions[i].selection}

(* What an ended turn asks for: cleaning when its outcome is durable, the  *)
(* acceptance of its answer otherwise.                                     *)
Settled(i) ==
    IF Ready /\ submissions[i].validation = "failed" THEN "failed_cleanup_pending"
    ELSE IF Task(i) # P0 /\ job[Task(i)] # 0 THEN "accepted_cleanup_pending"
    ELSE IF Task(i) # P0 /\ turn[i] \notin Completed THEN "failed_cleanup_pending"
    ELSE "terminal_uncommitted"

SettlesEnded ==
    /\ Recovers
    /\ \E i \in Matches(Active), selection \in Selection(Active) :
          /\ Matches(Active) = {i} /\ turn[i] \in Ended \ {"silent"}
          /\ submissions' = [submissions EXCEPT ![Active].bound = TRUE,
                                ![Active].evidence = TRUE, ![Active].selection = selection]
          /\ IF selection = "rejected"
             THEN /\ manifest' = [manifest EXCEPT !.state = "recovery_required"]
                  /\ Refuses(Active)
             ELSE /\ manifest' = [manifest EXCEPT !.state = Settled(Active),
                                     !.cleanup = @ \/ Settled(Active) # "terminal_uncommitted"]
                  /\ IF Ready /\ Settled(Active) # "terminal_uncommitted"
                     THEN Goes("cleanup") ELSE Continues
                  /\ UNCHANGED refused
    /\ UNCHANGED <<job, native, deaths>>

(* A completed turn without a final answer has nothing to accept and       *)
(* nothing that proves a failure: no run gets past it.                     *)
HoldsSilent ==
    /\ Recovers
    /\ \E i \in Matches(Active) : Matches(Active) = {i} /\ turn[i] = "silent"
    /\ submissions' = [submissions EXCEPT ![Active].bound = TRUE]
    /\ manifest' = [manifest EXCEPT !.state = "terminal_uncommitted"]
    /\ Refuses(Active)
    /\ UNCHANGED <<job, native, deaths>>

FindsNothingActive ==
    /\ At("reconcile") /\ Active = 0
    /\ IF Ready /\ (manifest.cleanup \/ Len(history) > 1)
       THEN Goes("cleanup") /\ UNCHANGED <<manifest, refused>>
       ELSE IF ~Ready /\ history # <<>>
       THEN Refuses(0) /\ UNCHANGED manifest
       ELSE /\ manifest' = IF Ready THEN Clean(manifest) ELSE manifest
            /\ Continues /\ UNCHANGED refused
    /\ UNCHANGED <<submissions, job, native, deaths>>

-----------------------------------------------------------------------------
(* Cleaning: every turn above P0 is the slot's own and has a durable       *)
(* outcome; then the native revert, and the proof that only P0 is left.    *)

Above == {history[k] : k \in 2 .. Len(history)}
Known(i) == submissions[i].bound /\ turn[i] \in Ended

CleanupIsRefused ==
    /\ At("cleanup")
    /\ \E i \in Above :
          /\ ~Known(i) \/ ~DurableOutcome(i)
          /\ Refuses(i)
          /\ manifest' = IF Known(i) THEN manifest
                         ELSE [manifest EXCEPT !.state = "recovery_required"]
    /\ UNCHANGED <<submissions, job, native, deaths>>

RevertBegins ==
    /\ At("cleanup") /\ Above # {}
    /\ \A i \in Above : Known(i) /\ DurableOutcome(i)
    /\ manifest' = [manifest EXCEPT !.state = "reverting", !.cleanup = TRUE]
    /\ Goes("revert")
    /\ UNCHANGED <<submissions, job, native, refused, deaths>>

Reverts ==
    /\ At("revert")
    /\ history' = SubSeq(history, 1, 1)
    /\ Goes("cleanup")
    /\ UNCHANGED <<manifest, submissions, job, turn, orphan, refused, deaths>>

CleanupEnds ==
    /\ At("cleanup") /\ Above = {}
    /\ manifest' = Clean(manifest)
    /\ Continues
    /\ UNCHANGED <<submissions, job, native, refused, deaths>>

-----------------------------------------------------------------------------
(* A completed answer on disk is judged before the model is asked again.   *)

Answered(t) == {i \in DOMAIN submissions : /\ Task(i) = t /\ submissions[i].evidence
                                           /\ turn[i] \in Answers}

AcceptsRecovered ==
    /\ At("candidates")
    /\ \E i \in Answered(op.task) :
          /\ turn[i] = "good"
          /\ job' = [job EXCEPT ![op.task] = i]
    /\ Goes("accepted")
    /\ UNCHANGED <<manifest, submissions, native, refused, deaths>>

(* The attempt's own record follows the job. *)
RecordsRecovered ==
    /\ At("accepted")
    /\ submissions' = [submissions EXCEPT ![job[op.task]].validation = "passed"]
    /\ op' = [op EXCEPT !.at = "reconcile", !.then = "end"]
    /\ UNCHANGED <<manifest, job, native, refused, deaths>>

FindsNoAnswer ==
    /\ At("candidates")
    /\ \A i \in Answered(op.task) : turn[i] = "bad"
    /\ IF Active \in Answered(op.task)
       THEN /\ submissions' = [submissions EXCEPT ![Active].validation = "failed"]
            /\ op' = [op EXCEPT !.at = "reconcile", !.then = "generate"]
       ELSE /\ Goes("generate") /\ UNCHANGED submissions
    /\ UNCHANGED <<manifest, job, native, refused, deaths>>

-----------------------------------------------------------------------------
(* One turn: the intent is durable before it is asked for, the request is  *)
(* in the log before it is written to the app-server.                      *)

Attempt(t) == [task |-> t, logged |-> FALSE, bound |-> FALSE, evidence |-> FALSE,
               validation |-> "not_run", selection |-> "none"]

IntentAfterReply(m, i) == m
Intent(m, i) == [m EXCEPT !.state = "submission_pending", !.active = i]

Submits(t) ==
    /\ Len(submissions) < MaxTurns
    /\ submissions' = Append(submissions, Attempt(t))
    /\ manifest' = [Intent(manifest, Len(submissions) + 1) EXCEPT
                       !.p0 = IF t = P0 THEN "preparing" ELSE @]
    /\ Goes("send")
    /\ UNCHANGED <<job, native, refused, deaths>>

Generates ==
    /\ At("generate") /\ Active = 0
    /\ \/ Ready /\ Submits(op.task)
       \/ ~Ready /\ history = <<>> /\ Submits(P0)

(* Another task's answer is waiting, or P0 has not come to a usable end. *)
GenerateIsRefused ==
    /\ At("generate") /\ Active # 0
    /\ Ready \/ turn[Active] # "good"
    /\ Refuses(Active)
    /\ UNCHANGED <<manifest, submissions, job, native, deaths>>

Asked == Len(submissions)      \* the submission a live run is about

Sends ==
    /\ At("send")
    /\ submissions' = [submissions EXCEPT ![Asked].logged = TRUE]
    /\ Goes("sent")
    /\ UNCHANGED <<manifest, job, native, refused, deaths>>

TurnStarts ==
    /\ At("sent")
    /\ history' = Append(history, Asked)
    /\ turn' = [turn EXCEPT ![Asked] = "active"]
    /\ Goes("reply")
    /\ UNCHANGED <<manifest, submissions, job, orphan, refused, deaths>>

(* The app-server dies with the request, which the model may have seen. *)
RequestIsLost ==
    /\ At("sent") /\ deaths < MaxDeaths
    /\ \E seen \in {"none", "lost"} : turn' = [turn EXCEPT ![Asked] = seen]
    /\ op' = Free
    /\ deaths' = deaths + 1
    /\ UNCHANGED <<manifest, submissions, job, history, orphan, refused>>

Binds ==
    /\ At("reply")
    /\ submissions' = [submissions EXCEPT ![Asked].bound = TRUE]
    /\ manifest' = [manifest EXCEPT !.state = "running"]
    /\ Goes("wait")
    /\ UNCHANGED <<job, native, refused, deaths>>

TurnEnds ==
    /\ \E i \in Attempts, outcome \in Ended :
          turn[i] = "active" /\ turn' = [turn EXCEPT ![i] = outcome]
    /\ At("reply") \/ At("wait") \/ orphan
    /\ UNCHANGED <<manifest, submissions, job, history, orphan, op, refused, deaths>>

(* The terminal evidence is saved, whatever the end was.                   *)
Collects ==
    /\ At("wait") /\ turn[Asked] \in Ended
    /\ submissions' = [submissions EXCEPT ![Asked].evidence = TRUE]
    /\ manifest' = [manifest EXCEPT !.state = "terminal_uncommitted"]
    /\ Goes("verify")
    /\ UNCHANGED <<job, native, refused, deaths>>

(* The receipt, then whether the context was compacted under the turn,     *)
(* then whether there is an answer and no error was reported with it: only *)
(* that goes on, all else ends the run.                                    *)
Verifies ==
    /\ At("verify")
    /\ \E selection \in Selection(Asked) :
          /\ submissions' = [submissions EXCEPT ![Asked].selection = selection]
          /\ \/ /\ selection = "rejected"
                /\ manifest' = [manifest EXCEPT !.state = "recovery_required"]
                /\ op' = Free
             \/ /\ selection # "rejected"
                /\ manifest' = [manifest EXCEPT !.state = "recovery_required", !.compacted = TRUE]
                /\ op' = Free
             \/ /\ selection # "rejected"
                /\ \/ op' = Free
                   \/ turn[Asked] \in Answers /\ Goes("judge")
                /\ UNCHANGED manifest
    /\ UNCHANGED <<job, native, refused, deaths>>

Judges ==
    /\ At("judge") /\ Ready
    /\ submissions' = [submissions EXCEPT ![Asked].validation =
                          IF turn[Asked] = "good" THEN "passed" ELSE "failed"]
    /\ Goes(IF turn[Asked] = "good" THEN "save" ELSE "finalize")
    /\ UNCHANGED <<manifest, job, native, refused, deaths>>

Saves ==
    /\ At("save")
    /\ job' = [job EXCEPT ![op.task] = Asked]
    /\ Goes("finalize")
    /\ UNCHANGED <<manifest, submissions, native, refused, deaths>>

(* After a failed validation the pass is asked again while retries remain. *)
Finalizes ==
    LET passed == submissions[Asked].validation = "passed" IN
    /\ At("finalize")
    /\ manifest' = [manifest EXCEPT !.cleanup = TRUE,
          !.state = IF passed THEN "accepted_cleanup_pending" ELSE "failed_cleanup_pending"]
    /\ \E then \in IF passed THEN {"end"} ELSE {"end", "generate"} :
          op' = [op EXCEPT !.at = "cleanup", !.then = then]
    /\ UNCHANGED <<submissions, job, native, refused, deaths>>

(* P0 is accepted when it answered as agreed and is alone in the history,  *)
(* whether this run asked for it or found it; then the slot is ready.      *)
AcceptsP0 ==
    /\ At("judge") \/ At("generate")
    /\ ~Ready /\ Active # 0 /\ turn[Active] = "good" /\ Len(history) = 1
    /\ submissions' = [submissions EXCEPT ![Active].validation = "passed"]
    /\ job' = [job EXCEPT ![P0] = Active]
    /\ Goes("p0_saved")
    /\ UNCHANGED <<manifest, native, refused, deaths>>

BecomesReady ==
    /\ At("p0_saved")
    /\ manifest' = [Clean(manifest) EXCEPT !.p0 = "ready"]
    /\ Goes("generate")
    /\ UNCHANGED <<submissions, job, native, refused, deaths>>

RejectsP0 ==
    /\ At("judge") /\ ~Ready /\ turn[Asked] = "bad"
    /\ op' = Free
    /\ UNCHANGED <<manifest, submissions, job, native, refused, deaths>>

-----------------------------------------------------------------------------
(* A run dies, or stops with an error or at a request: its app-server may  *)
(* go on with the turn for a while, and leaves it interrupted or open.     *)

Stops ==
    /\ ~At("none") /\ deaths < MaxDeaths
    /\ op' = Free
    /\ orphan' = (At("reply") \/ At("wait"))
    /\ deaths' = deaths + 1
    /\ UNCHANGED <<manifest, submissions, job, history, turn, refused>>

OrphanExits ==
    /\ orphan /\ orphan' = FALSE
    /\ \E left \in {"interrupted", "active"} :
          turn' = [i \in Attempts |-> IF turn[i] = "active" THEN left ELSE turn[i]]
    /\ UNCHANGED <<manifest, submissions, job, history, op, refused, deaths>>

Next ==
    \/ \E t \in Tasks : Begins(t)
    \/ ResumesReverted \/ ClearsUnsent \/ HoldsUncertain \/ SettlesEnded \/ HoldsSilent
    \/ FindsNothingActive
    \/ CleanupIsRefused \/ RevertBegins \/ Reverts \/ CleanupEnds
    \/ AcceptsRecovered \/ RecordsRecovered \/ FindsNoAnswer
    \/ Generates \/ GenerateIsRefused \/ Sends \/ TurnStarts \/ RequestIsLost \/ Binds
    \/ TurnEnds \/ Collects \/ Verifies \/ Judges \/ Saves \/ Finalizes
    \/ AcceptsP0 \/ BecomesReady \/ RejectsP0
    \/ Stops \/ OrphanExits

Spec == Init /\ [][Next]_vars

-----------------------------------------------------------------------------

(* The types, and the manifest in itself: a slot marked clean has nothing  *)
(* active and nothing to clean, and any other state of a used slot names   *)
(* the submission it is about (transition, cleanup).                       *)
TypeOK ==
    /\ manifest.state \in {"absent", "preparing", "baseline_ready", "submission_pending",
          "running", "terminal_uncommitted", "accepted_cleanup_pending",
          "failed_cleanup_pending", "reverting", "recovery_required"}
    /\ manifest.p0 \in {"absent", "preparing", "ready"}
    /\ manifest.active \in 0 .. Len(submissions)
    /\ manifest.active = 0 <=> manifest.state \in {"absent", "preparing", "baseline_ready"}
    /\ manifest.cleanup => manifest.active # 0
    /\ \A i \in DOMAIN submissions : submissions[i].selection \in {"none", "verified", "rejected"}
    /\ \A t \in DOMAIN job : job[t] # 0 => job[t] \in DOMAIN submissions /\ Task(job[t]) = t
    /\ turn \in [Attempts -> {"none", "active", "lost"} \cup Ended]
    /\ Turns \subseteq DOMAIN submissions
    /\ deaths \in 0 .. MaxDeaths

Failed(i) == turn[i] \in {"failed", "interrupted"} \/ submissions[i].validation = "failed"
Reached(i) == turn[i] # "none"

(* A task is put to the model again only after its earlier turn failed, or *)
(* its answer did: an answer that may still come, a reply that was lost    *)
(* and an answer that was accepted are never paid for twice, whatever died *)
(* in between (recover_submission, reconcile, durable_cleanup_outcome).    *)
NoDuplicateTurn ==
    \A i, j \in DOMAIN submissions :
        i < j /\ Task(i) = Task(j) /\ Reached(i) /\ Reached(j) => Failed(i)

(* Every turn the model has seen is the one the manifest is about or has   *)
(* come to a recorded end, and no turn is left above P0 but that one: no   *)
(* pass is asked on top of another one's text, and no answer is reverted   *)
(* before it is accepted or judged (submit, cleanup).                      *)
TurnsAccounted ==
    /\ \A i \in DOMAIN submissions : Reached(i) =>
          \/ i = Active
          \/ job[Task(i)] = i
          \/ submissions[i].evidence /\ Failed(i)
    /\ \A i \in Turns : Task(i) = P0 \/ i = Active
    /\ Ready => history # <<>> /\ Task(history[1]) = P0

(* A run is refused only over a turn the code cannot settle: the model may *)
(* have seen it, it is going on, it completed without a final answer,      *)
(* another model answered it, P0 did not load, or another task's answer    *)
(* has to be taken first.  The last disjunct is not a cause but a defect,  *)
(* the one AcceptedIsOnlyReverted shows: an acceptance that died between   *)
(* the job and the attempt's record (recover_submission, reconcile,        *)
(* durable_cleanup_outcome, Runner._run).                                  *)
HeldForCause ==
    LET i == refused.sub IN
    refused # Unrefused =>
        /\ i # 0
        /\ \/ turn[i] \in {"none", "lost"} /\ submissions[i].logged
           \/ turn[i] \in {"active", "silent"}
           \/ submissions[i].selection = "rejected"
           \/ Task(i) = P0 /\ turn[i] # "good"
           \/ turn[i] \in Completed /\ Task(i) # refused.task /\ job[Task(i)] # i
           \/ job[Task(i)] = i /\ submissions[i].validation = "not_run"

(* What the crash matrix of docs/prd-p0-p5-persistent-sessions.md promises *)
(* (373-374): a pass whose result is saved is cleaned up, "Revert only".   *)
(* No run is refused over the turn that gave it.  The code breaks this.    *)
AcceptedIsOnlyReverted ==
    LET i == refused.sub IN i # 0 /\ Task(i) # P0 => job[Task(i)] # i

=============================================================================
