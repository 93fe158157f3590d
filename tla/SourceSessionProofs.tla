------------------------- MODULE SourceSessionProofs -------------------------
(***************************************************************************)
(* Theorems about the module SourceSession, for every set of consumer      *)
(* tasks and every number of submissions and of deaths.                    *)
(***************************************************************************)
EXTENDS SourceSession, SequenceTheorems, FiniteSetTheorems, TLAPS

N == Len(submissions)
AllTasks == Tasks \cup {P0}
States == {"absent", "preparing", "baseline_ready", "submission_pending", "running",
           "terminal_uncommitted", "accepted_cleanup_pending", "failed_cleanup_pending",
           "reverting", "recovery_required"}
Places == {"none", "reconcile", "cleanup", "revert", "candidates", "accepted", "generate",
           "send", "sent", "reply", "wait", "verify", "judge", "save", "finalize", "p0_saved"}
Record == [task : AllTasks, logged : BOOLEAN, bound : BOOLEAN, evidence : BOOLEAN,
           validation : {"not_run", "passed", "failed"},
           selection : {"none", "verified", "rejected"}]

ManifestType ==
  manifest \in [state : States, p0 : {"absent", "preparing", "ready"}, active : Nat,
                cleanup : BOOLEAN, compacted : BOOLEAN]
RecordsType == submissions \in Seq(Record) /\ N <= MaxTurns
NativeType ==
  /\ job \in [AllTasks -> Nat]
  /\ history \in Seq(Nat) /\ Len(history) <= 2
  /\ turn \in [Attempts -> {"none", "active", "lost"} \cup Ended]
RunType ==
  /\ orphan \in BOOLEAN
  /\ op \in [at : Places, task : Tasks \cup {None}, then : {"end", "candidates", "generate"}]
  /\ refused \in [sub : Nat, task : Tasks \cup {None}]
  /\ deaths \in 0 .. MaxDeaths

\* The turn of the submission that the manifest is about is in the history.
Shown == Len(history) = (IF Ready THEN 2 ELSE 1)

\* What the manifest says of itself: only an ended consumer's turn is to be cleaned ...
ManifestInv ==
  /\ Active <= N
  /\ Active = 0 <=> manifest.state \in {"absent", "preparing", "baseline_ready"}
  /\ manifest.cleanup => Active # 0 /\ Ready /\ turn[Active] \in Ended
  /\ Active # 0 => (Ready <=> Task(Active) # P0)

\* ... the native history is P0 and, above it, what the manifest is about ...
HistoryInv ==
  /\ history # <<>> => history[1] \in 1 .. N /\ Task(history[1]) = P0
  /\ Len(history) = 2 => Ready /\ Active # 0 /\ history[2] = Active
  /\ Ready \/ job[P0] # 0 => history # <<>>
  /\ ~Ready /\ history # <<>> => Active # 0 /\ history[1] = Active

\* ... a turn was logged first, and a verdict is one about an answer ...
AttemptInv ==
  /\ \A i \in Attempts : i > N => turn[i] = "none"
  /\ \A i \in 1 .. N :
        /\ turn[i] # "none" => submissions[i].logged
        /\ submissions[i].validation = "failed" => turn[i] = "bad"
        /\ submissions[i].validation # "not_run" => turn[i] \in Completed

\* ... what was accepted is a good answer to its task ...
JobInv ==
  \A t \in AllTasks : job[t] # 0 =>
      job[t] \in 1 .. N /\ Task(job[t]) = t /\ turn[job[t]] = "good"

\* ... every turn that was reached is the active one or has a recorded end ...
AccountInv ==
  \A i \in 1 .. N : turn[i] # "none" =>
      \/ i = Active
      \/ job[Task(i)] = i
      \/ submissions[i].evidence /\ Failed(i)

\* ... and the active one is missing from the history because it was never there, or
\* because it was reverted with its outcome durable.
ActiveInv == Active # 0 =>
  /\ Shown => turn[Active] \notin {"none", "lost"}
  /\ ~Shown => \/ turn[Active] \in {"none", "lost"}
               \/ /\ manifest.state = "reverting" /\ manifest.cleanup
                  /\ DurableOutcome(Active)

\* A run asks the model only for a task that has no result ...
Asking == {"candidates", "generate", "send", "sent", "reply", "wait", "verify", "judge", "save",
           "p0_saved"}
RunInv ==
  /\ At("none") => op = Free
  /\ ~At("none") => op.task \in Tasks /\ ~orphan
  /\ refused # Unrefused => At("none") /\ ~orphan
  /\ op.at \in Asking => job[op.task] = 0
  /\ op.at \in {"reconcile", "cleanup", "revert"} /\ op.then # "end" => job[op.task] = 0
  /\ At("accepted") => job[op.task] # 0

\* ... what it knows of the turn that it asks for ...
Live == {"send", "sent", "reply", "wait", "verify", "judge", "save", "finalize"}
LiveInv ==
  /\ op.at \in Live => Active = N /\ Active # 0 /\ (Ready => Task(Active) = op.task)
  /\ op.at \in {"save", "finalize", "cleanup", "revert"} => Ready
  /\ op.at \in {"send", "sent"} => turn[Active] = "none" /\ ~Shown
  /\ At("sent") => submissions[Active].logged
  /\ op.at \in {"reply", "wait", "verify", "judge", "save", "finalize"} => Shown
  /\ op.at \in {"wait", "verify", "judge", "save", "finalize"} => submissions[Active].bound
  /\ op.at \in {"verify", "judge", "save", "finalize"} =>
        submissions[Active].evidence /\ turn[Active] \in Ended
  /\ op.at \in {"judge", "save", "finalize"} => turn[Active] \in Answers
  /\ At("save") => turn[Active] = "good" /\ submissions[Active].validation = "passed"
  /\ At("finalize") => \/ submissions[Active].validation = "passed" /\ job[op.task] = Active
                       \/ submissions[Active].validation = "failed" /\ job[op.task] = 0
  /\ At("p0_saved") => ~Ready /\ Active # 0 /\ Shown /\ job[P0] = Active

\* ... and of the one that it finds and cleans, or leaves to another task's run.
CleaningInv ==
  /\ op.at \in {"cleanup", "revert"} => manifest.cleanup
  /\ At("cleanup") /\ Shown =>
        /\ submissions[Active].bound /\ submissions[Active].evidence
        /\ turn[Active] \in Completed =>
              submissions[Active].validation = "failed" \/ job[Task(Active)] # 0
  /\ At("revert") => Shown /\ DurableOutcome(Active) /\ manifest.state = "reverting"
  /\ op.at \in {"candidates", "generate"} /\ Active # 0 =>
        /\ Shown
        /\ Ready => /\ turn[Active] \in Answers
                    /\ submissions[Active].evidence /\ job[Task(Active)] = 0
                    /\ At("generate") => Task(Active) # op.task
  /\ At("reconcile") /\ op.then = "generate" /\ Active # 0 =>
        Ready /\ Shown /\ submissions[Active].validation = "failed"

\* What the records, the results and the native history say to each other.
LedgerInv == /\ RecordsType /\ NativeType
             /\ HistoryInv /\ AttemptInv /\ JobInv /\ AccountInv /\ NoDuplicateTurn

IInv == /\ ManifestType /\ RunType /\ LedgerInv /\ ManifestInv /\ ActiveInv
        /\ RunInv /\ LiveInv /\ CleaningInv /\ HeldForCause

-----------------------------------------------------------------------------
(* What the records and the history look like *)

LEMMA Records ==
  ASSUME RecordsType, ManifestType, ManifestInv
  PROVE  /\ N \in Nat /\ DOMAIN submissions = 1 .. N /\ N <= MaxTurns
         /\ \A i \in 1 .. N : submissions[i] \in Record
         /\ Active \in 0 .. N
  <1>1. N \in Nat /\ DOMAIN submissions = 1 .. N
    BY LenProperties DEF RecordsType, N
  <1>2. \A i \in 1 .. N : submissions[i] \in Record
    BY ElementOfSeq DEF RecordsType, N
  <1>3. Active \in Nat /\ Active <= N
    BY DEF ManifestType, ManifestInv, Active
  <1> QED BY <1>1, <1>2, <1>3 DEF RecordsType

LEMMA HistoryLength ==
  ASSUME NativeType
  PROVE  /\ Len(history) \in 0 .. 2 /\ DOMAIN history = 1 .. Len(history)
         /\ history # <<>> <=> Len(history) # 0
  <1>1. history \in Seq(Nat) /\ Len(history) <= 2
    BY DEF NativeType
  <1>2. Len(history) \in Nat /\ DOMAIN history = 1 .. Len(history)
    BY <1>1, LenProperties
  <1>3. history # <<>> <=> Len(history) # 0
    BY <1>1, EmptySeq
  <1> QED BY <1>1, <1>2, <1>3

\* Above P0 there is the active submission or nothing, and so there is one candidate at most
\* for the turn of an intent.
LEMMA OneAbove ==
  ASSUME IInv
  PROVE  /\ Above = (IF Len(history) = 2 THEN {Active} ELSE {})
         /\ Turns \subseteq 1 .. N
         /\ Active # 0 => Matches(Active) = (IF Shown THEN {Active} ELSE {})
  <1>1. Len(history) \in 0 .. 2 /\ DOMAIN history = 1 .. Len(history)
    BY HistoryLength DEF IInv, LedgerInv
  <1>2. history # <<>> <=> Len(history) # 0
    BY HistoryLength DEF IInv, LedgerInv
  <1>3. Active \in 0 .. N
    BY Records DEF IInv, LedgerInv
  <1>4. Above = (IF Len(history) = 2 THEN {Active} ELSE {})
    <2>1. CASE Len(history) = 2
      <3>1. history[2] = Active
        BY <2>1 DEF IInv, LedgerInv, HistoryInv
      <3> QED BY <2>1, <3>1 DEF Above
    <2>2. CASE Len(history) # 2
      <3>1. 2 .. Len(history) = {}
        BY <1>1, <2>2
      <3> QED BY <2>2, <3>1 DEF Above
    <2> QED BY <2>1, <2>2
  <1>5. Turns \subseteq 1 .. N
    BY <1>1, <1>2, <1>3 DEF IInv, LedgerInv, HistoryInv, Turns
  <1>6. ASSUME Active # 0
        PROVE  Matches(Active) = (IF Shown THEN {Active} ELSE {})
    <2>1. Matches(Active) \subseteq {Active}
      BY <1>1, <1>2, <1>6 DEF IInv, LedgerInv, HistoryInv, ManifestInv, Matches, Turns
    <2>2. Shown <=> Active \in Turns
      BY <1>1, <1>2, <1>6 DEF IInv, LedgerInv, HistoryInv, ManifestInv, Shown, Turns
    <2>3. Active \in Turns => Active \in Matches(Active)
      BY DEF Matches
    <2>4. Active \in Matches(Active) => Active \in Turns
      BY DEF Matches
    <2> QED BY <2>1, <2>2, <2>3, <2>4
  <1> QED BY <1>4, <1>5, <1>6

\* An update of one record.
LEMMA Updated ==
  ASSUME RecordsType, NEW i \in 1 .. N, NEW r \in Record,
         submissions' = [submissions EXCEPT ![i] = r]
  PROVE  /\ RecordsType' /\ N' = N
         /\ \A j \in 1 .. N : submissions'[j] = (IF j = i THEN r ELSE submissions[j])
  BY ExceptSeq DEF RecordsType, N

\* A new one.
LEMMA Appended ==
  ASSUME RecordsType, NEW r \in Record, N < MaxTurns, submissions' = Append(submissions, r)
  PROVE  /\ RecordsType' /\ N' = N + 1 /\ N' \in 1 .. MaxTurns /\ N \in Nat
         /\ \A j \in 1 .. N : submissions'[j] = submissions[j]
         /\ submissions'[N + 1] = r
  <1>1. submissions \in Seq(Record) /\ Len(submissions) \in Nat /\ MaxTurns \in Nat
    BY BoundsAssumption, LenProperties DEF RecordsType, BoundsAssumption
  <1> QED BY <1>1, AppendProperties DEF RecordsType, N

-----------------------------------------------------------------------------
(* Steps that only add to the ledger *)

\* Tasks, logs, evidence, failures and results are permanent, verdicts and results are
\* about answers, and only a turn that is going on changes.
Grows ==
  /\ RecordsType' /\ N' = N
  /\ \A i \in 1 .. N :
        /\ Task(i)' = Task(i)
        /\ submissions[i].logged => submissions'[i].logged
        /\ submissions[i].evidence => submissions'[i].evidence
        /\ submissions[i].validation = "failed" => submissions'[i].validation = "failed"
        /\ submissions'[i].validation = "failed" => turn[i] = "bad"
        /\ submissions'[i].validation # "not_run" => turn[i] \in Completed
  /\ NativeType'
  /\ \A t \in AllTasks : job'[t] # job[t] =>
        /\ job[t] = 0 /\ job'[t] \in 1 .. N
        /\ Task(job'[t]) = t /\ turn[job'[t]] = "good" /\ (t = P0 => history # <<>>)
  /\ \A i \in Attempts :
        turn'[i] = turn[i] \/ (turn[i] = "active" /\ turn'[i] \in Ended \cup {"active"})
  /\ UNCHANGED history

LEMMA GrowthKeepsLedger ==
  ASSUME IInv, Grows, Active' = Active, manifest'.p0 = manifest.p0
  PROVE  LedgerInv'
  <1>1. /\ N \in Nat /\ DOMAIN submissions = 1 .. N /\ N <= MaxTurns
        /\ \A i \in 1 .. N : submissions[i] \in Record
        /\ DOMAIN submissions' = 1 .. N
    BY Records, LenProperties DEF IInv, LedgerInv, Grows, RecordsType, N
  <1>2. MaxTurns \in Nat
    BY BoundsAssumption DEF BoundsAssumption
  <1>3. HistoryInv'
    BY <1>1 DEF IInv, LedgerInv, HistoryInv, Grows, Ready, NativeType, AllTasks
  <1>4. AttemptInv'
    BY <1>1, <1>2 DEF IInv, LedgerInv, AttemptInv, Grows, Answers, Completed, Ended, Attempts
  <1>5. JobInv'
    BY <1>1, <1>2 DEF IInv, LedgerInv, JobInv, Grows, NativeType, Attempts
  <1>6. \A i \in 1 .. N : /\ i \in Attempts /\ (turn'[i] # "none" <=> turn[i] # "none")
                          /\ Task(i) \in AllTasks /\ (Failed(i) => Failed(i)')
    BY <1>1, <1>2 DEF Grows, Failed, Attempts, Ended, Completed, Answers, Record, Task
  <1>7. AccountInv'
    BY <1>1, <1>6 DEF IInv, LedgerInv, AccountInv, JobInv, Grows
  <1>8. NoDuplicateTurn'
    BY <1>1, <1>6 DEF IInv, LedgerInv, NoDuplicateTurn, Reached, Grows
  <1> QED BY <1>3, <1>4, <1>5, <1>7, <1>8 DEF LedgerInv, Grows

LEMMA UnchangedLedger ==
  ASSUME IInv, UNCHANGED <<submissions, job, history, turn>>,
         Active' = Active, manifest'.p0 = manifest.p0
  PROVE  LedgerInv'
  <1>1. RecordsType' /\ N' = N /\ NativeType'
    BY DEF IInv, LedgerInv, RecordsType, NativeType, N
  <1>2. Grows
    BY <1>1 DEF IInv, LedgerInv, AttemptInv, Grows, Task
  <1> QED BY <1>2, GrowthKeepsLedger

\* The manifest drops a submission that was never asked for, or that has its end recorded.
LEMMA ReleaseKeepsLedger ==
  ASSUME IInv, UNCHANGED <<submissions, job, history, turn>>,
         Active' = 0, manifest'.p0 = manifest.p0, Active # 0, ~Shown,
         \/ turn[Active] = "none"
         \/ job[Task(Active)] = Active
         \/ submissions[Active].evidence /\ Failed(Active)
  PROVE  LedgerInv'
  <1>1. RecordsType' /\ N' = N /\ NativeType' /\ (\A i \in 1 .. N : Failed(i)' <=> Failed(i))
    BY DEF IInv, LedgerInv, RecordsType, NativeType, N, Failed
  <1>2. HistoryInv'
    <2>1. Len(history) # 2 /\ (~Ready => history = <<>>)
      <3>1. CASE Ready
        BY <3>1 DEF Shown
      <3>2. CASE ~Ready
        <4>1. Len(history) \in 0 .. 2 /\ (history # <<>> => Len(history) # 0)
          BY HistoryLength DEF IInv, LedgerInv
        <4>2. Len(history) # 2 /\ Len(history) # 1
          BY <3>2 DEF IInv, LedgerInv, HistoryInv, Shown
        <4> QED BY <4>1, <4>2
      <3> QED BY <3>1, <3>2
    <2> QED BY <1>1, <2>1 DEF IInv, LedgerInv, HistoryInv, Ready, Task
  <1>3. AttemptInv' /\ JobInv'
    BY <1>1 DEF IInv, LedgerInv, AttemptInv, JobInv, Task
  <1>4. AccountInv'
    BY <1>1 DEF IInv, LedgerInv, AccountInv, Task
  <1>5. NoDuplicateTurn'
    BY <1>1 DEF IInv, LedgerInv, NoDuplicateTurn, Reached, Task, Failed
  <1> QED BY <1>1, <1>2, <1>3, <1>4, <1>5 DEF LedgerInv

-----------------------------------------------------------------------------
(* The steps of a run *)

LEMMA BeginsKeeps ==
  ASSUME IInv, NEW t \in Tasks, Begins(t)
  PROVE  IInv'
  <1>1. /\ N \in Nat /\ DOMAIN submissions = 1 .. N /\ N <= MaxTurns
        /\ \A i \in 1 .. N : submissions[i] \in Record
        /\ Active \in 0 .. N
    BY Records DEF IInv, LedgerInv
  <1>2. LedgerInv'
    BY <1>1, UnchangedLedger DEF Begins, Goes, native, Active
  <1>3. ManifestType' /\ RunType' /\ ManifestInv' /\ ActiveInv' /\ RunInv' /\ LiveInv' /\ CleaningInv' /\ HeldForCause'
    BY <1>1, TasksAssumption DEF native, Attempts, Answers, Completed, Ended, Free, Unrefused, Active,
       Ready, Task, At, DurableOutcome, Dirty, Begins, HeldForCause, N, AllTasks, States, Places,
       Record, ManifestType, RecordsType, NativeType, RunType, Shown, ManifestInv, HistoryInv,
       AttemptInv, JobInv, ActiveInv, Asking, RunInv, Live, LiveInv, CleaningInv, LedgerInv, IInv,
       TasksAssumption
  <1> QED BY <1>2, <1>3 DEF IInv

LEMMA ResumesRevertedKeeps ==
  ASSUME IInv, ResumesReverted
  PROVE  IInv'
  <1>1. /\ N \in Nat /\ DOMAIN submissions = 1 .. N /\ N <= MaxTurns
        /\ \A i \in 1 .. N : submissions[i] \in Record
        /\ Active \in 0 .. N
    BY Records DEF IInv, LedgerInv
  <1>2. /\ At("reconcile") /\ Ready /\ manifest.cleanup /\ ~Shown /\ Active # 0
        /\ DurableOutcome(Active)
    <2>1. At("reconcile") /\ Ready /\ manifest.cleanup /\ ~Shown
      BY DEF ResumesReverted, RevertedAlready, Shown
    <2> QED BY <2>1 DEF IInv, ManifestInv, ActiveInv, Ended, Completed, Answers
  <1>3. /\ op' = [op EXCEPT !.at = "cleanup"]
        /\ UNCHANGED <<manifest, submissions, job, history, turn, orphan, refused, deaths>>
    BY <1>2 DEF ResumesReverted, Goes, native
  <1>4. LedgerInv'
    BY <1>3, UnchangedLedger DEF Active
  <1>5. ManifestType' /\ RunType' /\ ManifestInv' /\ ActiveInv' /\ RunInv' /\ LiveInv' /\ CleaningInv' /\ HeldForCause'
    BY <1>1, <1>2, <1>3, TasksAssumption DEF Attempts, Answers, Completed, Ended, Free, Unrefused, Active,
       Ready, Task, At, DurableOutcome, HeldForCause, N, AllTasks, States, Places, Record,
       ManifestType, RecordsType, NativeType, RunType, Shown, ManifestInv, HistoryInv, AttemptInv,
       JobInv, ActiveInv, Asking, RunInv, Live, LiveInv, CleaningInv, LedgerInv, IInv,
       TasksAssumption
  <1> QED BY <1>4, <1>5 DEF IInv

LEMMA ClearsUnsentKeeps ==
  ASSUME IInv, ClearsUnsent
  PROVE  IInv'
  <1>1. /\ N \in Nat /\ DOMAIN submissions = 1 .. N /\ N <= MaxTurns
        /\ \A i \in 1 .. N : submissions[i] \in Record
        /\ Active \in 0 .. N
    BY Records DEF IInv, LedgerInv
  <1>2. /\ Above = (IF Len(history) = 2 THEN {Active} ELSE {})
        /\ Turns \subseteq 1 .. N
        /\ Active # 0 => Matches(Active) = (IF Shown THEN {Active} ELSE {})
    BY OneAbove
  <1>3. Active # 0 /\ ~Shown /\ turn[Active] = "none" /\ At("reconcile")
    BY <1>1, <1>2 DEF IInv, LedgerInv, AttemptInv, ClearsUnsent, Recovers, ProvenUnsent
  <1>4. /\ manifest' = [manifest EXCEPT !.active = 0, !.cleanup = FALSE,
                                  !.state = IF Ready THEN "baseline_ready" ELSE "preparing"]
        /\ Continues
        /\ UNCHANGED <<submissions, job, history, turn, orphan, refused, deaths>>
    BY DEF ClearsUnsent, Clean, native, IInv, ManifestType
  <1>5. LedgerInv'
    BY <1>3, <1>4, ReleaseKeepsLedger DEF Active, IInv, ManifestType
  <1>6. ManifestType' /\ RunType'
    BY <1>1, <1>3, <1>4 DEF Attempts, Answers, Completed, Ended, Free, Unrefused, Active, Ready, At,
       Continues, N, AllTasks, States, Places, ManifestType, RecordsType, NativeType, RunType,
       Shown, Asking, RunInv, LedgerInv, IInv
  <1>7. ManifestInv' /\ HeldForCause'
    BY <1>1, <1>3, <1>4 DEF Attempts, Answers, Completed, Ended, Free, Unrefused, Active, Ready, Task, At,
       Continues, HeldForCause, N, AllTasks, States, Record, ManifestType, NativeType, RunType,
       Shown, ManifestInv, HistoryInv, Asking, RunInv, Live, LiveInv, CleaningInv, LedgerInv, IInv
  <1>8. ActiveInv' /\ CleaningInv'
    BY <1>1, <1>3, <1>4 DEF Attempts, Answers, Completed, Ended, Free, Unrefused, Active, Ready, Task, At,
       Continues, DurableOutcome, N, AllTasks, Record, ManifestType, NativeType, RunType, Shown,
       ManifestInv, HistoryInv, AttemptInv, JobInv, ActiveInv, Asking, RunInv, Live, LiveInv,
       CleaningInv, LedgerInv, IInv
  <1>9. RunInv' /\ LiveInv'
    BY <1>1, <1>3, <1>4, TasksAssumption DEF Attempts, Answers, Completed, Ended, Free, Unrefused, Active,
       Ready, Task, At, Continues, N, AllTasks, Record, ManifestType, NativeType, RunType, Shown,
       ManifestInv, HistoryInv, Asking, RunInv, Live, LiveInv, CleaningInv, LedgerInv, IInv,
       TasksAssumption
  <1> QED BY <1>5, <1>6, <1>7, <1>8, <1>9 DEF IInv

LEMMA HoldsUncertainKeeps ==
  ASSUME IInv, HoldsUncertain
  PROVE  IInv'
  <1>1. /\ N \in Nat /\ DOMAIN submissions = 1 .. N /\ N <= MaxTurns
        /\ \A i \in 1 .. N : submissions[i] \in Record
        /\ Active \in 0 .. N
    BY Records DEF IInv, LedgerInv
  <1>2. /\ Above = (IF Len(history) = 2 THEN {Active} ELSE {})
        /\ Turns \subseteq 1 .. N
        /\ Active # 0 => Matches(Active) = (IF Shown THEN {Active} ELSE {})
    BY OneAbove
  <1>3. Active # 0 /\ ~RevertedAlready
    BY DEF HoldsUncertain, Recovers
  <1>4. ~Shown => turn[Active] \in {"none", "lost"}
    <2>1. Ready /\ ~Shown => Len(history) = 1
      <3>1. Len(history) \in 0 .. 2 /\ (history # <<>> <=> Len(history) # 0)
        BY HistoryLength DEF IInv, LedgerInv
      <3>2. Ready => Len(history) # 0
        BY <3>1 DEF IInv, LedgerInv, HistoryInv
      <3> QED BY <3>1, <3>2 DEF Shown
    <2> QED BY <1>3, <2>1 DEF IInv, ActiveInv, ManifestInv, RevertedAlready, Active
  <1>5. \/ turn[Active] \in {"none", "lost"} /\ submissions[Active].logged
        \/ turn[Active] = "active"
    <2>1. Matches(Active) = {} \/ Matches(Active) = {Active}
      BY <1>2, <1>3
    <2>2. ~(Cardinality(Matches(Active)) > 1)
      BY <2>1, FS_EmptySet, FS_Singleton
    <2> QED BY <1>2, <1>3, <1>4, <2>1, <2>2 DEF HoldsUncertain, ProvenUnsent
  <1>6. LedgerInv'
    BY UnchangedLedger DEF HoldsUncertain, native, Active, IInv, ManifestType
  <1>7. ActiveInv'
    BY <1>3, <1>4 DEF HoldsUncertain, ActiveInv, IInv, ManifestType, Active, Shown, Ready, native
  <1>8. HeldForCause'
    BY <1>3, <1>5 DEF HoldsUncertain, Refuses, HeldForCause, native
  <1>9. ManifestType'
    BY <1>1, <1>2, <1>3, <1>4, <1>5 DEF native, Free, Active, Ready, At, Refuses, ProvenUnsent,
       RevertedAlready, Recovers, HoldsUncertain, N, States, ManifestType, RecordsType, Shown,
       LedgerInv, IInv
  <1>10. RunType'
    BY <1>1, <1>2, <1>3, <1>4, <1>5 DEF native, Attempts, Answers, Completed, Ended, Free, Unrefused,
       Active, Ready, At, Refuses, ProvenUnsent, RevertedAlready, Recovers, HoldsUncertain, N,
       AllTasks, Places, NativeType, RunType, Shown, Asking, RunInv, LedgerInv, IInv
  <1>11. ManifestInv'
    BY <1>1, <1>2, <1>3, <1>4, <1>5 DEF native, Attempts, Answers, Completed, Ended, Free, Active, Ready,
       Task, At, Refuses, ProvenUnsent, RevertedAlready, Recovers, HoldsUncertain, N, AllTasks,
       States, ManifestType, NativeType, Shown, ManifestInv, HistoryInv, Live, LiveInv,
       CleaningInv, LedgerInv, IInv
  <1>12. RunInv'
    BY <1>1, <1>2, <1>3, <1>4, <1>5, TasksAssumption DEF native, Attempts, Answers, Completed, Ended, Free,
       Unrefused, Active, Ready, Task, At, Refuses, ProvenUnsent, RevertedAlready, Recovers,
       HoldsUncertain, N, AllTasks, NativeType, RunType, Shown, Asking, RunInv, Live, LiveInv,
       CleaningInv, LedgerInv, IInv, TasksAssumption
  <1>13. LiveInv'
    BY <1>1, <1>2, <1>3, <1>4, <1>5 DEF native, Attempts, Answers, Completed, Ended, Free, Unrefused,
       Active, Ready, Task, At, Refuses, ProvenUnsent, RevertedAlready, Recovers, HoldsUncertain,
       N, AllTasks, Record, ManifestType, NativeType, RunType, Shown, ManifestInv, HistoryInv,
       Asking, RunInv, Live, LiveInv, CleaningInv, LedgerInv, IInv
  <1>14. CleaningInv'
    BY <1>1, <1>2, <1>3, <1>4, <1>5 DEF native, Attempts, Answers, Completed, Ended, Free, Unrefused,
       Active, Ready, Task, At, Refuses, ProvenUnsent, DurableOutcome, RevertedAlready, Recovers,
       HoldsUncertain, N, AllTasks, Record, ManifestType, NativeType, RunType, Shown, ManifestInv,
       HistoryInv, ActiveInv, Asking, RunInv, Live, LiveInv, CleaningInv, LedgerInv, IInv
  <1> QED BY <1>6, <1>7, <1>8, <1>9, <1>10, <1>11, <1>12, <1>13, <1>14 DEF IInv

LEMMA SettlesEndedKeeps ==
  ASSUME IInv, SettlesEnded
  PROVE  IInv'
  <1>1. /\ N \in Nat /\ DOMAIN submissions = 1 .. N /\ N <= MaxTurns
        /\ \A i \in 1 .. N : submissions[i] \in Record
        /\ Active \in 0 .. N
    BY Records DEF IInv, LedgerInv
  <1>2. /\ Above = (IF Len(history) = 2 THEN {Active} ELSE {})
        /\ Turns \subseteq 1 .. N
        /\ Active # 0 => Matches(Active) = (IF Shown THEN {Active} ELSE {})
    BY OneAbove
  <1>3. Active \in 1 .. N /\ Shown /\ turn[Active] \in Ended \ {"silent"} /\ At("reconcile")
    BY <1>1, <1>2, SMTT(30) DEF SettlesEnded, Recovers
  <1>4. PICK selection \in Selection(Active) :
          /\ submissions' = [submissions EXCEPT ![Active].bound = TRUE,
                                ![Active].evidence = TRUE, ![Active].selection = selection]
          /\ IF selection = "rejected"
             THEN /\ manifest' = [manifest EXCEPT !.state = "recovery_required"]
                  /\ Refuses(Active)
             ELSE /\ manifest' = [manifest EXCEPT !.state = Settled(Active),
                                     !.cleanup = @ \/ Settled(Active) # "terminal_uncommitted"]
                  /\ IF Ready /\ Settled(Active) # "terminal_uncommitted"
                     THEN Goes("cleanup") ELSE Continues
                  /\ UNCHANGED refused
    BY DEF SettlesEnded
  <1>5. UNCHANGED <<job, history, turn, orphan, deaths>>
    BY DEF SettlesEnded, native
  <1>6. selection \in {"none", "verified", "rejected"}
    BY <1>1, <1>3 DEF Selection, Record
  <1>7. /\ RecordsType' /\ N' = N
        /\ \A i \in 1 .. N : i # Active => submissions'[i] = submissions[i]
        /\ submissions'[Active].task = submissions[Active].task
        /\ submissions'[Active].logged = submissions[Active].logged
        /\ submissions'[Active].bound
        /\ submissions'[Active].evidence
        /\ submissions'[Active].validation = submissions[Active].validation
        /\ submissions'[Active].selection = selection
    <2> DEFINE was == submissions[Active]
               now == [was EXCEPT !.bound = TRUE, !.evidence = TRUE, !.selection = selection]
    <2>1. was \in Record /\ Active \in 1 .. N
      BY <1>1, <1>3, <1>4, <1>6
    <2>2. /\ now \in Record
          /\ now.task = was.task /\ now.logged = was.logged
          /\ now.bound /\ now.evidence
          /\ now.validation = was.validation /\ now.selection = selection
      BY <2>1, <1>1, <1>3, <1>4, <1>6 DEF Record
    <2>3. submissions' = [submissions EXCEPT ![Active] = now]
      BY <1>1, <1>3, <1>4, <1>6
    <2> HIDE DEF now
    <2>4. RecordsType
      BY DEF IInv, LedgerInv
    <2>5. /\ RecordsType' /\ N' = N
          /\ \A i \in 1 .. N : submissions'[i] = (IF i = Active THEN now ELSE submissions[i])
      BY <2>1, <2>2, <2>3, <2>4, Updated
    <2> QED BY <2>1, <2>2, <2>5
  <1>8. Active' = Active /\ manifest'.p0 = manifest.p0
    BY <1>4 DEF IInv, ManifestType, Active
  <1>9. \/ /\ manifest' = [manifest EXCEPT !.state = "recovery_required"]
           /\ op' = Free /\ refused' = [sub |-> Active, task |-> op.task] /\ selection = "rejected"
        \/ /\ \E s \in {"failed_cleanup_pending", "accepted_cleanup_pending"} :
                 manifest' = [manifest EXCEPT !.state = s, !.cleanup = TRUE]
           /\ op' = [op EXCEPT !.at = "cleanup"] /\ refused' = refused /\ Ready
           /\ turn[Active] \in Completed =>
                 submissions[Active].validation = "failed" \/ job[Task(Active)] # 0
        \/ /\ manifest' = [manifest EXCEPT !.state = "terminal_uncommitted"]
           /\ Continues /\ refused' = refused
           /\ Ready => /\ turn[Active] \in Answers /\ job[Task(Active)] = 0
                       /\ submissions[Active].validation # "failed"
    <2>1. Task(Active) = P0 <=> ~Ready
      BY <1>3 DEF IInv, ManifestInv
    <2>2. /\ Settled(Active) \in {"failed_cleanup_pending", "accepted_cleanup_pending", "terminal_uncommitted"}
          /\ Settled(Active) # "terminal_uncommitted" =>
                /\ Ready
                /\ turn[Active] \in Completed =>
                      submissions[Active].validation = "failed" \/ job[Task(Active)] # 0
          /\ Settled(Active) = "terminal_uncommitted" /\ Ready =>
                /\ turn[Active] \in Answers /\ job[Task(Active)] = 0
                /\ submissions[Active].validation # "failed"
      BY <1>3, <2>1 DEF Settled, Completed, Answers, Ended
    <2>3. CASE selection = "rejected"
      BY <1>4, <2>3 DEF Refuses
    <2>4. CASE selection # "rejected" /\ Settled(Active) # "terminal_uncommitted"
      BY <1>4, <2>2, <2>4 DEF Goes, IInv, ManifestType
    <2>5. CASE selection # "rejected" /\ Settled(Active) = "terminal_uncommitted"
      BY <1>4, <2>2, <2>5 DEF IInv, ManifestType
    <2> QED BY <2>3, <2>4, <2>5
  <1>10. LedgerInv'
    <2>1. NativeType' /\ RecordsType'
      BY <1>5, <1>7 DEF IInv, LedgerInv, NativeType
    <2>2. \A i \in 1 .. N :
            /\ submissions'[i].task = submissions[i].task
            /\ submissions'[i].logged = submissions[i].logged
            /\ submissions[i].evidence => submissions'[i].evidence
            /\ submissions'[i].validation = submissions[i].validation
      BY <1>7
    <2>3. Grows
      BY <1>5, <1>7, <2>1, <2>2 DEF Grows, IInv, LedgerInv, AttemptInv, Task
    <2> QED BY <1>8, <2>3, GrowthKeepsLedger
  <1>11. RunType'
    BY <1>3, <1>5, <1>9 DEF Attempts, Answers, Completed, Ended, Free, Unrefused, Active, Ready, Task, At,
       Continues, N, AllTasks, Places, NativeType, RunType, Shown, Asking, RunInv, LedgerInv, IInv
  <1>12. ManifestInv'
    <2>1. Task(Active)' = Task(Active)
      BY <1>7, <1>8 DEF Task
    <2>2. /\ manifest'.state \notin {"absent", "preparing", "baseline_ready"}
          /\ manifest'.cleanup => manifest.cleanup \/ Ready
      BY <1>9 DEF IInv, ManifestType
    <2>3. Ready' = Ready
      BY <1>8 DEF Ready
    <2> QED BY <1>1, <1>3, <1>5, <1>7, <1>8, <2>1, <2>2, <2>3 DEF IInv, ManifestInv
  <1>13. CleaningInv'
    <2>1. /\ Task(Active)' = Task(Active) /\ Ready' = Ready /\ Shown' = Shown
          /\ turn' = turn /\ job' = job
      BY <1>5, <1>7, <1>8 DEF Task, Ready, Shown
    <2>2. CASE op' = Free
      BY <2>2 DEF CleaningInv, Free, At
    <2>3. CASE op' = [op EXCEPT !.at = "cleanup"] /\ manifest'.cleanup /\
               (turn[Active] \in Completed =>
                  submissions[Active].validation = "failed" \/ job[Task(Active)] # 0)
      <3>1. op'.at = "cleanup"
        BY <2>3 DEF IInv, RunType
      <3> QED BY <1>7, <1>8, <2>1, <2>3, <3>1 DEF CleaningInv, At
    <2>4. CASE op' = [op EXCEPT !.at = op.then] /\ Continues /\
               (Ready => turn[Active] \in Answers /\ job[Task(Active)] = 0
                           /\ submissions[Active].validation # "failed")
      <3>1. op'.at \in {"end", "candidates", "generate"} /\ op'.at = op.then /\ op'.task = op.task
        BY <2>4 DEF IInv, RunType
      <3>2. op'.at = "generate" => ~Ready
        BY <1>3, <2>4, <3>1 DEF IInv, CleaningInv
      <3> QED BY <1>3, <1>7, <1>8, <2>1, <2>4, <3>1, <3>2 DEF CleaningInv, At
    <2>5. \/ op' = Free
          \/ op' = [op EXCEPT !.at = "cleanup"] /\ manifest'.cleanup
             /\ (turn[Active] \in Completed =>
                    submissions[Active].validation = "failed" \/ job[Task(Active)] # 0)
          \/ op' = [op EXCEPT !.at = op.then] /\ Continues
             /\ (Ready => turn[Active] \in Answers /\ job[Task(Active)] = 0
                             /\ submissions[Active].validation # "failed")
      BY <1>9 DEF Continues, IInv, ManifestType
    <2> QED BY <2>2, <2>3, <2>4, <2>5
  <1>14. ActiveInv'
    BY <1>3, <1>5, <1>8, <1>9 DEF Attempts, Answers, Completed, Ended, Free, Active, Ready, Task, At,
       Continues, DurableOutcome, N, AllTasks, Record, ManifestType, NativeType, RunType, Shown,
       ManifestInv, HistoryInv, AttemptInv, JobInv, ActiveInv, Live, LiveInv, CleaningInv,
       LedgerInv, IInv
  <1>15. RunInv'
    BY <1>3, <1>5, <1>9, TasksAssumption, SMTT(30) DEF Attempts, Answers, Completed, Ended, Free,
       Unrefused, Active, Ready, Task, At, Continues, N, AllTasks, NativeType, RunType, Shown,
       Asking, RunInv, Live, LiveInv, CleaningInv, LedgerInv, IInv, TasksAssumption
  <1>16. ManifestType'
    BY <1>1, <1>3, <1>5, <1>6, <1>7, <1>8, <1>9 DEF Answers, Completed, Ended, Free, Active, Ready, Task,
       At, Continues, N, States, ManifestType, RecordsType, Shown, LedgerInv, IInv
  <1>17. HeldForCause'
    BY <1>1, <1>3, <1>5, <1>6, <1>7, <1>8, <1>9 DEF Attempts, Answers, Completed, Ended, Free, Unrefused,
       Active, Ready, Task, At, Continues, HeldForCause, N, AllTasks, Record, ManifestType,
       NativeType, RunType, Shown, Asking, RunInv, LedgerInv, IInv
  <1>18. LiveInv'
    BY <1>1, <1>3, <1>5, <1>6, <1>7, <1>8, <1>9 DEF Attempts, Answers, Completed, Ended, Free, Unrefused,
       Active, Ready, Task, At, Continues, N, AllTasks, Record, ManifestType, NativeType, RunType,
       Shown, ManifestInv, HistoryInv, Asking, RunInv, Live, LiveInv, CleaningInv, LedgerInv, IInv
  <1> QED BY <1>10, <1>11, <1>12, <1>13, <1>14, <1>15, <1>16, <1>17, <1>18 DEF IInv

LEMMA HoldsSilentKeeps ==
  ASSUME IInv, HoldsSilent
  PROVE  IInv'
  <1>1. /\ N \in Nat /\ DOMAIN submissions = 1 .. N /\ N <= MaxTurns
        /\ \A i \in 1 .. N : submissions[i] \in Record
        /\ Active \in 0 .. N
    BY Records DEF IInv, LedgerInv
  <1>2. Active # 0 => Matches(Active) = (IF Shown THEN {Active} ELSE {})
    BY OneAbove
  <1>3. /\ Active \in 1 .. N /\ Shown /\ turn[Active] = "silent" /\ At("reconcile")
        /\ submissions' = [submissions EXCEPT ![Active].bound = TRUE]
        /\ manifest' = [manifest EXCEPT !.state = "terminal_uncommitted"]
        /\ op' = Free /\ refused' = [sub |-> Active, task |-> op.task]
        /\ UNCHANGED <<job, history, turn, orphan, deaths>>
    BY <1>1, <1>2 DEF HoldsSilent, Recovers, Refuses, native
  <1>4. /\ RecordsType' /\ N' = N
        /\ \A i \in 1 .. N : i # Active => submissions'[i] = submissions[i]
        /\ submissions'[Active].task = submissions[Active].task
        /\ submissions'[Active].logged = submissions[Active].logged
        /\ submissions'[Active].bound
        /\ submissions'[Active].evidence = submissions[Active].evidence
        /\ submissions'[Active].validation = submissions[Active].validation
        /\ submissions'[Active].selection = submissions[Active].selection
    <2> DEFINE was == submissions[Active]
               now == [was EXCEPT !.bound = TRUE]
    <2>1. was \in Record /\ Active \in 1 .. N
      BY <1>1, <1>3
    <2>2. /\ now \in Record
          /\ now.task = was.task /\ now.logged = was.logged
          /\ now.bound /\ now.evidence = was.evidence
          /\ now.validation = was.validation /\ now.selection = was.selection
      BY <2>1 DEF Record
    <2>3. submissions' = [submissions EXCEPT ![Active] = now]
      BY <1>1, <1>3
    <2> HIDE DEF now
    <2>4. RecordsType
      BY DEF IInv, LedgerInv
    <2>5. /\ RecordsType' /\ N' = N
          /\ \A i \in 1 .. N : submissions'[i] = (IF i = Active THEN now ELSE submissions[i])
      BY <2>1, <2>2, <2>3, <2>4, Updated
    <2> QED BY <2>1, <2>2, <2>5
  <1>5. /\ Active' = Active /\ manifest'.p0 = manifest.p0 /\ manifest'.cleanup = manifest.cleanup
        /\ manifest'.state = "terminal_uncommitted"
    BY <1>3 DEF IInv, ManifestType, Active
  <1>6. LedgerInv'
    <2>1. NativeType' /\ RecordsType'
      BY <1>3, <1>4 DEF IInv, LedgerInv, NativeType
    <2>2. \A i \in 1 .. N :
            /\ submissions'[i].task = submissions[i].task
            /\ submissions'[i].logged = submissions[i].logged
            /\ submissions[i].evidence => submissions'[i].evidence
            /\ submissions'[i].validation = submissions[i].validation
      BY <1>4
    <2>3. Grows
      BY <1>3, <1>4, <2>1, <2>2 DEF Grows, IInv, LedgerInv, AttemptInv, Task
    <2> QED BY <1>5, <2>3, GrowthKeepsLedger
  <1>7. ManifestType' /\ RunType'
    BY <1>1, <1>3 DEF IInv, ManifestType, RunType, States, Free, Places, At, RunInv
  <1>8. ManifestInv' /\ ActiveInv'
    BY <1>1, <1>3, <1>4, <1>5 DEF IInv, ManifestInv, ActiveInv, Ready, Task, Shown
  <1>9. RunInv' /\ LiveInv' /\ CleaningInv'
    BY <1>3, TasksAssumption DEF IInv, RunInv, LiveInv, CleaningInv, Free, At, Asking, Live
  <1>10. HeldForCause'
    BY <1>3 DEF HeldForCause
  <1> QED BY <1>6, <1>7, <1>8, <1>9, <1>10 DEF IInv

LEMMA FindsNothingActiveKeeps ==
  ASSUME IInv, FindsNothingActive
  PROVE  IInv'
  <1>1. /\ N \in Nat /\ DOMAIN submissions = 1 .. N /\ N <= MaxTurns
        /\ \A i \in 1 .. N : submissions[i] \in Record
        /\ Active \in 0 .. N
    BY Records DEF IInv, LedgerInv
  <1>2. /\ ~manifest.cleanup /\ Len(history) <= 1 /\ (~Ready => history = <<>>)
        /\ Active = 0 /\ At("reconcile")
    <2>1. Len(history) \in 0 .. 2 /\ (history # <<>> <=> Len(history) # 0)
      BY HistoryLength DEF IInv, LedgerInv
    <2>2. Active = 0 /\ At("reconcile")
      BY DEF FindsNothingActive
    <2>3. ~manifest.cleanup
      BY <2>2 DEF IInv, ManifestInv
    <2>4. Len(history) # 2 /\ (~Ready => history = <<>>)
      BY <2>2 DEF IInv, LedgerInv, HistoryInv
    <2>5. Len(history) <= 1
      BY <2>1, <2>4
    <2> QED BY <2>2, <2>3, <2>4, <2>5
  <1>3. /\ manifest' = (IF Ready THEN Clean(manifest) ELSE manifest) /\ Continues
        /\ UNCHANGED <<submissions, job, native, refused, deaths>>
    BY <1>2 DEF FindsNothingActive
  <1>4. LedgerInv'
    BY <1>2, <1>3, UnchangedLedger DEF Clean, Active, native, IInv, ManifestType
  <1>5. ManifestType' /\ RunType'
    BY <1>1, <1>2, <1>3 DEF native, Attempts, Answers, Completed, Ended, Free, Unrefused, Active, Ready,
       At, Continues, Clean, N, AllTasks, States, Places, ManifestType, RecordsType, NativeType,
       RunType, Asking, RunInv, LedgerInv, IInv
  <1>6. ManifestInv' /\ HeldForCause'
    BY <1>1, <1>2, <1>3 DEF native, Attempts, Answers, Completed, Ended, Free, Unrefused, Active, Ready,
       Task, At, Continues, Clean, HeldForCause, N, AllTasks, States, Record, ManifestType,
       NativeType, RunType, Shown, ManifestInv, HistoryInv, Asking, RunInv, Live, LiveInv,
       CleaningInv, LedgerInv, IInv
  <1>7. ActiveInv' /\ CleaningInv'
    BY <1>1, <1>2, <1>3 DEF native, Attempts, Answers, Completed, Ended, Free, Unrefused, Active, Ready,
       Task, At, Continues, Clean, DurableOutcome, N, AllTasks, Record, ManifestType, NativeType,
       RunType, Shown, ManifestInv, HistoryInv, AttemptInv, JobInv, ActiveInv, Asking, RunInv,
       Live, LiveInv, CleaningInv, LedgerInv, IInv
  <1>8. RunInv' /\ LiveInv'
    BY <1>1, <1>2, <1>3, TasksAssumption DEF native, Attempts, Answers, Completed, Ended, Free, Unrefused,
       Active, Ready, Task, At, Continues, Clean, N, AllTasks, Record, ManifestType, NativeType,
       RunType, Shown, ManifestInv, HistoryInv, Asking, RunInv, Live, LiveInv, CleaningInv,
       LedgerInv, IInv, TasksAssumption
  <1> QED BY <1>4, <1>5, <1>6, <1>7, <1>8 DEF IInv

LEMMA CleanupIsRefusedKeeps ==
  ASSUME IInv, CleanupIsRefused
  PROVE  IInv'
  <1>1. /\ N \in Nat /\ DOMAIN submissions = 1 .. N /\ N <= MaxTurns
        /\ \A i \in 1 .. N : submissions[i] \in Record
        /\ Active \in 0 .. N
    BY Records DEF IInv, LedgerInv
  <1>2. /\ Above = (IF Len(history) = 2 THEN {Active} ELSE {})
        /\ Turns \subseteq 1 .. N
        /\ Active # 0 => Matches(Active) = (IF Shown THEN {Active} ELSE {})
    BY OneAbove
  <1>3. Len(history) = 2 /\ Ready /\ Shown /\ Active \in 1 .. N /\ Known(Active)
    <2>1. At("cleanup") /\ Above # {}
      BY DEF CleanupIsRefused
    <2>2. Len(history) = 2 /\ Ready /\ Shown /\ Active \in 1 .. N
      BY <1>1, <1>2, <2>1 DEF IInv, LedgerInv, HistoryInv, Shown
    <2> QED BY <2>1, <2>2 DEF IInv, ManifestInv, CleaningInv, Known, At
  <1>4. /\ manifest' = manifest /\ ~DurableOutcome(Active) /\ Refuses(Active) /\ At("cleanup")
        /\ UNCHANGED <<submissions, job, native, deaths>>
    BY <1>2, <1>3 DEF CleanupIsRefused
  <1>5. LedgerInv'
    BY <1>4, UnchangedLedger DEF Active, native
  <1>6. HeldForCause'
    <2>1. /\ Task(Active) # P0 /\ submissions[Active].evidence /\ turn[Active] \in Ended
          /\ turn[Active] \in Completed =>
                submissions[Active].validation = "failed" \/ job[Task(Active)] # 0
      BY <1>3, <1>4 DEF IInv, ManifestInv, CleaningInv, Known
    <2>2. turn[Active] \in Completed
      BY <1>1, <1>3, <1>4, <2>1 DEF DurableOutcome, IInv, LedgerInv, AttemptInv, Record
    <2>3. submissions[Active].validation # "failed" /\ job[Task(Active)] # 0
      BY <1>1, <1>3, <1>4, <2>1, <2>2 DEF DurableOutcome
    <2>4. job[Task(Active)] = Active
      <3> DEFINE k == job[Task(Active)]
      <3>1. k \in 1 .. N /\ Task(k) = Task(Active) /\ turn[k] = "good"
        BY <1>1, <1>3, <2>3 DEF IInv, LedgerInv, JobInv, Record, Task
      <3>2. ~Failed(k) /\ Reached(k)
        BY <3>1 DEF Failed, Reached, IInv, LedgerInv, AttemptInv
      <3>3. ~Failed(Active) /\ Reached(Active)
        BY <2>2, <2>3 DEF Failed, Reached, Completed, Answers
      <3>4. ~(k < Active) /\ ~(Active < k)
        BY <1>1, <1>3, <3>1, <3>2, <3>3 DEF IInv, LedgerInv, NoDuplicateTurn
      <3> QED BY <1>1, <3>1, <3>4
    <2>5. submissions[Active].validation = "not_run"
      BY <1>1, <1>3, <1>4, <2>1, <2>2, <2>3, <2>4 DEF DurableOutcome, Record
    <2> QED BY <1>3, <1>4, <2>4, <2>5 DEF HeldForCause, Refuses, native, Task
  <1>7. ManifestType' /\ RunType' /\ ManifestInv' /\ ActiveInv' /\ RunInv' /\ LiveInv' /\ CleaningInv'
    BY <1>1, <1>2, <1>3, <1>4, TasksAssumption DEF native, Attempts, Answers, Completed, Ended, Free,
       Unrefused, Active, Ready, Task, At, Refuses, DurableOutcome, Known, N, AllTasks, States,
       Places, Record, ManifestType, RecordsType, NativeType, RunType, Shown, ManifestInv,
       HistoryInv, AttemptInv, JobInv, ActiveInv, Asking, RunInv, Live, LiveInv, CleaningInv,
       LedgerInv, IInv, TasksAssumption
  <1> QED BY <1>5, <1>6, <1>7 DEF IInv

LEMMA RevertBeginsKeeps ==
  ASSUME IInv, RevertBegins
  PROVE  IInv'
  <1>1. /\ N \in Nat /\ DOMAIN submissions = 1 .. N /\ N <= MaxTurns
        /\ \A i \in 1 .. N : submissions[i] \in Record
        /\ Active \in 0 .. N
    BY Records DEF IInv, LedgerInv
  <1>2. /\ Above = (IF Len(history) = 2 THEN {Active} ELSE {})
        /\ Turns \subseteq 1 .. N
        /\ Active # 0 => Matches(Active) = (IF Shown THEN {Active} ELSE {})
    BY OneAbove
  <1>3. LedgerInv'
    BY UnchangedLedger DEF RevertBegins, native, Active, IInv, ManifestType
  <1>4. ManifestType'
    BY <1>1, <1>2 DEF native, Answers, Completed, Ended, Active, Ready, At, Goes, Known, RevertBegins, N,
       States, ManifestType, RecordsType, Shown, LedgerInv, IInv
  <1>5. RunType'
    BY <1>1, <1>2 DEF native, Attempts, Answers, Completed, Ended, Free, Unrefused, Active, Ready, At,
       Goes, Known, RevertBegins, N, AllTasks, Places, NativeType, RunType, Shown, Asking, RunInv,
       LedgerInv, IInv
  <1>6. ManifestInv'
    BY <1>1, <1>2 DEF native, Attempts, Answers, Completed, Ended, Active, Ready, Task, At, Goes, Known,
       RevertBegins, N, AllTasks, States, ManifestType, NativeType, Shown, ManifestInv,
       HistoryInv, Live, LiveInv, CleaningInv, LedgerInv, IInv
  <1>7. ActiveInv'
    BY <1>1, <1>2 DEF native, Attempts, Answers, Completed, Ended, Active, Ready, Task, At, Goes,
       DurableOutcome, Known, RevertBegins, N, AllTasks, Record, ManifestType, NativeType,
       RunType, Shown, ManifestInv, HistoryInv, AttemptInv, JobInv, ActiveInv, Live, LiveInv,
       CleaningInv, LedgerInv, IInv
  <1>8. RunInv'
    BY <1>1, <1>2, TasksAssumption DEF native, Attempts, Answers, Completed, Ended, Free, Unrefused,
       Active, Ready, Task, At, Goes, Known, RevertBegins, N, AllTasks, NativeType, RunType,
       Shown, Asking, RunInv, Live, LiveInv, CleaningInv, LedgerInv, IInv, TasksAssumption
  <1>9. LiveInv'
    BY <1>1, <1>2 DEF native, Attempts, Answers, Completed, Ended, Free, Unrefused, Active, Ready, Task,
       At, Goes, Known, RevertBegins, N, AllTasks, Record, ManifestType, NativeType, RunType,
       Shown, ManifestInv, HistoryInv, Asking, RunInv, Live, LiveInv, CleaningInv, LedgerInv, IInv
  <1>10. CleaningInv'
    BY <1>1, <1>2 DEF native, Attempts, Answers, Completed, Ended, Free, Unrefused, Active, Ready, Task,
       At, Goes, DurableOutcome, Known, RevertBegins, N, AllTasks, Record, ManifestType,
       NativeType, RunType, Shown, ManifestInv, HistoryInv, ActiveInv, Asking, RunInv, Live,
       LiveInv, CleaningInv, LedgerInv, IInv
  <1>11. HeldForCause'
    BY <1>1, <1>2 DEF native, Attempts, Answers, Completed, Ended, Free, Unrefused, Active, Ready, Task,
       At, Goes, Known, RevertBegins, HeldForCause, N, AllTasks, Record, ManifestType, NativeType,
       RunType, Shown, Asking, RunInv, LedgerInv, IInv
  <1> QED BY <1>3, <1>4, <1>5, <1>6, <1>7, <1>8, <1>9, <1>10, <1>11 DEF IInv

LEMMA RevertsKeeps ==
  ASSUME IInv, Reverts
  PROVE  IInv'
  <1>1. /\ N \in Nat /\ DOMAIN submissions = 1 .. N /\ N <= MaxTurns
        /\ \A i \in 1 .. N : submissions[i] \in Record
        /\ Active \in 0 .. N
    BY Records DEF IInv, LedgerInv
  <1>2. At("revert") /\ Ready /\ Shown /\ Active \in 1 .. N /\ DurableOutcome(Active)
    <2>1. At("revert")
      BY DEF Reverts
    <2>2. Ready /\ Shown /\ DurableOutcome(Active)
      BY <2>1 DEF IInv, LiveInv, CleaningInv, At
    <2> QED BY <1>1, <2>1, <2>2 DEF DurableOutcome
  <1>3. history' \in Seq(Nat) /\ Len(history') = 1 /\ history'[1] = history[1] /\ history' # <<>>
    <2>1. history \in Seq(Nat) /\ Len(history) = 2
      BY <1>2 DEF IInv, LedgerInv, NativeType, Shown
    <2>2. history[1] \in Nat
      BY <2>1, ElementOfSeq, 1 \in 1 .. 2
    <2>3. \A i \in 1 .. 1 : history[i] \in Nat
      BY <2>2
    <2>4. /\ SubSeq(history, 1, 1) \in Seq(Nat) /\ Len(SubSeq(history, 1, 1)) = 1
          /\ SubSeq(history, 1, 1)[1] = history[1]
      BY <2>3, SubSeqProperties
    <2>5. history' = SubSeq(history, 1, 1)
      BY DEF Reverts
    <2>6. \A s \in Seq(Nat) : Len(s) = 1 => s # <<>>
      BY EmptySeq
    <2> QED BY <2>4, <2>5, <2>6
  <1>4. UNCHANGED <<manifest, submissions, job, turn, orphan, refused, deaths>> /\ Goes("cleanup")
    BY DEF Reverts
  <1>5. LedgerInv'
    <2>1. RecordsType' /\ NativeType' /\ N' = N
      BY <1>3, <1>4 DEF IInv, LedgerInv, RecordsType, NativeType, N
    <2>2. HistoryInv' /\ AttemptInv' /\ JobInv'
      BY <1>2, <1>3, <1>4, <2>1
         DEF IInv, LedgerInv, HistoryInv, AttemptInv, JobInv, Active, Ready, Task, Shown
    <2>3. AccountInv' /\ NoDuplicateTurn'
      BY <1>4, <2>1 DEF IInv, LedgerInv, AccountInv, NoDuplicateTurn, Active, Reached, Failed, Task
    <2> QED BY <2>1, <2>2, <2>3 DEF LedgerInv
  <1>6. ManifestType'
    BY <1>1, <1>2, <1>3, <1>4 DEF Active, Ready, At, Goes, N, States, ManifestType, RecordsType,
       Shown, LedgerInv, IInv
  <1>7. RunType'
    BY <1>1, <1>2, <1>3, <1>4 DEF Attempts, Answers, Completed, Ended, Free, Unrefused, Active, Ready, At,
       Goes, N, AllTasks, Places, NativeType, RunType, Shown, Asking, RunInv, LedgerInv, IInv
  <1>8. ManifestInv'
    BY <1>1, <1>2, <1>3, <1>4 DEF Attempts, Answers, Completed, Ended, Active, Ready, Task, At, Goes, N,
       AllTasks, States, ManifestType, NativeType, Shown, ManifestInv, HistoryInv, Live, LiveInv,
       CleaningInv, LedgerInv, IInv
  <1>9. ActiveInv'
    BY <1>1, <1>2, <1>3, <1>4 DEF Attempts, Answers, Completed, Ended, Active, Ready, Task, At, Goes,
       DurableOutcome, N, AllTasks, Record, ManifestType, NativeType, RunType, Shown, ManifestInv,
       HistoryInv, AttemptInv, JobInv, ActiveInv, Live, LiveInv, CleaningInv, LedgerInv, IInv
  <1>10. RunInv'
    BY <1>1, <1>2, <1>3, <1>4, TasksAssumption DEF Attempts, Answers, Completed, Ended, Free, Unrefused,
       Active, Ready, Task, At, Goes, N, AllTasks, NativeType, RunType, Shown, Asking, RunInv,
       Live, LiveInv, CleaningInv, LedgerInv, IInv, TasksAssumption
  <1>11. LiveInv'
    BY <1>1, <1>2, <1>3, <1>4 DEF Attempts, Answers, Completed, Ended, Free, Unrefused, Active, Ready,
       Task, At, Goes, N, AllTasks, Record, ManifestType, NativeType, RunType, Shown, ManifestInv,
       HistoryInv, Asking, RunInv, Live, LiveInv, CleaningInv, LedgerInv, IInv
  <1>12. CleaningInv'
    BY <1>1, <1>2, <1>3, <1>4 DEF Attempts, Answers, Completed, Ended, Free, Unrefused, Active, Ready,
       Task, At, Goes, DurableOutcome, N, AllTasks, Record, ManifestType, NativeType, RunType,
       Shown, ManifestInv, HistoryInv, ActiveInv, Asking, RunInv, Live, LiveInv, CleaningInv,
       LedgerInv, IInv
  <1>13. HeldForCause'
    BY <1>1, <1>2, <1>3, <1>4 DEF Attempts, Answers, Completed, Ended, Free, Unrefused, Active, Ready,
       Task, At, Goes, HeldForCause, N, AllTasks, Record, ManifestType, NativeType, RunType,
       Shown, Asking, RunInv, LedgerInv, IInv
  <1> QED BY <1>5, <1>6, <1>7, <1>8, <1>9, <1>10, <1>11, <1>12, <1>13 DEF IInv

LEMMA CleanupEndsKeeps ==
  ASSUME IInv, CleanupEnds
  PROVE  IInv'
  <1>1. /\ N \in Nat /\ DOMAIN submissions = 1 .. N /\ N <= MaxTurns
        /\ \A i \in 1 .. N : submissions[i] \in Record
        /\ Active \in 0 .. N
    BY Records DEF IInv, LedgerInv
  <1>2. /\ Above = (IF Len(history) = 2 THEN {Active} ELSE {})
        /\ Turns \subseteq 1 .. N
        /\ Active # 0 => Matches(Active) = (IF Shown THEN {Active} ELSE {})
    BY OneAbove
  <1>3. Active # 0 /\ ~Shown /\ DurableOutcome(Active)
    BY <1>1, <1>2 DEF CleanupEnds, IInv, ManifestInv, ActiveInv, LiveInv, CleaningInv, Shown,
       Ended, Completed, Answers, At
  <1>4. \/ job[Task(Active)] = Active
        \/ submissions[Active].evidence /\ Failed(Active)
    BY <1>1, <1>3 DEF DurableOutcome, Failed, Ended, Completed, Answers
  <1>5. LedgerInv'
    BY <1>3, <1>4, ReleaseKeepsLedger DEF CleanupEnds, Clean, native, Active, IInv, ManifestType
  <1>6. ManifestType' /\ RunType'
    BY <1>1, <1>2, <1>3, <1>4 DEF native, Attempts, Answers, Completed, Ended, Free, Unrefused, Active,
       Ready, Task, At, Continues, Clean, CleanupEnds, N, AllTasks, States, Places, ManifestType,
       RecordsType, NativeType, RunType, Shown, Asking, RunInv, LedgerInv, IInv
  <1>7. ManifestInv' /\ HeldForCause'
    BY <1>1, <1>2, <1>3, <1>4 DEF native, Attempts, Answers, Completed, Ended, Free, Unrefused, Active,
       Ready, Task, At, Continues, Clean, CleanupEnds, HeldForCause, N, AllTasks, States, Record,
       ManifestType, NativeType, RunType, Shown, ManifestInv, HistoryInv, Asking, RunInv, Live,
       LiveInv, CleaningInv, LedgerInv, IInv
  <1>8. ActiveInv' /\ CleaningInv'
    BY <1>1, <1>2, <1>3, <1>4 DEF native, Attempts, Answers, Completed, Ended, Free, Unrefused, Active,
       Ready, Task, At, Continues, Clean, DurableOutcome, CleanupEnds, N, AllTasks, Record,
       ManifestType, NativeType, RunType, Shown, ManifestInv, HistoryInv, AttemptInv, JobInv,
       ActiveInv, Asking, RunInv, Live, LiveInv, CleaningInv, LedgerInv, IInv
  <1>9. RunInv' /\ LiveInv'
    BY <1>1, <1>2, <1>3, <1>4, TasksAssumption DEF native, Attempts, Answers, Completed, Ended, Free,
       Unrefused, Active, Ready, Task, At, Continues, Clean, CleanupEnds, N, AllTasks, Record,
       ManifestType, NativeType, RunType, Shown, ManifestInv, HistoryInv, Asking, RunInv, Live,
       LiveInv, CleaningInv, LedgerInv, IInv, TasksAssumption
  <1> QED BY <1>5, <1>6, <1>7, <1>8, <1>9 DEF IInv

LEMMA AcceptsRecoveredKeeps ==
  ASSUME IInv, AcceptsRecovered
  PROVE  IInv'
  <1>1. /\ N \in Nat /\ DOMAIN submissions = 1 .. N /\ N <= MaxTurns
        /\ \A i \in 1 .. N : submissions[i] \in Record
        /\ Active \in 0 .. N
    BY Records DEF IInv, LedgerInv
  <1>2. /\ At("candidates") /\ op.task \in Tasks /\ job[op.task] = 0
        /\ op' = [op EXCEPT !.at = "accepted"]
        /\ UNCHANGED <<manifest, submissions, history, turn, orphan, refused, deaths>>
    BY DEF AcceptsRecovered, Goes, native, IInv, RunInv, Asking, At
  <1>3. PICK i \in 1 .. N : /\ Task(i) = op.task /\ turn[i] = "good"
                           /\ job' = [job EXCEPT ![op.task] = i]
    BY <1>1 DEF AcceptsRecovered, Answered
  <1>4. job' \in [AllTasks -> Nat] /\ job'[op.task] = i /\ (\A t \in AllTasks : t # op.task => job'[t] = job[t])
    BY <1>1, <1>2, <1>3 DEF IInv, LedgerInv, NativeType, AllTasks
  <1>5. LedgerInv'
    <2>1. RecordsType' /\ N' = N /\ NativeType'
      BY <1>2, <1>4 DEF IInv, LedgerInv, RecordsType, NativeType, N
    <2>2. op.task # P0
      BY <1>2, TasksAssumption DEF TasksAssumption
    <2>3. \A t \in AllTasks : job'[t] # job[t] =>
            /\ job[t] = 0 /\ job'[t] \in 1 .. N
            /\ Task(job'[t]) = t /\ turn[job'[t]] = "good" /\ (t = P0 => history # <<>>)
      BY <1>2, <1>3, <1>4, <2>2
    <2>4. Grows
      BY <1>2, <2>1, <2>3 DEF Grows, IInv, LedgerInv, AttemptInv, Task
    <2> QED BY <1>2, <2>4, GrowthKeepsLedger DEF Active
  <1>6. ManifestType' /\ RunType'
    BY <1>1, <1>2, <1>3, <1>4 DEF Attempts, Answers, Completed, Ended, Free, Unrefused, Active, Task, At,
       N, AllTasks, States, Places, ManifestType, RecordsType, NativeType, RunType, Asking,
       RunInv, LedgerInv, IInv
  <1>7. ManifestInv' /\ HeldForCause'
    BY <1>1, <1>2, <1>3, <1>4 DEF Attempts, Answers, Completed, Ended, Free, Unrefused, Active, Ready,
       Task, At, HeldForCause, N, AllTasks, States, Record, ManifestType, NativeType, RunType,
       Shown, ManifestInv, HistoryInv, Asking, RunInv, Live, LiveInv, CleaningInv, LedgerInv, IInv
  <1>8. ActiveInv' /\ CleaningInv'
    BY <1>1, <1>2, <1>3, <1>4 DEF Attempts, Answers, Completed, Ended, Free, Unrefused, Active, Ready,
       Task, At, DurableOutcome, N, AllTasks, Record, ManifestType, NativeType, RunType, Shown,
       ManifestInv, HistoryInv, AttemptInv, JobInv, ActiveInv, Asking, RunInv, Live, LiveInv,
       CleaningInv, LedgerInv, IInv
  <1>9. RunInv' /\ LiveInv'
    BY <1>1, <1>2, <1>3, <1>4, TasksAssumption DEF Attempts, Answers, Completed, Ended, Free, Unrefused,
       Active, Ready, Task, At, N, AllTasks, Record, ManifestType, NativeType, RunType, Shown,
       ManifestInv, HistoryInv, Asking, RunInv, Live, LiveInv, CleaningInv, LedgerInv, IInv,
       TasksAssumption
  <1> QED BY <1>5, <1>6, <1>7, <1>8, <1>9 DEF IInv

LEMMA RecordsRecoveredKeeps ==
  ASSUME IInv, RecordsRecovered
  PROVE  IInv'
  <1>1. /\ N \in Nat /\ DOMAIN submissions = 1 .. N /\ N <= MaxTurns
        /\ \A i \in 1 .. N : submissions[i] \in Record
        /\ Active \in 0 .. N
    BY Records DEF IInv, LedgerInv
  <1>2. /\ At("accepted") /\ op.task \in Tasks /\ job[op.task] # 0
        /\ op' = [op EXCEPT !.at = "reconcile", !.then = "end"]
        /\ UNCHANGED <<manifest, job, history, turn, orphan, refused, deaths>>
    BY DEF RecordsRecovered, native, IInv, RunInv, At
  <1>3. job[op.task] \in 1 .. N /\ turn[job[op.task]] = "good"
    BY <1>2 DEF IInv, LedgerInv, JobInv, AllTasks
  <1>4. /\ RecordsType' /\ N' = N
        /\ \A i \in 1 .. N : i # job[op.task] => submissions'[i] = submissions[i]
        /\ submissions'[job[op.task]].task = submissions[job[op.task]].task
        /\ submissions'[job[op.task]].logged = submissions[job[op.task]].logged
        /\ submissions'[job[op.task]].bound = submissions[job[op.task]].bound
        /\ submissions'[job[op.task]].evidence = submissions[job[op.task]].evidence
        /\ submissions'[job[op.task]].validation = "passed"
        /\ submissions'[job[op.task]].selection = submissions[job[op.task]].selection
    <2> DEFINE was == submissions[job[op.task]]
               now == [was EXCEPT !.validation = "passed"]
    <2>1. was \in Record /\ job[op.task] \in 1 .. N
      BY <1>1, <1>2, <1>3
    <2>2. /\ now \in Record
          /\ now.task = was.task /\ now.logged = was.logged
          /\ now.bound = was.bound /\ now.evidence = was.evidence
          /\ now.validation = "passed" /\ now.selection = was.selection
      BY <2>1 DEF Record
    <2>3. submissions' = [submissions EXCEPT ![job[op.task]] = now]
      BY <1>1, <1>2, <1>3 DEF RecordsRecovered
    <2> HIDE DEF now
    <2>4. RecordsType
      BY DEF IInv, LedgerInv
    <2>5. /\ RecordsType' /\ N' = N
          /\ \A i \in 1 .. N : submissions'[i] = (IF i = job[op.task] THEN now ELSE submissions[i])
      BY <2>1, <2>2, <2>3, <2>4, Updated
    <2> QED BY <2>1, <2>2, <2>5
  <1>5. LedgerInv'
    <2>1. NativeType' /\ RecordsType'
      BY <1>2, <1>4 DEF IInv, LedgerInv, NativeType
    <2>2. \A i \in 1 .. N :
            /\ submissions'[i].task = submissions[i].task
            /\ submissions'[i].logged = submissions[i].logged
            /\ submissions'[i].evidence = submissions[i].evidence
            /\ submissions[i].validation = "failed" => turn[i] # "good"
            /\ \/ submissions'[i].validation = submissions[i].validation
               \/ submissions'[i].validation = "passed" /\ turn[i] = "good"
      BY <1>3, <1>4 DEF IInv, LedgerInv, AttemptInv
    <2>3. Grows
      BY <1>2, <1>4, <2>1, <2>2 DEF Grows, IInv, LedgerInv, AttemptInv, Task, Completed, Answers
    <2> QED BY <1>2, <2>3, GrowthKeepsLedger DEF Active
  <1>6. ManifestType'
    BY <1>1, <1>2, <1>3, <1>4 DEF Active, At, N, States, ManifestType, RecordsType, LedgerInv,
       IInv
  <1>7. RunType'
    BY <1>1, <1>2, <1>3, <1>4 DEF Attempts, Answers, Completed, Ended, Free, Unrefused, Active, At, N,
       AllTasks, Places, NativeType, RunType, Asking, RunInv, LedgerInv, IInv
  <1>8. ManifestInv'
    BY <1>1, <1>2, <1>3, <1>4 DEF Attempts, Answers, Completed, Ended, Active, Ready, Task, At, N,
       AllTasks, States, ManifestType, NativeType, Shown, ManifestInv, HistoryInv, Live, LiveInv,
       CleaningInv, LedgerInv, IInv
  <1>9. ActiveInv'
    BY <1>1, <1>2, <1>3, <1>4, SMTT(30) DEF Attempts, Answers, Completed, Ended, Active, Ready, Task, At,
       DurableOutcome, N, AllTasks, Record, ManifestType, NativeType, RunType, Shown, ManifestInv,
       HistoryInv, AttemptInv, JobInv, ActiveInv, Live, LiveInv, CleaningInv, LedgerInv, IInv
  <1>10. RunInv'
    BY <1>1, <1>2, <1>3, <1>4, TasksAssumption DEF Attempts, Answers, Completed, Ended, Free, Unrefused,
       Active, Ready, Task, At, N, AllTasks, NativeType, RunType, Shown, Asking, RunInv, Live,
       LiveInv, CleaningInv, LedgerInv, IInv, TasksAssumption
  <1>11. LiveInv'
    BY <1>1, <1>2, <1>3, <1>4 DEF Attempts, Answers, Completed, Ended, Free, Unrefused, Active, Ready,
       Task, At, N, AllTasks, Record, ManifestType, NativeType, RunType, Shown, ManifestInv,
       HistoryInv, Asking, RunInv, Live, LiveInv, CleaningInv, LedgerInv, IInv
  <1>12. CleaningInv'
    BY <1>1, <1>2, <1>3, <1>4 DEF Attempts, Answers, Completed, Ended, Free, Unrefused, Active, Ready,
       Task, At, DurableOutcome, N, AllTasks, Record, ManifestType, NativeType, RunType, Shown,
       ManifestInv, HistoryInv, ActiveInv, Asking, RunInv, Live, LiveInv, CleaningInv, LedgerInv,
       IInv
  <1>13. HeldForCause'
    BY <1>1, <1>2, <1>3, <1>4 DEF Attempts, Answers, Completed, Ended, Free, Unrefused, Active, Task, At,
       HeldForCause, N, AllTasks, Record, ManifestType, NativeType, RunType, Asking, RunInv,
       LedgerInv, IInv
  <1> QED BY <1>5, <1>6, <1>7, <1>8, <1>9, <1>10, <1>11, <1>12, <1>13 DEF IInv

LEMMA FindsBadAnswerKeeps ==
  ASSUME IInv, FindsNoAnswer, Active \in Answered(op.task)
  PROVE  IInv'
  <1>1. /\ N \in Nat /\ DOMAIN submissions = 1 .. N /\ N <= MaxTurns
        /\ \A i \in 1 .. N : submissions[i] \in Record
        /\ Active \in 0 .. N
    BY Records DEF IInv, LedgerInv
  <1>2. /\ At("candidates") /\ op.task \in Tasks /\ job[op.task] = 0
        /\ op' = [op EXCEPT !.at = "reconcile", !.then = "generate"]
        /\ UNCHANGED <<manifest, job, history, turn, orphan, refused, deaths>>
    BY DEF FindsNoAnswer, native, IInv, RunInv, Asking, At
  <1>3. Active \in 1 .. N /\ Task(Active) = op.task /\ turn[Active] = "bad" /\ Ready /\ Shown
    <2>1. Active \in 1 .. N /\ Task(Active) = op.task /\ turn[Active] = "bad"
      BY <1>1 DEF FindsNoAnswer, Answered
    <2>2. op.task # P0
      BY <1>2, TasksAssumption DEF TasksAssumption
    <2> QED BY <1>2, <2>1, <2>2 DEF IInv, ManifestInv, CleaningInv, At
  <1>4. /\ RecordsType' /\ N' = N
        /\ \A i \in 1 .. N : i # Active => submissions'[i] = submissions[i]
        /\ submissions'[Active].task = submissions[Active].task
        /\ submissions'[Active].logged = submissions[Active].logged
        /\ submissions'[Active].bound = submissions[Active].bound
        /\ submissions'[Active].evidence = submissions[Active].evidence
        /\ submissions'[Active].validation = "failed"
        /\ submissions'[Active].selection = submissions[Active].selection
    <2> DEFINE was == submissions[Active]
               now == [was EXCEPT !.validation = "failed"]
    <2>1. was \in Record /\ Active \in 1 .. N
      BY <1>1, <1>2, <1>3
    <2>2. /\ now \in Record
          /\ now.task = was.task /\ now.logged = was.logged
          /\ now.bound = was.bound /\ now.evidence = was.evidence
          /\ now.validation = "failed" /\ now.selection = was.selection
      BY <2>1 DEF Record
    <2>3. submissions' = [submissions EXCEPT ![Active] = now]
      BY <1>1, <1>2, <1>3 DEF FindsNoAnswer
    <2> HIDE DEF now
    <2>4. RecordsType
      BY DEF IInv, LedgerInv
    <2>5. /\ RecordsType' /\ N' = N
          /\ \A i \in 1 .. N : submissions'[i] = (IF i = Active THEN now ELSE submissions[i])
      BY <2>1, <2>2, <2>3, <2>4, Updated
    <2> QED BY <2>1, <2>2, <2>5
  <1>5. LedgerInv'
    <2>1. NativeType' /\ RecordsType'
      BY <1>2, <1>4 DEF IInv, LedgerInv, NativeType
    <2>2. \A i \in 1 .. N :
            /\ submissions'[i].task = submissions[i].task
            /\ submissions'[i].logged = submissions[i].logged
            /\ submissions'[i].evidence = submissions[i].evidence
            /\ \/ submissions'[i].validation = submissions[i].validation
               \/ submissions'[i].validation = "failed" /\ turn[i] = "bad"
      BY <1>3, <1>4
    <2>3. Grows
      BY <1>2, <1>4, <2>1, <2>2 DEF Grows, IInv, LedgerInv, AttemptInv, Task, Completed, Answers
    <2> QED BY <1>2, <2>3, GrowthKeepsLedger DEF Active
  <1>6. ManifestType' /\ RunType'
    BY <1>1, <1>2, <1>3, <1>4 DEF Attempts, Answers, Completed, Ended, Free, Unrefused, Active, Ready,
       Task, At, N, AllTasks, States, Places, ManifestType, RecordsType, NativeType, RunType,
       Shown, Asking, RunInv, LedgerInv, IInv
  <1>7. ManifestInv' /\ HeldForCause'
    BY <1>1, <1>2, <1>3, <1>4 DEF Attempts, Answers, Completed, Ended, Free, Unrefused, Active, Ready,
       Task, At, HeldForCause, N, AllTasks, States, Record, ManifestType, NativeType, RunType,
       Shown, ManifestInv, HistoryInv, Asking, RunInv, Live, LiveInv, CleaningInv, LedgerInv, IInv
  <1>8. ActiveInv' /\ CleaningInv'
    BY <1>1, <1>2, <1>3, <1>4 DEF Attempts, Answers, Completed, Ended, Free, Unrefused, Active, Ready,
       Task, At, DurableOutcome, N, AllTasks, Record, ManifestType, NativeType, RunType, Shown,
       ManifestInv, HistoryInv, AttemptInv, JobInv, ActiveInv, Asking, RunInv, Live, LiveInv,
       CleaningInv, LedgerInv, IInv
  <1>9. RunInv' /\ LiveInv'
    BY <1>1, <1>2, <1>3, <1>4, TasksAssumption DEF Attempts, Answers, Completed, Ended, Free, Unrefused,
       Active, Ready, Task, At, N, AllTasks, Record, ManifestType, NativeType, RunType, Shown,
       ManifestInv, HistoryInv, Asking, RunInv, Live, LiveInv, CleaningInv, LedgerInv, IInv,
       TasksAssumption
  <1> QED BY <1>5, <1>6, <1>7, <1>8, <1>9 DEF IInv

LEMMA FindsNoAnswerOfItsOwnKeeps ==
  ASSUME IInv, FindsNoAnswer, Active \notin Answered(op.task)
  PROVE  IInv'
  <1>1. /\ N \in Nat /\ DOMAIN submissions = 1 .. N /\ N <= MaxTurns
        /\ \A i \in 1 .. N : submissions[i] \in Record
        /\ Active \in 0 .. N
    BY Records DEF IInv, LedgerInv
  <1>2. /\ At("candidates") /\ op' = [op EXCEPT !.at = "generate"]
        /\ UNCHANGED <<manifest, submissions, job, history, turn, orphan, refused, deaths>>
    BY DEF FindsNoAnswer, native, Goes
  <1>3. Active # 0 /\ Ready => Task(Active) # op.task
    BY <1>1, <1>2 DEF FindsNoAnswer, Answered, IInv, CleaningInv, At
  <1>4. LedgerInv'
    BY <1>2, UnchangedLedger DEF Active
  <1>5. ManifestType' /\ RunType'
    BY <1>1, <1>2, <1>3 DEF Attempts, Answers, Completed, Ended, Free, Unrefused, Active, Ready, Task, At,
       N, AllTasks, States, Places, ManifestType, RecordsType, NativeType, RunType, Asking,
       RunInv, LedgerInv, IInv
  <1>6. ManifestInv' /\ HeldForCause'
    BY <1>1, <1>2, <1>3 DEF Attempts, Answers, Completed, Ended, Free, Unrefused, Active, Ready, Task, At,
       HeldForCause, N, AllTasks, States, Record, ManifestType, NativeType, RunType, Shown,
       ManifestInv, HistoryInv, Asking, RunInv, Live, LiveInv, CleaningInv, LedgerInv, IInv
  <1>7. ActiveInv' /\ CleaningInv'
    BY <1>1, <1>2, <1>3 DEF Attempts, Answers, Completed, Ended, Free, Unrefused, Active, Ready, Task, At,
       DurableOutcome, N, AllTasks, Record, ManifestType, NativeType, RunType, Shown, ManifestInv,
       HistoryInv, AttemptInv, JobInv, ActiveInv, Asking, RunInv, Live, LiveInv, CleaningInv,
       LedgerInv, IInv
  <1>8. RunInv' /\ LiveInv'
    BY <1>1, <1>2, <1>3, TasksAssumption DEF Attempts, Answers, Completed, Ended, Free, Unrefused, Active,
       Ready, Task, At, N, AllTasks, Record, ManifestType, NativeType, RunType, Shown,
       ManifestInv, HistoryInv, Asking, RunInv, Live, LiveInv, CleaningInv, LedgerInv, IInv,
       TasksAssumption
  <1> QED BY <1>4, <1>5, <1>6, <1>7, <1>8 DEF IInv

LEMMA GeneratesKeeps ==
  ASSUME IInv, Generates
  PROVE  IInv'
  <1>1. /\ N \in Nat /\ DOMAIN submissions = 1 .. N /\ N <= MaxTurns
        /\ \A i \in 1 .. N : submissions[i] \in Record
        /\ Active \in 0 .. N
    BY Records DEF IInv, LedgerInv
  <1>2. PICK t \in {op.task, P0} : Submits(t) /\ (t = P0 => ~Ready /\ history = <<>>) /\ (t = op.task => Ready)
    <2>1. At("generate") => op.task # P0
      BY TasksAssumption DEF TasksAssumption, IInv, RunInv, At
    <2> QED BY <2>1 DEF Generates
  <1>3. /\ At("generate") /\ op.task \in Tasks /\ job[op.task] = 0 /\ Active = 0 /\ ~orphan /\ refused = Unrefused
        /\ op' = [op EXCEPT !.at = "send"]
        /\ UNCHANGED <<job, history, turn, orphan, refused, deaths>>
    BY <1>2 DEF Generates, Submits, Goes, native, IInv, RunInv, Asking, At
  <1>4. /\ RecordsType' /\ N' = N + 1 /\ N + 1 \in 1 .. MaxTurns
        /\ \A j \in 1 .. N : submissions'[j] = submissions[j]
        /\ submissions'[N + 1] = Attempt(t) /\ Attempt(t) \in Record
    <2>1. Attempt(t) \in Record /\ t \in AllTasks
      BY <1>3 DEF Attempt, Record, AllTasks
    <2>2. N < MaxTurns /\ submissions' = Append(submissions, Attempt(t)) /\ RecordsType
      BY <1>2 DEF Submits, N, IInv, LedgerInv
    <2> QED BY <2>1, <2>2, Appended, BoundsAssumption DEF BoundsAssumption
  <1>5. manifest' = [manifest EXCEPT !.state = "submission_pending", !.active = N + 1,
                                 !.p0 = IF t = P0 THEN "preparing" ELSE @]
    BY <1>2 DEF Submits, Intent, N
  <1>6. Active' = N + 1 /\ (Ready' <=> Ready) /\ Task(Active)' = t /\ turn[N + 1] = "none" /\ ~submissions'[N + 1].evidence
    BY <1>1, <1>2, <1>4, <1>5 DEF Active, Ready, Task, Attempt, IInv, ManifestType, LedgerInv, AttemptInv, Attempts
  <1>7. ~Shown' /\ Active' # 0 /\ (\A i \in 1 .. N + 1 : i \in 1 .. N \/ i = N + 1)
    <2>1. Ready => Len(history) # 2
      BY <1>3 DEF IInv, LedgerInv, HistoryInv
    <2>2. ~Ready => Len(history) = 0
      BY <1>2, <1>3, HistoryLength DEF IInv, LedgerInv
    <2>3. Active' # 0 /\ (\A i \in 1 .. N + 1 : i \in 1 .. N \/ i = N + 1)
      BY <1>1, <1>6
    <2> QED BY <1>3, <1>6, <2>1, <2>2, <2>3 DEF Shown, Ready
  <1>8. LedgerInv'
    <2>1. NativeType' /\ N + 1 # 0
      BY <1>1, <1>3 DEF IInv, LedgerInv, NativeType
    <2>2. HistoryInv'
      BY <1>1, <1>2, <1>3, <1>4, <1>6 DEF IInv, LedgerInv, HistoryInv, Task
    <2>3. AttemptInv'
      BY <1>1, <1>3, <1>4, <1>6, <1>7 DEF IInv, LedgerInv, AttemptInv, Attempt, Attempts, Completed, Answers
    <2>4. JobInv'
      BY <1>1, <1>3, <1>4 DEF IInv, LedgerInv, JobInv, Task
    <2>5. AccountInv'
      BY <1>1, <1>3, <1>4, <1>6 DEF IInv, LedgerInv, AccountInv, Task, Failed
    <2>6. NoDuplicateTurn'
      <3>1. DOMAIN submissions' = 1 .. N + 1
        BY <1>4, LenProperties DEF RecordsType, N
      <3>2. \A i \in 1 .. N + 1 : i \in 1 .. N \/ i = N + 1
        BY <1>1
      <3> QED BY <1>1, <1>3, <1>4, <1>6, <3>1, <3>2 DEF IInv, LedgerInv, NoDuplicateTurn, Reached, Failed, Task
    <2> QED BY <1>4, <2>1, <2>2, <2>3, <2>4, <2>5, <2>6 DEF LedgerInv
  <1>9. ManifestType'
    <2> DEFINE p == IF t = P0 THEN "preparing" ELSE manifest.p0
    <2>1. manifest' = [manifest EXCEPT !.state = "submission_pending", !.active = N + 1, !.p0 = p]
      BY <1>5
    <2>2. p \in {"absent", "preparing", "ready"} /\ N + 1 \in Nat
      BY <1>1 DEF IInv, ManifestType
    <2> HIDE DEF p
    <2> QED BY <2>1, <2>2 DEF IInv, ManifestType, States
  <1>10. ActiveInv'
    BY <1>3, <1>6, <1>7 DEF ActiveInv
  <1>11. LiveInv'
    <2>1. op'.at = "send" /\ op'.task = op.task
      BY <1>3 DEF IInv, RunType
    <2>2. Ready => Task(Active)' = op.task
      BY <1>2, <1>6
    <2> QED BY <1>3, <1>4, <1>6, <1>7, <2>1, <2>2 DEF LiveInv, Live, At
  <1>12. RunType'
    BY <1>1, <1>2, <1>3, <1>4, <1>5, <1>6, <1>7 DEF native, Attempts, Answers, Completed, Ended, Free,
       Unrefused, Active, Ready, Task, At, Goes, Attempt, Intent, Submits, N, AllTasks, Places,
       NativeType, RunType, Shown, Asking, RunInv, LedgerInv, IInv
  <1>13. ManifestInv'
    BY <1>1, <1>2, <1>3, <1>4, <1>5, <1>6, <1>7 DEF native, Attempts, Answers, Completed, Ended, Unrefused,
       Active, Ready, Task, At, Goes, Attempt, Intent, Submits, N, AllTasks, States, ManifestType,
       NativeType, Shown, ManifestInv, HistoryInv, Live, LiveInv, CleaningInv, LedgerInv, IInv
  <1>14. RunInv'
    BY <1>1, <1>2, <1>3, <1>4, <1>5, <1>6, <1>7, TasksAssumption DEF native, Attempts, Completed,
       Ended, Free, Unrefused, Active, Ready, Task, At, Goes, Attempt, Intent, Submits, N,
       AllTasks, NativeType, RunType, Shown, Asking, RunInv, Live, LiveInv, CleaningInv,
       LedgerInv, IInv, TasksAssumption
  <1>15. CleaningInv'
    BY <1>1, <1>2, <1>3, <1>4, <1>5, <1>6, <1>7 DEF native, Attempts, Answers, Completed, Ended, Free,
       Unrefused, Active, Ready, Task, At, Goes, DurableOutcome, Attempt, Intent, Submits, N,
       AllTasks, Record, ManifestType, NativeType, RunType, Shown, ManifestInv, HistoryInv,
       ActiveInv, Asking, RunInv, Live, LiveInv, CleaningInv, LedgerInv, IInv
  <1>16. HeldForCause'
    BY <1>1, <1>2, <1>3, <1>4, <1>5, <1>6, <1>7 DEF native, Attempts, Answers, Completed, Ended, Free,
       Unrefused, Active, Ready, Task, At, Goes, Attempt, Intent, Submits, HeldForCause, N,
       AllTasks, Record, ManifestType, NativeType, RunType, Shown, Asking, RunInv, LedgerInv, IInv
  <1> QED BY <1>8, <1>9, <1>10, <1>11, <1>12, <1>13, <1>14, <1>15, <1>16 DEF IInv

LEMMA GenerateIsRefusedKeeps ==
  ASSUME IInv, GenerateIsRefused
  PROVE  IInv'
  <1>1. /\ N \in Nat /\ DOMAIN submissions = 1 .. N /\ N <= MaxTurns
        /\ \A i \in 1 .. N : submissions[i] \in Record
        /\ Active \in 0 .. N
    BY Records DEF IInv, LedgerInv
  <1>2. /\ At("generate") /\ op.task \in Tasks /\ Active \in 1 .. N /\ (Ready \/ turn[Active] # "good")
        /\ op' = Free /\ refused' = [sub |-> Active, task |-> op.task]
        /\ UNCHANGED <<manifest, submissions, job, history, turn, orphan, deaths>>
    BY <1>1 DEF GenerateIsRefused, Refuses, native, IInv, RunInv, At
  <1>3. LedgerInv'
    BY <1>2, UnchangedLedger DEF Active
  <1>4. HeldForCause'
    <2>1. /\ Task(Active) = P0 <=> ~Ready
          /\ Ready => /\ turn[Active] \in Completed /\ job[Task(Active)] = 0
                      /\ Task(Active) # op.task
      BY <1>2 DEF Answers, Completed, IInv, ManifestInv, CleaningInv, At
    <2> QED BY <1>2, <2>1 DEF HeldForCause, Task
  <1>5. ManifestType' /\ RunType' /\ ManifestInv' /\ ActiveInv' /\ RunInv' /\ LiveInv' /\ CleaningInv'
    BY <1>1, <1>2, TasksAssumption DEF Attempts, Answers, Completed, Ended, Free, Unrefused, Active, Ready,
       Task, At, DurableOutcome, N, AllTasks, States, Places, Record, ManifestType, RecordsType,
       NativeType, RunType, Shown, ManifestInv, HistoryInv, AttemptInv, JobInv, ActiveInv, Asking,
       RunInv, Live, LiveInv, CleaningInv, LedgerInv, IInv, TasksAssumption
  <1> QED BY <1>3, <1>4, <1>5 DEF IInv

LEMMA SendsKeeps ==
  ASSUME IInv, Sends
  PROVE  IInv'
  <1>1. /\ N \in Nat /\ DOMAIN submissions = 1 .. N /\ N <= MaxTurns
        /\ \A i \in 1 .. N : submissions[i] \in Record
        /\ Active \in 0 .. N
    BY Records DEF IInv, LedgerInv
  <1>2. /\ At("send") /\ op.task \in Tasks /\ Active = N /\ Active \in 1 .. N
        /\ op' = [op EXCEPT !.at = "sent"]
        /\ UNCHANGED <<manifest, job, history, turn, orphan, refused, deaths>>
    BY <1>1 DEF Sends, Goes, native, IInv, RunInv, LiveInv, Live, At
  <1>3. /\ RecordsType' /\ N' = N
        /\ \A i \in 1 .. N : i # Active => submissions'[i] = submissions[i]
        /\ submissions'[Active].task = submissions[Active].task
        /\ submissions'[Active].logged
        /\ submissions'[Active].bound = submissions[Active].bound
        /\ submissions'[Active].evidence = submissions[Active].evidence
        /\ submissions'[Active].validation = submissions[Active].validation
        /\ submissions'[Active].selection = submissions[Active].selection
    <2> DEFINE was == submissions[Active]
               now == [was EXCEPT !.logged = TRUE]
    <2>1. was \in Record /\ Active \in 1 .. N
      BY <1>1, <1>2
    <2>2. /\ now \in Record
          /\ now.task = was.task /\ now.logged
          /\ now.bound = was.bound /\ now.evidence = was.evidence
          /\ now.validation = was.validation /\ now.selection = was.selection
      BY <2>1 DEF Record
    <2>3. submissions' = [submissions EXCEPT ![Active] = now]
      BY <1>1, <1>2 DEF Sends, Asked, N
    <2> HIDE DEF now
    <2>4. RecordsType
      BY DEF IInv, LedgerInv
    <2>5. /\ RecordsType' /\ N' = N
          /\ \A i \in 1 .. N : submissions'[i] = (IF i = Active THEN now ELSE submissions[i])
      BY <2>1, <2>2, <2>3, <2>4, Updated
    <2> QED BY <2>1, <2>2, <2>5
  <1>4. LedgerInv'
    <2>1. NativeType' /\ RecordsType'
      BY <1>2, <1>3 DEF IInv, LedgerInv, NativeType
    <2>2. \A i \in 1 .. N :
            /\ submissions'[i].task = submissions[i].task
            /\ submissions[i].logged => submissions'[i].logged
            /\ submissions'[i].evidence = submissions[i].evidence
            /\ submissions'[i].validation = submissions[i].validation
      BY <1>3
    <2>3. Grows
      BY <1>2, <1>3, <2>1, <2>2 DEF Grows, IInv, LedgerInv, AttemptInv, Task
    <2> QED BY <1>2, <2>3, GrowthKeepsLedger DEF Active
  <1>5. ManifestType'
    BY <1>1, <1>2, <1>3 DEF Active, At, N, States, ManifestType, RecordsType, LedgerInv, IInv
  <1>6. RunType'
    BY <1>1, <1>2, <1>3 DEF Attempts, Answers, Completed, Ended, Free, Unrefused, Active, At, N, AllTasks,
       Places, NativeType, RunType, Asking, RunInv, LedgerInv, IInv
  <1>7. ManifestInv'
    BY <1>1, <1>2, <1>3 DEF Attempts, Answers, Completed, Ended, Active, Ready, Task, At, N, AllTasks,
       States, ManifestType, NativeType, Shown, ManifestInv, HistoryInv, Live, LiveInv,
       CleaningInv, LedgerInv, IInv
  <1>8. ActiveInv'
    BY <1>1, <1>2, <1>3 DEF Attempts, Answers, Completed, Ended, Active, Ready, Task, At, DurableOutcome,
       N, AllTasks, Record, ManifestType, NativeType, RunType, Shown, ManifestInv, HistoryInv,
       AttemptInv, JobInv, ActiveInv, Live, LiveInv, CleaningInv, LedgerInv, IInv
  <1>9. RunInv'
    BY <1>1, <1>2, <1>3, TasksAssumption DEF Attempts, Answers, Completed, Ended, Free, Unrefused, Active,
       Ready, Task, At, N, AllTasks, NativeType, RunType, Shown, Asking, RunInv, Live, LiveInv,
       CleaningInv, LedgerInv, IInv, TasksAssumption
  <1>10. LiveInv'
    BY <1>1, <1>2, <1>3 DEF Attempts, Answers, Completed, Ended, Free, Unrefused, Active, Ready, Task, At,
       N, AllTasks, Record, ManifestType, NativeType, RunType, Shown, ManifestInv, HistoryInv,
       Asking, RunInv, Live, LiveInv, CleaningInv, LedgerInv, IInv
  <1>11. CleaningInv'
    BY <1>1, <1>2, <1>3 DEF Attempts, Answers, Completed, Ended, Free, Unrefused, Active, Ready, Task, At,
       DurableOutcome, N, AllTasks, Record, ManifestType, NativeType, RunType, Shown, ManifestInv,
       HistoryInv, ActiveInv, Asking, RunInv, Live, LiveInv, CleaningInv, LedgerInv, IInv
  <1>12. HeldForCause'
    BY <1>1, <1>2, <1>3 DEF Attempts, Answers, Completed, Ended, Free, Unrefused, Active, Task, At,
       HeldForCause, N, AllTasks, Record, ManifestType, NativeType, RunType, Asking, RunInv,
       LedgerInv, IInv
  <1> QED BY <1>4, <1>5, <1>6, <1>7, <1>8, <1>9, <1>10, <1>11, <1>12 DEF IInv

LEMMA TurnStartsKeeps ==
  ASSUME IInv, TurnStarts
  PROVE  IInv'
  <1>1. /\ N \in Nat /\ DOMAIN submissions = 1 .. N /\ N <= MaxTurns
        /\ \A i \in 1 .. N : submissions[i] \in Record
        /\ Active \in 0 .. N
    BY Records DEF IInv, LedgerInv
  <1>2. /\ At("sent") /\ op.task \in Tasks /\ job[op.task] = 0 /\ Active = N /\ Active \in 1 .. N
        /\ (Ready => Task(Active) = op.task) /\ turn[Active] = "none" /\ ~Shown
        /\ submissions[Active].logged
        /\ op' = [op EXCEPT !.at = "reply"]
        /\ UNCHANGED <<manifest, submissions, job, orphan, refused, deaths>>
    BY <1>1 DEF TurnStarts, Goes, IInv, RunInv, Asking, LiveInv, Live, At
  <1>3. Len(history) = (IF Ready THEN 1 ELSE 0) /\ job[Task(Active)] = 0
    <2>1. Len(history) \in 0 .. 2 /\ (history # <<>> <=> Len(history) # 0)
      BY HistoryLength DEF IInv, LedgerInv
    <2>2. (Ready => Len(history) # 0) /\ (Len(history) = 2 => Ready)
      BY <2>1 DEF IInv, LedgerInv, HistoryInv
    <2>3. Len(history) = (IF Ready THEN 1 ELSE 0)
      BY <1>2, <2>1, <2>2 DEF Shown
    <2>4. ~Ready => Task(Active) = P0 /\ job[P0] = 0
      BY <1>2, <2>1, <2>3 DEF IInv, ManifestInv, LedgerInv, HistoryInv, NativeType, AllTasks
    <2> QED BY <1>2, <2>3, <2>4
  <1>4. /\ history' \in Seq(Nat) /\ Len(history') = Len(history) + 1 /\ history' # <<>>
        /\ history'[Len(history) + 1] = Active
        /\ Ready => history'[1] = history[1]
    <2>1. history \in Seq(Nat) /\ Active \in Nat /\ history' = Append(history, Active)
      BY <1>1, <1>2 DEF IInv, LedgerInv, NativeType, TurnStarts, Asked, N
    <2>2. 1 \in 1 .. 1
      OBVIOUS
    <2> QED BY <1>3, <2>1, <2>2, AppendProperties
  <1>5. /\ turn'[Active] = "active" /\ (\A i \in Attempts : i # Active => turn'[i] = turn[i])
        /\ turn' \in [Attempts -> {"none", "active", "lost"} \cup Ended] /\ Active \in Attempts
    BY <1>1, <1>2, BoundsAssumption DEF IInv, LedgerInv, NativeType, TurnStarts, Asked, N, Attempts, BoundsAssumption
  <1>6. (Ready' <=> Ready) /\ Active' = Active /\ Shown'
    BY <1>1, <1>2, <1>3, <1>4 DEF Ready, Active, Shown
  <1>7. LedgerInv'
    <2>1. RecordsType' /\ N' = N /\ NativeType' /\ DOMAIN submissions' = 1 .. N
      BY <1>1, <1>2, <1>3, <1>4, <1>5 DEF IInv, LedgerInv, RecordsType, NativeType, N
    <2>2. HistoryInv'
      <3>1. CASE Ready
        BY <1>2, <1>3, <1>4, <1>6, <2>1, <3>1, HistoryLength DEF IInv, LedgerInv, HistoryInv, Task
      <3>2. CASE ~Ready
        <4>1. history'[1] = Active /\ Len(history') = 1 /\ Task(Active) = P0
          BY <1>2, <1>3, <1>4, <3>2 DEF IInv, ManifestInv
        <4>2. history' # <<>> /\ Len(history') # 2
          BY <1>4, <4>1
        <4>3. history'[1] \in 1 .. N
          BY <1>2, <4>1
        <4>4. submissions' = submissions /\ ~Ready'
          BY <1>2, <1>6, <3>2
        <4>5. Task(history[1])' = P0
          BY <4>1, <4>4 DEF Task
        <4>6. Active' = Active /\ Active # 0 /\ N' = N
          BY <1>2, <1>6, <2>1
        <4> QED BY <4>1, <4>2, <4>3, <4>4, <4>5, <4>6 DEF HistoryInv
      <3> QED BY <3>1, <3>2
    <2>3. AttemptInv' /\ JobInv'
      <3>1. \A i \in 1 .. N : i \in Attempts
        BY <1>1, BoundsAssumption DEF Attempts, BoundsAssumption
      <3>2. AttemptInv'
        BY <1>1, <1>2, <1>5, <2>1, <3>1 DEF IInv, LedgerInv, AttemptInv, Completed, Answers
      <3>3. JobInv'
        BY <1>1, <1>2, <1>5, <2>1, <3>1 DEF IInv, LedgerInv, JobInv, Task
      <3> QED BY <3>2, <3>3
    <2>4. \A i \in 1 .. N : i \in Attempts /\ (i # Active => (Failed(i)' <=> Failed(i)))
      BY <1>1, <1>2, <1>5, BoundsAssumption DEF Attempts, Failed, BoundsAssumption
    <2>5. AccountInv'
      BY <1>2, <1>5, <1>6, <2>1, <2>4 DEF IInv, LedgerInv, AccountInv, Task
    <2>6. \A i \in 1 .. N : i < Active /\ Task(i) = Task(Active) /\ Reached(i) => Failed(i)
      BY <1>1, <1>2, <1>3 DEF IInv, LedgerInv, AccountInv, Reached
    <2>7. NoDuplicateTurn'
      BY <1>1, <1>2, <1>5, <2>1, <2>4, <2>6 DEF IInv, LedgerInv, NoDuplicateTurn, Reached, Task
    <2> QED BY <2>1, <2>2, <2>3, <2>5, <2>7 DEF LedgerInv
  <1>8. ManifestType' /\ RunType'
    BY <1>1, <1>2, <1>3, <1>4, <1>5, <1>6 DEF Attempts, Answers, Completed, Ended, Free, Unrefused, Active,
       Ready, Task, At, N, AllTasks, States, Places, ManifestType, RecordsType, NativeType,
       RunType, Shown, Asking, RunInv, LedgerInv, IInv
  <1>9. ManifestInv' /\ HeldForCause'
    BY <1>1, <1>2, <1>3, <1>4, <1>5, <1>6 DEF Attempts, Answers, Completed, Ended, Free, Unrefused, Active,
       Ready, Task, At, HeldForCause, N, AllTasks, States, Record, ManifestType, NativeType,
       RunType, Shown, ManifestInv, HistoryInv, Asking, RunInv, Live, LiveInv, CleaningInv,
       LedgerInv, IInv
  <1>10. ActiveInv' /\ CleaningInv'
    BY <1>1, <1>2, <1>3, <1>4, <1>5, <1>6 DEF Attempts, Answers, Completed, Ended, Free, Unrefused, Active,
       Ready, Task, At, DurableOutcome, N, AllTasks, Record, ManifestType, NativeType, RunType,
       Shown, ManifestInv, HistoryInv, AttemptInv, JobInv, ActiveInv, Asking, RunInv, Live,
       LiveInv, CleaningInv, LedgerInv, IInv
  <1>11. RunInv' /\ LiveInv'
    BY <1>1, <1>2, <1>3, <1>4, <1>5, <1>6, TasksAssumption DEF Attempts, Answers, Completed, Ended, Free,
       Unrefused, Active, Ready, Task, At, N, AllTasks, Record, ManifestType, NativeType, RunType,
       Shown, ManifestInv, HistoryInv, Asking, RunInv, Live, LiveInv, CleaningInv, LedgerInv,
       IInv, TasksAssumption
  <1> QED BY <1>7, <1>8, <1>9, <1>10, <1>11 DEF IInv

LEMMA RequestIsLostKeeps ==
  ASSUME IInv, RequestIsLost
  PROVE  IInv'
  <1>1. /\ N \in Nat /\ DOMAIN submissions = 1 .. N /\ N <= MaxTurns
        /\ \A i \in 1 .. N : submissions[i] \in Record
        /\ Active \in 0 .. N
    BY Records DEF IInv, LedgerInv
  <1>2. /\ At("sent") /\ op.task \in Tasks /\ job[op.task] = 0 /\ Active = N /\ Active \in 1 .. N
        /\ (Ready => Task(Active) = op.task) /\ turn[Active] = "none" /\ ~Shown
        /\ submissions[Active].logged /\ deaths < MaxDeaths
        /\ op' = Free /\ deaths' = deaths + 1
        /\ UNCHANGED <<manifest, submissions, job, history, orphan, refused>>
    BY <1>1 DEF RequestIsLost, IInv, RunInv, Asking, LiveInv, Live, At
  <1>3. job[Task(Active)] = 0
    <2>1. Len(history) \in 0 .. 2 /\ (history # <<>> <=> Len(history) # 0)
      BY HistoryLength DEF IInv, LedgerInv
    <2>2. Len(history) = 2 => Ready
      BY <2>1 DEF IInv, LedgerInv, HistoryInv
    <2>3. ~Ready => Len(history) = 0
      BY <1>2, <2>1, <2>2 DEF Shown
    <2>4. ~Ready => Task(Active) = P0 /\ job[P0] = 0
      BY <1>2, <2>1, <2>3 DEF IInv, ManifestInv, LedgerInv, HistoryInv, NativeType, AllTasks
    <2> QED BY <1>2, <2>4
  <1>4. /\ turn'[Active] \in {"none", "lost"} /\ (\A i \in Attempts : i # Active => turn'[i] = turn[i])
        /\ turn' \in [Attempts -> {"none", "active", "lost"} \cup Ended]
        /\ \A i \in 1 .. N : i \in Attempts
    <2>1. PICK seen \in {"none", "lost"} : turn' = [turn EXCEPT ![Active] = seen]
      BY <1>2 DEF RequestIsLost, Asked, N
    <2> QED BY <1>1, <1>2, <2>1, BoundsAssumption DEF IInv, LedgerInv, NativeType, Attempts, BoundsAssumption
  <1>5. RunType'
    BY <1>2, BoundsAssumption DEF IInv, RunType, Free, Places, BoundsAssumption
  <1>6. LedgerInv'
    <2>1. RecordsType' /\ N' = N /\ NativeType' /\ HistoryInv' /\ DOMAIN submissions' = 1 .. N
      BY <1>1, <1>2, <1>4 DEF IInv, LedgerInv, RecordsType, NativeType, N, HistoryInv, Ready, Active, Task
    <2>2. AttemptInv'
      BY <1>1, <1>2, <1>4, <2>1 DEF IInv, LedgerInv, AttemptInv, Completed, Answers
    <2>3. JobInv'
      BY <1>1, <1>2, <1>4, <2>1 DEF IInv, LedgerInv, JobInv, Task
    <2>4. \A i \in 1 .. N : i # Active => (Failed(i)' <=> Failed(i))
      BY <1>1, <1>2, <1>4 DEF Failed
    <2>5. AccountInv'
      BY <1>1, <1>2, <1>4, <2>1, <2>4 DEF IInv, LedgerInv, AccountInv, Task, Active
    <2>6. \A i \in 1 .. N : i < Active /\ Task(i) = Task(Active) /\ Reached(i) => Failed(i)
      BY <1>1, <1>2, <1>3 DEF IInv, LedgerInv, AccountInv, Reached
    <2>7. NoDuplicateTurn'
      BY <1>1, <1>2, <1>4, <2>1, <2>4, <2>6 DEF IInv, LedgerInv, NoDuplicateTurn, Reached, Task
    <2> QED BY <2>1, <2>2, <2>3, <2>5, <2>7 DEF LedgerInv
  <1>7. ManifestType'
    BY <1>2 DEF IInv, ManifestType
  <1>8. ActiveInv'
    <2>1. Active' = Active /\ ~Shown'
      BY <1>2 DEF Active, Shown, Ready
    <2> QED BY <1>4, <2>1 DEF ActiveInv
  <1>9. ManifestInv'
    BY <1>1, <1>2, <1>3, <1>4 DEF Attempts, Answers, Completed, Ended, Free, Active, Ready, Task, At, N,
       AllTasks, States, ManifestType, NativeType, Shown, ManifestInv, HistoryInv, Live, LiveInv,
       CleaningInv, LedgerInv, IInv
  <1>10. RunInv'
    BY <1>1, <1>2, <1>3, <1>4, TasksAssumption DEF Attempts, Answers, Completed, Ended, Free, Unrefused,
       Active, Ready, Task, At, N, AllTasks, NativeType, RunType, Shown, Asking, RunInv, Live,
       LiveInv, CleaningInv, LedgerInv, IInv, TasksAssumption
  <1>11. LiveInv'
    BY <1>1, <1>2, <1>3, <1>4 DEF Attempts, Answers, Completed, Ended, Free, Unrefused, Active, Ready,
       Task, At, N, AllTasks, Record, ManifestType, NativeType, RunType, Shown, ManifestInv,
       HistoryInv, Asking, RunInv, Live, LiveInv, CleaningInv, LedgerInv, IInv
  <1>12. CleaningInv'
    BY <1>1, <1>2, <1>3, <1>4 DEF Attempts, Answers, Completed, Ended, Free, Unrefused, Active, Ready,
       Task, At, DurableOutcome, N, AllTasks, Record, ManifestType, NativeType, RunType, Shown,
       ManifestInv, HistoryInv, ActiveInv, Asking, RunInv, Live, LiveInv, CleaningInv, LedgerInv,
       IInv
  <1>13. HeldForCause'
    BY <1>1, <1>2, <1>3, <1>4 DEF Attempts, Answers, Completed, Ended, Free, Unrefused, Active, Ready,
       Task, At, HeldForCause, N, AllTasks, Record, ManifestType, NativeType, RunType, Shown,
       Asking, RunInv, LedgerInv, IInv
  <1> QED BY <1>5, <1>6, <1>7, <1>8, <1>9, <1>10, <1>11, <1>12, <1>13 DEF IInv

LEMMA BindsKeeps ==
  ASSUME IInv, Binds
  PROVE  IInv'
  <1>1. /\ N \in Nat /\ DOMAIN submissions = 1 .. N /\ N <= MaxTurns
        /\ \A i \in 1 .. N : submissions[i] \in Record
        /\ Active \in 0 .. N
    BY Records DEF IInv, LedgerInv
  <1>2. /\ At("reply") /\ op.task \in Tasks /\ job[op.task] = 0 /\ Active = N /\ Active \in 1 .. N
        /\ op' = [op EXCEPT !.at = "wait"] /\ manifest' = [manifest EXCEPT !.state = "running"]
        /\ UNCHANGED <<job, history, turn, orphan, refused, deaths>>
    BY <1>1 DEF Binds, Goes, native, IInv, RunInv, Asking, LiveInv, Live, At
  <1>3. manifest'.p0 = manifest.p0 /\ Active' = Active
    BY <1>2 DEF Active, IInv, ManifestType
  <1>4. /\ RecordsType' /\ N' = N
        /\ \A i \in 1 .. N : i # Active => submissions'[i] = submissions[i]
        /\ submissions'[Active].task = submissions[Active].task
        /\ submissions'[Active].logged = submissions[Active].logged
        /\ submissions'[Active].bound
        /\ submissions'[Active].evidence = submissions[Active].evidence
        /\ submissions'[Active].validation = submissions[Active].validation
        /\ submissions'[Active].selection = submissions[Active].selection
    <2> DEFINE was == submissions[Active]
               now == [was EXCEPT !.bound = TRUE]
    <2>1. was \in Record /\ Active \in 1 .. N
      BY <1>1, <1>2
    <2>2. /\ now \in Record
          /\ now.task = was.task /\ now.logged = was.logged
          /\ now.bound /\ now.evidence = was.evidence
          /\ now.validation = was.validation /\ now.selection = was.selection
      BY <2>1 DEF Record
    <2>3. submissions' = [submissions EXCEPT ![Active] = now]
      BY <1>1, <1>2 DEF Binds, Asked, N
    <2> HIDE DEF now
    <2>4. RecordsType
      BY DEF IInv, LedgerInv
    <2>5. /\ RecordsType' /\ N' = N
          /\ \A i \in 1 .. N : submissions'[i] = (IF i = Active THEN now ELSE submissions[i])
      BY <2>1, <2>2, <2>3, <2>4, Updated
    <2> QED BY <2>1, <2>2, <2>5
  <1>5. LedgerInv'
    <2>1. NativeType' /\ RecordsType'
      BY <1>2, <1>4 DEF IInv, LedgerInv, NativeType
    <2>2. \A i \in 1 .. N :
            /\ submissions'[i].task = submissions[i].task
            /\ submissions'[i].logged = submissions[i].logged
            /\ submissions'[i].evidence = submissions[i].evidence
            /\ submissions'[i].validation = submissions[i].validation
      BY <1>4
    <2>3. Grows
      BY <1>2, <1>4, <2>1, <2>2 DEF Grows, IInv, LedgerInv, AttemptInv, Task
    <2> QED BY <1>3, <2>3, GrowthKeepsLedger
  <1>6. ManifestType' /\ RunType'
    BY <1>1, <1>2, <1>3, <1>4 DEF Attempts, Answers, Completed, Ended, Free, Unrefused, Active, At, N,
       AllTasks, States, Places, ManifestType, RecordsType, NativeType, RunType, Asking, RunInv,
       LedgerInv, IInv
  <1>7. ManifestInv' /\ HeldForCause'
    BY <1>1, <1>2, <1>3, <1>4 DEF Attempts, Answers, Completed, Ended, Free, Unrefused, Active, Ready,
       Task, At, HeldForCause, N, AllTasks, States, Record, ManifestType, NativeType, RunType,
       Shown, ManifestInv, HistoryInv, Asking, RunInv, Live, LiveInv, CleaningInv, LedgerInv, IInv
  <1>8. ActiveInv' /\ CleaningInv'
    BY <1>1, <1>2, <1>3, <1>4 DEF Attempts, Answers, Completed, Ended, Free, Unrefused, Active, Ready,
       Task, At, DurableOutcome, N, AllTasks, Record, ManifestType, NativeType, RunType, Shown,
       ManifestInv, HistoryInv, AttemptInv, JobInv, ActiveInv, Asking, RunInv, Live, LiveInv,
       CleaningInv, LedgerInv, IInv
  <1>9. RunInv' /\ LiveInv'
    BY <1>1, <1>2, <1>3, <1>4, TasksAssumption DEF Attempts, Answers, Completed, Ended, Free, Unrefused,
       Active, Ready, Task, At, N, AllTasks, Record, ManifestType, NativeType, RunType, Shown,
       ManifestInv, HistoryInv, Asking, RunInv, Live, LiveInv, CleaningInv, LedgerInv, IInv,
       TasksAssumption
  <1> QED BY <1>5, <1>6, <1>7, <1>8, <1>9 DEF IInv

LEMMA TurnEndsKeeps ==
  ASSUME IInv, TurnEnds
  PROVE  IInv'
  <1>1. /\ N \in Nat /\ DOMAIN submissions = 1 .. N /\ N <= MaxTurns
        /\ \A i \in 1 .. N : submissions[i] \in Record
        /\ Active \in 0 .. N
    BY Records DEF IInv, LedgerInv
  <1>2. /\ At("reply") \/ At("wait") \/ orphan
        /\ UNCHANGED <<manifest, submissions, job, history, orphan, op, refused, deaths>>
    BY DEF TurnEnds
  <1>3. PICK i \in Attempts, outcome \in Ended :
          turn[i] = "active" /\ turn' = [turn EXCEPT ![i] = outcome]
    BY DEF TurnEnds
  <1>4. /\ turn' \in [Attempts -> {"none", "active", "lost"} \cup Ended]
        /\ \A j \in Attempts : turn'[j] = turn[j] \/ (turn[j] = "active" /\ turn'[j] \in Ended)
        /\ (\A j \in 1 .. N : j \in Attempts) /\ refused = Unrefused
    BY <1>1, <1>2, <1>3, BoundsAssumption DEF IInv, LedgerInv, NativeType, RunInv, At, Attempts, BoundsAssumption
  <1>5. LedgerInv'
    <2>1. RecordsType' /\ N' = N /\ NativeType'
      BY <1>2, <1>4 DEF IInv, LedgerInv, RecordsType, NativeType, N
    <2>2. Grows
      BY <1>2, <1>4, <2>1 DEF Grows, IInv, LedgerInv, AttemptInv, Task
    <2> QED BY <1>2, <2>2, GrowthKeepsLedger DEF Active
  <1>6. ManifestType'
    BY <1>1, <1>2, <1>3, <1>4 DEF Attempts, Answers, Completed, Ended, Unrefused, Active, At, N, States,
       ManifestType, RecordsType, LedgerInv, IInv
  <1>7. RunType'
    BY <1>1, <1>2, <1>3, <1>4 DEF Attempts, Answers, Completed, Ended, Free, Unrefused, Active, At, N,
       AllTasks, Places, NativeType, RunType, Asking, RunInv, LedgerInv, IInv
  <1>8. ManifestInv'
    BY <1>1, <1>2, <1>3, <1>4 DEF Attempts, Answers, Completed, Ended, Unrefused, Active, Ready, Task, At,
       N, AllTasks, States, ManifestType, NativeType, Shown, ManifestInv, HistoryInv, Live,
       LiveInv, CleaningInv, LedgerInv, IInv
  <1>9. ActiveInv'
    BY <1>1, <1>2, <1>3, <1>4, SMTT(30) DEF Attempts, Answers, Completed, Ended, Unrefused, Active, Ready,
       Task, At, DurableOutcome, N, AllTasks, Record, ManifestType, NativeType, RunType, Shown,
       ManifestInv, HistoryInv, AttemptInv, JobInv, ActiveInv, Live, LiveInv, CleaningInv,
       LedgerInv, IInv
  <1>10. RunInv'
    BY <1>1, <1>2, <1>3, <1>4, TasksAssumption DEF Attempts, Answers, Completed, Ended, Free, Unrefused,
       Active, Ready, Task, At, N, AllTasks, NativeType, RunType, Shown, Asking, RunInv, Live,
       LiveInv, CleaningInv, LedgerInv, IInv, TasksAssumption
  <1>11. LiveInv'
    BY <1>1, <1>2, <1>3, <1>4 DEF Attempts, Answers, Completed, Ended, Free, Unrefused, Active, Ready,
       Task, At, N, AllTasks, Record, ManifestType, NativeType, RunType, Shown, ManifestInv,
       HistoryInv, Asking, RunInv, Live, LiveInv, CleaningInv, LedgerInv, IInv
  <1>12. CleaningInv'
    BY <1>1, <1>2, <1>3, <1>4 DEF Attempts, Answers, Completed, Ended, Free, Unrefused, Active, Ready,
       Task, At, DurableOutcome, N, AllTasks, Record, ManifestType, NativeType, RunType, Shown,
       ManifestInv, HistoryInv, ActiveInv, Asking, RunInv, Live, LiveInv, CleaningInv, LedgerInv,
       IInv
  <1>13. HeldForCause'
    BY <1>1, <1>2, <1>3, <1>4 DEF Attempts, Answers, Completed, Ended, Free, Unrefused, Active, Task, At,
       HeldForCause, N, AllTasks, Record, ManifestType, NativeType, RunType, Asking, RunInv,
       LedgerInv, IInv
  <1> QED BY <1>5, <1>6, <1>7, <1>8, <1>9, <1>10, <1>11, <1>12, <1>13 DEF IInv

LEMMA OrphanExitsKeeps ==
  ASSUME IInv, OrphanExits
  PROVE  IInv'
  <1>1. /\ N \in Nat /\ DOMAIN submissions = 1 .. N /\ N <= MaxTurns
        /\ \A i \in 1 .. N : submissions[i] \in Record
        /\ Active \in 0 .. N
    BY Records DEF IInv, LedgerInv
  <1>2. orphan /\ orphan' = FALSE /\ At("none") /\ refused = Unrefused
        /\ UNCHANGED <<manifest, submissions, job, history, op, refused, deaths>>
    BY DEF OrphanExits, IInv, RunInv, At
  <1>3. PICK left \in {"interrupted", "active"} :
          turn' = [i \in Attempts |-> IF turn[i] = "active" THEN left ELSE turn[i]]
    BY DEF OrphanExits
  <1>4. /\ turn' \in [Attempts -> {"none", "active", "lost"} \cup Ended]
        /\ \A j \in Attempts : turn'[j] = turn[j] \/ (turn[j] = "active" /\ turn'[j] \in Ended)
        /\ \A j \in 1 .. N : j \in Attempts
    BY <1>1, <1>3, BoundsAssumption DEF IInv, LedgerInv, NativeType, Attempts, BoundsAssumption, Ended
  <1>5. LedgerInv'
    <2>1. RecordsType' /\ N' = N /\ NativeType'
      BY <1>2, <1>4 DEF IInv, LedgerInv, RecordsType, NativeType, N
    <2>2. Grows
      BY <1>2, <1>4, <2>1 DEF Grows, IInv, LedgerInv, AttemptInv, Task
    <2> QED BY <1>2, <2>2, GrowthKeepsLedger DEF Active
  <1>6. ManifestType'
    BY <1>1, <1>2, <1>3, <1>4 DEF Attempts, Answers, Completed, Ended, Unrefused, Active, At, N, States,
       ManifestType, RecordsType, LedgerInv, IInv
  <1>7. RunType'
    BY <1>1, <1>2, <1>3, <1>4 DEF Attempts, Answers, Completed, Ended, Free, Unrefused, Active, At, N,
       AllTasks, Places, NativeType, RunType, Asking, RunInv, LedgerInv, IInv
  <1>8. ManifestInv'
    BY <1>1, <1>2, <1>3, <1>4 DEF Attempts, Answers, Completed, Ended, Unrefused, Active, Ready, Task, At,
       N, AllTasks, States, ManifestType, NativeType, Shown, ManifestInv, HistoryInv, Live,
       LiveInv, CleaningInv, LedgerInv, IInv
  <1>9. ActiveInv'
    BY <1>1, <1>2, <1>3, <1>4 DEF Attempts, Answers, Completed, Ended, Unrefused, Active, Ready, Task, At,
       DurableOutcome, N, AllTasks, Record, ManifestType, NativeType, RunType, Shown, ManifestInv,
       HistoryInv, AttemptInv, JobInv, ActiveInv, Live, LiveInv, CleaningInv, LedgerInv, IInv
  <1>10. RunInv'
    BY <1>1, <1>2, <1>3, <1>4, TasksAssumption DEF Attempts, Answers, Completed, Ended, Free, Unrefused,
       Active, Ready, Task, At, N, AllTasks, NativeType, RunType, Shown, Asking, RunInv, Live,
       LiveInv, CleaningInv, LedgerInv, IInv, TasksAssumption
  <1>11. LiveInv'
    BY <1>1, <1>2, <1>3, <1>4 DEF Attempts, Answers, Completed, Ended, Free, Unrefused, Active, Ready,
       Task, At, N, AllTasks, Record, ManifestType, NativeType, RunType, Shown, ManifestInv,
       HistoryInv, Asking, RunInv, Live, LiveInv, CleaningInv, LedgerInv, IInv
  <1>12. CleaningInv'
    BY <1>1, <1>2, <1>3, <1>4 DEF Attempts, Answers, Completed, Ended, Free, Unrefused, Active, Ready,
       Task, At, DurableOutcome, N, AllTasks, Record, ManifestType, NativeType, RunType, Shown,
       ManifestInv, HistoryInv, ActiveInv, Asking, RunInv, Live, LiveInv, CleaningInv, LedgerInv,
       IInv
  <1>13. HeldForCause'
    BY <1>1, <1>2, <1>3, <1>4 DEF Attempts, Answers, Completed, Ended, Free, Unrefused, Active, Task, At,
       HeldForCause, N, AllTasks, Record, ManifestType, NativeType, RunType, Asking, RunInv,
       LedgerInv, IInv
  <1> QED BY <1>5, <1>6, <1>7, <1>8, <1>9, <1>10, <1>11, <1>12, <1>13 DEF IInv

LEMMA CollectsKeeps ==
  ASSUME IInv, Collects
  PROVE  IInv'
  <1>1. /\ N \in Nat /\ DOMAIN submissions = 1 .. N /\ N <= MaxTurns
        /\ \A i \in 1 .. N : submissions[i] \in Record
        /\ Active \in 0 .. N
    BY Records DEF IInv, LedgerInv
  <1>2. /\ At("wait") /\ op.task \in Tasks /\ job[op.task] = 0 /\ Active = N /\ Active \in 1 .. N
        /\ Asked = Active /\ turn[Active] \in Ended /\ Shown /\ refused = Unrefused /\ ~orphan
        /\ UNCHANGED <<job, history, turn, orphan, refused, deaths>>
    BY <1>1 DEF Collects, native, Asked, N, IInv, RunInv, Asking, LiveInv, Live, At
  <1>3. /\ submissions' = [submissions EXCEPT ![Active].evidence = TRUE]
        /\ manifest' = [manifest EXCEPT !.state = "terminal_uncommitted"]
        /\ op' = [op EXCEPT !.at = "verify"]
    BY <1>2 DEF Collects, Goes
  <1>5. /\ RecordsType' /\ N' = N
        /\ \A i \in 1 .. N : i # Active => submissions'[i] = submissions[i]
        /\ submissions'[Active].task = submissions[Active].task
        /\ submissions'[Active].logged = submissions[Active].logged
        /\ submissions'[Active].bound = submissions[Active].bound
        /\ submissions'[Active].evidence
        /\ submissions'[Active].validation = submissions[Active].validation
        /\ submissions'[Active].selection = submissions[Active].selection
    <2> DEFINE was == submissions[Active]
               now == [was EXCEPT !.evidence = TRUE]
    <2>1. was \in Record /\ Active \in 1 .. N
      BY <1>1, <1>2, <1>3
    <2>2. /\ now \in Record
          /\ now.task = was.task /\ now.logged = was.logged
          /\ now.bound = was.bound /\ now.evidence
          /\ now.validation = was.validation /\ now.selection = was.selection
      BY <2>1, <1>1, <1>2, <1>3 DEF Record
    <2>3. submissions' = [submissions EXCEPT ![Active] = now]
      BY <1>1, <1>2, <1>3
    <2> HIDE DEF now
    <2>4. RecordsType
      BY DEF IInv, LedgerInv
    <2>5. /\ RecordsType' /\ N' = N
          /\ \A i \in 1 .. N : submissions'[i] = (IF i = Active THEN now ELSE submissions[i])
      BY <2>1, <2>2, <2>3, <2>4, Updated
    <2> QED BY <2>1, <2>2, <2>5
  <1>6. /\ Active' = Active /\ manifest'.p0 = manifest.p0 /\ manifest'.cleanup = manifest.cleanup
        /\ manifest'.state = "terminal_uncommitted" /\ op' = [op EXCEPT !.at = "verify"]
    BY <1>3 DEF IInv, ManifestType, Active
  <1>7. LedgerInv'
    <2>1. NativeType' /\ RecordsType'
      BY <1>2, <1>5 DEF IInv, LedgerInv, NativeType
    <2>2. \A i \in 1 .. N :
            /\ submissions'[i].task = submissions[i].task
            /\ submissions'[i].logged = submissions[i].logged
            /\ submissions[i].evidence => submissions'[i].evidence
            /\ submissions'[i].validation = submissions[i].validation
      BY <1>5
    <2>3. Grows
      BY <1>2, <1>5, <2>1, <2>2 DEF Grows, IInv, LedgerInv, AttemptInv, Task
    <2> QED BY <1>6, <2>3, GrowthKeepsLedger
  <1>8. RunType'
    BY <1>2, <1>6 DEF IInv, RunType, Free, Places
  <1>9. ManifestType'
    BY <1>3 DEF IInv, ManifestType, States
  <1>10. ManifestInv'
    BY <1>1, <1>2, <1>5, <1>6 DEF Attempts, Answers, Completed, Ended, Free, Unrefused, Active,
       Ready, Task, At, Asked, N, AllTasks, States, ManifestType, NativeType, Shown, ManifestInv,
       HistoryInv, Live, LiveInv, CleaningInv, LedgerInv, IInv
  <1>11. ActiveInv'
    BY <1>1, <1>2, <1>5, <1>6 DEF Attempts, Answers, Completed, Ended, Free, Unrefused, Active,
       Ready, Task, At, DurableOutcome, Asked, N, AllTasks, Record, ManifestType, NativeType,
       RunType, Shown, ManifestInv, HistoryInv, AttemptInv, JobInv, ActiveInv, Live, LiveInv,
       CleaningInv, LedgerInv, IInv
  <1>12. RunInv'
    BY <1>1, <1>2, <1>5, <1>6, TasksAssumption, SMTT(30) DEF Attempts, Answers, Completed, Ended,
       Free, Unrefused, Active, Ready, Task, At, Asked, N, AllTasks, NativeType, RunType, Shown,
       Asking, RunInv, Live, LiveInv, CleaningInv, LedgerInv, IInv, TasksAssumption
  <1>13. LiveInv'
    BY <1>1, <1>2, <1>5, <1>6 DEF Attempts, Answers, Completed, Ended, Free, Unrefused, Active,
       Ready, Task, At, Asked, N, AllTasks, Record, ManifestType, NativeType, RunType, Shown,
       ManifestInv, HistoryInv, Asking, RunInv, Live, LiveInv, CleaningInv, LedgerInv, IInv
  <1>14. CleaningInv'
    BY <1>1, <1>2, <1>5, <1>6 DEF Attempts, Answers, Completed, Ended, Free, Unrefused, Active,
       Ready, Task, At, DurableOutcome, Asked, N, AllTasks, Record, ManifestType, NativeType,
       RunType, Shown, ManifestInv, HistoryInv, ActiveInv, Asking, RunInv, Live, LiveInv,
       CleaningInv, LedgerInv, IInv
  <1>15. HeldForCause'
    BY <1>1, <1>2, <1>5, <1>6 DEF Attempts, Answers, Completed, Ended, Free, Unrefused, Active,
       Ready, Task, At, Asked, HeldForCause, N, AllTasks, Record, ManifestType, NativeType,
       RunType, Shown, Asking, RunInv, LedgerInv, IInv
  <1> QED BY <1>7, <1>8, <1>9, <1>10, <1>11, <1>12, <1>13, <1>14, <1>15 DEF IInv

LEMMA VerifiesKeeps ==
  ASSUME IInv, Verifies
  PROVE  IInv'
  <1>1. /\ N \in Nat /\ DOMAIN submissions = 1 .. N /\ N <= MaxTurns
        /\ \A i \in 1 .. N : submissions[i] \in Record
        /\ Active \in 0 .. N
    BY Records DEF IInv, LedgerInv
  <1>2. /\ At("verify") /\ op.task \in Tasks /\ job[op.task] = 0 /\ Active = N /\ Active \in 1 .. N
        /\ Asked = Active /\ turn[Active] \in Ended /\ Shown /\ refused = Unrefused /\ ~orphan
        /\ UNCHANGED <<job, history, turn, orphan, refused, deaths>>
    BY <1>1 DEF Verifies, native, Asked, N, IInv, RunInv, Asking, LiveInv, Live, At
  <1>3. PICK selection \in Selection(Asked) :
          /\ submissions' = [submissions EXCEPT ![Asked].selection = selection]
          /\ \/ /\ selection = "rejected"
                /\ manifest' = [manifest EXCEPT !.state = "recovery_required"]
                /\ op' = Free
             \/ /\ selection # "rejected"
                /\ manifest' = [manifest EXCEPT !.state = "recovery_required", !.compacted = TRUE]
                /\ op' = Free
             \/ /\ selection # "rejected"
                /\ \/ op' = Free
                   \/ turn[Asked] \in Answers /\ Goes("judge")
                /\ UNCHANGED manifest
    BY Zenon DEF Verifies
  <1>4. selection \in {"none", "verified", "rejected"}
    BY <1>1, <1>2 DEF Selection, Record
  <1>5. /\ RecordsType' /\ N' = N
        /\ \A i \in 1 .. N : i # Active => submissions'[i] = submissions[i]
        /\ submissions'[Active].task = submissions[Active].task
        /\ submissions'[Active].logged = submissions[Active].logged
        /\ submissions'[Active].bound = submissions[Active].bound
        /\ submissions'[Active].evidence = submissions[Active].evidence
        /\ submissions'[Active].validation = submissions[Active].validation
        /\ submissions'[Active].selection = selection
    <2> DEFINE was == submissions[Active]
               now == [was EXCEPT !.selection = selection]
    <2>1. was \in Record /\ Active \in 1 .. N
      BY <1>1, <1>2, <1>3, <1>4
    <2>2. /\ now \in Record
          /\ now.task = was.task /\ now.logged = was.logged
          /\ now.bound = was.bound /\ now.evidence = was.evidence
          /\ now.validation = was.validation /\ now.selection = selection
      BY <2>1, <1>1, <1>2, <1>3, <1>4 DEF Record
    <2>3. submissions' = [submissions EXCEPT ![Active] = now]
      BY <1>1, <1>2, <1>3, <1>4
    <2> HIDE DEF now
    <2>4. RecordsType
      BY DEF IInv, LedgerInv
    <2>5. /\ RecordsType' /\ N' = N
          /\ \A i \in 1 .. N : submissions'[i] = (IF i = Active THEN now ELSE submissions[i])
      BY <2>1, <2>2, <2>3, <2>4, Updated
    <2> QED BY <2>1, <2>2, <2>5
  <1>6. /\ Active' = Active /\ manifest'.p0 = manifest.p0 /\ manifest'.cleanup = manifest.cleanup
        /\ manifest'.state \in {manifest.state, "recovery_required"}
        /\ op' = Free \/ (op' = [op EXCEPT !.at = "judge"] /\ turn[Active] \in Answers)
    BY <1>2, <1>3 DEF IInv, ManifestType, Active, Goes
  <1>7. LedgerInv'
    <2>1. NativeType' /\ RecordsType'
      BY <1>2, <1>5 DEF IInv, LedgerInv, NativeType
    <2>2. \A i \in 1 .. N :
            /\ submissions'[i].task = submissions[i].task
            /\ submissions'[i].logged = submissions[i].logged
            /\ submissions[i].evidence => submissions'[i].evidence
            /\ submissions'[i].validation = submissions[i].validation
      BY <1>5
    <2>3. Grows
      BY <1>2, <1>5, <2>1, <2>2 DEF Grows, IInv, LedgerInv, AttemptInv, Task
    <2> QED BY <1>6, <2>3, GrowthKeepsLedger
  <1>8. RunType'
    BY <1>2, <1>6 DEF IInv, RunType, Free, Places
  <1>9. ManifestType'
    BY <1>3 DEF IInv, ManifestType, States
  <1>10. ManifestInv'
    BY <1>1, <1>2, <1>4, <1>5, <1>6 DEF Attempts, Answers, Completed, Ended, Free, Unrefused, Active,
       Ready, Task, At, Asked, N, AllTasks, States, ManifestType, NativeType, Shown, ManifestInv,
       HistoryInv, Live, LiveInv, CleaningInv, LedgerInv, IInv
  <1>11. ActiveInv'
    BY <1>1, <1>2, <1>4, <1>5, <1>6 DEF Attempts, Answers, Completed, Ended, Free, Unrefused, Active,
       Ready, Task, At, DurableOutcome, Asked, N, AllTasks, Record, ManifestType, NativeType,
       RunType, Shown, ManifestInv, HistoryInv, AttemptInv, JobInv, ActiveInv, Live, LiveInv,
       CleaningInv, LedgerInv, IInv
  <1>12. RunInv'
    BY <1>1, <1>2, <1>4, <1>5, <1>6, TasksAssumption, SMTT(30) DEF Attempts, Answers, Completed, Ended,
       Free, Unrefused, Active, Ready, Task, At, Asked, N, AllTasks, NativeType, RunType, Shown,
       Asking, RunInv, Live, LiveInv, CleaningInv, LedgerInv, IInv, TasksAssumption
  <1>13. LiveInv'
    BY <1>1, <1>2, <1>4, <1>5, <1>6 DEF Attempts, Answers, Completed, Ended, Free, Unrefused, Active,
       Ready, Task, At, Asked, N, AllTasks, Record, ManifestType, NativeType, RunType, Shown,
       ManifestInv, HistoryInv, Asking, RunInv, Live, LiveInv, CleaningInv, LedgerInv, IInv
  <1>14. CleaningInv'
    BY <1>1, <1>2, <1>4, <1>5, <1>6 DEF Attempts, Answers, Completed, Ended, Free, Unrefused, Active,
       Ready, Task, At, DurableOutcome, Asked, N, AllTasks, Record, ManifestType, NativeType,
       RunType, Shown, ManifestInv, HistoryInv, ActiveInv, Asking, RunInv, Live, LiveInv,
       CleaningInv, LedgerInv, IInv
  <1>15. HeldForCause'
    BY <1>1, <1>2, <1>4, <1>5, <1>6 DEF Attempts, Answers, Completed, Ended, Free, Unrefused, Active,
       Ready, Task, At, Asked, HeldForCause, N, AllTasks, Record, ManifestType, NativeType,
       RunType, Shown, Asking, RunInv, LedgerInv, IInv
  <1> QED BY <1>7, <1>8, <1>9, <1>10, <1>11, <1>12, <1>13, <1>14, <1>15 DEF IInv

LEMMA JudgesKeeps ==
  ASSUME IInv, Judges
  PROVE  IInv'
  <1>1. /\ N \in Nat /\ DOMAIN submissions = 1 .. N /\ N <= MaxTurns
        /\ \A i \in 1 .. N : submissions[i] \in Record
        /\ Active \in 0 .. N
    BY Records DEF IInv, LedgerInv
  <1>2. /\ At("judge") /\ Ready /\ op.task \in Tasks /\ job[op.task] = 0 /\ Active = N /\ Active \in 1 .. N
        /\ Asked = Active /\ turn[Active] \in Answers /\ Shown
        /\ submissions[Active].bound /\ submissions[Active].evidence
        /\ op' = [op EXCEPT !.at = IF turn[Active] = "good" THEN "save" ELSE "finalize"]
        /\ UNCHANGED <<manifest, job, history, turn, orphan, refused, deaths>>
    BY <1>1 DEF Judges, Goes, native, Asked, N, IInv, RunInv, Asking, LiveInv, Live, At
  <1>3. PICK verdict \in {"passed", "failed"} :
          /\ submissions' = [submissions EXCEPT ![Active].validation = verdict]
          /\ verdict = "failed" <=> turn[Active] = "bad"
    BY <1>2 DEF Judges, Completed, Answers
  <1>4. /\ RecordsType' /\ N' = N
        /\ \A i \in 1 .. N : i # Active => submissions'[i] = submissions[i]
        /\ submissions'[Active].task = submissions[Active].task
        /\ submissions'[Active].logged = submissions[Active].logged
        /\ submissions'[Active].bound = submissions[Active].bound
        /\ submissions'[Active].evidence = submissions[Active].evidence
        /\ submissions'[Active].validation = verdict
        /\ submissions'[Active].selection = submissions[Active].selection
    <2> DEFINE was == submissions[Active]
               now == [was EXCEPT !.validation = verdict]
    <2>1. was \in Record /\ Active \in 1 .. N
      BY <1>1, <1>2, <1>3
    <2>2. /\ now \in Record
          /\ now.task = was.task /\ now.logged = was.logged
          /\ now.bound = was.bound /\ now.evidence = was.evidence
          /\ now.validation = verdict /\ now.selection = was.selection
      BY <2>1 DEF Record
    <2>3. submissions' = [submissions EXCEPT ![Active] = now]
      BY <1>1, <1>2, <1>3
    <2> HIDE DEF now
    <2>4. RecordsType
      BY DEF IInv, LedgerInv
    <2>5. /\ RecordsType' /\ N' = N
          /\ \A i \in 1 .. N : submissions'[i] = (IF i = Active THEN now ELSE submissions[i])
      BY <2>1, <2>2, <2>3, <2>4, Updated
    <2> QED BY <2>1, <2>2, <2>5
  <1>5. LedgerInv'
    <2>1. NativeType' /\ RecordsType'
      BY <1>2, <1>4 DEF IInv, LedgerInv, NativeType
    <2>2. submissions[Active].validation = "failed" => verdict = "failed"
      BY <1>2, <1>3 DEF IInv, LedgerInv, AttemptInv
    <2>3. \A i \in 1 .. N :
            /\ submissions'[i].task = submissions[i].task
            /\ submissions'[i].logged = submissions[i].logged
            /\ submissions'[i].evidence = submissions[i].evidence
            /\ \/ submissions'[i].validation = submissions[i].validation
               \/ i = Active /\ submissions'[i].validation = verdict
      BY <1>4
    <2>4. Grows
      BY <1>2, <1>3, <1>4, <2>1, <2>2, <2>3 DEF Grows, IInv, LedgerInv, AttemptInv, Task, Answers, Completed
    <2> QED BY <1>2, <2>4, GrowthKeepsLedger DEF Active
  <1>6. ManifestType' /\ RunType'
    BY <1>1, <1>2, <1>3, <1>4 DEF Attempts, Answers, Completed, Ended, Free, Unrefused, Active, Ready, At,
       Asked, N, AllTasks, States, Places, ManifestType, RecordsType, NativeType, RunType, Shown,
       Asking, RunInv, LedgerInv, IInv
  <1>7. ManifestInv' /\ HeldForCause'
    BY <1>1, <1>2, <1>3, <1>4 DEF Attempts, Answers, Completed, Ended, Free, Unrefused, Active, Ready,
       Task, At, Asked, HeldForCause, N, AllTasks, States, Record, ManifestType, NativeType,
       RunType, Shown, ManifestInv, HistoryInv, Asking, RunInv, Live, LiveInv, CleaningInv,
       LedgerInv, IInv
  <1>8. ActiveInv' /\ CleaningInv'
    BY <1>1, <1>2, <1>3, <1>4 DEF Attempts, Answers, Completed, Ended, Free, Unrefused, Active, Ready,
       Task, At, DurableOutcome, Asked, N, AllTasks, Record, ManifestType, NativeType, RunType,
       Shown, ManifestInv, HistoryInv, AttemptInv, JobInv, ActiveInv, Asking, RunInv, Live,
       LiveInv, CleaningInv, LedgerInv, IInv
  <1>9. RunInv' /\ LiveInv'
    BY <1>1, <1>2, <1>3, <1>4, TasksAssumption DEF Attempts, Answers, Completed, Ended, Free, Unrefused,
       Active, Ready, Task, At, Asked, N, AllTasks, Record, ManifestType, NativeType, RunType,
       Shown, ManifestInv, HistoryInv, Asking, RunInv, Live, LiveInv, CleaningInv, LedgerInv,
       IInv, TasksAssumption
  <1> QED BY <1>5, <1>6, <1>7, <1>8, <1>9 DEF IInv

LEMMA SavesKeeps ==
  ASSUME IInv, Saves
  PROVE  IInv'
  <1>1. /\ N \in Nat /\ DOMAIN submissions = 1 .. N /\ N <= MaxTurns
        /\ \A i \in 1 .. N : submissions[i] \in Record
        /\ Active \in 0 .. N
    BY Records DEF IInv, LedgerInv
  <1>2. /\ At("save") /\ Ready /\ op.task \in Tasks /\ job[op.task] = 0 /\ Active = N /\ Active \in 1 .. N
        /\ Task(Active) = op.task /\ turn[Active] = "good" /\ Shown
        /\ submissions[Active].validation = "passed"
        /\ op' = [op EXCEPT !.at = "finalize"] /\ job' = [job EXCEPT ![op.task] = Active]
        /\ UNCHANGED <<manifest, submissions, history, turn, orphan, refused, deaths>>
    <2>1. At("save")
      BY DEF Saves
    <2>2. /\ op.task \in Tasks /\ job[op.task] = 0 /\ Active = N /\ Active # 0 /\ Ready /\ Shown
          /\ Task(Active) = op.task /\ turn[Active] = "good"
          /\ submissions[Active].validation = "passed"
      BY <2>1 DEF IInv, RunInv, Asking, LiveInv, Live, At
    <2>3. /\ op' = [op EXCEPT !.at = "finalize"] /\ job' = [job EXCEPT ![op.task] = Active]
          /\ UNCHANGED <<manifest, submissions, history, turn, orphan, refused, deaths>>
      BY <2>2 DEF Saves, Goes, native, Asked, N
    <2> QED BY <1>1, <2>1, <2>2, <2>3
  <1>3. job' \in [AllTasks -> Nat] /\ job'[op.task] = Active /\ (\A t \in AllTasks : t # op.task => job'[t] = job[t])
    BY <1>1, <1>2 DEF IInv, LedgerInv, NativeType, AllTasks
  <1>4. LedgerInv'
    <2>1. RecordsType' /\ N' = N /\ NativeType'
      BY <1>2, <1>3 DEF IInv, LedgerInv, RecordsType, NativeType, N
    <2>2. op.task # P0
      BY <1>2, TasksAssumption DEF TasksAssumption
    <2>3. \A t \in AllTasks : job'[t] # job[t] =>
            /\ job[t] = 0 /\ job'[t] \in 1 .. N
            /\ Task(job'[t]) = t /\ turn[job'[t]] = "good" /\ (t = P0 => history # <<>>)
      BY <1>2, <1>3, <2>2
    <2>4. Grows
      BY <1>2, <2>1, <2>3 DEF Grows, IInv, LedgerInv, AttemptInv, Task
    <2> QED BY <1>2, <2>4, GrowthKeepsLedger DEF Active
  <1>5. ManifestType'
    BY <1>1, <1>2, <1>3 DEF Active, Ready, Task, At, N, AllTasks, States, ManifestType,
       RecordsType, Shown, LedgerInv, IInv
  <1>6. RunType'
    BY <1>1, <1>2, <1>3 DEF Attempts, Answers, Completed, Ended, Free, Unrefused, Active, Ready, Task, At,
       N, AllTasks, Places, NativeType, RunType, Shown, Asking, RunInv, LedgerInv, IInv
  <1>7. ManifestInv'
    BY <1>1, <1>2, <1>3 DEF Attempts, Answers, Completed, Ended, Active, Ready, Task, At, N, AllTasks,
       States, ManifestType, NativeType, Shown, ManifestInv, HistoryInv, Live, LiveInv,
       CleaningInv, LedgerInv, IInv
  <1>8. ActiveInv'
    BY <1>1, <1>2, <1>3 DEF Attempts, Answers, Completed, Ended, Active, Ready, Task, At, DurableOutcome,
       N, AllTasks, Record, ManifestType, NativeType, RunType, Shown, ManifestInv, HistoryInv,
       AttemptInv, JobInv, ActiveInv, Live, LiveInv, CleaningInv, LedgerInv, IInv
  <1>9. RunInv'
    BY <1>1, <1>2, <1>3, TasksAssumption DEF Attempts, Answers, Completed, Ended, Free, Unrefused, Active,
       Ready, Task, At, N, AllTasks, NativeType, RunType, Shown, Asking, RunInv, Live, LiveInv,
       CleaningInv, LedgerInv, IInv, TasksAssumption
  <1>10. LiveInv'
    BY <1>1, <1>2, <1>3 DEF Attempts, Answers, Completed, Ended, Free, Unrefused, Active, Ready, Task, At,
       N, AllTasks, Record, ManifestType, NativeType, RunType, Shown, ManifestInv, HistoryInv,
       Asking, RunInv, Live, LiveInv, CleaningInv, LedgerInv, IInv
  <1>11. CleaningInv'
    BY <1>1, <1>2, <1>3 DEF Attempts, Answers, Completed, Ended, Free, Unrefused, Active, Ready, Task, At,
       DurableOutcome, N, AllTasks, Record, ManifestType, NativeType, RunType, Shown, ManifestInv,
       HistoryInv, ActiveInv, Asking, RunInv, Live, LiveInv, CleaningInv, LedgerInv, IInv
  <1>12. HeldForCause'
    BY <1>1, <1>2, <1>3 DEF Attempts, Answers, Completed, Ended, Free, Unrefused, Active, Ready, Task, At,
       HeldForCause, N, AllTasks, Record, ManifestType, NativeType, RunType, Shown, Asking,
       RunInv, LedgerInv, IInv
  <1> QED BY <1>4, <1>5, <1>6, <1>7, <1>8, <1>9, <1>10, <1>11, <1>12 DEF IInv

LEMMA FinalizesKeeps ==
  ASSUME IInv, Finalizes
  PROVE  IInv'
  <1>1. /\ N \in Nat /\ DOMAIN submissions = 1 .. N /\ N <= MaxTurns
        /\ \A i \in 1 .. N : submissions[i] \in Record
        /\ Active \in 0 .. N
    BY Records DEF IInv, LedgerInv
  <1>2. /\ At("finalize") /\ Ready /\ op.task \in Tasks /\ Asked = Active /\ Active \in 1 .. N
        /\ turn[Active] \in Completed /\ Shown /\ (Task(Active) = op.task)
        /\ submissions[Active].bound /\ submissions[Active].evidence
        /\ \/ submissions[Active].validation = "passed" /\ job[op.task] = Active
           \/ submissions[Active].validation = "failed" /\ job[op.task] = 0
        /\ UNCHANGED <<submissions, job, history, turn, orphan, refused, deaths>>
    BY <1>1 DEF Finalizes, native, Asked, N, IInv, RunInv, LiveInv, Live, At, Answers, Completed
  <1>3. /\ \E s \in {"accepted_cleanup_pending", "failed_cleanup_pending"} :
             manifest' = [manifest EXCEPT !.cleanup = TRUE, !.state = s]
        /\ \E then \in {"end", "generate"} :
              /\ op' = [op EXCEPT !.at = "cleanup", !.then = then]
              /\ then = "generate" => submissions[Active].validation # "passed"
    BY <1>2 DEF Finalizes
  <1>4. Active' = Active /\ manifest'.p0 = manifest.p0
    BY <1>3 DEF IInv, ManifestType, Active
  <1>5. RunType'
    BY <1>2, <1>3 DEF IInv, RunType, Places
  <1>6. LedgerInv'
    BY <1>2, <1>4, UnchangedLedger
  <1>7. ManifestType'
    BY <1>1, <1>2, <1>3, <1>4 DEF Completed, Active, Ready, Task, At, Asked, N, States,
       ManifestType, RecordsType, Shown, LedgerInv, IInv
  <1>8. ManifestInv'
    BY <1>1, <1>2, <1>3, <1>4 DEF Attempts, Answers, Completed, Ended, Active, Ready, Task, At, Asked, N,
       AllTasks, States, ManifestType, NativeType, Shown, ManifestInv, HistoryInv, Live, LiveInv,
       CleaningInv, LedgerInv, IInv
  <1>9. ActiveInv'
    BY <1>1, <1>2, <1>3, <1>4 DEF Attempts, Answers, Completed, Ended, Active, Ready, Task, At,
       DurableOutcome, Asked, N, AllTasks, Record, ManifestType, NativeType, RunType, Shown,
       ManifestInv, HistoryInv, AttemptInv, JobInv, ActiveInv, Live, LiveInv, CleaningInv,
       LedgerInv, IInv
  <1>10. RunInv'
    BY <1>1, <1>2, <1>3, <1>4, TasksAssumption DEF Attempts, Answers, Completed, Ended, Free, Unrefused,
       Active, Ready, Task, At, Asked, N, AllTasks, NativeType, RunType, Shown, Asking, RunInv,
       Live, LiveInv, CleaningInv, LedgerInv, IInv, TasksAssumption
  <1>11. LiveInv'
    BY <1>1, <1>2, <1>3, <1>4 DEF Attempts, Answers, Completed, Ended, Free, Unrefused, Active, Ready,
       Task, At, Asked, N, AllTasks, Record, ManifestType, NativeType, RunType, Shown,
       ManifestInv, HistoryInv, Asking, RunInv, Live, LiveInv, CleaningInv, LedgerInv, IInv
  <1>12. CleaningInv'
    BY <1>1, <1>2, <1>3, <1>4 DEF Attempts, Answers, Completed, Ended, Free, Unrefused, Active, Ready,
       Task, At, DurableOutcome, Asked, N, AllTasks, Record, ManifestType, NativeType, RunType,
       Shown, ManifestInv, HistoryInv, ActiveInv, Asking, RunInv, Live, LiveInv, CleaningInv,
       LedgerInv, IInv
  <1>13. HeldForCause'
    BY <1>1, <1>2, <1>3, <1>4 DEF Attempts, Answers, Completed, Ended, Free, Unrefused, Active, Ready,
       Task, At, Asked, HeldForCause, N, AllTasks, Record, ManifestType, NativeType, RunType,
       Shown, Asking, RunInv, LedgerInv, IInv
  <1> QED BY <1>5, <1>6, <1>7, <1>8, <1>9, <1>10, <1>11, <1>12, <1>13 DEF IInv

LEMMA AcceptsP0Keeps ==
  ASSUME IInv, AcceptsP0
  PROVE  IInv'
  <1>1. /\ N \in Nat /\ DOMAIN submissions = 1 .. N /\ N <= MaxTurns
        /\ \A i \in 1 .. N : submissions[i] \in Record
        /\ Active \in 0 .. N
    BY Records DEF IInv, LedgerInv
  <1>2. /\ At("judge") \/ At("generate")
        /\ ~Ready /\ Active \in 1 .. N /\ turn[Active] = "good" /\ Len(history) = 1 /\ Shown
        /\ op.task \in Tasks /\ job[op.task] = 0
        /\ op' = [op EXCEPT !.at = "p0_saved"] /\ job' = [job EXCEPT ![P0] = Active]
        /\ UNCHANGED <<manifest, history, turn, orphan, refused, deaths>>
    BY <1>1 DEF AcceptsP0, Goes, native, Shown, IInv, RunInv, Asking, At
  <1>3. Task(Active) = P0 /\ history # <<>> /\ (job[P0] # 0 => job[P0] = Active)
    <2>1. Task(Active) = P0 /\ history # <<>>
      BY <1>2, HistoryLength DEF IInv, LedgerInv, ManifestInv
    <2>2. ASSUME job[P0] # 0, job[P0] # Active
          PROVE  FALSE
      <3> DEFINE k == job[P0]
      <3>1. k \in 1 .. N /\ Task(k) = Task(Active) /\ turn[k] = "good"
        BY <2>1, <2>2 DEF IInv, LedgerInv, JobInv, AllTasks
      <3>2. ~Failed(k) /\ Reached(k) /\ ~Failed(Active) /\ Reached(Active)
        BY <1>2, <3>1 DEF Failed, Reached, IInv, LedgerInv, AttemptInv
      <3>3. ~(k < Active) /\ ~(Active < k)
        BY <1>1, <1>2, <3>1, <3>2 DEF IInv, LedgerInv, NoDuplicateTurn
      <3> QED BY <1>1, <1>2, <2>2, <3>1, <3>3
    <2> QED BY <2>1, <2>2
  <1>4. /\ RecordsType' /\ N' = N
        /\ \A i \in 1 .. N : i # Active => submissions'[i] = submissions[i]
        /\ submissions'[Active].task = submissions[Active].task
        /\ submissions'[Active].logged = submissions[Active].logged
        /\ submissions'[Active].bound = submissions[Active].bound
        /\ submissions'[Active].evidence = submissions[Active].evidence
        /\ submissions'[Active].validation = "passed"
        /\ submissions'[Active].selection = submissions[Active].selection
    <2> DEFINE was == submissions[Active]
               now == [was EXCEPT !.validation = "passed"]
    <2>1. was \in Record /\ Active \in 1 .. N
      BY <1>1, <1>2
    <2>2. /\ now \in Record
          /\ now.task = was.task /\ now.logged = was.logged
          /\ now.bound = was.bound /\ now.evidence = was.evidence
          /\ now.validation = "passed" /\ now.selection = was.selection
      BY <2>1 DEF Record
    <2>3. submissions' = [submissions EXCEPT ![Active] = now]
      BY <1>1, <1>2 DEF AcceptsP0
    <2> HIDE DEF now
    <2>4. RecordsType
      BY DEF IInv, LedgerInv
    <2>5. /\ RecordsType' /\ N' = N
          /\ \A i \in 1 .. N : submissions'[i] = (IF i = Active THEN now ELSE submissions[i])
      BY <2>1, <2>2, <2>3, <2>4, Updated
    <2> QED BY <2>1, <2>2, <2>5
  <1>5. LedgerInv'
    <2>1. NativeType' /\ RecordsType'
      <3>1. job' \in [AllTasks -> Nat]
        BY <1>1, <1>2 DEF IInv, LedgerInv, NativeType, AllTasks
      <3> QED BY <1>2, <1>4, <3>1 DEF IInv, LedgerInv, NativeType
    <2>2. \A i \in 1 .. N :
            /\ submissions'[i].task = submissions[i].task
            /\ submissions'[i].logged = submissions[i].logged
            /\ submissions'[i].evidence = submissions[i].evidence
            /\ submissions[i].validation = "failed" => turn[i] # "good"
            /\ \/ submissions'[i].validation = submissions[i].validation
               \/ submissions'[i].validation = "passed" /\ turn[i] = "good"
      BY <1>2, <1>4 DEF IInv, LedgerInv, AttemptInv
    <2>3. \A t \in AllTasks : job'[t] # job[t] =>
            /\ job[t] = 0 /\ job'[t] \in 1 .. N
            /\ Task(job'[t]) = t /\ turn[job'[t]] = "good" /\ (t = P0 => history # <<>>)
      BY <1>2, <1>3 DEF IInv, LedgerInv, NativeType, AllTasks
    <2>4. Grows
      BY <1>2, <1>4, <2>1, <2>2, <2>3 DEF Grows, IInv, LedgerInv, AttemptInv, Task, Completed, Answers
    <2> QED BY <1>2, <2>4, GrowthKeepsLedger DEF Active
  <1>6. ManifestType'
    BY <1>1, <1>2, <1>3, <1>4 DEF Active, Ready, Task, At, N, States, ManifestType, RecordsType,
       Shown, LedgerInv, IInv
  <1>7. RunType'
    BY <1>1, <1>2, <1>3, <1>4 DEF Attempts, Answers, Completed, Ended, Free, Unrefused, Active, Ready,
       Task, At, N, AllTasks, Places, NativeType, RunType, Shown, Asking, RunInv, LedgerInv, IInv
  <1>8. ManifestInv'
    BY <1>1, <1>2, <1>3, <1>4 DEF Attempts, Answers, Completed, Ended, Active, Ready, Task, At, N,
       AllTasks, States, ManifestType, NativeType, Shown, ManifestInv, HistoryInv, Live, LiveInv,
       CleaningInv, LedgerInv, IInv
  <1>9. ActiveInv'
    BY <1>1, <1>2, <1>3, <1>4 DEF Attempts, Answers, Completed, Ended, Active, Ready, Task, At,
       DurableOutcome, N, AllTasks, Record, ManifestType, NativeType, RunType, Shown, ManifestInv,
       HistoryInv, AttemptInv, JobInv, ActiveInv, Live, LiveInv, CleaningInv, LedgerInv, IInv
  <1>10. RunInv'
    BY <1>1, <1>2, <1>3, <1>4, TasksAssumption DEF Attempts, Answers, Completed, Ended, Free, Unrefused,
       Active, Ready, Task, At, N, AllTasks, NativeType, RunType, Shown, Asking, RunInv, Live,
       LiveInv, CleaningInv, LedgerInv, IInv, TasksAssumption
  <1>11. LiveInv'
    BY <1>1, <1>2, <1>3, <1>4 DEF Attempts, Answers, Completed, Ended, Free, Unrefused, Active, Ready,
       Task, At, N, AllTasks, Record, ManifestType, NativeType, RunType, Shown, ManifestInv,
       HistoryInv, Asking, RunInv, Live, LiveInv, CleaningInv, LedgerInv, IInv
  <1>12. CleaningInv'
    BY <1>1, <1>2, <1>3, <1>4 DEF Attempts, Answers, Completed, Ended, Free, Unrefused, Active, Ready,
       Task, At, DurableOutcome, N, AllTasks, Record, ManifestType, NativeType, RunType, Shown,
       ManifestInv, HistoryInv, ActiveInv, Asking, RunInv, Live, LiveInv, CleaningInv, LedgerInv,
       IInv
  <1>13. HeldForCause'
    BY <1>1, <1>2, <1>3, <1>4 DEF Attempts, Answers, Completed, Ended, Free, Unrefused, Active, Ready,
       Task, At, HeldForCause, N, AllTasks, Record, ManifestType, NativeType, RunType, Shown,
       Asking, RunInv, LedgerInv, IInv
  <1> QED BY <1>5, <1>6, <1>7, <1>8, <1>9, <1>10, <1>11, <1>12, <1>13 DEF IInv

LEMMA BecomesReadyKeeps ==
  ASSUME IInv, BecomesReady
  PROVE  IInv'
  <1>1. /\ N \in Nat /\ DOMAIN submissions = 1 .. N /\ N <= MaxTurns
        /\ \A i \in 1 .. N : submissions[i] \in Record
        /\ Active \in 0 .. N
    BY Records DEF IInv, LedgerInv
  <1>2. /\ At("p0_saved") /\ ~Ready /\ Active \in 1 .. N /\ Shown /\ job[P0] = Active
        /\ op.task \in Tasks /\ job[op.task] = 0
        /\ op' = [op EXCEPT !.at = "generate"]
        /\ UNCHANGED <<submissions, job, history, turn, orphan, refused, deaths>>
    BY <1>1 DEF BecomesReady, Goes, native, IInv, RunInv, Asking, LiveInv, At
  <1>3. /\ manifest' = [manifest EXCEPT !.state = "baseline_ready", !.active = 0, !.cleanup = FALSE,
                                  !.p0 = "ready"]
        /\ Active' = 0 /\ Ready'
    BY DEF BecomesReady, Clean, IInv, ManifestType, Active, Ready
  <1>4. LedgerInv'
    <2>1. RecordsType' /\ N' = N /\ NativeType' /\ (\A i \in 1 .. N : Failed(i)' <=> Failed(i))
      BY <1>2 DEF IInv, LedgerInv, RecordsType, NativeType, N, Failed
    <2>2. Len(history) = 1 /\ history # <<>> /\ Task(Active) = P0
      BY <1>2, HistoryLength DEF IInv, LedgerInv, Shown, ManifestInv
    <2>3. HistoryInv'
      BY <1>2, <1>3, <2>1, <2>2 DEF IInv, LedgerInv, HistoryInv, Task
    <2>4. AttemptInv' /\ JobInv'
      BY <1>2, <2>1 DEF IInv, LedgerInv, AttemptInv, JobInv, Task
    <2>5. AccountInv'
      BY <1>2, <1>3, <2>1, <2>2 DEF IInv, LedgerInv, AccountInv, Task
    <2>6. NoDuplicateTurn'
      BY <1>2, <2>1 DEF IInv, LedgerInv, NoDuplicateTurn, Reached, Task, Failed
    <2> QED BY <2>1, <2>3, <2>4, <2>5, <2>6 DEF LedgerInv
  <1>5. ManifestType' /\ RunType'
    BY <1>1, <1>2, <1>3 DEF Attempts, Answers, Completed, Ended, Free, Unrefused, Active, Ready, At, N,
       AllTasks, States, Places, ManifestType, RecordsType, NativeType, RunType, Shown, Asking,
       RunInv, LedgerInv, IInv
  <1>6. ManifestInv' /\ HeldForCause'
    BY <1>1, <1>2, <1>3 DEF Attempts, Answers, Completed, Ended, Free, Unrefused, Active, Ready, Task, At,
       HeldForCause, N, AllTasks, States, Record, ManifestType, NativeType, RunType, Shown,
       ManifestInv, HistoryInv, Asking, RunInv, Live, LiveInv, CleaningInv, LedgerInv, IInv
  <1>7. ActiveInv' /\ CleaningInv'
    BY <1>1, <1>2, <1>3 DEF Attempts, Answers, Completed, Ended, Free, Unrefused, Active, Ready, Task, At,
       DurableOutcome, N, AllTasks, Record, ManifestType, NativeType, RunType, Shown, ManifestInv,
       HistoryInv, AttemptInv, JobInv, ActiveInv, Asking, RunInv, Live, LiveInv, CleaningInv,
       LedgerInv, IInv
  <1>8. RunInv' /\ LiveInv'
    BY <1>1, <1>2, <1>3, TasksAssumption DEF Attempts, Answers, Completed, Ended, Free, Unrefused, Active,
       Ready, Task, At, N, AllTasks, Record, ManifestType, NativeType, RunType, Shown,
       ManifestInv, HistoryInv, Asking, RunInv, Live, LiveInv, CleaningInv, LedgerInv, IInv,
       TasksAssumption
  <1> QED BY <1>4, <1>5, <1>6, <1>7, <1>8 DEF IInv

LEMMA RejectsP0Keeps ==
  ASSUME IInv, RejectsP0
  PROVE  IInv'
  <1>1. /\ N \in Nat /\ DOMAIN submissions = 1 .. N /\ N <= MaxTurns
        /\ \A i \in 1 .. N : submissions[i] \in Record
        /\ Active \in 0 .. N
    BY Records DEF IInv, LedgerInv
  <1>2. /\ At("judge") /\ op' = Free /\ refused = Unrefused
        /\ UNCHANGED <<manifest, submissions, job, history, turn, orphan, refused, deaths>>
    BY DEF RejectsP0, native, IInv, RunInv, At
  <1>3. LedgerInv'
    BY <1>2, UnchangedLedger DEF Active
  <1>4. ManifestType'
    BY <1>1, <1>2 DEF Free, Unrefused, Active, At, N, States, ManifestType, RecordsType,
       LedgerInv, IInv
  <1>5. RunType'
    BY <1>1, <1>2 DEF Attempts, Answers, Completed, Ended, Free, Unrefused, Active, At, N, AllTasks,
       Places, NativeType, RunType, Asking, RunInv, LedgerInv, IInv
  <1>6. ManifestInv'
    BY <1>1, <1>2 DEF Attempts, Answers, Completed, Ended, Free, Unrefused, Active, Ready, Task, At, N,
       AllTasks, States, ManifestType, NativeType, Shown, ManifestInv, HistoryInv, Live, LiveInv,
       CleaningInv, LedgerInv, IInv
  <1>7. ActiveInv'
    BY <1>1, <1>2 DEF Attempts, Answers, Completed, Ended, Free, Unrefused, Active, Ready, Task, At,
       DurableOutcome, N, AllTasks, Record, ManifestType, NativeType, RunType, Shown, ManifestInv,
       HistoryInv, AttemptInv, JobInv, ActiveInv, Live, LiveInv, CleaningInv, LedgerInv, IInv
  <1>8. RunInv'
    BY <1>1, <1>2, TasksAssumption DEF Attempts, Answers, Completed, Ended, Free, Unrefused, Active, Ready,
       Task, At, N, AllTasks, NativeType, RunType, Shown, Asking, RunInv, Live, LiveInv,
       CleaningInv, LedgerInv, IInv, TasksAssumption
  <1>9. LiveInv'
    BY <1>1, <1>2 DEF Attempts, Answers, Completed, Ended, Free, Unrefused, Active, Ready, Task, At, N,
       AllTasks, Record, ManifestType, NativeType, RunType, Shown, ManifestInv, HistoryInv,
       Asking, RunInv, Live, LiveInv, CleaningInv, LedgerInv, IInv
  <1>10. CleaningInv'
    BY <1>1, <1>2 DEF Attempts, Answers, Completed, Ended, Free, Unrefused, Active, Ready, Task, At,
       DurableOutcome, N, AllTasks, Record, ManifestType, NativeType, RunType, Shown, ManifestInv,
       HistoryInv, ActiveInv, Asking, RunInv, Live, LiveInv, CleaningInv, LedgerInv, IInv
  <1>11. HeldForCause'
    BY <1>1, <1>2 DEF Attempts, Answers, Completed, Ended, Free, Unrefused, Active, Task, At, HeldForCause,
       N, AllTasks, Record, ManifestType, NativeType, RunType, Asking, RunInv, LedgerInv, IInv
  <1> QED BY <1>3, <1>4, <1>5, <1>6, <1>7, <1>8, <1>9, <1>10, <1>11 DEF IInv

LEMMA StopsKeeps ==
  ASSUME IInv, Stops
  PROVE  IInv'
  <1>1. /\ N \in Nat /\ DOMAIN submissions = 1 .. N /\ N <= MaxTurns
        /\ \A i \in 1 .. N : submissions[i] \in Record
        /\ Active \in 0 .. N
    BY Records DEF IInv, LedgerInv
  <1>2. /\ ~At("none") /\ deaths < MaxDeaths /\ op' = Free /\ refused = Unrefused
        /\ orphan' = (At("reply") \/ At("wait")) /\ deaths' = deaths + 1
        /\ UNCHANGED <<manifest, submissions, job, history, turn, refused>>
    BY DEF Stops, IInv, RunInv
  <1>3. RunType'
    BY <1>2, BoundsAssumption DEF IInv, RunType, Free, Places, BoundsAssumption
  <1>4. LedgerInv'
    BY <1>2, UnchangedLedger DEF Active
  <1>5. ManifestType'
    BY <1>1, <1>2 DEF Free, Unrefused, Active, At, N, States, ManifestType, RecordsType,
       LedgerInv, IInv
  <1>6. ManifestInv'
    BY <1>1, <1>2 DEF Attempts, Answers, Completed, Ended, Free, Unrefused, Active, Ready, Task, At, N,
       AllTasks, States, ManifestType, NativeType, Shown, ManifestInv, HistoryInv, Live, LiveInv,
       CleaningInv, LedgerInv, IInv
  <1>7. ActiveInv'
    BY <1>1, <1>2 DEF Attempts, Answers, Completed, Ended, Free, Unrefused, Active, Ready, Task, At,
       DurableOutcome, N, AllTasks, Record, ManifestType, NativeType, RunType, Shown, ManifestInv,
       HistoryInv, AttemptInv, JobInv, ActiveInv, Live, LiveInv, CleaningInv, LedgerInv, IInv
  <1>8. RunInv'
    BY <1>1, <1>2, TasksAssumption DEF Attempts, Answers, Completed, Ended, Free, Unrefused, Active, Ready,
       Task, At, N, AllTasks, NativeType, RunType, Shown, Asking, RunInv, Live, LiveInv,
       CleaningInv, LedgerInv, IInv, TasksAssumption
  <1>9. LiveInv'
    BY <1>1, <1>2 DEF Attempts, Answers, Completed, Ended, Free, Unrefused, Active, Ready, Task, At, N,
       AllTasks, Record, ManifestType, NativeType, RunType, Shown, ManifestInv, HistoryInv,
       Asking, RunInv, Live, LiveInv, CleaningInv, LedgerInv, IInv
  <1>10. CleaningInv'
    BY <1>1, <1>2 DEF Attempts, Answers, Completed, Ended, Free, Unrefused, Active, Ready, Task, At,
       DurableOutcome, N, AllTasks, Record, ManifestType, NativeType, RunType, Shown, ManifestInv,
       HistoryInv, ActiveInv, Asking, RunInv, Live, LiveInv, CleaningInv, LedgerInv, IInv
  <1>11. HeldForCause'
    BY <1>1, <1>2 DEF Attempts, Answers, Completed, Ended, Free, Unrefused, Active, Task, At, HeldForCause,
       N, AllTasks, Record, ManifestType, NativeType, RunType, Asking, RunInv, LedgerInv, IInv
  <1> QED BY <1>3, <1>4, <1>5, <1>6, <1>7, <1>8, <1>9, <1>10, <1>11 DEF IInv

-----------------------------------------------------------------------------
(* The invariant holds, and the properties follow *)

LEMMA InitInv ==
  ASSUME Init
  PROVE  IInv
  <1>1. N = 0 /\ submissions = <<>> /\ submissions \in Seq(Record)
    BY EmptySeq DEF Init, N
  <1>2. ManifestType /\ RunType /\ RecordsType
    <2>1. MaxTurns \in Nat /\ MaxDeaths \in Nat
      BY BoundsAssumption DEF BoundsAssumption
    <2>2. ManifestType
      BY DEF Init, ManifestType, States
    <2>3. RunType
      <3>1. 0 \in 0 .. MaxDeaths
        BY <2>1
      <3>2. /\ Free \in [at : Places, task : Tasks \cup {None}, then : {"end", "candidates", "generate"}]
            /\ Unrefused \in [sub : Nat, task : Tasks \cup {None}]
        BY DEF Places, Free, Unrefused
      <3> QED BY <3>1, <3>2 DEF Init, RunType
    <2>4. RecordsType
      BY <1>1, <2>1 DEF RecordsType
    <2> QED BY <2>2, <2>3, <2>4
  <1>3. NativeType
    BY <1>1, EmptySeq DEF Init, NativeType, AllTasks
  <1>4. HistoryInv /\ AttemptInv /\ JobInv /\ AccountInv
    <2>1. HistoryInv /\ JobInv
      BY EmptySeq DEF Init, HistoryInv, JobInv, Ready, AllTasks
    <2>2. AttemptInv /\ AccountInv
      BY <1>1 DEF Init, AttemptInv, AccountInv
    <2> QED BY <2>1, <2>2
  <1>5. NoDuplicateTurn
    BY <1>1 DEF NoDuplicateTurn
  <1>6. ManifestInv /\ ActiveInv
    BY <1>1 DEF Init, ManifestInv, ActiveInv, Ready, Active
  <1>7. RunInv /\ LiveInv /\ CleaningInv /\ HeldForCause
    BY DEF Init, RunInv, LiveInv, CleaningInv, HeldForCause, At, Free, Asking, Live
  <1> QED BY <1>2, <1>3, <1>4, <1>5, <1>6, <1>7 DEF IInv, LedgerInv

LEMMA NextInv ==
  ASSUME IInv, [Next]_vars
  PROVE  IInv'
  <1>1. CASE UNCHANGED vars
    <2>1. LedgerInv'
      BY <1>1, UnchangedLedger DEF vars, Active
    <2> QED BY <1>1, <2>1 DEF vars, IInv, ManifestType, RunType, ManifestInv, ActiveInv, RunInv,
            LiveInv, CleaningInv, HeldForCause, Active, Ready, Task, At, N, Shown, DurableOutcome
  <1>2. CASE \E t \in Tasks : Begins(t)
    BY <1>2, BeginsKeeps
  <1>3. CASE \/ ResumesReverted \/ ClearsUnsent \/ HoldsUncertain
             \/ SettlesEnded \/ HoldsSilent \/ FindsNothingActive
    BY <1>3, ResumesRevertedKeeps, ClearsUnsentKeeps, HoldsUncertainKeeps, SettlesEndedKeeps,
       HoldsSilentKeeps, FindsNothingActiveKeeps
  <1>4. CASE CleanupIsRefused \/ RevertBegins \/ Reverts \/ CleanupEnds
    BY <1>4, CleanupIsRefusedKeeps, RevertBeginsKeeps, RevertsKeeps, CleanupEndsKeeps
  <1>5. CASE AcceptsRecovered \/ RecordsRecovered \/ FindsNoAnswer
    BY <1>5, AcceptsRecoveredKeeps, RecordsRecoveredKeeps, FindsBadAnswerKeeps,
       FindsNoAnswerOfItsOwnKeeps
  <1>6. CASE \/ Generates \/ GenerateIsRefused \/ Sends \/ TurnStarts \/ RequestIsLost \/ Binds
    BY <1>6, GeneratesKeeps, GenerateIsRefusedKeeps, SendsKeeps, TurnStartsKeeps,
       RequestIsLostKeeps, BindsKeeps
  <1>7. CASE TurnEnds \/ Collects \/ Verifies \/ Judges \/ Saves \/ Finalizes
    BY <1>7, TurnEndsKeeps, CollectsKeeps, VerifiesKeeps, JudgesKeeps, SavesKeeps, FinalizesKeeps
  <1>8. CASE AcceptsP0 \/ BecomesReady \/ RejectsP0
    BY <1>8, AcceptsP0Keeps, BecomesReadyKeeps, RejectsP0Keeps
  <1>9. CASE Stops \/ OrphanExits
    BY <1>9, StopsKeeps, OrphanExitsKeeps
  <1> QED BY <1>1, <1>2, <1>3, <1>4, <1>5, <1>6, <1>7, <1>8, <1>9 DEF Next

LEMMA Invariance == Spec => []IInv
  <1>1. Init => IInv
    BY InitInv
  <1>2. IInv /\ [Next]_vars => IInv'
    BY NextInv
  <1> QED BY <1>1, <1>2, PTL DEF Spec

\* A slot marked clean names no submission and has nothing to clean, a dirty one names one,
\* and whatever it, a result or the native history names exists (transition, cleanup).
THEOREM ManifestIsTyped == Spec => []TypeOK
  <1>1. ASSUME IInv PROVE TypeOK
    <2>1. /\ N \in Nat /\ DOMAIN submissions = 1 .. N
          /\ \A i \in 1 .. N : submissions[i] \in Record
          /\ Active \in 0 .. N
      BY <1>1, Records DEF IInv, LedgerInv
    <2>2. Turns \subseteq 1 .. N
      BY <1>1, OneAbove
    <2>3. /\ manifest.state \in States /\ manifest.p0 \in {"absent", "preparing", "ready"}
          /\ manifest.active \in 0 .. Len(submissions)
          /\ manifest.active = 0 <=> manifest.state \in {"absent", "preparing", "baseline_ready"}
          /\ manifest.cleanup => manifest.active # 0
      BY <1>1, <2>1 DEF IInv, ManifestType, ManifestInv, Active, N
    <2>4. \A i \in DOMAIN submissions : submissions[i].selection \in {"none", "verified", "rejected"}
      BY <2>1 DEF Record
    <2>5. /\ \A t \in DOMAIN job : job[t] # 0 => job[t] \in DOMAIN submissions /\ Task(job[t]) = t
          /\ turn \in [Attempts -> {"none", "active", "lost"} \cup Ended]
      BY <1>1, <2>1 DEF IInv, LedgerInv, NativeType, JobInv
    <2>6. deaths \in 0 .. MaxDeaths
      BY <1>1 DEF IInv, RunType
    <2> QED BY <2>1, <2>2, <2>3, <2>4, <2>5, <2>6 DEF TypeOK, States
  <1> QED BY <1>1, Invariance, PTL

\* Whatever dies, a task is put to the model again only when its earlier turn, or its earlier
\* answer, failed (recover_submission, reconcile, durable_cleanup_outcome).
THEOREM NoTurnIsPaidForTwice == Spec => []NoDuplicateTurn
  <1>1. IInv => NoDuplicateTurn
    BY DEF IInv, LedgerInv
  <1> QED BY <1>1, Invariance, PTL

\* Every turn that reached the model is active, accepted or recorded as failed, and no pass is
\* asked on top of another one's text (submit, cleanup).
THEOREM EveryTurnIsAccounted == Spec => []TurnsAccounted
  <1>1. ASSUME IInv PROVE TurnsAccounted
    <2>1. DOMAIN submissions = 1 .. N
      BY <1>1, Records DEF IInv, LedgerInv
    <2>2. Len(history) \in 0 .. 2 /\ DOMAIN history = 1 .. Len(history)
      BY <1>1, HistoryLength DEF IInv, LedgerInv
    <2>3. history # <<>> <=> Len(history) # 0
      BY <1>1, HistoryLength DEF IInv, LedgerInv
    <2>4. \A i \in Turns : Task(i) = P0 \/ i = Active
      BY <1>1, <2>2, <2>3 DEF Turns, IInv, LedgerInv, HistoryInv
    <2>5. Ready => history # <<>> /\ Task(history[1]) = P0
      BY <1>1 DEF IInv, LedgerInv, HistoryInv
    <2>6. \A i \in DOMAIN submissions : Reached(i) =>
             i = Active \/ job[Task(i)] = i \/ (submissions[i].evidence /\ Failed(i))
      BY <1>1, <2>1 DEF IInv, LedgerInv, AccountInv, Reached
    <2> QED BY <2>4, <2>5, <2>6 DEF TurnsAccounted
  <1> QED BY <1>1, Invariance, PTL

\* A run is refused only over a turn that the code cannot settle (uncertain, going on, without a
\* final answer, by another model, a P0 that did not load), for another task's answer, or, a defect
\* that AcceptedIsOnlyReverted is about, for an acceptance that died half-way
\* (recover_submission, reconcile, Runner._run).
THEOREM RunsAreHeldForCause == Spec => []HeldForCause
  <1>1. IInv => HeldForCause
    BY DEF IInv
  <1> QED BY <1>1, Invariance, PTL

=============================================================================
