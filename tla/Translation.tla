---------------------------- MODULE Translation ----------------------------
(***************************************************************************)
(* P2 to P5 for every chunk that is not done (execute_translate), or one   *)
(* pass of one chunk the user asked for (execute_target_pass).  A pass is  *)
(* run by Runner._run: a saved result of the same inputs is selected       *)
(* again, a completed answer on disk is recovered, and only then is the    *)
(* provider asked; the answer, the job row and the selection are durable   *)
(* one after the other.                                                    *)
(***************************************************************************)
EXTENDS Approval

CONSTANTS Limits, Targets, MaxTargets

-----------------------------------------------------------------------------
(* Inputs of a pass.  The context of a chunk is the nearest earlier final, *)
(* current or not; P3 reads P2, P4 reads P2 and P3, P5 reads P3 and P4.    *)

PreviousContext(c) ==
    LET finals == {b \in 1 .. (c - 1) : chunk[b].final # None}
    IN IF finals = {} THEN [source |-> None, polish |-> None]
       ELSE [source |-> Max(finals), polish |-> Suffix[chunk[Max(finals)].final.value]]

ApprovedLexicon(c) == [t \in Mentions[c] |-> choice[t]]

Upstream(n) == CASE n = 2 -> {} [] n = 3 -> {2} [] n = 4 -> {2, 3} [] n = 5 -> {3, 4}

(* The passes of a run select as they go: the selected result is the value *)
(* the run holds.                                                          *)
Draft(c, n) == Result(c, n, chunk[c].selected[n]).value

(* The values of a pass, and the keys and results it may have. *)
Values(n) == UNION {Answers[c][n][k] : c \in ChunkIds, k \in 0 .. MaxTargets}

Contexts == [source : ChunkIds \cup {None}, polish : {Suffix[t] : t \in Values(5)} \cup {None}]

Bases(c, n) == [lexicon : [Mentions[c] -> Forms], context : Contexts,
                drafts : [Upstream(n) -> UNION {Values(m) : m \in Passes}]]

Keys(c, n) == [base : Bases(c, n), rerun : 0 .. MaxTargets]
Results(c, n) == [base : Bases(c, n), rerun : 0 .. MaxTargets, value : Values(n)]

ASSUME RunAssumption ==
    /\ Limits \subseteq Nat /\ Targets \subseteq Passes /\ MaxTargets \in Nat
    /\ None \notin ChunkIds /\ None \notin Contexts
    /\ \A t \in Values(5) : Suffix[t] \in Ends[t]
    /\ \A c \in ChunkIds, n \in Passes : None \notin Keys(c, n) /\ None \notin Results(c, n)

Base(c, n) == [lexicon |-> ApprovedLexicon(c), context |-> PreviousContext(c),
               drafts |-> [m \in Upstream(n) |-> Draft(c, m)]]

(* A rerun the user chose stays the result of its inputs. *)
Wanted(c, n) ==
    LET selected == chunk[c].selected[n]
    IN IF selected # None /\ selected.base = Base(c, n) THEN selected
       ELSE [base |-> Base(c, n), rerun |-> 0]

Cached(c, n, key) == \E job \in jobs[c][n] : Key(job) = key

-----------------------------------------------------------------------------
(* Beginning a run.                                                        *)

Unfinished == {c \in ChunkIds : chunk[c].status # "done"}

(* The first k of a set of chunks, in order. *)
FirstOf(k, S) == {c \in S : Cardinality({b \in S : b < c}) < k}

TranslateBegins(limit) ==
    /\ ScopeFree /\ analysis_done /\ ApprovalCurrent
    /\ LET todo == IF limit = 0 THEN Unfinished ELSE FirstOf(limit, Unfinished)
       IN /\ todo # {}
          /\ op' = [kind |-> "translate", todo |-> todo, limit |-> limit,
                    room |-> IF limit = 0 THEN Chunks ELSE limit - Cardinality(todo),
                    pass |-> 2, job |-> None, saved |-> FALSE]
    /\ UNCHANGED <<deaths, analysisVars, approvalVars, translationVars, publishingVars>>

TargetBegins(c, n, rerun) ==
    /\ ScopeFree /\ analysis_done /\ ApprovalCurrent
    /\ HasJob(c, n) => rerun
    /\ targets < MaxTargets
    /\ targets' = targets + 1
    /\ op' = [kind |-> "target", todo |-> {c}, target |-> n,
              force |-> IF rerun THEN targets + 1 ELSE 0,
              pass |-> 2, job |-> None, saved |-> FALSE]
    /\ UNCHANGED <<deaths, analysisVars, approvalVars, chunk, jobs, answers, publishingVars>>

-----------------------------------------------------------------------------
(* One pass.                                                               *)

Running == op.kind \in {"translate", "target"} /\ op.todo # {}
At == Min(op.todo)
AtTarget == op.kind = "target" /\ op.pass = op.target
Forced == AtTarget /\ op.force > 0
Asking == Running /\ op.pass <= 5 /\ op.job = None

(* A forced pass has a key of its own (a fresh uuid). *)
PassKey == IF Forced THEN [base |-> Base(At, op.pass), rerun |-> op.force]
           ELSE Wanted(At, op.pass)

AfterPass == [op EXCEPT !.pass = @ + 1, !.job = None, !.saved = FALSE]

UseSavedResult ==
    /\ Asking /\ ~ Forced
    /\ \E job \in jobs[At][op.pass] :
          /\ Key(job) = PassKey
          /\ chunk' = [chunk EXCEPT ![At] = RecordTranslationPass(At, op.pass, job, FALSE)]
          /\ op' = IF AtTarget THEN [op EXCEPT !.job = job, !.saved = TRUE] ELSE AfterPass
    /\ UNCHANGED <<deaths, analysisVars, approvalVars, jobs, answers, targets, publishingVars>>

(* A pass below the requested one is never generated. *)
TargetLacksInput ==
    /\ Asking /\ op.kind = "target" /\ ~ AtTarget /\ ~ Cached(At, op.pass, PassKey)
    /\ op' = Idle
    /\ UNCHANGED <<deaths, analysisVars, approvalVars, translationVars, publishingVars>>

MayGenerate == /\ Asking
               /\ op.kind = "target" => AtTarget
               /\ ~ Cached(At, op.pass, PassKey)

Answered(c, n, key) == {a \in answers : a.chunk = c /\ a.pass = n /\ Key(a.job) = key}

(* Completed attempts of the same request are looked for first ... *)
RecoverAnswer ==
    /\ MayGenerate /\ ~ Forced
    /\ \E a \in Answered(At, op.pass, PassKey) : op' = [op EXCEPT !.job = a.job]
    /\ UNCHANGED <<deaths, analysisVars, approvalVars, translationVars, publishingVars>>

(* ... and a new answer is on disk before anything else is done with it. *)
AskProvider ==
    /\ MayGenerate
    /\ Answered(At, op.pass, PassKey) = {}
    /\ \E value \in Answers[At][op.pass][PassKey.rerun] :
          LET job == [base |-> PassKey.base, rerun |-> PassKey.rerun, value |-> value]
          IN /\ answers' = answers \cup {[chunk |-> At, pass |-> op.pass, job |-> job]}
             /\ op' = [op EXCEPT !.job = job]
    /\ UNCHANGED <<deaths, analysisVars, approvalVars, chunk, jobs, targets, publishingVars>>

(* Once its result is saved, an answer is never looked at again. *)
SaveJob ==
    /\ Running /\ op.job # None /\ ~ op.saved
    /\ ~ Cached(At, op.pass, Key(op.job))
    /\ jobs' = [jobs EXCEPT ![At][op.pass] = @ \cup {op.job}]
    /\ answers' = answers \ {[chunk |-> At, pass |-> op.pass, job |-> op.job]}
    /\ UNCHANGED <<op, deaths, analysisVars, approvalVars, chunk, targets, publishingVars>>

RecordGenerated ==
    /\ Running /\ op.job # None /\ ~ op.saved
    /\ Cached(At, op.pass, Key(op.job))
    /\ chunk' = [chunk EXCEPT ![At] = RecordTranslationPass(At, op.pass, op.job, TRUE)]
    /\ op' = IF AtTarget THEN [op EXCEPT !.saved = TRUE] ELSE AfterPass
    /\ UNCHANGED <<deaths, analysisVars, approvalVars, jobs, answers, targets, publishingVars>>

-----------------------------------------------------------------------------
(* Completing a chunk.                                                     *)

(* Faulty variant: the run keeps to the chunks it began with. *)
ReopenedNever(rows) == {}

(* Chunks a finished revision reopened join the run, up to its limit. *)
Reopened(rows) == {c \in ChunkIds : c > At /\ c \notin op.todo /\ rows[c].status # "done"}

FinishChunk ==
    /\ op.kind = "translate" /\ op.todo # {} /\ op.pass = 6
    /\ LET rows == FinishedChunk(At, Result(At, 5, chunk[At].selected[5]))
           joining == FirstOf(op.room, Reopened(rows))
           todo == (op.todo \ {At}) \cup joining
       IN /\ chunk' = rows
          /\ op' = IF todo = {} THEN Idle
                   ELSE [op EXCEPT !.todo = todo, !.pass = 2, !.job = None, !.saved = FALSE,
                                   !.room = @ - IF op.limit = 0 THEN 0 ELSE Cardinality(joining)]
    /\ UNCHANGED <<deaths, analysisVars, approvalVars, jobs, answers, targets, publishingVars>>

TargetContextComplete(c) == \A b \in 1 .. (c - 1) : chunk[b].status = "done"

AcceptTargetPass ==
    /\ op.kind = "target" /\ AtTarget /\ op.saved
    /\ chunk' = AcceptedTarget(At, op.target, op.job, TargetContextComplete(At))
    /\ op' = Idle
    /\ UNCHANGED <<deaths, analysisVars, approvalVars, jobs, answers, targets, publishingVars>>

TranslationNext ==
    \/ \E limit \in Limits : TranslateBegins(limit)
    \/ \E c \in ChunkIds, n \in Targets, rerun \in BOOLEAN : TargetBegins(c, n, rerun)
    \/ UseSavedResult \/ TargetLacksInput \/ RecoverAnswer \/ AskProvider
    \/ SaveJob \/ RecordGenerated \/ FinishChunk \/ AcceptTargetPass

-----------------------------------------------------------------------------
(* Properties.                                                             *)

(* The context was read from the nearest earlier chunk with a text, and    *)
(* that text, as it is now, ends with it.                                  *)
ContextHolds(c, context) ==
    LET now == PreviousContext(c)
    IN /\ context.source = now.source
       /\ now.source # None => context.polish \in Ends[chunk[now.source].final.value]

(* A chunk is done only with a text made from the forms approved now, from *)
(* an end of the text that the chunk before it has now (what it was shown  *)
(* of it then, which is less if it has grown in front) and from the drafts *)
(* of its own that are selected now, whatever was approved, revised, rerun *)
(* or cut short since: every change of any of them must reach the chunks   *)
(* that read it in the transaction that makes it, even when the run dies   *)
(* right after.                                                            *)
DoneIsCurrent ==
    \A c \in ChunkIds : chunk[c].status = "done" =>
        /\ chunk[c].final.base.lexicon = ApprovedLexicon(c)
        /\ ContextHolds(c, chunk[c].final.base.context)
        /\ \A n \in {3, 4} :
              /\ chunk[c].selected[n] # None
              /\ chunk[c].final.base.drafts[n] = Draft(c, n)

(* A run without a limit that ends by itself leaves every chunk done: the  *)
(* chunks its own revisions made stale are part of the run.                *)
UnlimitedRunFinishesAll ==
    [][(FinishChunk /\ op.limit = 0 /\ op' = Idle)
       => \A c \in ChunkIds : chunk'[c].status = "done"]_vars

=============================================================================
