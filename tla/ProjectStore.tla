---------------------------- MODULE ProjectStore ----------------------------
(***************************************************************************)
(* The durable state of one book project and the transactions of its      *)
(* store.  Every transaction of the store is one commit (a new HEAD), so  *)
(* each is one operator here and one step of the operation that runs it.  *)
(* The operations themselves (analysis, reset, review and approval,       *)
(* translation, publishing) are in the modules that extend this one;      *)
(* Workspace composes them.  They hold the project's lock from their      *)
(* first step to their last, and that is what `op' is.                    *)
(*                                                                         *)
(* A digest is modelled by what it digests: two fingerprints are equal    *)
(* exactly when the inputs they were computed from are.                   *)
(***************************************************************************)
EXTENDS Naturals, FiniteSets, FiniteSetsExt

CONSTANTS
    Units,      \* the number of P1 units of the saved analysis plan
    Chunks,     \* the number of chunks; they belong to one chapter, in order
    Terms,      \* the terms the analysis finds
    Forms,      \* the candidate forms of a term
    Default,    \* the candidate the analysis lists first
    Mentions,   \* Mentions[c]: the terms the source of chunk c mentions
    Answers,    \* Answers[c][n][k]: the results pass n of chunk c may give when
                \* asked for the first time (k = 0) or for rerun k
    Suffix,     \* Suffix[t]: the part of the text t the next chunk is shown, all of a
                \* short text, at most a number of tokens of a longer one
    Ends,       \* Ends[t]: the contexts that the text t ends with
    None

ASSUME StoreAssumption ==
    /\ Units \in Nat \ {0}
    /\ Chunks \in Nat \ {0}
    /\ Default \in Forms
    /\ None \notin Forms
    /\ Mentions \in [1 .. Chunks -> SUBSET Terms]
    /\ \A c \in 1 .. Chunks : \A k \in DOMAIN Answers[c][5] :
           Answers[c][5][k] \subseteq DOMAIN Suffix

VARIABLES
    op,             \* the operation that holds the project's lock, or Idle
    deaths,         \* how many operations have died (bounded)
    p1,             \* p1[u]: the files and rows of P1 unit u
    analysis_done,
    pending,        \* pending.json of a P1 reset exists
    choice,         \* choice[t]: the approved form in the terms table
    approved,       \* the `approved' flag of the store
    receipt,        \* approval_review_digest
    review,         \* terms.review.json
    lexicon,        \* lexicon.approved.json
    edits,          \* how many times the draft was edited (bounded)
    torn,           \* history: an approval died after its commit, none completed since
    chunk,          \* chunk[c]: the row of chunk c, its selections and marks
    jobs,           \* jobs[c][n]: the saved results of pass n
    answers,        \* completed attempts on disk whose result is not saved yet
    targets,        \* how many single passes were asked for (bounded)
    publication,    \* publication.json
    epubs           \* the EPUB files under published/

analysisVars == <<p1, analysis_done, pending>>
approvalVars == <<choice, approved, receipt, review, lexicon, edits, torn>>
translationVars == <<chunk, jobs, answers, targets>>
publishingVars == <<publication, epubs>>
vars == <<op, deaths, analysisVars, approvalVars, translationVars, publishingVars>>

UnitIds == 1 .. Units
ChunkIds == 1 .. Chunks
Passes == 2 .. 5
Idle == [kind |-> "idle"]

(* Faulty variant: the scope does not look for an interrupted reset. *)
ScopeFreeAlways == op = Idle

(* Operations enter through OperationScope: the project's lock is free and *)
(* no interrupted P1 reset is waiting for its recovery.                    *)
ScopeFree == op = Idle /\ ~ pending

-----------------------------------------------------------------------------
(* P1 units.  `frozen' is the snapshot of the memory the unit was given,   *)
(* `file' what its artifact directory holds, the rest are store rows.      *)

NoUnit == [frozen |-> None, file |-> "none", job |-> FALSE,
           merged |-> FALSE, receipt |-> FALSE]
MergedUnits == {u \in UnitIds : p1[u].merged}

-----------------------------------------------------------------------------
(* Chunks: the row, the selected result of each pass, and the invalidation *)
(* marks.  A job's identity is its key: the inputs and, when the user      *)
(* asked for another result of the same inputs, the number of that rerun.  *)

NoChunk == [status |-> "pending", final |-> None, deps |-> {},
            selected |-> [n \in Passes |-> None], invalid |-> {}]

Key(job) == [base |-> job.base, rerun |-> job.rerun]
Result(c, n, key) == CHOOSE job \in jobs[c][n] : Key(job) = key
HasJob(c, n) == jobs[c][n] # {}

(* Invalidation keeps every checkpoint and the readable final text. *)
InvalidatePasses(row, from) ==
    [row EXCEPT !.status = IF row.final # None THEN "stale" ELSE @,
                !.invalid = @ \cup (from .. 5)]

(* Faulty variant: later results stay selected. *)
SupersedesNever(c, n, key, generated) == FALSE

(* A new upstream result makes retained downstream results historical. *)
Supersedes(c, n, key, generated) ==
    /\ IF chunk[c].selected[n] = None THEN generated ELSE chunk[c].selected[n] # key
    /\ n < 5
    /\ \E m \in Passes : m > n /\ HasJob(c, m)

RecordTranslationPass(c, n, job, generated) ==
    LET row == IF Supersedes(c, n, Key(job), generated)
               THEN InvalidatePasses(chunk[c], n + 1) ELSE chunk[c]
    IN [row EXCEPT !.selected[n] = Key(job), !.invalid = @ \ {n},
                   !.deps = DOMAIN job.base.lexicon]

(* The context a chunk was made with, as invalidation looks it up: the     *)
(* inputs of its selected P2, else those of its final; none when P2 is     *)
(* already invalid.                                                        *)
ContextRead(row) ==
    IF 2 \in row.invalid THEN None
    ELSE IF row.selected[2] # None THEN row.selected[2].base.context
    ELSE IF row.final # None THEN row.final.base.context
    ELSE None

(* Faulty variant: consumers of the old text are not looked for. *)
OtherTextNever(row, c, text) == FALSE

(* A text that only grew in front still ends with the context that was    *)
(* read, although the next chunk would now be shown more of it.            *)
OtherText(row, c, text) ==
    LET context == ContextRead(row)
    IN context # None /\ context.source = c /\ context.polish \notin Ends[text]

InvalidateContextDependents(rows, c, text) ==
    [r \in ChunkIds |-> IF r # c /\ OtherText(rows[r], c, text)
                        THEN InvalidatePasses(rows[r], 2) ELSE rows[r]]

WithFinal(row, job, status) ==
    [row EXCEPT !.status = status, !.final = job, !.deps = DOMAIN job.base.lexicon]

Finished(row, job) == [WithFinal(row, job, "done") EXCEPT !.invalid = @ \ {5}]

FinishedChunk(c, job) ==
    InvalidateContextDependents([chunk EXCEPT ![c] = Finished(@, job)], c, job.value)

AcceptedTarget(c, n, job, complete) ==
    IF n = 5
    THEN InvalidateContextDependents(
             [chunk EXCEPT ![c] = WithFinal(@, job, IF complete THEN "done" ELSE "stale")],
             c, job.value)
    ELSE [chunk EXCEPT ![c].status = IF @ = "done" THEN "stale" ELSE @]

NoPublication == [success |-> None, editions |-> {}, attempt |-> "none"]

(* Reset may only clear P1 while nothing was built on it. *)
DependentWork ==
    \/ approved
    \/ \E c \in ChunkIds : chunk[c].status # "pending" \/ \E n \in Passes : HasJob(c, n)
    \/ publication # NoPublication

-----------------------------------------------------------------------------

StoreInit ==
    /\ op = Idle
    /\ deaths = 0
    /\ p1 = [u \in UnitIds |-> NoUnit]
    /\ analysis_done = FALSE
    /\ pending = FALSE
    /\ choice = [t \in Terms |-> None]
    /\ approved = FALSE
    /\ receipt = None
    /\ review = None
    /\ lexicon = None
    /\ edits = 0
    /\ torn = FALSE
    /\ chunk = [c \in ChunkIds |-> NoChunk]
    /\ jobs = [c \in ChunkIds |-> [n \in Passes |-> {}]]
    /\ answers = {}
    /\ targets = 0
    /\ publication = NoPublication
    /\ epubs = <<>>

=============================================================================
