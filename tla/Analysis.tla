------------------------------ MODULE Analysis ------------------------------
(***************************************************************************)
(* P1: the units of the analysis plan are analysed in reading order, each  *)
(* from a frozen snapshot of what the earlier ones found, and the review   *)
(* draft is written when all are done.  The reset detaches all of it again *)
(* while nothing depends on it: it moves the files aside one by one, then  *)
(* clears the rows in one transaction.                                     *)
(***************************************************************************)
EXTENDS ProjectStore

Predecessors(u) == 1 .. (u - 1)

(* What a unit was given, and the accepted units it was taken from. *)
Frozen == [memory : SUBSET UnitIds, accepted : SUBSET UnitIds]

ASSUME FrozenAssumption == None \notin Frozen

(* Faulty variant: a unit may be analysed before the ones it builds on. *)
AnyUnit(u) == TRUE

(* One unit may be asked for by itself, after the ones before it. *)
EarlierUnitsSaved(u) == \A v \in Predecessors(u) : p1[v].receipt /\ p1[v].job

ResultIntact(u) == p1[u].file = "result"

(* Units with a receipt are skipped; a receipt whose result is gone stops  *)
(* the run.                                                                *)
FromUnit(u) == Min({v \in UnitIds : v >= u /\ ~ p1[v].receipt} \cup {Units + 1})

AnalyzeBegins ==
    /\ ScopeFree
    /\ \A u \in UnitIds : p1[u].receipt => ResultIntact(u)
    /\ op' = [kind |-> "analyze", unit |-> FromUnit(1), only |-> 0, ready |-> FALSE]
    /\ UNCHANGED <<deaths, analysisVars, approvalVars, translationVars, publishingVars>>

AnalyzeUnitBegins(u) ==
    /\ ScopeFree
    /\ ~ analysis_done /\ ~ p1[u].receipt
    /\ EarlierUnitsSaved(u)
    /\ op' = [kind |-> "analyze", unit |-> u, only |-> u, ready |-> FALSE]
    /\ UNCHANGED <<deaths, analysisVars, approvalVars, translationVars, publishingVars>>

Analyzing(u) == op.kind = "analyze" /\ op.unit = u /\ u \in UnitIds
Open(u) == Analyzing(u) /\ ~ op.ready
Ready(u) == Analyzing(u) /\ op.ready

NextUnit == [op EXCEPT !.unit = IF op.only = 0 THEN FromUnit(@ + 1) ELSE Units + 1, !.ready = FALSE]

UnitStep(u, row) ==
    /\ p1' = [p1 EXCEPT ![u] = row]
    /\ UNCHANGED <<op, deaths, analysis_done, pending,
                   approvalVars, translationVars, publishingVars>>

AcceptedBefore(u) == {v \in Predecessors(u) : p1[v].receipt}

(* The snapshot and its provenance are written before the provider is     *)
(* asked ...                                                               *)
FreezeInputs(u) ==
    /\ Open(u) /\ p1[u].frozen = None
    /\ p1' = [p1 EXCEPT ![u].frozen = [memory |-> MergedUnits, accepted |-> AcceptedBefore(u)]]
    /\ op' = [op EXCEPT !.ready = TRUE]
    /\ UNCHANGED <<deaths, analysis_done, pending,
                   approvalVars, translationVars, publishingVars>>

(* ... and read back by every later attempt at the unit, which is refused *)
(* when the accepted predecessors are others by then.                      *)
ReuseInputs(u) ==
    /\ Open(u) /\ p1[u].frozen # None
    /\ op' = IF p1[u].frozen.accepted = AcceptedBefore(u)
             THEN [op EXCEPT !.ready = TRUE] ELSE Idle
    /\ UNCHANGED <<deaths, analysisVars, approvalVars, translationVars, publishingVars>>

AskP1(u) ==
    /\ Ready(u) /\ ~ p1[u].job /\ p1[u].file = "none"
    /\ UnitStep(u, [p1[u] EXCEPT !.file = "answer"])

(* An answer already on disk is recovered without asking again. *)
SaveP1(u) ==
    /\ Ready(u) /\ ~ p1[u].job /\ p1[u].file # "none"
    /\ UnitStep(u, [p1[u] EXCEPT !.file = "result", !.job = TRUE])

MergeAnalysis(u) ==
    /\ Ready(u) /\ ~ p1[u].merged /\ p1[u].job /\ ResultIntact(u)
    /\ UnitStep(u, [p1[u] EXCEPT !.merged = TRUE])

SaveReceipt(u) ==
    /\ Ready(u) /\ p1[u].merged /\ p1[u].job /\ ResultIntact(u)
    /\ p1' = [p1 EXCEPT ![u].receipt = TRUE]
    /\ op' = NextUnit
    /\ UNCHANGED <<deaths, analysis_done, pending,
                   approvalVars, translationVars, publishingVars>>

AllUnitsSaved == \A u \in UnitIds : p1[u].receipt

(* A run of one unit ends there while others are left. *)
UnitRunEnds ==
    /\ op.kind = "analyze" /\ op.unit = Units + 1 /\ ~ AllUnitsSaved
    /\ op' = Idle
    /\ UNCHANGED <<deaths, analysisVars, approvalVars, translationVars, publishingVars>>

FinishAnalysis ==
    /\ op.kind = "analyze" /\ op.unit = Units + 1 /\ AllUnitsSaved
    /\ analysis_done' = TRUE
    /\ op' = [kind |-> "draft"]
    /\ UNCHANGED <<deaths, p1, pending, approvalVars, translationVars, publishingVars>>

(* The draft is kept while it belongs to the store's terms, so that no    *)
(* edit is lost, and is written anew from the choices otherwise.          *)
ReviewDraft ==
    IF review # None /\ review.revision = choice THEN review
    ELSE [choice |-> [t \in Terms |-> IF choice[t] = None THEN Default ELSE choice[t]],
          mark |-> [t \in Terms |-> "new"], confirmed |-> FALSE, revision |-> choice]

WriteReview ==
    /\ op.kind = "draft"
    /\ review' = ReviewDraft
    /\ op' = Idle
    /\ UNCHANGED <<deaths, analysisVars, choice, approved, receipt, lexicon, edits, torn,
                   translationVars, publishingVars>>

-----------------------------------------------------------------------------
(* The reset.  `shelf' is what it has moved so far, to be moved back when  *)
(* it fails before the commit; when it dies, nothing moves it back.        *)

HasP1Data == analysis_done \/ review # None \/ \E u \in UnitIds : p1[u] # NoUnit

ResetBegins ==
    /\ ScopeFree
    /\ ~ DependentWork /\ HasP1Data
    /\ pending' = TRUE
    /\ op' = [kind |-> "reset", at |-> "inputs",
              shelf |-> [p1 |-> p1, review |-> review]]
    /\ UNCHANGED <<deaths, p1, analysis_done, approvalVars, translationVars, publishingVars>>

Resetting(at) == op.kind = "reset" /\ op.at = at

ResetMovesInputs ==
    /\ Resetting("inputs")
    /\ p1' = [u \in UnitIds |-> [p1[u] EXCEPT !.frozen = None]]
    /\ op' = [op EXCEPT !.at = "review"]
    /\ UNCHANGED <<deaths, analysis_done, pending, approvalVars, translationVars, publishingVars>>

ResetMovesReview ==
    /\ Resetting("review")
    /\ review' = None
    /\ lexicon' = None
    /\ op' = [op EXCEPT !.at = "artifacts"]
    /\ UNCHANGED <<deaths, analysisVars, choice, approved, receipt, edits, torn,
                   translationVars, publishingVars>>

ResetMovesArtifacts ==
    /\ Resetting("artifacts")
    /\ p1' = [u \in UnitIds |-> [p1[u] EXCEPT !.file = "none"]]
    /\ op' = [op EXCEPT !.at = "clear"]
    /\ UNCHANGED <<deaths, analysis_done, pending, approvalVars, translationVars, publishingVars>>

ClearP1 ==
    /\ Resetting("clear")
    /\ p1' = [u \in UnitIds |-> [p1[u] EXCEPT !.job = FALSE, !.merged = FALSE, !.receipt = FALSE]]
    /\ choice' = [t \in Terms |-> None]
    /\ analysis_done' = FALSE
    /\ approved' = FALSE
    /\ receipt' = None
    /\ op' = [op EXCEPT !.at = "complete"]
    /\ UNCHANGED <<deaths, pending, review, lexicon, edits, torn, translationVars, publishingVars>>

ResetCompletes ==
    /\ Resetting("complete")
    /\ pending' = FALSE
    /\ op' = Idle
    /\ UNCHANGED <<deaths, p1, analysis_done, approvalVars, translationVars, publishingVars>>

(* A failure before the commit moves the files back.  pending.json stays. *)
ResetFails ==
    /\ op.kind = "reset" /\ op.at # "complete"
    /\ p1' = op.shelf.p1
    /\ review' = op.shelf.review
    /\ op' = Idle
    /\ UNCHANGED <<deaths, analysis_done, pending, choice, approved, receipt, lexicon, edits, torn,
                   translationVars, publishingVars>>

AnalysisNext ==
    \/ AnalyzeBegins
    \/ \E u \in UnitIds :
          \/ AnalyzeUnitBegins(u) \/ FreezeInputs(u) \/ ReuseInputs(u)
          \/ AskP1(u) \/ SaveP1(u) \/ MergeAnalysis(u) \/ SaveReceipt(u)
    \/ UnitRunEnds \/ FinishAnalysis \/ WriteReview
    \/ ResetBegins \/ ResetMovesInputs \/ ResetMovesReview \/ ResetMovesArtifacts
    \/ ClearP1 \/ ResetCompletes \/ ResetFails

-----------------------------------------------------------------------------
(* Properties.                                                             *)

(* No operation but the reset itself ever works on a half-reset project:   *)
(* what the rows say was analysed has its files, and no snapshot of an     *)
(* earlier analysis is left without the rows it was taken from, whatever   *)
(* step the reset died at (the moves and the clearing are separate steps). *)
ResetIsWhole ==
    op.kind \notin {"idle", "reset"} =>
        \A u \in UnitIds :
            /\ p1[u].job => p1[u].file = "result" /\ p1[u].frozen # None
            /\ p1[u].frozen # None => \A v \in Predecessors(u) : p1[v].receipt

(* An accepted unit was analysed with the findings of exactly the units    *)
(* before it, across crashes, single-unit runs and resets: a snapshot      *)
(* frozen too early would be reused for ever.                              *)
UnitsReadPredecessors ==
    \A u \in UnitIds : p1[u].receipt /\ p1[u].frozen # None => p1[u].frozen.memory = Predecessors(u)

=============================================================================
