------------------------------ MODULE Approval ------------------------------
(***************************************************************************)
(* The review draft is a file people edit under a revision check; approval *)
(* commits its choices to the store, which invalidates the chunks made     *)
(* with the old ones, and then writes the draft, the approved lexicon and  *)
(* last the receipt that makes the approval current.                       *)
(***************************************************************************)
EXTENDS ProjectStore

CONSTANT MaxEdits

Marks == {"new", "individual", "reopened"}  \* `reviewed' with its review_method

(* A review draft: a choice and a mark for each term, whether the choices *)
(* are confirmed, and the terms it was written from.                       *)
Drafts == [choice : [Terms -> Forms], mark : [Terms -> Marks],
           confirmed : BOOLEAN, revision : [Terms -> Forms \cup {None}]]

ASSUME DraftsAssumption == None \notin Drafts

(* Faulty variant: the draft on disk is not compared with the receipt. *)
ApprovalCurrentByFlag == approved

(* Whether translation and publishing may rely on the committed terms. *)
ApprovalCurrent ==
    /\ approved
    /\ IF review = None THEN receipt = None
       ELSE IF receipt # None THEN review = receipt
       ELSE review.confirmed /\ review.choice = choice

-----------------------------------------------------------------------------
(* Draft edits.  The web's repository takes the project's lock for one     *)
(* read, check and write; a stale revision is refused, so an edit is made  *)
(* to the draft the caller saw.                                            *)

Edit(draft) ==
    /\ op = Idle
    /\ review' = draft
    /\ UNCHANGED <<op, deaths, analysisVars, choice, approved, receipt, lexicon, torn,
                   translationVars, publishingVars>>

Counted == edits < MaxEdits /\ edits' = edits + 1

(* A patch may name a form, a mark, or both.  Another form without a mark *)
(* reopens the term; both withdraw the confirmation.                       *)
PatchTerm(t, form, mark) ==
    LET changed == form # review.choice[t]
        keeps == IF changed /\ review.mark[t] = "individual" THEN "reopened" ELSE review.mark[t]
    IN /\ Counted
       /\ Edit([review EXCEPT !.choice[t] = form,
                              !.mark[t] = IF mark = None THEN keeps ELSE mark,
                              !.confirmed = @ /\ ~ changed /\ mark # "reopened"])

AllReviewed == \A t \in Terms : review.mark[t] = "individual"

(* A confirmation follows the review it confirms and is not counted. *)
SetConfirmed(confirmed) ==
    /\ confirmed # review.confirmed
    /\ confirmed => AllReviewed
    /\ Edit([review EXCEPT !.confirmed = confirmed])
    /\ IF confirmed THEN UNCHANGED edits ELSE Counted

(* Opening a review session writes the draft anew when the terms changed. *)
OpenReview ==
    /\ ScopeFree /\ analysis_done
    /\ op' = [kind |-> "draft"]
    /\ UNCHANGED <<deaths, analysisVars, approvalVars, translationVars, publishingVars>>

-----------------------------------------------------------------------------
(* Approval.  `confirm' is the web's "confirm and approve", `defaults' the *)
(* command line's --accept-defaults.                                       *)

ApproveBegins(confirm, defaults) ==
    /\ ScopeFree /\ analysis_done /\ review # None
    /\ confirm => AllReviewed
    /\ review.revision = choice
    /\ defaults \/ confirm \/ review.confirmed
    /\ op' = [kind |-> "approve", at |-> "commit",
              draft |-> [review EXCEPT !.confirmed = @ \/ confirm]]
    /\ UNCHANGED <<deaths, analysisVars, approvalVars, translationVars, publishingVars>>

Approving(at) == op.kind = "approve" /\ op.at = at

ChangedTerms == {t \in Terms : choice[t] # None /\ choice[t] # op.draft.choice[t]}

(* A changed term invalidates every pass of the chunks that used it, in    *)
(* the transaction that changes it.                                        *)
Affected(c) == chunk[c].deps \cap ChangedTerms # {}

CommitApproval ==
    /\ Approving("commit")
    /\ choice' = op.draft.choice
    /\ approved' = TRUE
    /\ torn' = TRUE
    /\ chunk' = [c \in ChunkIds |-> IF Affected(c) THEN InvalidatePasses(chunk[c], 2)
                                    ELSE chunk[c]]
    /\ op' = [op EXCEPT !.at = "review"]
    /\ UNCHANGED <<deaths, analysisVars, receipt, review, lexicon, edits,
                   jobs, answers, targets, publishingVars>>

ApprovedDraft == [op.draft EXCEPT !.revision = choice, !.confirmed = TRUE]

WriteApprovedReview ==
    /\ Approving("review")
    /\ review' = ApprovedDraft
    /\ op' = [op EXCEPT !.at = "lexicon"]
    /\ UNCHANGED <<deaths, analysisVars, choice, approved, receipt, lexicon, edits, torn,
                   translationVars, publishingVars>>

WriteLexicon ==
    /\ Approving("lexicon")
    /\ lexicon' = choice
    /\ op' = [op EXCEPT !.at = "receipt"]
    /\ UNCHANGED <<deaths, analysisVars, choice, approved, receipt, review, edits, torn,
                   translationVars, publishingVars>>

SaveApprovalRevision ==
    /\ Approving("receipt")
    /\ receipt' = ApprovedDraft
    /\ torn' = FALSE
    /\ op' = Idle
    /\ UNCHANGED <<deaths, analysisVars, choice, approved, review, lexicon, edits,
                   translationVars, publishingVars>>

ApprovalNext ==
    \/ /\ review # None
       /\ \/ \E t \in Terms, form \in Forms, mark \in {None, "individual", "reopened"} :
                PatchTerm(t, form, mark)
          \/ \E confirmed \in BOOLEAN : SetConfirmed(confirmed)
    \/ OpenReview
    \/ \E confirm, defaults \in BOOLEAN : ApproveBegins(confirm, defaults)
    \/ CommitApproval \/ WriteApprovedReview \/ WriteLexicon \/ SaveApprovalRevision

-----------------------------------------------------------------------------
(* Properties.                                                             *)

Agreed == review # None /\ review.choice = choice /\ lexicon = choice

(* The comment of execute_approval: "Written last: a crash during approval *)
(* leaves freshness false, never false success."  The code breaks this.    *)
CurrentMeansAgreed == op = Idle /\ ApprovalCurrent => Agreed

(* Unless an approval died after its commit, an approval is current only   *)
(* when the draft people see, the store the translation reads and the      *)
(* exported lexicon name the same forms: an edit after the approval, a     *)
(* draft written anew or a second approval must each make it out of date,  *)
(* and a reset takes all three away together.                              *)
AgreedUnlessTorn == ~ torn => CurrentMeansAgreed

=============================================================================
