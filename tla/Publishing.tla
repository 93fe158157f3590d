----------------------------- MODULE Publishing -----------------------------
(***************************************************************************)
(* Publishing builds an EPUB from the finals of a finished translation     *)
(* under a name of its own, and then records it as the last success and    *)
(* one more edition.  A translation that completes the book publishes too, *)
(* after it has given the lock back: here a publication may begin whenever *)
(* the lock is free.                                                       *)
(***************************************************************************)
EXTENDS Translation

CONSTANT MaxEpubs

(* The publication's fingerprint digests the finals it is made from. *)
Texts == [c \in ChunkIds |-> chunk[c].final.value]

Publishable ==
    analysis_done /\ ApprovalCurrent /\ \A c \in ChunkIds : chunk[c].status = "done"

(* Faulty variant: the destination is named after the book alone. *)
NewFileByTitle == 1

(* Every build gets a new destination, also after an interrupted one. *)
NewFile == Cardinality(DOMAIN epubs) + 1

Valid(edition) == edition.file \in DOMAIN epubs /\ epubs[edition.file] = edition.texts
Reusable == /\ publication.success # None
            /\ publication.success.texts = Texts
            /\ Valid(publication.success)

PublishBegins ==
    /\ ScopeFree
    /\ NewFile <= MaxEpubs
    /\ op' = [kind |-> "publish", at |-> "build"]
    /\ UNCHANGED <<deaths, analysisVars, approvalVars, translationVars, publishingVars>>

Publishing(at) == op.kind = "publish" /\ op.at = at

PublishReuses ==
    /\ Publishing("build") /\ Publishable /\ Reusable
    /\ op' = Idle
    /\ UNCHANGED <<deaths, analysisVars, approvalVars, translationVars, publishingVars>>

BuildEpub ==
    /\ Publishing("build") /\ Publishable /\ ~ Reusable
    /\ epubs' = [f \in DOMAIN epubs \cup {NewFile} |-> IF f = NewFile THEN Texts ELSE epubs[f]]
    /\ op' = [kind |-> "publish", at |-> "record", file |-> NewFile]
    /\ UNCHANGED <<deaths, analysisVars, approvalVars, translationVars, publication>>

RecordEdition ==
    /\ Publishing("record")
    /\ LET success == [texts |-> Texts, file |-> op.file]
       IN publication' = [success |-> success, editions |-> publication.editions \cup {success},
                          attempt |-> "published"]
    /\ op' = Idle
    /\ UNCHANGED <<deaths, analysisVars, approvalVars, translationVars, epubs>>

(* A refused or failed attempt is recorded; the last success stays. *)
PublishFails ==
    /\ op.kind = "publish"
    /\ op.at = "build" => ~ Publishable
    /\ publication' = [publication EXCEPT !.attempt = "failed"]
    /\ op' = Idle
    /\ UNCHANGED <<deaths, analysisVars, approvalVars, translationVars, epubs>>

PublishingNext ==
    PublishBegins \/ PublishReuses \/ BuildEpub \/ RecordEdition \/ PublishFails

-----------------------------------------------------------------------------
(* Every edition ever recorded can still be read as it was recorded, after *)
(* later editions, failed ones and builds that died before their record.   *)
EditionsHold == \A edition \in publication.editions : Valid(edition)

=============================================================================
