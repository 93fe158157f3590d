----------------------------- MODULE Workspace ------------------------------
(***************************************************************************)
(* One project through its life: analysis and its reset, review and       *)
(* approval, translation, reruns and publishing, one operation at a time   *)
(* under the project's lock, each of which may die between two durable     *)
(* steps.                                                                  *)
(***************************************************************************)
EXTENDS Analysis, Publishing

CONSTANT MaxDeaths

(* An operation dies, or fails and stops: the lock is released and what    *)
(* was committed stays.                                                    *)
Dies ==
    /\ op # Idle /\ deaths < MaxDeaths
    /\ op' = Idle
    /\ deaths' = deaths + 1
    /\ UNCHANGED <<analysisVars, approvalVars, translationVars, publishingVars>>

Next == AnalysisNext \/ ApprovalNext \/ TranslationNext \/ PublishingNext \/ Dies

Init == StoreInit

Spec == Init /\ [][Next]_vars

=============================================================================
