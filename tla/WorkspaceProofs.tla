--------------------------- MODULE WorkspaceProofs ---------------------------
(***************************************************************************)
(* Theorems about the module Workspace, for every number of units, chunks, *)
(* terms and editions, and however often an operation dies.                *)
(***************************************************************************)
EXTENDS Workspace, FiniteSetTheorems, WellFoundedInduction, TLAPS

UnitRow == [frozen : Frozen \cup {None}, file : {"none", "answer", "result"},
            job : BOOLEAN, merged : BOOLEAN, receipt : BOOLEAN]

\* The operation that holds the lock, with the fields of its kind.
OpInv ==
  /\ op.kind \in {"idle", "analyze", "draft", "reset", "approve", "translate", "target", "publish"}
  /\ op.kind = "idle" => op = Idle
  /\ op.kind = "analyze" =>
        /\ op = [kind |-> "analyze", unit |-> op.unit, only |-> op.only, ready |-> op.ready]
        /\ op.unit \in 1 .. Units + 1 /\ op.ready \in BOOLEAN
  /\ op.kind = "reset" =>
        /\ op = [kind |-> "reset", at |-> op.at, shelf |-> op.shelf]
        /\ op.at \in {"inputs", "review", "artifacts", "clear", "complete"}
  /\ op.kind = "approve" =>
        /\ op = [kind |-> "approve", at |-> op.at, draft |-> op.draft]
        /\ op.at \in {"commit", "review", "lexicon", "receipt"}
  /\ op.kind \in {"translate", "target"} => "kind" \in DOMAIN op
  /\ op.kind = "publish" => op.at \in {"build", "record"}

\* No unit is further than its files, and none than the receipts of the units before it.
Whole(P) == \A u \in UnitIds :
  /\ P[u].receipt => P[u].merged
  /\ P[u].merged => P[u].job
  /\ P[u].job => P[u].file = "result" /\ P[u].frozen # None
  /\ P[u].frozen # None => \A v \in Predecessors(u) : P[v].receipt

\* The snapshot of a unit has the findings of the units before it, and no others.
Read(P) == \A u \in UnitIds : P[u].frozen # None => P[u].frozen.memory = Predecessors(u)

UnitInv ==
  /\ p1 \in [UnitIds -> UnitRow] /\ Read(p1)
  /\ ~pending => Whole(p1)
  /\ op.kind \notin {"idle", "reset"} => ~pending
  /\ op.kind = "analyze" /\ op.unit \in UnitIds =>
        /\ ~p1[op.unit].receipt
        /\ \A v \in Predecessors(op.unit) : p1[v].receipt
        /\ op.ready => p1[op.unit].frozen # None

\* How far a reset has come.
ResetInv == op.kind = "reset" =>
  /\ pending /\ ~approved
  /\ op.shelf.p1 \in [UnitIds -> UnitRow] /\ Read(op.shelf.p1)
  /\ op.shelf.review \in Drafts \cup {None}
  /\ op.at # "inputs" => \A u \in UnitIds : p1[u].frozen = None
  /\ op.at \in {"clear", "complete"} => \A u \in UnitIds : p1[u].file = "none"
  /\ op.at = "complete" => \A u \in UnitIds : ~p1[u].job /\ ~p1[u].merged /\ ~p1[u].receipt

\* The draft, the terms table, the lexicon and the receipt of an approval.
ApprovalInv ==
  /\ choice \in [Terms -> Forms \cup {None}]
  /\ review \in Drafts \cup {None}
  /\ approved /\ ~torn => receipt \in Drafts /\ receipt.choice = choice /\ lexicon = choice
  /\ op.kind = "approve" =>
        /\ op.draft \in Drafts
        /\ op.at # "commit" => approved /\ torn /\ op.draft.choice = choice
        /\ op.at = "receipt" => lexicon = choice

\* The files under published/ are numbered, and one that is being recorded has the texts.
EditionInv ==
  /\ \E n \in Nat : DOMAIN epubs = 1 .. n
  /\ EditionsHold
  /\ op.kind = "publish" /\ op.at = "record" =>
        op.file \in DOMAIN epubs /\ epubs[op.file] = Texts

WInv == OpInv /\ UnitInv /\ ResetInv /\ ApprovalInv /\ EditionInv

-----------------------------------------------------------------------------
(* The next unit of an analysis *)

LEMMA MinIsLeast ==
  ASSUME NEW S \in SUBSET Nat, S # {}
  PROVE  Min(S) \in S /\ \A y \in S : Min(S) <= y
  <1> DEFINE R == {ss \in Nat \X Nat : ss[1] < ss[2]}
  <1>1. IsWellFoundedOn(R, Nat)
    <2>1. R = OpToRel(<, Nat)
      BY Zenon DEF OpToRel
    <2> QED BY <2>1, NatLessThanWellFounded
  <1>2. PICK x \in S : \A y \in S : ~ (<<y, x>> \in R)
    BY <1>1, WFMin
  <1>3. \A y \in S : x <= y
    <2> SUFFICES ASSUME NEW y \in S PROVE x <= y
      OBVIOUS
    <2>1. <<y, x>> \in Nat \X Nat /\ x \in Nat /\ y \in Nat
      OBVIOUS
    <2> QED BY <1>2, <2>1
  <1> QED BY <1>3 DEF Min

LEMMA NextUnitIsOpen ==
  ASSUME NEW u \in Nat
  PROVE  /\ FromUnit(u) \in UnitIds \cup {Units + 1}
         /\ FromUnit(u) \in UnitIds => ~p1[FromUnit(u)].receipt
         /\ \A v \in UnitIds : v >= u /\ v < FromUnit(u) => p1[v].receipt
  <1> DEFINE S == {v \in UnitIds : v >= u /\ ~ p1[v].receipt} \cup {Units + 1}
  <1>1. Units \in Nat \ {0}
    BY StoreAssumption
  <1>2. S \in SUBSET Nat /\ S # {} /\ Min(S) = FromUnit(u) /\ Units + 1 \notin UnitIds
    BY <1>1 DEF UnitIds, FromUnit
  <1>3. FromUnit(u) \in S /\ \A y \in S : FromUnit(u) <= y
    BY <1>2, MinIsLeast
  <1>4. ASSUME NEW v \in UnitIds, v >= u, v < FromUnit(u)
        PROVE  p1[v].receipt
    <2>1. v \notin S
      BY <1>2, <1>3, <1>4 DEF UnitIds
    <2> QED BY <1>4, <2>1
  <1> QED BY <1>2, <1>3, <1>4

-----------------------------------------------------------------------------
(* Operations that touch neither units, nor the approval, nor editions *)

\* An operation that begins, goes on or ends without touching any of these.
Harmless(o) ==
  \/ o = Idle
  \/ /\ ~pending
     /\ \/ o = [kind |-> "draft"]
        \/ o.kind \in {"translate", "target"} /\ "kind" \in DOMAIN o
        \/ o = [kind |-> "publish", at |-> "build"]

LEMMA OtherKeeps ==
  ASSUME WInv, UNCHANGED <<analysisVars, approvalVars, epubs>>, Harmless(op'),
         publication'.editions = publication.editions
  PROVE  WInv'
  <1>1. OpInv'
    BY DEF Harmless, OpInv, Idle
  <1>2. UnitInv'
    BY DEF Harmless, Idle, WInv, UnitInv, analysisVars, Whole, Read
  <1>3. ResetInv' /\ ApprovalInv'
    BY DEF Harmless, Idle, WInv, ResetInv, ApprovalInv, approvalVars
  <1>4. EditionInv'
    BY DEF Harmless, Idle, WInv, EditionInv, EditionsHold, Valid
  <1> QED BY <1>1, <1>2, <1>3, <1>4 DEF WInv

LEMMA TranslationKeeps ==
  ASSUME WInv, TranslationNext
  PROVE  WInv'
  <1>1. UNCHANGED <<analysisVars, approvalVars, epubs, publication>>
    BY DEF TranslationNext, TranslateBegins, TargetBegins, UseSavedResult, TargetLacksInput,
       RecoverAnswer, AskProvider, SaveJob, RecordGenerated, FinishChunk, AcceptTargetPass,
       publishingVars, translationVars
  <1>2. ASSUME NEW limit \in Limits, TranslateBegins(limit) PROVE Harmless(op')
    <2>1. PICK todo, room : op' = [kind |-> "translate", todo |-> todo, limit |-> limit, room |-> room,
                                   pass |-> 2, job |-> None, saved |-> FALSE]
      BY <1>2, Zenon DEF TranslateBegins
    <2> QED BY <1>2, <2>1 DEF TranslateBegins, ScopeFree, Harmless
  <1>3. ASSUME NEW c \in ChunkIds, NEW n \in Targets, NEW rerun \in BOOLEAN, TargetBegins(c, n, rerun)
        PROVE  Harmless(op')
    BY <1>3 DEF TargetBegins, ScopeFree, Harmless
  <1>4. ASSUME \/ UseSavedResult \/ TargetLacksInput \/ RecoverAnswer \/ AskProvider
               \/ SaveJob \/ RecordGenerated \/ FinishChunk \/ AcceptTargetPass
        PROVE  Harmless(op')
    <2>1. op.kind \in {"translate", "target"} /\ "kind" \in DOMAIN op /\ ~pending
      BY <1>4 DEF UseSavedResult, TargetLacksInput, RecoverAnswer, AskProvider, MayGenerate,
         SaveJob, RecordGenerated, FinishChunk, AcceptTargetPass, Asking, Running, WInv, OpInv,
         UnitInv
    <2>2. op' = Idle \/ (op'.kind = op.kind /\ DOMAIN op' = DOMAIN op)
      <3>1. CASE UseSavedResult
        <4>1. PICK job : op' = IF AtTarget THEN [op EXCEPT !.job = job, !.saved = TRUE] ELSE AfterPass
          BY <3>1, Zenon DEF UseSavedResult
        <4> QED BY <2>1, <4>1 DEF AfterPass
      <3>2. CASE TargetLacksInput
        BY <3>2 DEF TargetLacksInput
      <3>3. CASE RecoverAnswer
        <4>1. PICK job : op' = [op EXCEPT !.job = job]
          BY <3>3, Zenon DEF RecoverAnswer
        <4> QED BY <2>1, <4>1
      <3>4. CASE AskProvider
        <4>1. PICK job : op' = [op EXCEPT !.job = job]
          BY <3>4, Zenon DEF AskProvider
        <4> QED BY <2>1, <4>1
      <3>5. CASE SaveJob
        BY <3>5 DEF SaveJob
      <3>6. CASE RecordGenerated
        <4>1. op' = IF AtTarget THEN [op EXCEPT !.saved = TRUE] ELSE AfterPass
          BY <3>6 DEF RecordGenerated
        <4> QED BY <2>1, <4>1 DEF AfterPass
      <3>7. CASE FinishChunk
        <4>1. PICK todo, room : op' = IF todo = {} THEN Idle
                   ELSE [op EXCEPT !.todo = todo, !.pass = 2, !.job = None, !.saved = FALSE,
                                   !.room = room]
          BY <3>7, Zenon DEF FinishChunk
        <4> QED BY <2>1, <4>1
      <3>8. CASE AcceptTargetPass
        BY <3>8 DEF AcceptTargetPass
      <3> QED BY <1>4, <3>1, <3>2, <3>3, <3>4, <3>5, <3>6, <3>7, <3>8
    <2> QED BY <2>1, <2>2 DEF Harmless
  <1>5. Harmless(op')
    BY <1>2, <1>3, <1>4 DEF TranslationNext
  <1> QED BY <1>1, <1>5, OtherKeeps

LEMMA EndsKeep ==
  ASSUME WInv, UNCHANGED vars \/ Dies \/ UnitRunEnds \/ OpenReview \/ PublishBegins \/ PublishReuses
  PROVE  WInv'
  <1>1. CASE UNCHANGED vars
    <2>1. UNCHANGED <<op, analysisVars, approvalVars, translationVars, publishingVars>>
      BY <1>1 DEF vars
    <2> QED BY <2>1 DEF WInv, OpInv, UnitInv, Whole, Read, ResetInv, ApprovalInv, EditionInv,
            EditionsHold, Valid, Texts, analysisVars, approvalVars, translationVars, publishingVars
  <1>2. CASE Dies \/ UnitRunEnds \/ OpenReview \/ PublishBegins \/ PublishReuses
    <2>1. Harmless(op')
      BY <1>2 DEF Dies, UnitRunEnds, OpenReview, PublishBegins, PublishReuses, ScopeFree, Harmless
    <2>2. UNCHANGED <<analysisVars, approvalVars, epubs>> /\ publication' = publication
      BY <1>2 DEF Dies, UnitRunEnds, OpenReview, PublishBegins, PublishReuses, publishingVars
    <2> QED BY <2>1, <2>2, OtherKeeps
  <1> QED BY <1>1, <1>2

-----------------------------------------------------------------------------
(* The analysis *)

\* A step of the analysis of P1 units touches nothing else.
LEMMA UnitsOnly ==
  ASSUME WInv, UNCHANGED <<approvalVars, translationVars, publishingVars, pending>>, ~pending,
         op'.kind \in {"analyze", "draft"}, OpInv', UnitInv'
  PROVE  WInv'
  <1>1. ResetInv' /\ ApprovalInv'
    BY DEF WInv, ResetInv, ApprovalInv, approvalVars
  <1>2. EditionInv'
    BY DEF WInv, EditionInv, EditionsHold, Valid, publishingVars
  <1> QED BY <1>1, <1>2 DEF WInv

LEMMA AnalyzeBeginsKeeps ==
  ASSUME WInv, AnalyzeBegins \/ \E u \in UnitIds : AnalyzeUnitBegins(u)
  PROVE  WInv'
  <1>1. /\ ~pending /\ \E unit, only : op' = [kind |-> "analyze", unit |-> unit, only |-> only, ready |-> FALSE]
        /\ UNCHANGED <<analysisVars, approvalVars, translationVars, publishingVars>>
    BY DEF AnalyzeBegins, AnalyzeUnitBegins, ScopeFree
  <1>2. /\ op'.unit \in UnitIds \cup {Units + 1}
        /\ op'.unit \in UnitIds => /\ ~p1[op'.unit].receipt
                                   /\ \A v \in Predecessors(op'.unit) : p1[v].receipt
    <2>1. CASE AnalyzeBegins
      <3>1. op'.unit = FromUnit(1)
        BY <2>1 DEF AnalyzeBegins
      <3>2. \A v \in Predecessors(FromUnit(1)) : FromUnit(1) \in UnitIds => v \in UnitIds /\ v >= 1 /\ v < FromUnit(1)
        BY StoreAssumption DEF Predecessors, UnitIds
      <3> QED BY <3>1, <3>2, NextUnitIsOpen
    <2>2. CASE \E u \in UnitIds : AnalyzeUnitBegins(u)
      BY <2>2 DEF AnalyzeUnitBegins, EarlierUnitsSaved
    <2> QED BY <2>1, <2>2
  <1>3. OpInv'
    <2>1. UnitIds \cup {Units + 1} = 1 .. Units + 1
      BY StoreAssumption DEF UnitIds
    <2>2. PICK unit, only : op' = [kind |-> "analyze", unit |-> unit, only |-> only, ready |-> FALSE]
      BY <1>1
    <2>3. op'.unit \in 1 .. Units + 1 /\ op'.unit = unit
      BY <1>2, <2>1, <2>2
    <2> QED BY <2>2, <2>3 DEF OpInv
  <1>4. UnitInv'
    BY <1>1, <1>2 DEF WInv, UnitInv, Whole, Read, analysisVars
  <1> QED BY <1>1, <1>3, <1>4, UnitsOnly DEF analysisVars

\* The unit that is being analysed, before and after a step that changes its row.
LEMMA RowChanges ==
  ASSUME WInv, NEW u \in UnitIds, Analyzing(u), NEW row \in UnitRow,
         p1' = [p1 EXCEPT ![u] = row], UNCHANGED <<pending, approvalVars, translationVars, publishingVars>>,
         p1[u].receipt => row.receipt,
         row.receipt => row.merged, row.merged => row.job,
         row.job => row.file = "result" /\ row.frozen # None,
         row.frozen = p1[u].frozen \/ row.frozen.memory = Predecessors(u),
         op' = [kind |-> "draft"] \/ (op'.kind = "analyze" /\ OpInv'),
         op'.kind = "analyze" /\ op'.unit \in UnitIds =>
            /\ ~p1'[op'.unit].receipt
            /\ \A v \in Predecessors(op'.unit) : p1'[v].receipt
            /\ op'.ready => p1'[op'.unit].frozen # None
  PROVE  WInv'
  <1>1. /\ op.kind = "analyze" /\ op.unit = u /\ ~pending /\ Whole(p1) /\ p1 \in [UnitIds -> UnitRow]
        /\ Read(p1) /\ (\A v \in Predecessors(u) : p1[v].receipt)
    BY DEF Analyzing, WInv, UnitInv
  <1>2. /\ p1' \in [UnitIds -> UnitRow] /\ p1'[u] = row
        /\ \A v \in UnitIds : v # u => p1'[v] = p1[v]
    BY <1>1
  <1>3. Read(p1')
    BY <1>1, <1>2 DEF Read
  <1>4. Whole(p1')
    <2>1. \A v \in UnitIds : p1[v].receipt => p1'[v].receipt
      BY <1>2
    <2>2. \A v \in UnitIds : \A w \in Predecessors(v) : w \in UnitIds
      BY StoreAssumption DEF Predecessors, UnitIds
    <2>3. ASSUME NEW v \in UnitIds, v # u
          PROVE  /\ p1'[v].receipt => p1'[v].merged
                 /\ p1'[v].merged => p1'[v].job
                 /\ p1'[v].job => p1'[v].file = "result" /\ p1'[v].frozen # None
                 /\ p1'[v].frozen # None => \A w \in Predecessors(v) : p1'[w].receipt
      BY <1>1, <1>2, <2>1, <2>2, <2>3 DEF Whole
    <2>4. /\ p1'[u].receipt => p1'[u].merged
          /\ p1'[u].merged => p1'[u].job
          /\ p1'[u].job => p1'[u].file = "result" /\ p1'[u].frozen # None
          /\ \A w \in Predecessors(u) : p1'[w].receipt
      BY <1>1, <1>2, <2>1, <2>2
    <2> QED BY <2>3, <2>4 DEF Whole
  <1>5. OpInv' /\ op'.kind \in {"analyze", "draft"}
    BY DEF OpInv
  <1>6. UnitInv'
    BY <1>1, <1>2, <1>3, <1>4 DEF UnitInv
  <1> QED BY <1>1, <1>5, <1>6, UnitsOnly

LEMMA RowIsOpen ==
  ASSUME WInv, NEW u \in UnitIds, Analyzing(u)
  PROVE  /\ p1 \in [UnitIds -> UnitRow] /\ p1[u] \in UnitRow /\ ~p1[u].receipt /\ ~pending
         /\ \A v \in Predecessors(u) : p1[v].receipt /\ v \in UnitIds
         /\ op.ready => p1[u].frozen # None
         /\ \E only, ready : op = [kind |-> "analyze", unit |-> u, only |-> only, ready |-> ready]
         /\ (p1[u].merged => p1[u].job)
         /\ (p1[u].job => p1[u].file = "result" /\ p1[u].frozen # None)
         /\ Whole(p1)
  <1>1. \A v \in Predecessors(u) : v \in UnitIds
    BY StoreAssumption DEF Predecessors, UnitIds
  <1> QED BY <1>1 DEF WInv, UnitInv, OpInv, Analyzing, Whole

\* What is frozen for a unit is what the units before it found.
LEMMA MemoryIsEarlier ==
  ASSUME WInv, NEW u \in UnitIds, Analyzing(u), p1[u].frozen = None
  PROVE  MergedUnits = Predecessors(u)
  <1>1. /\ Whole(p1) /\ ~p1[u].receipt
        /\ \A v \in Predecessors(u) : p1[v].receipt /\ v \in UnitIds
    BY RowIsOpen
  <1>2. \A v \in Predecessors(u) : v \in MergedUnits
    BY <1>1 DEF Whole, MergedUnits
  <1>3. ASSUME NEW v \in MergedUnits PROVE v \in Predecessors(u)
    <2>1. v \in UnitIds /\ p1[v].frozen # None
      BY <1>1 DEF Whole, MergedUnits
    <2>2. u \notin Predecessors(v) /\ u # v
      BY <1>1, <2>1 DEF Whole
    <2> QED BY <2>1, <2>2, StoreAssumption DEF Predecessors, UnitIds
  <1> QED BY <1>2, <1>3

LEMMA FreezeKeeps ==
  ASSUME WInv, NEW u \in UnitIds, FreezeInputs(u)
  PROVE  WInv'
  <1> DEFINE snap == [memory |-> MergedUnits, accepted |-> AcceptedBefore(u)]
             row == [p1[u] EXCEPT !.frozen = snap]
  <1>1. /\ Analyzing(u) /\ p1[u].frozen = None /\ p1' = [p1 EXCEPT ![u] = row]
        /\ op' = [op EXCEPT !.ready = TRUE]
        /\ UNCHANGED <<pending, approvalVars, translationVars, publishingVars>>
    BY DEF FreezeInputs, Open
  <1>2. /\ p1 \in [UnitIds -> UnitRow] /\ p1[u] \in UnitRow /\ ~p1[u].receipt
        /\ \A v \in Predecessors(u) : p1[v].receipt /\ v \in UnitIds
        /\ \E only, ready : op = [kind |-> "analyze", unit |-> u, only |-> only, ready |-> ready]
        /\ ~p1[u].job /\ ~p1[u].merged
    BY <1>1, RowIsOpen
  <1>3. snap \in Frozen /\ snap.memory = Predecessors(u) /\ snap # None
    BY <1>1, <1>2, MemoryIsEarlier, FrozenAssumption DEF Frozen, MergedUnits, AcceptedBefore
  <1>4. row \in UnitRow /\ row.frozen = snap /\ ~row.receipt /\ ~row.job /\ ~row.merged
    BY <1>2, <1>3 DEF UnitRow
  <1> HIDE DEF row, snap
  <1>5. PICK only : op' = [kind |-> "analyze", unit |-> u, only |-> only, ready |-> TRUE]
    <2>1. PICK only, ready : op = [kind |-> "analyze", unit |-> u, only |-> only, ready |-> ready]
      BY <1>2, RowIsOpen
    <2> QED BY <1>1, <2>1
  <1>6. OpInv' /\ op'.kind = "analyze" /\ op'.unit = u
    BY <1>5, StoreAssumption DEF OpInv, UnitIds
  <1>7. /\ p1'[u] = row /\ \A v \in Predecessors(u) : p1'[v].receipt
    BY <1>1, <1>2
  <1> QED BY <1>1, <1>2, <1>3, <1>4, <1>6, <1>7, RowChanges

LEMMA ReuseKeeps ==
  ASSUME WInv, NEW u \in UnitIds, ReuseInputs(u)
  PROVE  WInv'
  <1>1. /\ Analyzing(u) /\ p1[u].frozen # None
        /\ op' = [op EXCEPT !.ready = TRUE] \/ op' = Idle
        /\ UNCHANGED <<analysisVars, approvalVars, translationVars, publishingVars>>
    BY DEF ReuseInputs, Open
  <1>2. CASE op' = Idle
    BY <1>1, <1>2, OtherKeeps DEF Harmless, publishingVars
  <1>3. CASE op' = [op EXCEPT !.ready = TRUE]
    <2>1. PICK only : op' = [kind |-> "analyze", unit |-> u, only |-> only, ready |-> TRUE]
      <3>1. PICK only, ready : op = [kind |-> "analyze", unit |-> u, only |-> only, ready |-> ready]
        BY <1>1, RowIsOpen
      <3> QED BY <1>3, <3>1
    <2>2. OpInv'
      BY <2>1, StoreAssumption DEF OpInv, UnitIds
    <2>3. UnitInv'
      BY <1>1, <2>1, RowIsOpen DEF WInv, UnitInv, Whole, Read, analysisVars
    <2> QED BY <1>1, <2>1, <2>2, <2>3, RowIsOpen, UnitsOnly DEF analysisVars
  <1> QED BY <1>1, <1>2, <1>3

LEMMA UnitStepKeeps ==
  ASSUME WInv, NEW u \in UnitIds, AskP1(u) \/ SaveP1(u) \/ MergeAnalysis(u)
  PROVE  WInv'
  <1>1. Analyzing(u) /\ op.ready
    BY DEF AskP1, SaveP1, MergeAnalysis, Ready
  <1>2. /\ p1 \in [UnitIds -> UnitRow] /\ p1[u] \in UnitRow /\ ~p1[u].receipt
        /\ \A v \in Predecessors(u) : p1[v].receipt /\ v \in UnitIds /\ v # u
        /\ p1[u].frozen # None /\ OpInv
        /\ (p1[u].merged => p1[u].job)
        /\ (p1[u].job => p1[u].file = "result")
    <2>1. u \notin Predecessors(u)
      BY StoreAssumption DEF Predecessors, UnitIds
    <2> QED BY <1>1, <2>1, RowIsOpen DEF WInv
  <1>3. PICK row \in UnitRow :
           /\ UnitStep(u, row) /\ row.receipt = p1[u].receipt /\ row.frozen = p1[u].frozen
           /\ row.merged => row.job
           /\ row.job => row.file = "result"
    <2>1. CASE AskP1(u)
      BY <1>2, <2>1 DEF AskP1, UnitRow
    <2>2. CASE SaveP1(u)
      <3> DEFINE row == [p1[u] EXCEPT !.file = "result", !.job = TRUE]
      <3>1. /\ row \in UnitRow /\ row.receipt = p1[u].receipt /\ row.frozen = p1[u].frozen
            /\ row.job /\ row.file = "result"
        BY <1>2 DEF UnitRow
      <3>2. UnitStep(u, row)
        BY <2>2 DEF SaveP1
      <3> HIDE DEF row
      <3> QED BY <3>1, <3>2
    <2>3. CASE MergeAnalysis(u)
      <3> DEFINE row == [p1[u] EXCEPT !.merged = TRUE]
      <3>1. /\ row \in UnitRow /\ row.receipt = p1[u].receipt /\ row.frozen = p1[u].frozen
            /\ row.job = p1[u].job /\ row.file = p1[u].file
        BY <1>2 DEF UnitRow
      <3>2. UnitStep(u, row) /\ p1[u].job
        BY <2>3 DEF MergeAnalysis
      <3> HIDE DEF row
      <3> QED BY <1>2, <3>1, <3>2
    <2> QED BY <2>1, <2>2, <2>3
  <1>4. /\ p1' = [p1 EXCEPT ![u] = row] /\ op' = op
        /\ UNCHANGED <<pending, approvalVars, translationVars, publishingVars>>
    BY <1>3 DEF UnitStep
  <1>5. OpInv' /\ op'.kind = "analyze" /\ op'.unit = u
    BY <1>1, <1>2, <1>4 DEF OpInv, Analyzing
  <1>6. p1'[u] = row /\ \A v \in Predecessors(u) : p1'[v].receipt
    BY <1>2, <1>4
  <1> QED BY <1>1, <1>2, <1>3, <1>4, <1>5, <1>6, RowChanges

LEMMA SaveReceiptKeeps ==
  ASSUME WInv, NEW u \in UnitIds, SaveReceipt(u)
  PROVE  WInv'
  <1> DEFINE row == [p1[u] EXCEPT !.receipt = TRUE]
  <1>1. /\ Analyzing(u) /\ op.ready /\ p1[u].merged /\ p1[u].job
        /\ op' = NextUnit /\ UNCHANGED <<pending, approvalVars, translationVars, publishingVars>>
    BY DEF SaveReceipt, Ready
  <1>2. /\ p1 \in [UnitIds -> UnitRow] /\ p1[u] \in UnitRow
        /\ \A v \in Predecessors(u) : p1[v].receipt /\ v \in UnitIds
        /\ \E only, ready : op = [kind |-> "analyze", unit |-> u, only |-> only, ready |-> ready]
        /\ p1[u].frozen # None /\ p1[u].file = "result"
    BY <1>1, RowIsOpen
  <1>3. p1' = [p1 EXCEPT ![u] = row]
    BY <1>2 DEF SaveReceipt, UnitRow
  <1>4. /\ row \in UnitRow /\ row.receipt /\ row.merged /\ row.job /\ row.file = "result"
        /\ row.frozen = p1[u].frozen
    BY <1>1, <1>2 DEF UnitRow
  <1> HIDE DEF row
  <1> DEFINE next == IF op.only = 0 THEN FromUnit(u + 1) ELSE Units + 1
  <1>5. PICK only : op' = [kind |-> "analyze", unit |-> next, only |-> only, ready |-> FALSE]
    <2>1. PICK only, ready : op = [kind |-> "analyze", unit |-> u, only |-> only, ready |-> ready]
      BY <1>2
    <2>2. op' = [op EXCEPT !.unit = next, !.ready = FALSE]
      BY <1>1, <2>1 DEF NextUnit
    <2> HIDE DEF next
    <2> QED BY <2>1, <2>2
  <1>6. u \in Nat /\ u + 1 \in Nat /\ Units \in Nat /\ Units + 1 \notin UnitIds
    BY StoreAssumption DEF UnitIds
  <1>7. /\ next \in UnitIds \cup {Units + 1}
        /\ next \in UnitIds => /\ ~p1[next].receipt
                               /\ \A v \in UnitIds : v >= u + 1 /\ v < next => p1[v].receipt
    BY <1>6, NextUnitIsOpen
  <1>8. /\ p1'[u] = row /\ \A v \in UnitIds : v # u => p1'[v] = p1[v]
    BY <1>2, <1>3
  <1>9. ASSUME next \in UnitIds
        PROVE  ~p1'[next].receipt /\ \A v \in Predecessors(next) : p1'[v].receipt
    <2>1. op.only = 0 /\ next = FromUnit(u + 1)
      BY <1>6, <1>9
    <2>2. next >= u + 1
      <3>1. next \in {v \in UnitIds : v >= u + 1 /\ ~p1[v].receipt}
        <4> DEFINE S == {v \in UnitIds : v >= u + 1 /\ ~ p1[v].receipt} \cup {Units + 1}
        <4>1. S \in SUBSET Nat /\ S # {} /\ Min(S) = FromUnit(u + 1)
          BY <1>6 DEF UnitIds, FromUnit
        <4>2. next \in S
          BY <2>1, <4>1, MinIsLeast
        <4> QED BY <1>6, <1>9, <4>2
      <3> QED BY <3>1
    <2>3. ASSUME NEW v \in Predecessors(next) PROVE p1'[v].receipt
      <3>1. v \in UnitIds /\ v < next /\ (v \in Predecessors(u) \/ v = u \/ v >= u + 1)
        BY <1>6, <1>9 DEF Predecessors, UnitIds
      <3> QED BY <1>2, <1>4, <1>7, <1>8, <1>9, <3>1
    <2>4. next # u
      BY <1>6, <1>9, <2>2 DEF UnitIds
    <2> QED BY <1>7, <1>8, <1>9, <2>3, <2>4
  <1> HIDE DEF next
  <1>10. OpInv' /\ op'.kind = "analyze" /\ op'.unit = next /\ ~op'.ready
    BY <1>5, <1>6, <1>7 DEF OpInv, UnitIds
  <1> QED BY <1>1, <1>2, <1>3, <1>4, <1>9, <1>10, RowChanges

LEMMA FinishAnalysisKeeps ==
  ASSUME WInv, FinishAnalysis
  PROVE  WInv'
  <1>1. /\ op' = [kind |-> "draft"] /\ op.kind = "analyze"
        /\ UNCHANGED <<p1, pending, approvalVars, translationVars, publishingVars>>
    BY DEF FinishAnalysis
  <1>2. OpInv'
    BY <1>1 DEF OpInv
  <1>3. UnitInv' /\ ~pending
    BY <1>1 DEF WInv, UnitInv, Whole, Read
  <1> QED BY <1>1, <1>2, <1>3, UnitsOnly

-----------------------------------------------------------------------------
(* The draft and the approval *)

\* A step of the review or the approval touches no unit and no edition.
LEMMA ApprovalOnly ==
  ASSUME WInv, UNCHANGED <<analysisVars, publishingVars>>, OpInv', ApprovalInv',
         op' = Idle \/ (op'.kind = "approve" /\ ~pending)
  PROVE  WInv'
  <1>1. UnitInv' /\ ResetInv'
    BY DEF Idle, WInv, UnitInv, ResetInv, Whole, Read, analysisVars
  <1>2. EditionInv'
    BY DEF Idle, WInv, EditionInv, EditionsHold, Valid, publishingVars
  <1> QED BY <1>1, <1>2 DEF WInv

LEMMA WriteReviewKeeps ==
  ASSUME WInv, WriteReview
  PROVE  WInv'
  <1>1. /\ review' = ReviewDraft /\ op' = Idle
        /\ UNCHANGED <<analysisVars, choice, approved, receipt, lexicon, torn, publishingVars>>
    BY DEF WriteReview
  <1>2. ReviewDraft \in Drafts
    <2> DEFINE new == [choice |-> [t \in Terms |-> IF choice[t] = None THEN Default ELSE choice[t]],
                       mark |-> [t \in Terms |-> "new"], confirmed |-> FALSE, revision |-> choice]
    <2>1. new \in Drafts
      BY StoreAssumption DEF Drafts, Marks, WInv, ApprovalInv
    <2>2. review # None => review \in Drafts
      BY DEF WInv, ApprovalInv
    <2> QED BY <2>1, <2>2 DEF ReviewDraft
  <1>3. OpInv' /\ ApprovalInv'
    BY <1>1, <1>2 DEF OpInv, Idle, WInv, ApprovalInv
  <1> QED BY <1>1, <1>3, ApprovalOnly

LEMMA EditKeeps ==
  ASSUME WInv, NEW draft \in Drafts, Edit(draft)
  PROVE  WInv'
  <1>1. /\ op = Idle /\ op' = Idle /\ review' = draft
        /\ UNCHANGED <<analysisVars, choice, approved, receipt, lexicon, torn, publishingVars>>
    BY DEF Edit
  <1>2. OpInv' /\ ApprovalInv'
    BY <1>1 DEF OpInv, Idle, WInv, ApprovalInv
  <1> QED BY <1>1, <1>2, ApprovalOnly

LEMMA DraftKeeps ==
  ASSUME WInv, review # None,
         \/ \E t \in Terms, form \in Forms, mark \in {None, "individual", "reopened"} :
               PatchTerm(t, form, mark)
         \/ \E confirmed \in BOOLEAN : SetConfirmed(confirmed)
  PROVE  WInv'
  <1>1. review \in Drafts
    BY DEF WInv, ApprovalInv
  <1>2. CASE \E t \in Terms, form \in Forms, mark \in {None, "individual", "reopened"} :
                PatchTerm(t, form, mark)
    <2>1. PICK t \in Terms, form \in Forms, mark \in {None, "individual", "reopened"} :
             PatchTerm(t, form, mark)
      BY <1>2
    <2> DEFINE changed == form # review.choice[t]
               keeps == IF changed /\ review.mark[t] = "individual" THEN "reopened" ELSE review.mark[t]
               m == IF mark = None THEN keeps ELSE mark
               c == review.confirmed /\ ~ changed /\ mark # "reopened"
               draft == [review EXCEPT !.choice[t] = form, !.mark[t] = m, !.confirmed = c]
    <2>2. Edit(draft)
      BY <2>1 DEF PatchTerm
    <2>3. m \in Marks /\ c \in BOOLEAN
      BY <1>1, <2>1 DEF Marks, Drafts
    <2> HIDE DEF m, c
    <2>4. draft \in Drafts
      BY <1>1, <2>3 DEF Drafts
    <2> QED BY <2>2, <2>4, EditKeeps
  <1>3. CASE \E confirmed \in BOOLEAN : SetConfirmed(confirmed)
    <2>1. PICK confirmed \in BOOLEAN : SetConfirmed(confirmed)
      BY <1>3
    <2>2. [review EXCEPT !.confirmed = confirmed] \in Drafts
      BY <1>1 DEF Drafts
    <2> QED BY <2>1, <2>2, EditKeeps DEF SetConfirmed
  <1> QED BY <1>2, <1>3

LEMMA ApproveBeginsKeeps ==
  ASSUME WInv, NEW confirm \in BOOLEAN, NEW defaults \in BOOLEAN, ApproveBegins(confirm, defaults)
  PROVE  WInv'
  <1> DEFINE draft == [review EXCEPT !.confirmed = @ \/ confirm]
  <1>1. /\ review # None /\ ~pending
        /\ op' = [kind |-> "approve", at |-> "commit", draft |-> draft]
        /\ UNCHANGED <<analysisVars, approvalVars, publishingVars>>
    BY DEF ApproveBegins, ScopeFree
  <1>2. draft \in Drafts
    BY <1>1 DEF WInv, ApprovalInv, Drafts
  <1> HIDE DEF draft
  <1>3. OpInv' /\ ApprovalInv'
    BY <1>1, <1>2 DEF OpInv, WInv, ApprovalInv, approvalVars
  <1> QED BY <1>1, <1>3, ApprovalOnly

LEMMA ApproveKeeps ==
  ASSUME WInv, CommitApproval \/ WriteApprovedReview \/ WriteLexicon \/ SaveApprovalRevision
  PROVE  WInv'
  <1>1. /\ op.kind = "approve" /\ ~pending
        /\ op = [kind |-> "approve", at |-> op.at, draft |-> op.draft] /\ op.draft \in Drafts
        /\ UNCHANGED <<analysisVars, publishingVars>>
    BY DEF CommitApproval, WriteApprovedReview, WriteLexicon, SaveApprovalRevision, Approving,
       WInv, OpInv, UnitInv, ApprovalInv
  <1>2. /\ choice \in [Terms -> Forms \cup {None}] /\ review \in Drafts \cup {None}
        /\ (approved /\ ~torn => receipt \in Drafts /\ receipt.choice = choice /\ lexicon = choice)
        /\ (op.at # "commit" => approved /\ torn /\ op.draft.choice = choice)
        /\ (op.at = "receipt" => lexicon = choice)
    BY <1>1 DEF WInv, ApprovalInv
  <1>3. CASE CommitApproval
    <2>1. /\ op' = [kind |-> "approve", at |-> "review", draft |-> op.draft]
          /\ choice' = op.draft.choice /\ approved' /\ torn' /\ UNCHANGED <<receipt, review, lexicon>>
      BY <1>1, <1>3 DEF CommitApproval
    <2>2. choice' \in [Terms -> Forms \cup {None}]
      BY <1>1, <2>1 DEF Drafts
    <2>3. OpInv' /\ ApprovalInv'
      BY <1>1, <1>2, <2>1, <2>2 DEF OpInv, ApprovalInv
    <2> QED BY <1>1, <2>1, <2>3, ApprovalOnly
  <1>4. ApprovedDraft \in Drafts /\ ApprovedDraft.choice = op.draft.choice
    BY <1>1, <1>2 DEF ApprovedDraft, Drafts
  <1>5. CASE WriteApprovedReview
    <2>1. /\ op' = [kind |-> "approve", at |-> "lexicon", draft |-> op.draft] /\ op.at = "review"
          /\ review' = ApprovedDraft /\ UNCHANGED <<choice, approved, receipt, lexicon, torn>>
      BY <1>1, <1>5 DEF WriteApprovedReview, Approving
    <2>2. OpInv' /\ ApprovalInv'
      BY <1>1, <1>2, <1>4, <2>1 DEF OpInv, ApprovalInv
    <2> QED BY <1>1, <2>1, <2>2, ApprovalOnly
  <1>6. CASE WriteLexicon
    <2>1. /\ op' = [kind |-> "approve", at |-> "receipt", draft |-> op.draft] /\ op.at = "lexicon"
          /\ lexicon' = choice /\ UNCHANGED <<choice, approved, receipt, review, torn>>
      BY <1>1, <1>6 DEF WriteLexicon, Approving
    <2>2. OpInv' /\ ApprovalInv'
      BY <1>1, <1>2, <2>1 DEF OpInv, ApprovalInv
    <2> QED BY <1>1, <2>1, <2>2, ApprovalOnly
  <1>7. CASE SaveApprovalRevision
    <2>1. /\ op' = Idle /\ op.at = "receipt" /\ receipt' = ApprovedDraft /\ ~torn'
          /\ UNCHANGED <<choice, approved, review, lexicon>>
      BY <1>7 DEF SaveApprovalRevision, Approving
    <2>2. OpInv' /\ ApprovalInv'
      BY <1>1, <1>2, <1>4, <2>1 DEF OpInv, Idle, ApprovalInv
    <2> QED BY <1>1, <2>1, <2>2, ApprovalOnly
  <1> QED BY <1>3, <1>5, <1>6, <1>7

-----------------------------------------------------------------------------
(* The reset *)

\* A step of the reset touches no edition, and the rest is its own.
LEMMA ResetOnly ==
  ASSUME WInv, UNCHANGED publishingVars, OpInv', UnitInv', ResetInv', ApprovalInv',
         op' = Idle \/ op'.kind = "reset"
  PROVE  WInv'
  BY DEF Idle, WInv, EditionInv, EditionsHold, Valid, publishingVars

LEMMA ResetBeginsKeeps ==
  ASSUME WInv, ResetBegins
  PROVE  WInv'
  <1>1. /\ op = Idle /\ pending' /\ ~approved
        /\ op' = [kind |-> "reset", at |-> "inputs", shelf |-> [p1 |-> p1, review |-> review]]
        /\ UNCHANGED <<p1, approvalVars, publishingVars>>
    BY DEF ResetBegins, ScopeFree, DependentWork
  <1>2. OpInv' /\ UnitInv'
    BY <1>1 DEF OpInv, WInv, UnitInv, Read
  <1>3. ResetInv' /\ ApprovalInv'
    BY <1>1 DEF WInv, UnitInv, ResetInv, ApprovalInv, approvalVars, Read
  <1> QED BY <1>1, <1>2, <1>3, ResetOnly

LEMMA ResetStepKeeps ==
  ASSUME WInv, ResetMovesInputs \/ ResetMovesReview \/ ResetMovesArtifacts \/ ClearP1
  PROVE  WInv'
  <1>1. /\ op = [kind |-> "reset", at |-> op.at, shelf |-> op.shelf] /\ op.kind = "reset"
        /\ pending /\ ~approved /\ p1 \in [UnitIds -> UnitRow] /\ Read(p1)
        /\ op.shelf.p1 \in [UnitIds -> UnitRow] /\ Read(op.shelf.p1)
        /\ op.shelf.review \in Drafts \cup {None}
    BY DEF ResetMovesInputs, ResetMovesReview, ResetMovesArtifacts, ClearP1, Resetting, WInv,
       OpInv, ResetInv, UnitInv
  <1>2. UNCHANGED <<pending, publishingVars>>
    BY DEF ResetMovesInputs, ResetMovesReview, ResetMovesArtifacts, ClearP1, analysisVars
  <1>3. CASE ResetMovesInputs
    <2>1. /\ op' = [kind |-> "reset", at |-> "review", shelf |-> op.shelf]
          /\ p1' = [u \in UnitIds |-> [p1[u] EXCEPT !.frozen = None]] /\ UNCHANGED approvalVars
      BY <1>1, <1>3 DEF ResetMovesInputs
    <2>2. p1' \in [UnitIds -> UnitRow] /\ \A u \in UnitIds : p1'[u].frozen = None
      BY <1>1, <2>1 DEF UnitRow
    <2>3. OpInv' /\ UnitInv'
      BY <1>1, <1>2, <2>1, <2>2 DEF OpInv, UnitInv, Read
    <2>4. ResetInv' /\ ApprovalInv'
      BY <1>1, <1>2, <2>1, <2>2 DEF WInv, ResetInv, ApprovalInv, approvalVars
    <2> QED BY <1>2, <2>1, <2>3, <2>4, ResetOnly
  <1>4. CASE ResetMovesReview
    <2>1. /\ op' = [kind |-> "reset", at |-> "artifacts", shelf |-> op.shelf] /\ op.at = "review"
          /\ review' = None /\ UNCHANGED <<p1, choice, approved>>
      BY <1>1, <1>4 DEF ResetMovesReview, Resetting, analysisVars
    <2>2. OpInv' /\ UnitInv'
      BY <1>1, <1>2, <2>1 DEF OpInv, UnitInv, Read
    <2>3. ResetInv' /\ ApprovalInv'
      BY <1>1, <1>2, <2>1 DEF WInv, ResetInv, ApprovalInv
    <2> QED BY <1>2, <2>1, <2>2, <2>3, ResetOnly
  <1>5. CASE ResetMovesArtifacts
    <2>1. /\ op' = [kind |-> "reset", at |-> "clear", shelf |-> op.shelf] /\ op.at = "artifacts"
          /\ p1' = [u \in UnitIds |-> [p1[u] EXCEPT !.file = "none"]] /\ UNCHANGED approvalVars
      BY <1>1, <1>5 DEF ResetMovesArtifacts, Resetting
    <2>2. /\ p1' \in [UnitIds -> UnitRow]
          /\ \A u \in UnitIds : p1'[u].frozen = p1[u].frozen /\ p1'[u].file = "none"
      BY <1>1, <2>1 DEF UnitRow
    <2>3. OpInv' /\ UnitInv'
      BY <1>1, <1>2, <2>1, <2>2 DEF OpInv, UnitInv, Read
    <2>4. ResetInv' /\ ApprovalInv'
      BY <1>1, <1>2, <2>1, <2>2 DEF WInv, ResetInv, ApprovalInv, approvalVars
    <2> QED BY <1>2, <2>1, <2>3, <2>4, ResetOnly
  <1>6. CASE ClearP1
    <2>1. /\ op' = [kind |-> "reset", at |-> "complete", shelf |-> op.shelf] /\ op.at = "clear"
          /\ p1' = [u \in UnitIds |-> [p1[u] EXCEPT !.job = FALSE, !.merged = FALSE, !.receipt = FALSE]]
          /\ choice' = [t \in Terms |-> None] /\ ~approved' /\ review' = review
      BY <1>1, <1>6 DEF ClearP1, Resetting
    <2>2. /\ p1' \in [UnitIds -> UnitRow]
          /\ \A u \in UnitIds : /\ p1'[u].frozen = p1[u].frozen /\ p1'[u].file = p1[u].file
                                /\ ~p1'[u].job /\ ~p1'[u].merged /\ ~p1'[u].receipt
      <3>1. ASSUME NEW row \in UnitRow
            PROVE  LET new == [row EXCEPT !.job = FALSE, !.merged = FALSE, !.receipt = FALSE] IN
                   /\ new \in UnitRow /\ new.frozen = row.frozen /\ new.file = row.file
                   /\ ~new.job /\ ~new.merged /\ ~new.receipt
        BY DEF UnitRow
      <3> QED BY <1>1, <2>1, <3>1
    <2>3. OpInv' /\ UnitInv'
      BY <1>1, <1>2, <2>1, <2>2 DEF OpInv, UnitInv, Read
    <2>4. ResetInv' /\ ApprovalInv'
      BY <1>1, <1>2, <2>1, <2>2 DEF WInv, ResetInv, ApprovalInv
    <2> QED BY <1>2, <2>1, <2>3, <2>4, ResetOnly
  <1> QED BY <1>3, <1>4, <1>5, <1>6

LEMMA ResetEndsKeeps ==
  ASSUME WInv, ResetCompletes \/ ResetFails
  PROVE  WInv'
  <1>1. CASE ResetCompletes
    <2>1. /\ op.kind = "reset" /\ op.at = "complete" /\ op' = Idle /\ ~pending'
          /\ UNCHANGED <<p1, approvalVars, publishingVars>>
      BY <1>1 DEF ResetCompletes, Resetting
    <2>2. \A u \in UnitIds : p1[u].frozen = None /\ ~p1[u].job /\ ~p1[u].merged /\ ~p1[u].receipt
      BY <2>1 DEF WInv, ResetInv
    <2>3. OpInv' /\ UnitInv'
      BY <2>1, <2>2 DEF OpInv, Idle, WInv, UnitInv, Whole, Read
    <2>4. ResetInv' /\ ApprovalInv'
      BY <2>1 DEF Idle, WInv, ResetInv, ApprovalInv, approvalVars
    <2> QED BY <2>1, <2>3, <2>4, ResetOnly
  <1>2. CASE ResetFails
    <2>1. /\ op.kind = "reset" /\ p1' = op.shelf.p1 /\ review' = op.shelf.review /\ op' = Idle
          /\ UNCHANGED <<pending, choice, approved, receipt, lexicon, torn, publishingVars>>
      BY <1>2 DEF ResetFails
    <2>2. OpInv' /\ UnitInv'
      BY <2>1 DEF OpInv, Idle, WInv, UnitInv, ResetInv
    <2>3. ResetInv' /\ ApprovalInv'
      BY <2>1 DEF Idle, WInv, ResetInv, ApprovalInv
    <2> QED BY <2>1, <2>2, <2>3, ResetOnly
  <1> QED BY <1>1, <1>2

-----------------------------------------------------------------------------
(* Publishing *)

LEMMA FileIsNew ==
  ASSUME WInv
  PROVE  NewFile \notin DOMAIN epubs /\ \E n \in Nat : DOMAIN epubs \cup {NewFile} = 1 .. n
  <1>1. PICK n \in Nat : DOMAIN epubs = 1 .. n
    BY DEF WInv, EditionInv
  <1>2. Cardinality(1 .. n) = n
    BY FS_Interval
  <1>3. NewFile = n + 1 /\ n + 1 \in Nat
    BY <1>1, <1>2 DEF NewFile
  <1>4. DOMAIN epubs \cup {NewFile} = 1 .. n + 1
    BY <1>1, <1>3
  <1> QED BY <1>1, <1>3, <1>4

LEMMA BuildKeeps ==
  ASSUME WInv, BuildEpub
  PROVE  WInv'
  <1>1. /\ op.kind = "publish" /\ op' = [kind |-> "publish", at |-> "record", file |-> NewFile]
        /\ epubs' = [f \in DOMAIN epubs \cup {NewFile} |-> IF f = NewFile THEN Texts ELSE epubs[f]]
        /\ UNCHANGED <<analysisVars, approvalVars, translationVars, publication>> /\ ~pending
    BY DEF BuildEpub, Publishing, WInv, UnitInv
  <1>2. OpInv' /\ UnitInv'
    BY <1>1 DEF OpInv, WInv, UnitInv, Whole, Read, analysisVars
  <1>3. ResetInv' /\ ApprovalInv'
    BY <1>1 DEF WInv, ResetInv, ApprovalInv, approvalVars
  <1>4. EditionInv'
    <2>1. DOMAIN epubs' = DOMAIN epubs \cup {NewFile} /\ epubs'[NewFile] = Texts
      BY <1>1
    <2>2. \A f \in DOMAIN epubs : epubs'[f] = epubs[f]
      BY <1>1, FileIsNew
    <2>3. Texts' = Texts
      BY <1>1 DEF Texts, translationVars
    <2> QED BY <1>1, <2>1, <2>2, <2>3, FileIsNew DEF WInv, EditionInv, EditionsHold, Valid
  <1> QED BY <1>2, <1>3, <1>4 DEF WInv

LEMMA RecordKeeps ==
  ASSUME WInv, RecordEdition
  PROVE  WInv'
  <1> DEFINE success == [texts |-> Texts, file |-> op.file]
  <1>1. /\ op.kind = "publish" /\ op.at = "record" /\ op' = Idle
        /\ publication'.editions = publication.editions \cup {success}
        /\ UNCHANGED <<analysisVars, approvalVars, translationVars, epubs>>
    BY DEF RecordEdition, Publishing
  <1>2. OpInv' /\ UnitInv'
    BY <1>1 DEF OpInv, Idle, WInv, UnitInv, Whole, Read, analysisVars
  <1>3. ResetInv' /\ ApprovalInv'
    BY <1>1 DEF Idle, WInv, ResetInv, ApprovalInv, approvalVars
  <1>4. EditionInv'
    <2>1. Valid(success)
      BY <1>1 DEF WInv, EditionInv, Valid
    <2> QED BY <1>1, <2>1 DEF Idle, WInv, EditionInv, EditionsHold, Valid
  <1> QED BY <1>2, <1>3, <1>4 DEF WInv

LEMMA PublishFailsKeeps ==
  ASSUME WInv, PublishFails
  PROVE  WInv'
  <1>1. /\ op' = Idle /\ publication' = [publication EXCEPT !.attempt = "failed"]
        /\ UNCHANGED <<analysisVars, approvalVars, epubs>>
    BY DEF PublishFails
  <1>2. publication'.editions = publication.editions
    BY <1>1 DEF WInv, EditionInv
  <1> QED BY <1>1, <1>2, OtherKeeps DEF Harmless

-----------------------------------------------------------------------------
(* The invariant holds, and the properties follow *)

LEMMA WorkspaceInvariance == Spec => []WInv
  <1>1. Init => WInv
    <2> SUFFICES ASSUME Init PROVE WInv
      OBVIOUS
    <2>1. OpInv /\ ResetInv
      BY DEF Init, StoreInit, OpInv, ResetInv, Idle
    <2>2. UnitInv
      BY DEF Init, StoreInit, UnitInv, UnitRow, NoUnit, Whole, Read, Idle
    <2>3. ApprovalInv
      BY DEF Init, StoreInit, ApprovalInv, Idle
    <2>4. EditionInv
      <3>1. DOMAIN epubs = 1 .. 0
        BY DEF Init, StoreInit
      <3>2. publication.editions = {}
        BY DEF Init, StoreInit, NoPublication
      <3> QED BY <3>1, <3>2 DEF Init, StoreInit, EditionInv, EditionsHold, Idle
    <2> QED BY <2>1, <2>2, <2>3, <2>4 DEF WInv
  <1>2. WInv /\ [Next]_vars => WInv'
    <2> SUFFICES ASSUME WInv, [Next]_vars PROVE WInv'
      OBVIOUS
    <2>1. CASE UNCHANGED vars \/ Dies
      BY <2>1, EndsKeep
    <2>2. CASE AnalysisNext
      BY <2>2, EndsKeep, AnalyzeBeginsKeeps, FreezeKeeps, ReuseKeeps, UnitStepKeeps,
         SaveReceiptKeeps, FinishAnalysisKeeps, WriteReviewKeeps, ResetBeginsKeeps,
         ResetStepKeeps, ResetEndsKeeps DEF AnalysisNext
    <2>3. CASE ApprovalNext
      BY <2>3, EndsKeep, DraftKeeps, ApproveBeginsKeeps, ApproveKeeps DEF ApprovalNext
    <2>4. CASE TranslationNext
      BY <2>4, TranslationKeeps
    <2>5. CASE PublishingNext
      BY <2>5, EndsKeep, BuildKeeps, RecordKeeps, PublishFailsKeeps DEF PublishingNext
    <2> QED BY <2>1, <2>2, <2>3, <2>4, <2>5 DEF Next
  <1> QED BY <1>1, <1>2, PTL DEF Spec

-----------------------------------------------------------------------------
(* What translation leaves in the store *)

Rows(c) == [status : {"pending", "stale", "done"}, final : {None} \cup Results(c, 5),
            deps : SUBSET Terms, selected : [Passes -> {None} \cup UNION {Keys(c, n) : n \in Passes}],
            invalid : SUBSET Passes]

\* The saved results of a pass have keys of their own, and a selection is the key of one.
SavedInv ==
  /\ targets \in 0 .. MaxTargets
  /\ jobs \in [ChunkIds -> [Passes -> SUBSET UNION {Results(c, n) : c \in ChunkIds, n \in Passes}]]
  /\ \A c \in ChunkIds, n \in Passes :
        /\ jobs[c][n] \subseteq Results(c, n)
        /\ \A i, j \in jobs[c][n] : Key(i) = Key(j) => i = j
  /\ \A a \in answers :
        a.chunk \in ChunkIds /\ a.pass \in Passes /\ a.job \in Results(a.chunk, a.pass)

SelectedInv ==
  /\ chunk \in [ChunkIds -> UNION {Rows(c) : c \in ChunkIds}]
  /\ \A c \in ChunkIds : chunk[c] \in Rows(c)
  /\ \A c \in ChunkIds, n \in Passes :
        chunk[c].selected[n] # None => \E job \in jobs[c][n] : Key(job) = chunk[c].selected[n]

\* A chunk that is done was made from the terms and drafts its last pass would be given now and
\* from an end of the text before it, after a text of every chunk before it, by drafts that are
\* all selected; and the transactions that
\* look for what a change makes stale find it: by its terms, by the context of its second
\* pass, by the results after the selected ones.
IsCurrent(c) ==
  /\ chunk[c].final # None /\ chunk[c].final.base.lexicon = ApprovedLexicon(c)
  /\ ContextHolds(c, chunk[c].final.base.context)
  /\ \A n \in {3, 4} : chunk[c].final.base.drafts[n] = Draft(c, n)
  /\ \A n \in {2, 3, 4} : chunk[c].selected[n] # None
  /\ \A b \in 1 .. (c - 1) : chunk[b].final # None
  /\ chunk[c].deps = Mentions[c]
  /\ 2 \notin chunk[c].invalid /\ chunk[c].selected[2].base.context = chunk[c].final.base.context
  /\ HasJob(c, 5)

CurrentInv == \A c \in ChunkIds : chunk[c].status = "done" => IsCurrent(c)

\* The passes a run has behind it on its chunk are selected and have the inputs of now.
PassDone(c, n) ==
  chunk[c].selected[n] # None /\ n \notin chunk[c].invalid /\ chunk[c].selected[n].base = Base(c, n)

RunType ==
  /\ approved
  /\ op.todo \in SUBSET ChunkIds /\ op.todo # {} /\ op.pass \in 2 .. 6 /\ op.saved \in BOOLEAN
  /\ op.kind = "translate" =>
        /\ op = [kind |-> "translate", todo |-> op.todo, limit |-> op.limit, room |-> op.room,
                 pass |-> op.pass, job |-> op.job, saved |-> op.saved]
        /\ ~op.saved /\ op.room \in Int
  /\ op.kind = "target" =>
        /\ op = [kind |-> "target", todo |-> op.todo, target |-> op.target, force |-> op.force,
                 pass |-> op.pass, job |-> op.job, saved |-> op.saved]
        /\ op.target \in Passes /\ op.pass \in 2 .. op.target /\ op.force \in 0 .. MaxTargets

PassInv ==
  /\ \A n \in 2 .. op.pass - 1 : PassDone(At, n)
  /\ op.job # None => /\ op.pass \in Passes
                      /\ op.job \in Results(At, op.pass) /\ op.job.base = Base(At, op.pass)
  /\ op.saved => /\ op.pass = op.target /\ op.job # None
                 /\ op.pass \notin chunk[At].invalid /\ chunk[At].selected[op.pass] = Key(op.job)

TodoInv == op.kind = "translate" =>
  /\ \A c \in op.todo : \A b \in 1 .. (c - 1) : b \in op.todo \/ chunk[b].final # None
  /\ op.limit = 0 => /\ op.room = Chunks
                     /\ \A c \in ChunkIds \ op.todo : chunk[c].status = "done"

InRun == op.kind \in {"translate", "target"}
RunInv == InRun => RunType /\ PassInv /\ TodoInv

TermsInv ==
  /\ approved => choice \in [Terms -> Forms]
  /\ op.kind = "reset" => \A c \in ChunkIds : chunk[c].status # "done"

TInv == SavedInv /\ SelectedInv /\ CurrentInv /\ RunInv /\ TermsInv

-----------------------------------------------------------------------------
(* The inputs of a pass, and what they do not depend on *)

LEMMA OnlyOne ==
  ASSUME NEW S, \A i, j \in S : Key(i) = Key(j) => i = j, NEW job \in S
  PROVE  (CHOOSE j \in S : Key(j) = Key(job)) = job
  <1> DEFINE it == CHOOSE j \in S : Key(j) = Key(job)
  <1>1. it \in S /\ Key(it) = Key(job)
    OBVIOUS
  <1> QED BY <1>1

\* The largest of a set of earlier chunks.
LEMMA MaxIs ==
  ASSUME NEW S \in SUBSET Nat, NEW m \in S, \A y \in S : y <= m
  PROVE  Max(S) = m
  <1>1. \E x \in S : \A y \in S : x >= y
    OBVIOUS
  <1>2. Max(S) \in S /\ \A y \in S : Max(S) >= y
    BY <1>1 DEF Max
  <1>3. Max(S) \in Nat /\ m \in Nat /\ Max(S) >= m /\ Max(S) <= m
    BY <1>2
  <1> QED BY <1>3

LEMMA LastOf ==
  ASSUME NEW n \in Nat, NEW S \in SUBSET (1 .. n), S # {}
  PROVE  Max(S) \in S /\ \A y \in S : Max(S) >= y
  <1> DEFINE T == {n - y : y \in S}
  <1>1. T \in SUBSET Nat /\ T # {}
    <2>1. \A y \in S : n - y \in Nat
      OBVIOUS
    <2> QED BY <2>1
  <1>2. Min(T) \in T /\ \A z \in T : Min(T) <= z
    BY <1>1, MinIsLeast
  <1>3. PICK x \in S : Min(T) = n - x
    BY <1>2
  <1>4. \A y \in S : x >= y
    <2> SUFFICES ASSUME NEW y \in S PROVE x >= y
      OBVIOUS
    <2>1. n - y \in T /\ x \in Nat /\ y \in Nat
      OBVIOUS
    <2>2. n - x <= n - y
      BY <1>2, <1>3, <2>1
    <2> QED BY <2>1, <2>2
  <1> QED BY <1>4 DEF Max

LEMMA DraftKept ==
  ASSUME SavedInv, SavedInv', SelectedInv, NEW c \in ChunkIds, NEW n \in Passes,
         jobs[c][n] \subseteq jobs'[c][n],
         chunk[c].selected[n] # None, chunk'[c].selected[n] = chunk[c].selected[n]
  PROVE  Draft(c, n)' = Draft(c, n)
  <1>1. PICK job \in jobs[c][n] : Key(job) = chunk[c].selected[n]
    BY DEF SelectedInv
  <1>2. (CHOOSE j \in jobs[c][n] : Key(j) = Key(job)) = job
    BY OnlyOne DEF SavedInv
  <1>3. (CHOOSE j \in jobs'[c][n] : Key(j) = Key(job)) = job
    BY OnlyOne DEF SavedInv
  <1>4. Result(c, n, chunk[c].selected[n]) = job /\ Result(c, n, chunk[c].selected[n])' = job
    BY <1>1, <1>2, <1>3 DEF Result
  <1> QED BY <1>4 DEF Draft

LEMMA ContextKept ==
  ASSUME NEW c \in ChunkIds, \A b \in 1 .. (c - 1) : chunk'[b].final = chunk[b].final
  PROVE  PreviousContext(c)' = PreviousContext(c)
  <1> DEFINE finals == {b \in 1 .. (c - 1) : chunk[b].final # None}
  <1>1. finals' = finals
    OBVIOUS
  <1>2. CASE finals = {}
    BY <1>1, <1>2 DEF PreviousContext
  <1>3. CASE finals # {}
    <2>1. finals \in SUBSET (1 .. (c - 1)) /\ c - 1 \in Nat
      BY StoreAssumption DEF ChunkIds
    <2>2. Max(finals) \in finals
      BY <1>3, <2>1, LastOf
    <2> QED BY <1>1, <1>3, <2>2 DEF PreviousContext
  <1> QED BY <1>2, <1>3

LEMMA UpstreamIsEarlier ==
  ASSUME NEW n \in Passes
  PROVE  Upstream(n) \subseteq {m \in Passes : m < n}
  BY DEF Upstream, Passes

\* The inputs of a pass change only with the terms of its chunk, with the text before it and
\* with the selections it reads.
LEMMA BaseKept ==
  ASSUME SavedInv, SavedInv', SelectedInv, NEW c \in ChunkIds, NEW n \in Passes,
         \A m \in Upstream(n) :
            /\ chunk[c].selected[m] # None /\ chunk'[c].selected[m] = chunk[c].selected[m]
            /\ jobs[c][m] \subseteq jobs'[c][m],
         PreviousContext(c)' = PreviousContext(c),
         \A t \in Mentions[c] : choice'[t] = choice[t]
  PROVE  Base(c, n)' = Base(c, n)
  <1>1. \A m \in Upstream(n) : Draft(c, m)' = Draft(c, m)
    BY UpstreamIsEarlier, DraftKept
  <1>2. ApprovedLexicon(c)' = ApprovedLexicon(c)
    BY DEF ApprovedLexicon
  <1> QED BY <1>1, <1>2 DEF Base

\* The result behind a selection.
LEMMA DraftIsSaved ==
  ASSUME SavedInv, SelectedInv, NEW c \in ChunkIds, NEW n \in Passes, chunk[c].selected[n] # None
  PROVE  \E job \in jobs[c][n] : /\ Key(job) = chunk[c].selected[n] /\ job \in Results(c, n)
                                 /\ Result(c, n, chunk[c].selected[n]) = job
                                 /\ Draft(c, n) = job.value
  <1>1. PICK job \in jobs[c][n] : Key(job) = chunk[c].selected[n]
    BY DEF SelectedInv
  <1>2. (CHOOSE j \in jobs[c][n] : Key(j) = Key(job)) = job
    BY OnlyOne DEF SavedInv
  <1>3. Result(c, n, chunk[c].selected[n]) = job
    BY <1>1, <1>2 DEF Result
  <1>4. job \in Results(c, n)
    BY DEF SavedInv
  <1> QED BY <1>1, <1>3, <1>4 DEF Draft

LEMMA BaseIsTyped ==
  ASSUME SavedInv, SelectedInv, choice \in [Terms -> Forms], NEW c \in ChunkIds, NEW n \in Passes,
         \A m \in Upstream(n) : chunk[c].selected[m] # None
  PROVE  Base(c, n) \in Bases(c, n)
  <1>1. ApprovedLexicon(c) \in [Mentions[c] -> Forms]
    <2>1. Mentions[c] \subseteq Terms
      BY StoreAssumption DEF ChunkIds
    <2> QED BY <2>1 DEF ApprovedLexicon
  <1>2. PreviousContext(c) \in Contexts
    <2> DEFINE finals == {b \in 1 .. (c - 1) : chunk[b].final # None}
    <2>1. CASE finals = {}
      BY <2>1 DEF PreviousContext, Contexts
    <2>2. CASE finals # {}
      <3>1. finals \in SUBSET (1 .. (c - 1)) /\ c - 1 \in Nat /\ finals \subseteq ChunkIds
        BY StoreAssumption DEF ChunkIds
      <3>2. Max(finals) \in finals /\ Max(finals) \in ChunkIds
        BY <2>2, <3>1, LastOf
      <3>3. chunk[Max(finals)].final \in Results(Max(finals), 5)
        BY <3>2 DEF SelectedInv, Rows
      <3>4. chunk[Max(finals)].final.value \in Values(5)
        BY <3>3 DEF Results
      <3> HIDE DEF finals
      <3>5. [source |-> Max(finals), polish |-> Suffix[chunk[Max(finals)].final.value]] \in Contexts
        BY <3>2, <3>4 DEF Contexts
      <3> QED BY <2>2, <3>5 DEF PreviousContext, finals
    <2> QED BY <2>1, <2>2
  <1>3. [m \in Upstream(n) |-> Draft(c, m)] \in [Upstream(n) -> UNION {Values(m) : m \in Passes}]
    <2> SUFFICES ASSUME NEW m \in Upstream(n) PROVE Draft(c, m) \in UNION {Values(k) : k \in Passes}
      OBVIOUS
    <2>1. m \in Passes
      BY UpstreamIsEarlier
    <2>2. PICK job \in Results(c, m) : Draft(c, m) = job.value
      BY <2>1, DraftIsSaved
    <2>3. Draft(c, m) \in Values(m)
      BY <2>2 DEF Results
    <2> QED BY <2>1, <2>3
  <1> QED BY <1>1, <1>2, <1>3 DEF Base, Bases

LEMMA NeighbourIsLast ==
  ASSUME NEW c \in ChunkIds, NEW rows, \A b \in 1 .. (c - 1) : rows[b].final # None
  PROVE  LET finals == {b \in 1 .. (c - 1) : rows[b].final # None}
         IN  IF c = 1 THEN finals = {} ELSE finals # {} /\ Max(finals) = c - 1 /\ c - 1 \in 1 .. (c - 1)
  <1> DEFINE finals == {b \in 1 .. (c - 1) : rows[b].final # None}
  <1>1. finals = 1 .. (c - 1) /\ c \in Nat /\ c >= 1
    BY DEF ChunkIds
  <1>2. CASE c = 1
    BY <1>1, <1>2
  <1>3. CASE c # 1
    <2>1. finals \in SUBSET Nat /\ c - 1 \in finals /\ (\A y \in finals : y <= c - 1) /\ finals # {}
      BY <1>1, <1>3
    <2>2. Max(finals) = c - 1
      BY <2>1, MaxIs
    <2> QED BY <1>1, <1>3, <2>1, <2>2
  <1> QED BY <1>2, <1>3

Neighbour(c) == IF c = 1 THEN [source |-> None, polish |-> None]
                ELSE [source |-> c - 1, polish |-> Suffix[chunk[c - 1].final.value]]

\* A chunk that follows only chunks with a text has the text before it as its context.
LEMMA ContextIsNeighbour ==
  ASSUME NEW c \in ChunkIds
  PROVE  /\ (\A b \in 1 .. (c - 1) : chunk[b].final # None) => PreviousContext(c) = Neighbour(c)
         /\ (\A b \in 1 .. (c - 1) : chunk'[b].final # None) => PreviousContext(c)' = Neighbour(c)'
  <1>1. ASSUME \A b \in 1 .. (c - 1) : chunk[b].final # None PROVE PreviousContext(c) = Neighbour(c)
    BY <1>1, NeighbourIsLast DEF PreviousContext, Neighbour
  <1>2. ASSUME \A b \in 1 .. (c - 1) : chunk'[b].final # None PROVE PreviousContext(c)' = Neighbour(c)'
    BY <1>2, NeighbourIsLast DEF PreviousContext, Neighbour
  <1> QED BY <1>1, <1>2

-----------------------------------------------------------------------------
(* What the transactions do to a row *)

LEMMA InvalidatedRow ==
  ASSUME NEW c, NEW row \in Rows(c), NEW from \in 2 .. 6
  PROVE  LET new == InvalidatePasses(row, from) IN
         /\ new \in Rows(c) /\ new.final = row.final /\ new.selected = row.selected
         /\ new.deps = row.deps /\ new.invalid = row.invalid \cup (from .. 5)
         /\ new.status = "done" => row.final = None /\ row.status = "done"
  <1> DEFINE status == IF row.final # None THEN "stale" ELSE row.status
  <1>1. InvalidatePasses(row, from) =
           [status |-> status, final |-> row.final, deps |-> row.deps,
            selected |-> row.selected, invalid |-> row.invalid \cup (from .. 5)]
    <2>1. row = [status |-> row.status, final |-> row.final, deps |-> row.deps,
                 selected |-> row.selected, invalid |-> row.invalid]
      BY DEF Rows
    <2> HIDE DEF status
    <2>2. InvalidatePasses(row, from) =
             [row EXCEPT !.status = status, !.invalid = row.invalid \cup (from .. 5)]
      BY <2>1 DEF InvalidatePasses, status
    <2> QED BY <2>1, <2>2
  <1>2. status \in {"pending", "stale", "done"} /\ (status = "done" => row.final = None /\ row.status = "done")
    BY DEF Rows
  <1>3. row.invalid \cup (from .. 5) \in SUBSET Passes
    BY DEF Rows, Passes
  <1> HIDE DEF status
  <1>4. row.final \in {None} \cup Results(c, 5) /\ row.deps \in SUBSET Terms
        /\ row.selected \in [Passes -> {None} \cup UNION {Keys(c, n) : n \in Passes}]
    BY DEF Rows
  <1>5. InvalidatePasses(row, from) \in Rows(c)
    BY <1>1, <1>2, <1>3, <1>4 DEF Rows
  <1> QED BY <1>1, <1>2, <1>5

LEMMA RecordedRow ==
  ASSUME SavedInv, SelectedInv, NEW c \in ChunkIds, NEW n \in Passes, NEW job \in Results(c, n),
         NEW generated \in BOOLEAN
  PROVE  LET new == RecordTranslationPass(c, n, job, generated) IN
         /\ new \in Rows(c) /\ new.final = chunk[c].final /\ new.deps = Mentions[c]
         /\ new.selected[n] = Key(job)
         /\ \A m \in Passes : m # n => new.selected[m] = chunk[c].selected[m]
         /\ n \notin new.invalid /\ \A m \in 2 .. n : m \notin chunk[c].invalid => m \notin new.invalid
         /\ new.status = "done" => chunk[c].status = "done"
         /\ new.status = "done" /\ Supersedes(c, n, Key(job), generated) => chunk[c].final = None
  <1> DEFINE row == IF Supersedes(c, n, Key(job), generated)
                    THEN InvalidatePasses(chunk[c], n + 1) ELSE chunk[c]
  <1>1. chunk[c] \in Rows(c) /\ n + 1 \in 2 .. 6
    BY DEF SelectedInv, Passes
  <1>2. /\ row \in Rows(c) /\ row.final = chunk[c].final /\ row.selected = chunk[c].selected
        /\ row.invalid \subseteq chunk[c].invalid \cup (n + 1 .. 5)
        /\ row.status = "done" => chunk[c].status = "done"
        /\ row.status = "done" /\ Supersedes(c, n, Key(job), generated) => chunk[c].final = None
    BY <1>1, InvalidatedRow
  <1>3. Key(job) \in Keys(c, n) /\ DOMAIN job.base.lexicon = Mentions[c]
    BY DEF Results, Keys, Key, Bases
  <1>4. Mentions[c] \subseteq Terms
    BY StoreAssumption DEF ChunkIds
  <1> HIDE DEF row
  <1>5. /\ RecordTranslationPass(c, n, job, generated) =
             [status |-> row.status, final |-> row.final, deps |-> Mentions[c],
              selected |-> [row.selected EXCEPT ![n] = Key(job)], invalid |-> row.invalid \ {n}]
    <2>1. RecordTranslationPass(c, n, job, generated) =
             [row EXCEPT !.selected[n] = Key(job), !.invalid = @ \ {n}, !.deps = Mentions[c]]
      BY <1>3, Zenon DEF RecordTranslationPass, row
    <2>2. row = [status |-> row.status, final |-> row.final, deps |-> row.deps,
                 selected |-> row.selected, invalid |-> row.invalid]
      BY <1>2 DEF Rows
    <2> QED BY <2>1, <2>2
  <1>6. [row.selected EXCEPT ![n] = Key(job)] \in [Passes -> {None} \cup UNION {Keys(c, m) : m \in Passes}]
    BY <1>2, <1>3 DEF Rows
  <1>7. row.status \in {"pending", "stale", "done"} /\ row.final \in {None} \cup Results(c, 5) /\ row.invalid \in SUBSET Passes
        /\ row.selected \in [Passes -> {None} \cup UNION {Keys(c, m) : m \in Passes}]
    BY <1>2 DEF Rows
  <1>8. RecordTranslationPass(c, n, job, generated) \in Rows(c)
    BY <1>4, <1>5, <1>6, <1>7 DEF Rows
  <1>9. n \notin row.invalid \ {n} /\ \A m \in 2 .. n : m \notin chunk[c].invalid => m \notin row.invalid \ {n}
    BY <1>2 DEF Passes
  <1> QED BY <1>2, <1>5, <1>7, <1>8, <1>9

-----------------------------------------------------------------------------
(* What a step leaves as it was *)

\* A chunk that stays done stays current when nothing it was made from changes.
LEMMA CurrentKept ==
  ASSUME SavedInv, SavedInv', SelectedInv, NEW c \in ChunkIds, IsCurrent(c),
         chunk'[c].final = chunk[c].final, chunk'[c].deps = chunk[c].deps, 2 \notin chunk'[c].invalid,
         \A n \in {2, 3, 4} : chunk'[c].selected[n] = chunk[c].selected[n],
         \A n \in Passes : jobs[c][n] \subseteq jobs'[c][n],
         ContextHolds(c, chunk[c].final.base.context)', \A b \in 1 .. (c - 1) : chunk'[b].final # None,
         \A t \in Mentions[c] : choice'[t] = choice[t]
  PROVE  IsCurrent(c)'
  <1>1. 5 \in Passes /\ {3, 4} \subseteq Passes
    BY DEF Passes
  <1>2. \A n \in {3, 4} : Draft(c, n)' = Draft(c, n)
    BY <1>1, DraftKept DEF IsCurrent
  <1>3. ApprovedLexicon(c)' = ApprovedLexicon(c)
    BY DEF ApprovedLexicon
  <1> QED BY <1>1, <1>2, <1>3 DEF IsCurrent, HasJob

\* The context of a chunk that is done holds as long as the texts before it stay.
LEMMA HeldContext ==
  ASSUME NEW c \in ChunkIds, IsCurrent(c), chunk'[c].final = chunk[c].final,
         \A b \in 1 .. (c - 1) : chunk'[b].final = chunk[b].final
  PROVE  ContextHolds(c, chunk[c].final.base.context)'
  <1>1. PreviousContext(c)' = PreviousContext(c)
    BY ContextKept
  <1>2. PreviousContext(c) = Neighbour(c)
    BY ContextIsNeighbour DEF IsCurrent
  <1>3. PreviousContext(c).source # None => PreviousContext(c).source \in 1 .. (c - 1)
    BY <1>2 DEF Neighbour, ChunkIds
  <1> QED BY <1>1, <1>3 DEF IsCurrent, ContextHolds

LEMMA PassKept ==
  ASSUME SavedInv, SavedInv', SelectedInv, NEW c \in ChunkIds, NEW n \in Passes,
         \A m \in Passes : m <= n => PassDone(c, m) /\ chunk'[c].selected[m] = chunk[c].selected[m]
                                     /\ m \notin chunk'[c].invalid,
         \A m \in Passes : jobs[c][m] \subseteq jobs'[c][m],
         PreviousContext(c)' = PreviousContext(c), \A t \in Mentions[c] : choice'[t] = choice[t]
  PROVE  PassDone(c, n)'
  <1>1. \A m \in Upstream(n) : m \in Passes /\ m <= n
    BY UpstreamIsEarlier DEF Passes
  <1>2. Base(c, n)' = Base(c, n)
    BY <1>1, BaseKept DEF PassDone
  <1>3. n <= n
    BY DEF Passes
  <1> QED BY <1>2, <1>3 DEF PassDone

LEMMA AtIsLeast ==
  ASSUME InRun, RunType
  PROVE  At \in op.todo /\ At \in ChunkIds /\ \A c \in op.todo : At <= c
  BY MinIsLeast DEF RunType, At, ChunkIds

\* A step that leaves the rows and the terms alone, keeps the saved results, and either is no
\* step of a run or leaves the run at its pass.
LEMMA StoreKept ==
  ASSUME TInv, UNCHANGED <<chunk, choice, approved>>, SavedInv',
         \A c \in ChunkIds, n \in Passes : jobs[c][n] \subseteq jobs'[c][n],
         InRun' => InRun /\ op'.todo = op.todo /\ op'.pass = op.pass /\ RunType' /\ TodoInv',
         InRun' /\ op'.job # None => /\ op'.pass \in Passes /\ op'.job \in Results(At, op.pass)
                                     /\ op'.job.base = Base(At, op.pass),
         InRun' /\ op'.saved => op'.target = op.target /\ op.saved /\ op'.job = op.job,
         op'.kind = "reset" => \A c \in ChunkIds : chunk[c].status # "done"
  PROVE  TInv'
  <1>1. SelectedInv'
    BY DEF TInv, SelectedInv
  <1>2. \A c \in ChunkIds : PreviousContext(c)' = PreviousContext(c)
    BY ContextKept
  <1>3. CurrentInv'
    <2> SUFFICES ASSUME NEW c \in ChunkIds, chunk[c].status = "done" PROVE IsCurrent(c)'
      BY DEF CurrentInv
    <2>1. IsCurrent(c)
      BY DEF TInv, CurrentInv
    <2>2. chunk'[c] = chunk[c] /\ \A b \in 1 .. (c - 1) : chunk'[b].final # None
      BY <2>1 DEF IsCurrent
    <2>3. ContextHolds(c, chunk[c].final.base.context)'
      BY <2>1, HeldContext
    <2> QED BY <2>1, <2>2, <2>3, CurrentKept DEF TInv, IsCurrent
  <1>4. RunInv'
    <2> SUFFICES ASSUME InRun' PROVE PassInv'
      BY DEF RunInv
    <2>1. At' = At /\ At \in ChunkIds /\ InRun /\ RunType /\ PassInv
      BY AtIsLeast DEF At, TInv, RunInv
    <2>2. ASSUME NEW n \in 2 .. op'.pass - 1 PROVE PassDone(At, n)'
      <3>1. n \in Passes /\ \A m \in Passes : m <= n => m \in 2 .. op.pass - 1
        BY <2>1 DEF Passes, RunType
      <3>2. \A m \in Passes : m <= n => PassDone(At, m) /\ m \notin chunk[At].invalid
        BY <2>1, <3>1 DEF PassInv, PassDone
      <3>3. PassDone(At, n)
        BY <3>1, <3>2 DEF Passes
      <3>4. \A m \in Upstream(n) : chunk[At].selected[m] # None
        BY <3>1, <3>2, UpstreamIsEarlier DEF PassDone, Passes
      <3>5. Base(At, n)' = Base(At, n)
        BY <1>2, <2>1, <3>1, <3>4, UpstreamIsEarlier, BaseKept DEF TInv
      <3> QED BY <2>1, <3>3, <3>5 DEF PassDone
    <2>3. ASSUME op'.job # None PROVE Base(At, op.pass)' = Base(At, op.pass)
      <3>1. \A m \in Upstream(op.pass) : m \in 2 .. op.pass - 1
        BY <2>3, UpstreamIsEarlier DEF Passes
      <3>2. \A m \in Upstream(op.pass) : chunk[At].selected[m] # None
        BY <2>1, <3>1 DEF PassInv, PassDone
      <3> QED BY <1>2, <2>1, <2>3, <3>2, UpstreamIsEarlier, BaseKept DEF TInv
    <2>4. op'.job # None => /\ op'.pass \in Passes
                            /\ op'.job \in Results(At, op.pass)' /\ op'.job.base = Base(At, op.pass)'
      BY <2>1, <2>3 DEF Results, Bases, Keys, Contexts, Values
    <2>5. op'.saved => /\ op'.pass = op'.target /\ op'.job # None
                       /\ op'.pass \notin chunk'[At].invalid /\ chunk'[At].selected[op'.pass] = Key(op'.job)
      BY <2>1 DEF PassInv
    <2> QED BY <2>1, <2>2, <2>4, <2>5 DEF PassInv
  <1>5. TermsInv'
    BY DEF TInv, TermsInv
  <1> QED BY <1>1, <1>3, <1>4, <1>5 DEF TInv

\* A step of no run that touches neither the terms nor what translation saved.
LEMMA OthersKeep ==
  ASSUME TInv, UNCHANGED <<translationVars, choice, approved>>, op' = op \/ ~InRun',
         op'.kind = "reset" => op.kind = "reset" \/ ~DependentWork
  PROVE  TInv'
  <1>1. UNCHANGED <<chunk, jobs, answers, targets>>
    BY DEF translationVars
  <1>2. SavedInv'
    BY <1>1 DEF TInv, SavedInv
  <1>3. op'.kind = "reset" => \A c \in ChunkIds : chunk[c].status # "done"
    BY DEF TInv, TermsInv, DependentWork
  <1>4. ASSUME InRun' PROVE op' = op /\ InRun /\ RunType' /\ TodoInv' /\ PassInv
    BY <1>1, <1>4 DEF InRun, TInv, RunInv, RunType, TodoInv
  <1>5. InRun' /\ op'.job # None => /\ op'.pass \in Passes /\ op'.job \in Results(At, op.pass)
                                    /\ op'.job.base = Base(At, op.pass)
    BY <1>4 DEF PassInv
  <1> QED BY <1>1, <1>2, <1>3, <1>4, <1>5, StoreKept

-----------------------------------------------------------------------------
(* Asking for a result and saving it *)

\* The key a pass asks for has the inputs of now.
LEMMA PassKeyIs ==
  ASSUME TInv, Asking
  PROVE  /\ InRun /\ RunType /\ PassInv /\ TodoInv /\ At \in ChunkIds /\ op.pass \in Passes /\ ~op.saved
         /\ PassKey \in Keys(At, op.pass) /\ PassKey.base = Base(At, op.pass)
  <1>1. InRun /\ RunType /\ PassInv /\ TodoInv /\ At \in ChunkIds /\ op.pass \in Passes /\ op.job = None
    BY AtIsLeast DEF Asking, Running, InRun, TInv, RunInv, RunType, Passes
  <1>2. ~op.saved
    BY <1>1 DEF PassInv, RunType
  <1>3. \A m \in Upstream(op.pass) : chunk[At].selected[m] # None
    <2>1. \A m \in Upstream(op.pass) : m \in 2 .. op.pass - 1
      BY <1>1, UpstreamIsEarlier DEF Passes
    <2> QED BY <1>1, <2>1 DEF PassInv, PassDone
  <1>4. Base(At, op.pass) \in Bases(At, op.pass)
    BY <1>1, <1>3, BaseIsTyped DEF TInv, RunType, TermsInv
  <1>5. CASE Forced
    <2>1. op.force \in 0 .. MaxTargets
      BY <1>1, <1>5 DEF Forced, AtTarget, RunType
    <2>2. PassKey = [base |-> Base(At, op.pass), rerun |-> op.force]
      BY <1>5 DEF PassKey
    <2> QED BY <1>1, <1>2, <1>4, <2>1, <2>2 DEF Keys
  <1>6. CASE ~Forced
    <2>1. PassKey = Wanted(At, op.pass)
      BY <1>6 DEF PassKey
    <2>2. CASE chunk[At].selected[op.pass] # None /\ chunk[At].selected[op.pass].base = Base(At, op.pass)
      <3>1. PICK job \in Results(At, op.pass) : Key(job) = chunk[At].selected[op.pass]
        BY <1>1, <2>2, DraftIsSaved DEF TInv
      <3>2. Key(job) \in Keys(At, op.pass)
        BY DEF Results, Keys, Key
      <3> QED BY <1>1, <1>2, <2>1, <2>2, <3>1, <3>2 DEF Wanted
    <2>3. CASE ~(chunk[At].selected[op.pass] # None /\ chunk[At].selected[op.pass].base = Base(At, op.pass))
      <3>1. 0 \in 0 .. MaxTargets
        BY RunAssumption
      <3> QED BY <1>1, <1>2, <1>4, <2>1, <2>3, <3>1 DEF Wanted, Keys
    <2> QED BY <2>2, <2>3
  <1> QED BY <1>1, <1>2, <1>5, <1>6

\* The run has an answer with the key it asked for.
LEMMA AnswerKeeps ==
  ASSUME TInv, Asking, UNCHANGED <<chunk, jobs, choice, approved, targets>>, SavedInv',
         NEW job \in Results(At, op.pass), Key(job) = PassKey, op' = [op EXCEPT !.job = job]
  PROVE  TInv'
  <1>1. /\ InRun /\ RunType /\ PassInv /\ TodoInv /\ At \in ChunkIds /\ op.pass \in Passes /\ ~op.saved
        /\ PassKey.base = Base(At, op.pass)
    BY PassKeyIs
  <1>2. op'.kind = op.kind /\ RunType' /\ TodoInv' /\ op'.job = job /\ op'.todo = op.todo /\ op'.pass = op.pass
        /\ ~op'.saved /\ InRun'
    <2>1. CASE op.kind = "translate"
      <3>1. op' = [kind |-> "translate", todo |-> op.todo, limit |-> op.limit, room |-> op.room,
                   pass |-> op.pass, job |-> job, saved |-> op.saved]
        BY <1>1, <2>1 DEF RunType
      <3> QED BY <1>1, <2>1, <3>1 DEF RunType, TodoInv, InRun
    <2>2. CASE op.kind = "target"
      <3>1. op' = [kind |-> "target", todo |-> op.todo, target |-> op.target, force |-> op.force,
                   pass |-> op.pass, job |-> job, saved |-> op.saved]
        BY <1>1, <2>2 DEF RunType
      <3> QED BY <1>1, <2>2, <3>1 DEF RunType, TodoInv, InRun
    <2> QED BY <1>1, <2>1, <2>2 DEF InRun
  <1>3. job.base = Base(At, op.pass)
    BY <1>1 DEF Key
  <1>4. op'.kind # "reset"
    BY <1>2 DEF InRun
  <1> QED BY <1>1, <1>2, <1>3, <1>4, StoreKept

LEMMA RecoverKeeps ==
  ASSUME TInv, RecoverAnswer
  PROVE  TInv'
  <1>1. PICK a \in Answered(At, op.pass, PassKey) : op' = [op EXCEPT !.job = a.job]
    BY DEF RecoverAnswer
  <1>2. /\ Asking /\ UNCHANGED <<chunk, jobs, answers, choice, approved, targets>>
    BY DEF RecoverAnswer, MayGenerate, approvalVars, translationVars
  <1>3. a.job \in Results(At, op.pass) /\ Key(a.job) = PassKey
    BY <1>1 DEF Answered, TInv, SavedInv
  <1>4. SavedInv'
    BY <1>2 DEF TInv, SavedInv
  <1> QED BY <1>1, <1>2, <1>3, <1>4, AnswerKeeps

LEMMA AskKeeps ==
  ASSUME TInv, AskProvider
  PROVE  TInv'
  <1>1. Asking /\ UNCHANGED <<chunk, jobs, choice, approved, targets>>
    BY DEF AskProvider, MayGenerate, approvalVars
  <1>2. At \in ChunkIds /\ op.pass \in Passes /\ PassKey \in Keys(At, op.pass)
    BY <1>1, PassKeyIs
  <1>3. PICK value \in Answers[At][op.pass][PassKey.rerun] :
          LET job == [base |-> PassKey.base, rerun |-> PassKey.rerun, value |-> value]
          IN /\ answers' = answers \cup {[chunk |-> At, pass |-> op.pass, job |-> job]}
             /\ op' = [op EXCEPT !.job = job]
    BY DEF AskProvider
  <1> DEFINE job == [base |-> PassKey.base, rerun |-> PassKey.rerun, value |-> value]
  <1>4. value \in Values(op.pass)
    BY <1>2 DEF Values, Keys
  <1>5. job \in Results(At, op.pass) /\ Key(job) = PassKey
    BY <1>2, <1>4 DEF Results, Keys, Key
  <1>6. answers' = answers \cup {[chunk |-> At, pass |-> op.pass, job |-> job]} /\ op' = [op EXCEPT !.job = job]
    BY <1>3
  <1> HIDE DEF job
  <1>7. SavedInv'
    BY <1>1, <1>2, <1>5, <1>6 DEF TInv, SavedInv
  <1> QED BY <1>1, <1>5, <1>6, <1>7, AnswerKeeps

LEMMA SaveKeeps ==
  ASSUME TInv, SaveJob
  PROVE  TInv'
  <1>1. /\ InRun /\ RunType /\ PassInv /\ TodoInv /\ At \in ChunkIds /\ op.pass \in Passes /\ ~op.saved
        /\ op.job \in Results(At, op.pass) /\ op.job.base = Base(At, op.pass)
        /\ ~Cached(At, op.pass, Key(op.job))
        /\ jobs' = [jobs EXCEPT ![At][op.pass] = @ \cup {op.job}]
        /\ answers' \subseteq answers /\ UNCHANGED <<op, chunk, choice, approved, targets>>
    BY AtIsLeast DEF SaveJob, Running, InRun, TInv, RunInv, PassInv, approvalVars
  <1>2. /\ jobs' \in [ChunkIds -> [Passes -> SUBSET UNION {Results(c, n) : c \in ChunkIds, n \in Passes}]]
        /\ jobs'[At][op.pass] = jobs[At][op.pass] \cup {op.job}
        /\ \A c \in ChunkIds, n \in Passes : (c = At /\ n = op.pass) \/ jobs'[c][n] = jobs[c][n]
    BY <1>1 DEF TInv, SavedInv
  <1>3. ASSUME NEW c \in ChunkIds, NEW n \in Passes
        PROVE  jobs'[c][n] \subseteq Results(c, n) /\ \A i, j \in jobs'[c][n] : Key(i) = Key(j) => i = j
    BY <1>1, <1>2 DEF TInv, SavedInv, Cached
  <1>4. SavedInv'
    BY <1>1, <1>2, <1>3 DEF TInv, SavedInv
  <1>5. RunType' /\ TodoInv' /\ InRun' /\ op'.kind # "reset"
    BY <1>1 DEF RunType, TodoInv, InRun
  <1> QED BY <1>1, <1>2, <1>4, <1>5, StoreKept

-----------------------------------------------------------------------------
(* Selecting a result *)

\* The row of a chunk that is done before and after a selection is current before and after.
LEMMA SelectionKeepsCurrent ==
  ASSUME TInv, NEW c \in ChunkIds, NEW n \in Passes, NEW job \in Results(c, n), NEW generated \in BOOLEAN,
         chunk' = [chunk EXCEPT ![c] = RecordTranslationPass(c, n, job, generated)],
         UNCHANGED <<jobs, choice>>, SavedInv'
  PROVE  CurrentInv' /\ \A b \in ChunkIds : chunk'[b].final = chunk[b].final
  <1> DEFINE new == RecordTranslationPass(c, n, job, generated)
  <1>1. /\ new.final = chunk[c].final /\ new.deps = Mentions[c]
        /\ \A m \in Passes : m # n => new.selected[m] = chunk[c].selected[m]
        /\ new.selected[n] = Key(job)
        /\ \A m \in 2 .. n : m \notin chunk[c].invalid => m \notin new.invalid
        /\ new.status = "done" => chunk[c].status = "done"
        /\ new.status = "done" /\ Supersedes(c, n, Key(job), generated) => chunk[c].final = None
    BY RecordedRow DEF TInv
  <1>2. chunk'[c] = new /\ \A b \in ChunkIds : b # c => chunk'[b] = chunk[b]
    BY DEF TInv, SelectedInv
  <1> HIDE DEF new
  <1>3. \A b \in ChunkIds : chunk'[b].final = chunk[b].final
    BY <1>1, <1>2
  <1>4. \A r \in ChunkIds : \A b \in 1 .. (r - 1) : b \in ChunkIds
    BY StoreAssumption DEF ChunkIds
  <1>5. \A r \in ChunkIds : PreviousContext(r)' = PreviousContext(r)
    BY <1>3, <1>4, ContextKept
  <1>6. ASSUME NEW r \in ChunkIds, chunk'[r].status = "done"
        PROVE  IsCurrent(r)'
    <2>1. IsCurrent(r) /\ chunk[r].status = "done"
      BY <1>1, <1>2, <1>6 DEF TInv, CurrentInv
    <2>2. \A b \in 1 .. (r - 1) : chunk'[b].final # None
      BY <1>3, <1>4, <2>1 DEF IsCurrent
    <2>5. ContextHolds(r, chunk[r].final.base.context)'
      BY <1>3, <1>4, <2>1, HeldContext
    <2>3. CASE r # c
      BY <1>2, <2>1, <2>2, <2>3, <2>5, CurrentKept DEF TInv, IsCurrent
    <2>4. CASE r = c
      <3>1. ~Supersedes(c, n, Key(job), generated)
        BY <1>1, <1>2, <1>6, <2>1, <2>4 DEF IsCurrent
      <3>2. ASSUME n \in {2, 3, 4} PROVE new.selected[n] = chunk[c].selected[n]
        <4>1. n < 5 /\ 5 > n /\ 5 \in Passes /\ HasJob(c, 5) /\ chunk[c].selected[n] # None
          BY <2>1, <2>4, <3>2 DEF IsCurrent, Passes
        <4> QED BY <1>1, <3>1, <4>1 DEF Supersedes
      <3>3. \A m \in {2, 3, 4} : new.selected[m] = chunk[c].selected[m]
        BY <1>1, <3>2 DEF Passes
      <3>4. 2 \notin new.invalid /\ new.deps = chunk[c].deps
        BY <1>1, <2>1, <2>4 DEF IsCurrent, Passes
      <3> QED BY <1>1, <1>2, <2>1, <2>2, <2>4, <2>5, <3>3, <3>4, CurrentKept DEF TInv
    <2> QED BY <2>3, <2>4
  <1> QED BY <1>3, <1>6 DEF CurrentInv

LEMMA SelectionKeeps ==
  ASSUME TInv, InRun, NEW c \in ChunkIds, c = At, NEW n \in Passes, n = op.pass,
         NEW job \in Results(c, n), job.base = Base(c, n),
         \E saved \in jobs[c][n] : Key(saved) = Key(job), NEW generated \in BOOLEAN,
         chunk' = [chunk EXCEPT ![c] = RecordTranslationPass(c, n, job, generated)],
         UNCHANGED <<jobs, answers, targets, choice, approved>>,
         op' = IF AtTarget THEN [op EXCEPT !.job = job, !.saved = TRUE] ELSE AfterPass
  PROVE  TInv'
  <1> DEFINE new == RecordTranslationPass(c, n, job, generated)
  <1>1. RunType /\ PassInv /\ TodoInv /\ c \in ChunkIds /\ c \in op.todo
    BY AtIsLeast DEF TInv, RunInv
  <1>2. SavedInv'
    BY DEF TInv, SavedInv
  <1>3. CurrentInv' /\ \A b \in ChunkIds : chunk'[b].final = chunk[b].final
    BY <1>1, <1>2, SelectionKeepsCurrent
  <1>4. /\ new \in Rows(c) /\ new.selected[n] = Key(job)
        /\ \A m \in Passes : m # n => new.selected[m] = chunk[c].selected[m]
        /\ n \notin new.invalid
        /\ \A m \in 2 .. n : m \notin chunk[c].invalid => m \notin new.invalid
    BY <1>1, RecordedRow DEF TInv
  <1>5. chunk'[c] = new /\ \A b \in ChunkIds : b # c => chunk'[b] = chunk[b]
    BY <1>1 DEF TInv, SelectedInv
  <1>6. chunk' \in [ChunkIds -> UNION {Rows(r) : r \in ChunkIds}]
    BY <1>1, <1>4 DEF TInv, SelectedInv
  <1> HIDE DEF new
  <1>7. SelectedInv'
    BY <1>4, <1>5, <1>6 DEF TInv, SelectedInv
  <1>8. op'.kind = op.kind /\ op'.todo = op.todo /\ At' = c /\ RunType' /\ TodoInv' /\ InRun'
        /\ (op.kind = "translate" => op'.pass = n + 1 /\ op'.job = None /\ ~op'.saved)
        /\ (op.kind = "target" => op'.target = op.target)
        /\ IF AtTarget THEN op'.pass = n /\ op'.job = job /\ n = op.target
           ELSE op'.pass = n + 1 /\ op'.job = None /\ ~op'.saved
    <2>1. CASE op.kind = "translate"
      <3>1. op' = [kind |-> "translate", todo |-> op.todo, limit |-> op.limit, room |-> op.room,
                   pass |-> n + 1, job |-> None, saved |-> FALSE] /\ ~AtTarget
        BY <1>1, <2>1 DEF RunType, AtTarget, AfterPass
      <3>2. n + 1 \in 2 .. 6
        BY DEF Passes
      <3>3. TodoInv'
        <4>1. \A r \in op.todo : \A b \in 1 .. (r - 1) : b \in ChunkIds
          BY <1>1, StoreAssumption DEF RunType, ChunkIds
        <4> QED BY <1>1, <1>3, <1>5, <2>1, <3>1, <4>1 DEF TodoInv
      <3>4. /\ op'.todo = op.todo /\ op'.kind = op.kind /\ op'.pass = n + 1 /\ op'.job = None
            /\ op'.saved = FALSE /\ op'.room = op.room
            /\ op' = [kind |-> "translate", todo |-> op'.todo, limit |-> op'.limit, room |-> op'.room,
                      pass |-> op'.pass, job |-> op'.job, saved |-> op'.saved]
        BY <2>1, <3>1
      <3>5. RunType'
        BY <1>1, <2>1, <3>2, <3>4 DEF RunType
      <3> QED BY <2>1, <3>1, <3>3, <3>4, <3>5 DEF At, InRun
    <2>2. CASE op.kind = "target" /\ AtTarget
      <3>1. op' = [kind |-> "target", todo |-> op.todo, target |-> op.target, force |-> op.force,
                   pass |-> n, job |-> job, saved |-> TRUE] /\ n = op.target
        BY <1>1, <2>2 DEF RunType, AtTarget
      <3> QED BY <1>1, <2>2, <3>1 DEF RunType, At, InRun, TodoInv
    <2>3. CASE op.kind = "target" /\ ~AtTarget
      <3>1. op' = [kind |-> "target", todo |-> op.todo, target |-> op.target, force |-> op.force,
                   pass |-> n + 1, job |-> None, saved |-> FALSE] /\ n # op.target
        BY <1>1, <2>3 DEF RunType, AtTarget, AfterPass
      <3>2. n + 1 \in 2 .. op.target /\ n + 1 \in 2 .. 6
        BY <1>1, <2>3, <3>1 DEF Passes, RunType
      <3>3. /\ op'.todo = op.todo /\ op'.kind = op.kind /\ op'.pass = n + 1 /\ op'.job = None
            /\ op'.saved = FALSE /\ op'.target = op.target /\ op'.force = op.force
            /\ op' = [kind |-> "target", todo |-> op'.todo, target |-> op'.target, force |-> op'.force,
                      pass |-> op'.pass, job |-> op'.job, saved |-> op'.saved]
        BY <2>3, <3>1
      <3>4. RunType'
        BY <1>1, <2>3, <3>2, <3>3 DEF RunType
      <3> QED BY <2>3, <3>3, <3>4 DEF At, InRun, TodoInv
    <2> QED BY <2>1, <2>2, <2>3 DEF InRun
  <1>9. \A r \in ChunkIds : PreviousContext(r)' = PreviousContext(r)
    <2>1. \A r \in ChunkIds : \A b \in 1 .. (r - 1) : b \in ChunkIds
      BY StoreAssumption DEF ChunkIds
    <2> QED BY <1>3, <2>1, ContextKept
  <1>10. \A m \in Passes : m < n => PassDone(c, m) /\ m \notin chunk'[c].invalid
                                         /\ chunk'[c].selected[m] = chunk[c].selected[m]
    <2> SUFFICES ASSUME NEW m \in Passes, m < n
                 PROVE  PassDone(c, m) /\ m \notin chunk'[c].invalid
                        /\ chunk'[c].selected[m] = chunk[c].selected[m]
      OBVIOUS
    <2>1. m \in 2 .. n - 1 /\ m \in 2 .. n /\ m # n
      BY DEF Passes
    <2>2. PassDone(c, m)
      BY <1>1, <2>1 DEF PassInv
    <2> QED BY <1>4, <1>5, <2>1, <2>2 DEF PassDone
  <1>11. Base(c, n)' = Base(c, n)
    <2>1. \A m \in Upstream(n) : m \in Passes /\ m < n
      BY UpstreamIsEarlier
    <2>2. \A m \in Upstream(n) : chunk[c].selected[m] # None /\ chunk'[c].selected[m] = chunk[c].selected[m]
      BY <1>10, <2>1 DEF PassDone
    <2> QED BY <1>1, <1>2, <1>9, <2>2, BaseKept DEF TInv
  <1>12. \A m \in Passes : m < n => PassDone(c, m)'
    <2> SUFFICES ASSUME NEW m \in Passes, m < n PROVE PassDone(c, m)'
      OBVIOUS
    <2>1. \A k \in Passes : k <= m => k < n
      BY DEF Passes
    <2> QED BY <1>1, <1>2, <1>9, <1>10, <2>1, PassKept DEF TInv
  <1>13. PassDone(c, n)'
    <2>1. Key(job) \in Keys(c, n) /\ Key(job).base = job.base
      BY DEF Key, Results, Keys
    <2>2. Key(job) # None
      BY <1>1, <2>1, RunAssumption
    <2> QED BY <1>4, <1>5, <1>11, <2>1, <2>2 DEF PassDone
  <1>14. PassInv'
    <2>1. \A m \in 2 .. op'.pass - 1 : PassDone(c, m)'
      <3> SUFFICES ASSUME NEW m \in 2 .. op'.pass - 1 PROVE PassDone(c, m)'
        OBVIOUS
      <3>1. m \in Passes /\ (m < n \/ m = n)
        BY <1>8 DEF Passes
      <3> QED BY <1>12, <1>13, <3>1
    <2>2. op'.job # None => /\ op'.pass \in Passes
                            /\ op'.job \in Results(c, op'.pass) /\ op'.job.base = Base(c, n)'
                            /\ op'.pass = n
      BY <1>8, <1>11
    <2>3. op'.saved => /\ op'.pass = op'.target /\ op'.job # None
                       /\ op'.pass \notin chunk'[c].invalid /\ chunk'[c].selected[op'.pass] = Key(op'.job)
      <3>1. job # None
        BY <1>1, RunAssumption
      <3> QED BY <1>4, <1>5, <1>8, <3>1 DEF AtTarget
    <2> QED BY <1>8, <2>1, <2>2, <2>3 DEF PassInv
  <1>15. RunInv' /\ TermsInv'
    BY <1>8, <1>14 DEF RunInv, TInv, TermsInv, InRun
  <1> QED BY <1>2, <1>3, <1>7, <1>15 DEF TInv

LEMMA UseSavedKeeps ==
  ASSUME TInv, UseSavedResult
  PROVE  TInv'
  <1>1. PICK job \in jobs[At][op.pass] :
          /\ Key(job) = PassKey
          /\ chunk' = [chunk EXCEPT ![At] = RecordTranslationPass(At, op.pass, job, FALSE)]
          /\ op' = IF AtTarget THEN [op EXCEPT !.job = job, !.saved = TRUE] ELSE AfterPass
    BY DEF UseSavedResult
  <1>2. Asking /\ UNCHANGED <<jobs, answers, targets, choice, approved>>
    BY DEF UseSavedResult, approvalVars
  <1>3. InRun /\ At \in ChunkIds /\ op.pass \in Passes /\ PassKey.base = Base(At, op.pass)
    BY <1>2, PassKeyIs
  <1>4. job \in Results(At, op.pass) /\ job.base = Base(At, op.pass)
    BY <1>1, <1>3 DEF TInv, SavedInv, Key
  <1> QED BY <1>1, <1>2, <1>3, <1>4, SelectionKeeps

LEMMA RecordGeneratedKeeps ==
  ASSUME TInv, RecordGenerated
  PROVE  TInv'
  <1>1. /\ InRun /\ RunType /\ op.job \in Results(At, op.pass) /\ op.job.base = Base(At, op.pass)
        /\ op.pass \in Passes /\ (\E saved \in jobs[At][op.pass] : Key(saved) = Key(op.job))
        /\ UNCHANGED <<jobs, answers, targets, choice, approved>>
        /\ chunk' = [chunk EXCEPT ![At] = RecordTranslationPass(At, op.pass, op.job, TRUE)]
        /\ op' = IF AtTarget THEN [op EXCEPT !.saved = TRUE] ELSE AfterPass
    BY DEF RecordGenerated, Running, InRun, Cached, TInv, RunInv, PassInv, approvalVars
  <1>2. AtTarget => [op EXCEPT !.saved = TRUE] = [op EXCEPT !.job = op.job, !.saved = TRUE]
    BY <1>1 DEF AtTarget, RunType
  <1>3. At \in ChunkIds
    BY <1>1, AtIsLeast
  <1>4. op' = IF AtTarget THEN [op EXCEPT !.job = op.job, !.saved = TRUE] ELSE AfterPass
    BY <1>1, <1>2
  <1> HIDE DEF AtTarget
  <1> QED BY <1>1, <1>3, <1>4, SelectionKeeps

-----------------------------------------------------------------------------
(* Completing a chunk *)

LEMMA DependentRows ==
  ASSUME NEW c \in ChunkIds, NEW rows, NEW text, \A r \in ChunkIds : rows[r] \in Rows(r)
  PROVE  LET out == InvalidateContextDependents(rows, c, text) IN
         /\ out \in [ChunkIds -> UNION {Rows(r) : r \in ChunkIds}]
         /\ \A r \in ChunkIds :
               /\ out[r] \in Rows(r) /\ out[r].final = rows[r].final
               /\ out[r].selected = rows[r].selected /\ out[r].deps = rows[r].deps
               /\ IF r # c /\ OtherText(rows[r], c, text)
                  THEN out[r].status = "done" => rows[r].final = None /\ rows[r].status = "done"
                  ELSE out[r] = rows[r]
  <1> DEFINE out == InvalidateContextDependents(rows, c, text)
  <1>1. out = [r \in ChunkIds |-> IF r # c /\ OtherText(rows[r], c, text)
                                  THEN InvalidatePasses(rows[r], 2) ELSE rows[r]]
    BY DEF InvalidateContextDependents
  <1>2. \A r \in ChunkIds : out[r] = IF r # c /\ OtherText(rows[r], c, text)
                                     THEN InvalidatePasses(rows[r], 2) ELSE rows[r]
    BY <1>1
  <1> HIDE DEF out
  <1>3. 2 \in 2 .. 6
    OBVIOUS
  <1>4. ASSUME NEW r \in ChunkIds
        PROVE  /\ out[r] \in Rows(r) /\ out[r].final = rows[r].final
               /\ out[r].selected = rows[r].selected /\ out[r].deps = rows[r].deps
               /\ IF r # c /\ OtherText(rows[r], c, text)
                  THEN out[r].status = "done" => rows[r].final = None /\ rows[r].status = "done"
                  ELSE out[r] = rows[r]
    <2>1. CASE r # c /\ OtherText(rows[r], c, text)
      <3>1. out[r] = InvalidatePasses(rows[r], 2)
        BY <1>2, <2>1
      <3> QED BY <1>3, <2>1, <3>1, InvalidatedRow
    <2>2. CASE ~(r # c /\ OtherText(rows[r], c, text))
      BY <1>2, <2>2
    <2> QED BY <2>1, <2>2
  <1>5. out \in [ChunkIds -> UNION {Rows(r) : r \in ChunkIds}]
    <2>1. \A r \in ChunkIds : out[r] \in UNION {Rows(q) : q \in ChunkIds}
      BY <1>4
    <2>2. out = [r \in ChunkIds |-> out[r]]
      BY <1>1
    <2> QED BY <2>1, <2>2
  <1> QED BY <1>4, <1>5 DEF out

\* A chunk that is done reads the text before it: it is found when that text changes.
LEMMA ReaderIsFound ==
  ASSUME TInv, NEW r \in ChunkIds, IsCurrent(r)
  PROVE  /\ ContextRead(chunk[r]) = chunk[r].final.base.context
         /\ chunk[r].final.base.context # None
         /\ chunk[r].final.base.context.source = Neighbour(r).source
  <1>1. ContextRead(chunk[r]) = chunk[r].final.base.context
    BY DEF IsCurrent, ContextRead
  <1>2. PreviousContext(r) = Neighbour(r)
    BY ContextIsNeighbour DEF IsCurrent
  <1>3. chunk[r].final \in Results(r, 5)
    BY DEF IsCurrent, TInv, SelectedInv, Rows
  <1>4. chunk[r].final.base.context \in Contexts
    BY <1>3 DEF Results, Bases
  <1> QED BY <1>1, <1>2, <1>4, RunAssumption DEF IsCurrent, ContextHolds

\* A chunk gets a text, and the chunks that read its old one are marked: what is done after it is
\* current, and only chunks after it are no longer done.
LEMMA TextKeepsCurrent ==
  ASSUME TInv, SavedInv', UNCHANGED <<jobs, choice>>,
         NEW c \in ChunkIds, NEW job \in Results(c, 5), NEW row \in Rows(c),
         chunk' = InvalidateContextDependents([chunk EXCEPT ![c] = row], c, job.value),
         row.final = job, row.deps = Mentions[c], row.selected = chunk[c].selected,
         row.invalid \subseteq chunk[c].invalid,
         row.status = "done" =>
            /\ \A n \in {2, 3, 4} : PassDone(c, n)
            /\ chunk[c].selected[5] # None /\ job.base = Base(c, 5)
            /\ \A b \in 1 .. (c - 1) : chunk[b].final # None
  PROVE  /\ SelectedInv' /\ CurrentInv' /\ chunk'[c] = row
         /\ \A r \in ChunkIds : /\ chunk[r].final # None => chunk'[r].final # None
                                /\ chunk[r].status = "done" /\ r # c /\ chunk'[r].status # "done" => r > c
  <1> DEFINE rows == [chunk EXCEPT ![c] = row]
  <1>1. rows[c] = row /\ \A r \in ChunkIds : (r # c => rows[r] = chunk[r]) /\ rows[r] \in Rows(r)
    BY DEF TInv, SelectedInv
  <1>2. chunk' = InvalidateContextDependents(rows, c, job.value)
    OBVIOUS
  <1> HIDE DEF rows
  <1>3. /\ chunk' \in [ChunkIds -> UNION {Rows(r) : r \in ChunkIds}]
        /\ \A r \in ChunkIds :
               /\ chunk'[r] \in Rows(r) /\ chunk'[r].final = rows[r].final
               /\ chunk'[r].selected = rows[r].selected /\ chunk'[r].deps = rows[r].deps
               /\ IF r # c /\ OtherText(rows[r], c, job.value)
                  THEN chunk'[r].status = "done" => rows[r].final = None /\ rows[r].status = "done"
                  ELSE chunk'[r] = rows[r]
    <2> DEFINE out == InvalidateContextDependents(rows, c, job.value)
    <2>1. /\ out \in [ChunkIds -> UNION {Rows(r) : r \in ChunkIds}]
          /\ \A r \in ChunkIds :
                 /\ out[r] \in Rows(r) /\ out[r].final = rows[r].final
                 /\ out[r].selected = rows[r].selected /\ out[r].deps = rows[r].deps
                 /\ IF r # c /\ OtherText(rows[r], c, job.value)
                    THEN out[r].status = "done" => rows[r].final = None /\ rows[r].status = "done"
                    ELSE out[r] = rows[r]
      BY <1>1, DependentRows
    <2> HIDE DEF out
    <2>2. chunk' = out
      BY <1>2 DEF out
    <2> QED BY <2>1, <2>2
  <1>4. chunk'[c] = row /\ job # None
    <2>1. 5 \in Passes
      BY DEF Passes
    <2>2. job # None
      BY <2>1, RunAssumption
    <2> QED BY <1>1, <1>3, <2>2
  <1>5. \A r \in ChunkIds : /\ chunk'[r].selected = chunk[r].selected
                            /\ r # c => chunk'[r].final = chunk[r].final /\ chunk'[r].deps = chunk[r].deps
                            /\ chunk[r].final # None => chunk'[r].final # None
    <2> SUFFICES ASSUME NEW r \in ChunkIds
                 PROVE  /\ chunk'[r].selected = chunk[r].selected
                        /\ r # c => chunk'[r].final = chunk[r].final /\ chunk'[r].deps = chunk[r].deps
                        /\ chunk[r].final # None => chunk'[r].final # None
      OBVIOUS
    <2>1. chunk'[r].final = rows[r].final /\ chunk'[r].selected = rows[r].selected /\ chunk'[r].deps = rows[r].deps
      BY <1>3
    <2>2. CASE r = c
      BY <1>1, <1>4, <2>1, <2>2
    <2>3. CASE r # c
      BY <1>1, <2>1, <2>3
    <2> QED BY <2>2, <2>3
  <1>6. SelectedInv'
    <2>1. \A r \in ChunkIds : chunk'[r] \in Rows(r)
      BY <1>3
    <2>2. \A r \in ChunkIds, n \in Passes :
             chunk'[r].selected[n] # None => \E saved \in jobs'[r][n] : Key(saved) = chunk'[r].selected[n]
      BY <1>5 DEF TInv, SelectedInv
    <2> QED BY <1>3, <2>1, <2>2 DEF SelectedInv
  <1>7. \A r \in ChunkIds : \A b \in 1 .. (r - 1) : b \in ChunkIds /\ b < r /\ b # r
    BY StoreAssumption DEF ChunkIds
  <1>8. ASSUME NEW r \in ChunkIds, r # c, chunk'[r].status = "done"
        PROVE  chunk[r].status = "done" /\ IsCurrent(r) /\ chunk'[r] = chunk[r]
               /\ ~OtherText(chunk[r], c, job.value)
    <2>1. rows[r] = chunk[r]
      BY <1>1, <1>8
    <2>2. chunk[r].status = "done"
      BY <1>3, <1>8, <2>1
    <2>3. IsCurrent(r) /\ chunk[r].final # None
      BY <2>2 DEF TInv, CurrentInv, IsCurrent
    <2> QED BY <1>3, <1>8, <2>1, <2>2, <2>3
  <1>9. ASSUME NEW r \in ChunkIds, r # c, chunk'[r].status = "done"
        PROVE  /\ ContextHolds(r, chunk[r].final.base.context)'
               /\ \A b \in 1 .. (r - 1) : chunk'[b].final # None
    <2>1. IsCurrent(r) /\ chunk'[r] = chunk[r] /\ ~OtherText(chunk[r], c, job.value)
      BY <1>8, <1>9
    <2>2. \A b \in 1 .. (r - 1) : chunk[b].final # None /\ chunk'[b].final # None
      BY <1>5, <1>7, <2>1 DEF IsCurrent
    <2>3. PreviousContext(r)' = Neighbour(r)'
      BY <2>2, ContextIsNeighbour
    <2>4. CASE r = 1 \/ r - 1 # c
      <3>1. ASSUME NEW b \in 1 .. (r - 1) PROVE b \in ChunkIds /\ b < r
        BY <1>7
      <3>2. r # 1 => chunk'[r - 1].final = chunk[r - 1].final
        <4>1. r # 1 => r - 1 \in 1 .. (r - 1)
          BY DEF ChunkIds
        <4> QED BY <1>5, <2>4, <3>1, <4>1
      <3>3. Neighbour(r)' = Neighbour(r)
        BY <3>2 DEF Neighbour
      <3>4. PreviousContext(r)' = PreviousContext(r)
        BY <2>2, <2>3, <3>3, ContextIsNeighbour
      <3>5. Neighbour(r).source # None => r # 1 /\ Neighbour(r).source = r - 1
        BY DEF Neighbour
      <3>6. PreviousContext(r) = Neighbour(r)
        BY <2>2, ContextIsNeighbour
      <3>7. PreviousContext(r).source # None =>
              chunk'[PreviousContext(r).source].final = chunk[PreviousContext(r).source].final
        BY <3>2, <3>5, <3>6
      <3>8. ContextHolds(r, chunk[r].final.base.context)
        BY <2>1 DEF IsCurrent
      <3>9. chunk'[r].final.base.context = chunk[r].final.base.context
        BY <2>1
      <3>10. ContextHolds(r, chunk[r].final.base.context)'
        BY <3>4, <3>7, <3>8, <3>9 DEF ContextHolds
      <3> QED BY <2>2, <3>10
    <2>5. CASE r # 1 /\ r - 1 = c
      <3>1. Neighbour(r).source = c /\ Neighbour(r)'.source = c
        BY <2>5 DEF Neighbour
      <3>2. chunk[r].final.base.context.source = c /\ chunk[r].final.base.context.polish \in Ends[job.value]
        BY <2>1, <3>1, ReaderIsFound DEF OtherText
      <3>3. chunk'[c].final = job
        BY <1>4
      <3>4. PreviousContext(r)'.source = c
        BY <2>3, <3>1
      <3>5. chunk'[r].final.base.context = chunk[r].final.base.context
        BY <2>1
      <3>6. ContextHolds(r, chunk[r].final.base.context)'
        BY <3>2, <3>3, <3>4, <3>5 DEF ContextHolds
      <3> QED BY <2>2, <3>6
    <2> QED BY <2>2, <2>4, <2>5
  <1>10. ASSUME NEW r \in ChunkIds, chunk'[r].status = "done" PROVE IsCurrent(r)'
    <2>1. CASE r # c
      <3>1. IsCurrent(r) /\ chunk'[r] = chunk[r]
        BY <1>8, <1>10, <2>1
      <3> QED BY <1>9, <1>10, <2>1, <3>1, CurrentKept DEF TInv, IsCurrent
    <2>2. CASE r = c
      <3>1. /\ \A n \in {2, 3, 4} : PassDone(c, n)
            /\ chunk[c].selected[5] # None /\ job.base = Base(c, 5)
            /\ \A b \in 1 .. (c - 1) : chunk[b].final # None
        BY <1>4, <1>10, <2>2
      <3>2. \A b \in 1 .. (c - 1) : chunk'[b].final = chunk[b].final
        BY <1>5, <1>7
      <3>3. PreviousContext(c)' = PreviousContext(c)
        BY <3>2, ContextKept
      <3>4. Upstream(5) = {3, 4} /\ {2, 3, 4, 5} \subseteq Passes
        BY DEF Upstream, Passes
      <3>5. Base(c, 5)' = Base(c, 5)
        <4>1. 5 \in Passes /\ \A m \in Upstream(5) : m \in {2, 3, 4}
          BY <3>4
        <4>2. \A m \in Upstream(5) : /\ chunk[c].selected[m] # None
                                     /\ chunk'[c].selected[m] = chunk[c].selected[m]
                                     /\ jobs[c][m] \subseteq jobs'[c][m]
          BY <1>5, <3>1, <4>1 DEF PassDone
        <4>3. \A t \in Mentions[c] : choice'[t] = choice[t]
          OBVIOUS
        <4>4. SavedInv /\ SelectedInv
          BY DEF TInv
        <4> QED BY <3>3, <4>1, <4>2, <4>3, <4>4, BaseKept
      <3>6. HasJob(c, 5)
        BY <3>1, <3>4 DEF HasJob, TInv, SelectedInv
      <3>7. chunk[c].selected[2].base.context = PreviousContext(c) /\ job.base.context = PreviousContext(c)
        BY <3>1 DEF PassDone, Base
      <3>8. \A n \in {2, 3, 4} : chunk[c].selected[n] # None
        BY <3>1 DEF PassDone
      <3>9. 2 \notin chunk[c].invalid
        BY <3>1 DEF PassDone
      <3> HIDE DEF rows
      <3>10. /\ chunk'[c].final = job /\ chunk'[c].selected = chunk[c].selected
             /\ chunk'[c].deps = Mentions[c] /\ chunk'[c].invalid \subseteq chunk[c].invalid
        BY <1>4
      <3>11. HasJob(c, 5)'
        BY <3>6 DEF HasJob
      <3>12. \A b \in 1 .. (c - 1) : chunk'[b].final # None
        BY <3>1, <3>2
      <3>13. chunk'[c].selected[2].base.context = chunk'[c].final.base.context
        BY <3>7, <3>10
      <3>14. chunk'[c].final.base = Base(c, 5)'
        BY <3>1, <3>5, <3>10
      <3>15. /\ chunk'[c].final.base.lexicon = ApprovedLexicon(c)'
             /\ chunk'[c].final.base.context = PreviousContext(c)'
             /\ \A n \in {3, 4} : chunk'[c].final.base.drafts[n] = Draft(c, n)'
        BY <3>4, <3>14 DEF Base
      <3>16. ContextHolds(c, PreviousContext(c))'
        <4>1. PreviousContext(c)' = Neighbour(c)'
          BY <3>12, ContextIsNeighbour
        <4>2. ASSUME c # 1 PROVE Suffix[chunk'[c - 1].final.value] \in Ends[chunk'[c - 1].final.value]
          <5>1. c - 1 \in ChunkIds /\ c - 1 \in 1 .. (c - 1)
            BY <4>2, StoreAssumption DEF ChunkIds
          <5>2. chunk'[c - 1].final \in Results(c - 1, 5)
            BY <1>3, <3>12, <5>1 DEF Rows
          <5>3. chunk'[c - 1].final.value \in Values(5)
            BY <5>2 DEF Results
          <5> QED BY <5>3, RunAssumption
        <4> QED BY <4>1, <4>2 DEF ContextHolds, Neighbour
      <3> QED BY <1>4, <2>2, <3>8, <3>9, <3>10, <3>11, <3>12, <3>13, <3>15, <3>16 DEF IsCurrent
    <2> QED BY <2>1, <2>2
  <1>11. ASSUME NEW r \in ChunkIds, chunk[r].status = "done", r # c, chunk'[r].status # "done" PROVE r > c
    <2>1. OtherText(chunk[r], c, job.value) /\ IsCurrent(r)
      BY <1>1, <1>3, <1>11 DEF TInv, CurrentInv
    <2>2. Neighbour(r).source = c
      BY <2>1, ReaderIsFound DEF OtherText
    <2>3. r # 1
      BY <2>2, RunAssumption DEF Neighbour
    <2> QED BY <2>2, <2>3 DEF Neighbour, ChunkIds
  <1> QED BY <1>4, <1>5, <1>6, <1>10, <1>11 DEF CurrentInv

\* The first of a set of chunks leave out none before one they have.
LEMMA FirstAreFirst ==
  ASSUME NEW S \in SUBSET ChunkIds, NEW k \in Int
  PROVE  /\ FirstOf(k, S) \subseteq S
         /\ \A c \in FirstOf(k, S) : \A b \in S : b < c => b \in FirstOf(k, S)
         /\ k >= Chunks => FirstOf(k, S) = S
         /\ IsFiniteSet(FirstOf(k, S)) /\ Cardinality(FirstOf(k, S)) \in Nat
  <1> DEFINE Before(c) == {b \in S : b < c}
  <1>1. Chunks \in Nat /\ IsFiniteSet(ChunkIds) /\ Cardinality(ChunkIds) = Chunks
    BY StoreAssumption, FS_Interval DEF ChunkIds
  <1>2. \A c \in S : IsFiniteSet(Before(c)) /\ Cardinality(Before(c)) \in Nat
    <2> SUFFICES ASSUME NEW c \in S PROVE IsFiniteSet(Before(c)) /\ Cardinality(Before(c)) \in Nat
      OBVIOUS
    <2>1. Before(c) \subseteq ChunkIds
      OBVIOUS
    <2>2. IsFiniteSet(Before(c))
      BY <1>1, <2>1, FS_Subset
    <2> QED BY <2>2, FS_CardinalityType
  <1>2a. \A x \in S : x \in Int
    BY DEF ChunkIds
  <1>3. ASSUME NEW c \in S, NEW b \in S, b < c PROVE Cardinality(Before(b)) <= Cardinality(Before(c))
    <2>1. Before(b) \subseteq Before(c)
      <3> SUFFICES ASSUME NEW x \in S, x < b PROVE x < c
        OBVIOUS
      <3>1. x \in Int /\ b \in Int /\ c \in Int
        BY <1>2a
      <3> QED BY <1>3, <3>1
    <2> QED BY <1>2, <2>1, FS_Subset
  <1>4. ASSUME NEW c \in S PROVE Cardinality(Before(c)) < Chunks
    <2>1. c \notin Before(c) /\ Before(c) \subseteq ChunkIds /\ c \in ChunkIds
      <3>1. ~(c < c)
        BY <1>2a
      <3> QED BY <3>1
    <2>2. Before(c) # ChunkIds
      BY <2>1
    <2> HIDE DEF Before
    <2>3. Cardinality(Before(c)) <= Chunks /\ (Cardinality(Before(c)) = Chunks => Before(c) = ChunkIds)
      BY <1>1, <2>1, FS_Subset
    <2> QED BY <1>1, <1>2, <2>2, <2>3
  <1>5. FirstOf(k, S) = {c \in S : Cardinality(Before(c)) < k}
    BY DEF FirstOf
  <1>6. IsFiniteSet(FirstOf(k, S))
    <2>1. FirstOf(k, S) \subseteq ChunkIds
      BY <1>5
    <2> QED BY <1>1, <2>1, FS_Subset
  <1>7. Cardinality(FirstOf(k, S)) \in Nat
    BY <1>6, FS_CardinalityType
  <1> HIDE DEF Before
  <1>8. \A c \in FirstOf(k, S) : \A b \in S : b < c => b \in FirstOf(k, S)
    <2> SUFFICES ASSUME NEW c \in FirstOf(k, S), NEW b \in S, b < c PROVE Cardinality(Before(b)) < k
      BY <1>5
    <2>1. c \in S /\ Cardinality(Before(c)) < k
      BY <1>5
    <2> QED BY <1>2, <1>3, <2>1
  <1>9. k >= Chunks => FirstOf(k, S) = S
    BY <1>1, <1>2, <1>4, <1>5
  <1> QED BY <1>5, <1>6, <1>7, <1>8, <1>9

\* The row of a chunk whose text is accepted, and of one a run has finished.
LEMMA FinalRow ==
  ASSUME NEW c \in ChunkIds, NEW row \in Rows(c), NEW job \in Results(c, 5), NEW status \in {"stale", "done"}
  PROVE  /\ WithFinal(row, job, status) \in Rows(c)
         /\ WithFinal(row, job, status).status = status /\ WithFinal(row, job, status).final = job
         /\ WithFinal(row, job, status).deps = Mentions[c]
         /\ WithFinal(row, job, status).selected = row.selected
         /\ WithFinal(row, job, status).invalid = row.invalid
         /\ Finished(row, job) \in Rows(c)
         /\ Finished(row, job).status = "done" /\ Finished(row, job).final = job
         /\ Finished(row, job).deps = Mentions[c] /\ Finished(row, job).selected = row.selected
         /\ Finished(row, job).invalid \subseteq row.invalid
  <1>1. DOMAIN job.base.lexicon = Mentions[c] /\ Mentions[c] \subseteq Terms
    BY StoreAssumption DEF Results, Bases, ChunkIds
  <1>2. PICK s, f, d, e, i : row = [status |-> s, final |-> f, deps |-> d, selected |-> e, invalid |-> i]
    BY DEF Rows
  <1>3. /\ row.selected \in [Passes -> {None} \cup UNION {Keys(c, n) : n \in Passes}]
        /\ row.invalid \in SUBSET Passes
    BY DEF Rows
  <1>4. row.selected = e /\ row.invalid = i
    BY <1>2
  <1>5. ASSUME NEW k
        PROVE  /\ WithFinal(row, job, k) = [status |-> k, final |-> job, deps |-> Mentions[c],
                                            selected |-> e, invalid |-> i]
    <2>1. WithFinal(row, job, k) = [row EXCEPT !.status = k, !.final = job, !.deps = Mentions[c]]
      BY <1>1, Zenon DEF WithFinal
    <2> QED BY <1>2, <2>1
  <1>6. Finished(row, job) = [status |-> "done", final |-> job, deps |-> Mentions[c],
                              selected |-> e, invalid |-> i \ {5}]
    <2> DEFINE new == WithFinal(row, job, "done")
    <2>1. new = [status |-> "done", final |-> job, deps |-> Mentions[c], selected |-> e, invalid |-> i]
      BY <1>5
    <2>2. Finished(row, job) = [new EXCEPT !.invalid = @ \ {5}]
      BY Zenon DEF Finished
    <2> HIDE DEF new
    <2> QED BY <2>1, <2>2
  <1>7. WithFinal(row, job, status) \in Rows(c) /\ Finished(row, job) \in Rows(c)
    BY <1>1, <1>3, <1>4, <1>5, <1>6 DEF Rows
  <1> QED BY <1>4, <1>5, <1>6, <1>7

LEMMA FinishKeeps ==
  ASSUME TInv, FinishChunk
  PROVE  /\ TInv'
         /\ op.limit = 0 /\ op' = Idle => \A c \in ChunkIds : chunk'[c].status = "done"
  <1>1. PICK c \in ChunkIds : c = At
    BY AtIsLeast DEF FinishChunk, InRun, TInv, RunInv
  <1>2. /\ InRun /\ RunType /\ PassInv /\ TodoInv /\ op.kind = "translate" /\ op.pass = 6
        /\ c \in op.todo /\ \A b \in op.todo : c <= b
    BY <1>1, AtIsLeast DEF FinishChunk, InRun, TInv, RunInv
  <1> DEFINE job == Result(c, 5, chunk[c].selected[5])
             row == Finished(chunk[c], job)
             joining == FirstOf(op.room, Reopened(chunk'))
             todo == (op.todo \ {c}) \cup joining
  <1>3. /\ chunk' = InvalidateContextDependents([chunk EXCEPT ![c] = row], c, job.value)
        /\ op' = IF todo = {} THEN Idle
                 ELSE [op EXCEPT !.todo = todo, !.pass = 2, !.job = None, !.saved = FALSE,
                                 !.room = @ - IF op.limit = 0 THEN 0 ELSE Cardinality(joining)]
        /\ UNCHANGED <<jobs, answers, targets, choice, approved>>
    <2>1. chunk' = FinishedChunk(At, Result(At, 5, chunk[At].selected[5]))
      BY Zenon DEF FinishChunk
    <2>2. chunk' = InvalidateContextDependents([chunk EXCEPT ![c] = row], c, job.value)
      <3>1. chunk' = FinishedChunk(c, job)
        BY <1>1, <2>1
      <3> QED BY <3>1, Zenon DEF FinishedChunk
    <2>3. LET join == FirstOf(op.room, Reopened(FinishedChunk(At, Result(At, 5, chunk[At].selected[5]))))
              rest == (op.todo \ {At}) \cup join
          IN  op' = IF rest = {} THEN Idle
                    ELSE [op EXCEPT !.todo = rest, !.pass = 2, !.job = None, !.saved = FALSE,
                                    !.room = @ - IF op.limit = 0 THEN 0 ELSE Cardinality(join)]
      BY Zenon DEF FinishChunk
    <2>4. UNCHANGED <<jobs, answers, targets, choice, approved>>
      BY DEF FinishChunk, approvalVars
    <2> HIDE DEF row, job
    <2> QED BY <1>1, <2>1, <2>2, <2>3, <2>4, Zenon
  <1>4. \A n \in Passes : PassDone(c, n)
    BY <1>1, <1>2 DEF PassInv, Passes
  <1>5. job \in Results(c, 5) /\ job.base = Base(c, 5)
    <2>1. 5 \in Passes /\ PassDone(c, 5)
      BY <1>4 DEF Passes
    <2>2. PICK saved \in Results(c, 5) : saved = job /\ Key(saved) = chunk[c].selected[5]
      BY <2>1, DraftIsSaved DEF TInv, PassDone
    <2> QED BY <2>1, <2>2 DEF PassDone, Key
  <1> HIDE DEF job
  <1>6. row \in Rows(c) /\ row.final = job /\ row.deps = Mentions[c] /\ row.selected = chunk[c].selected
        /\ row.invalid \subseteq chunk[c].invalid /\ row.status = "done"
    <2>1. chunk[c] \in Rows(c)
      BY DEF TInv, SelectedInv
    <2> QED BY <1>5, <2>1, FinalRow
  <1> HIDE DEF row
  <1>7. \A b \in 1 .. (c - 1) : chunk[b].final # None
    <2>1. \A b \in 1 .. (c - 1) : b < c /\ b \in ChunkIds
      BY StoreAssumption DEF ChunkIds
    <2> QED BY <1>2, <2>1 DEF TodoInv, ChunkIds
  <1>8. SavedInv'
    BY <1>3 DEF TInv, SavedInv
  <1>9. /\ SelectedInv' /\ CurrentInv' /\ chunk'[c] = row
        /\ \A r \in ChunkIds : /\ chunk[r].final # None => chunk'[r].final # None
                               /\ chunk[r].status = "done" /\ r # c /\ chunk'[r].status # "done" => r > c
    <2>1. {2, 3, 4, 5} \subseteq Passes
      BY DEF Passes
    <2>2. (\A n \in {2, 3, 4} : PassDone(c, n)) /\ chunk[c].selected[5] # None
      BY <1>4, <2>1 DEF PassDone
    <2> QED BY <1>3, <1>5, <1>6, <1>7, <1>8, <2>2, TextKeepsCurrent
  <1>10. Reopened(chunk') \in SUBSET ChunkIds
    BY DEF Reopened
  <1>11. /\ joining \subseteq Reopened(chunk') /\ Cardinality(joining) \in Nat
         /\ \A r \in joining : \A b \in Reopened(chunk') : b < r => b \in joining
         /\ op.room >= Chunks => joining = Reopened(chunk')
    BY <1>2, <1>10, FirstAreFirst DEF RunType
  <1> HIDE DEF joining
  <1>12. /\ op.kind = "translate" /\ op.room \in Int /\ todo \in SUBSET ChunkIds
         /\ todo = (op.todo \ {c}) \cup joining /\ \A r \in op.todo : r = c \/ r > c
         /\ \A r \in ChunkIds : r \in Int
    BY <1>2, <1>10, <1>11 DEF RunType, ChunkIds
  <1>13. ASSUME NEW r \in ChunkIds \ todo, op.limit = 0 PROVE chunk'[r].status = "done"
    <2>1. op.room = Chunks /\ \A x \in ChunkIds \ op.todo : chunk[x].status = "done"
      BY <1>2, <1>13 DEF TodoInv
    <2>2. joining = Reopened(chunk')
      BY <1>11, <1>12, <2>1
    <2>3. CASE r = c
      BY <1>6, <1>9, <2>3
    <2>4. CASE r # c
      <3>1. r \notin op.todo /\ chunk[r].status = "done"
        BY <1>12, <1>13, <2>1, <2>4
      <3>2. chunk'[r].status # "done" => r > c
        BY <1>9, <2>4, <3>1
      <3>3. chunk'[r].status # "done" => r \in Reopened(chunk')
        BY <1>1, <3>1, <3>2 DEF Reopened
      <3> QED BY <1>13, <2>2, <3>3
    <2> QED BY <2>3, <2>4
  <1>14. ASSUME NEW r \in todo, NEW b \in 1 .. (r - 1) PROVE b \in todo \/ chunk'[b].final # None
    <2>1. b \in ChunkIds /\ b < r /\ r \in ChunkIds /\ r > c
      <3>1. r > c /\ r \in ChunkIds
        BY <1>1, <1>11, <1>12, <1>14 DEF Reopened
      <3> QED BY <3>1, StoreAssumption DEF ChunkIds
    <2>2. CASE b = c
      <3>1. job # None
        BY <1>5, RunAssumption DEF Passes
      <3> QED BY <1>6, <1>9, <2>2, <3>1
    <2>3. CASE b # c /\ chunk[b].final # None
      BY <1>9, <2>1, <2>3
    <2>4. CASE b # c /\ chunk[b].final = None
      <3>1. b > c
        BY <1>7, <1>12, <2>1, <2>4 DEF ChunkIds
      <3>2. CASE b \in op.todo
        BY <1>12, <2>4, <3>2
      <3>3. CASE b \notin op.todo
        <4>1. r \notin op.todo
          BY <1>2, <1>14, <2>4, <3>3 DEF TodoInv
        <4>2. r \in joining
          BY <1>12, <1>14, <4>1
        <4>3. CASE chunk'[b].status = "done"
          BY <1>9, <2>1, <4>3 DEF CurrentInv, IsCurrent
        <4>4. CASE chunk'[b].status # "done"
          <5>1. b \in Reopened(chunk')
            BY <1>1, <2>1, <3>1, <3>3, <4>4 DEF Reopened
          <5> QED BY <1>11, <1>12, <2>1, <4>2, <5>1
        <4> QED BY <4>3, <4>4
      <3> QED BY <3>2, <3>3
    <2> QED BY <2>2, <2>3, <2>4
  <1>15. CASE todo = {}
    <2>1. op' = Idle /\ ~InRun' /\ op'.kind # "reset"
      BY <1>3, <1>15 DEF Idle, InRun
    <2> QED BY <1>3, <1>8, <1>9, <1>13, <1>15, <2>1 DEF TInv, RunInv, TermsInv
  <1>16. CASE todo # {}
    <2> DEFINE room == op.room - IF op.limit = 0 THEN 0 ELSE Cardinality(joining)
    <2>1. room \in Int /\ (op.limit = 0 => room = op.room)
      BY <1>11, <1>12
    <2> HIDE DEF room, todo
    <2>2. op' = [op EXCEPT !.todo = todo, !.pass = 2, !.job = None, !.saved = FALSE, !.room = room]
      BY <1>3, <1>16 DEF room
    <2>3. op = [kind |-> "translate", todo |-> op.todo, limit |-> op.limit, room |-> op.room,
                pass |-> op.pass, job |-> op.job, saved |-> op.saved]
      BY <1>2 DEF RunType
    <2>4. op' = [kind |-> "translate", todo |-> todo, limit |-> op.limit, room |-> room,
                 pass |-> 2, job |-> None, saved |-> FALSE]
      <3>1. PICK t, l, m, p, j, v : op = [kind |-> "translate", todo |-> t, limit |-> l, room |-> m,
                                         pass |-> p, job |-> j, saved |-> v]
        BY <2>3
      <3>2. l = op.limit
        BY <3>1
      <3> QED BY <2>2, <3>1, <3>2
    <2>5. /\ op'.kind = "translate" /\ op'.todo = todo /\ op'.limit = op.limit /\ op'.room = room
          /\ op'.pass = 2 /\ op'.job = None /\ op'.saved = FALSE
          /\ op' = [kind |-> "translate", todo |-> op'.todo, limit |-> op'.limit, room |-> op'.room,
                    pass |-> op'.pass, job |-> op'.job, saved |-> op'.saved]
      BY <2>4
    <2>6. RunType'
      <3>1. approved' /\ todo \in SUBSET ChunkIds /\ todo # {}
        BY <1>2, <1>3, <1>12, <1>16 DEF RunType
      <3>2. op'.todo \in SUBSET ChunkIds /\ op'.todo # {} /\ op'.pass \in 2 .. 6 /\ op'.saved \in BOOLEAN
        <4>1. op'.todo = todo /\ op'.pass = 2 /\ op'.saved = FALSE
          BY <2>5
        <4>2. op'.todo \in SUBSET ChunkIds /\ op'.todo # {}
          BY <3>1, <4>1
        <4>3. op'.pass \in 2 .. 6
          BY <4>1
        <4>4. op'.saved \in BOOLEAN
          BY <4>1
        <4> QED BY <4>2, <4>3, <4>4
      <3>3. op'.room \in Int
        BY <2>1, <2>5
      <3>4. op'.kind # "target" /\ ~op'.saved
        BY <2>5
      <3> QED BY <2>5, <3>1, <3>2, <3>3, <3>4 DEF RunType
    <2>7. TodoInv'
      BY <1>2, <1>13, <1>14, <2>1, <2>5 DEF TodoInv
    <2>8. PassInv'
      BY <2>5 DEF PassInv
    <2>9. RunInv' /\ TermsInv' /\ op' # Idle
      BY <1>3, <2>5, <2>6, <2>7, <2>8 DEF RunInv, TermsInv, TInv, Idle
    <2> QED BY <1>8, <1>9, <2>9 DEF TInv
  <1> QED BY <1>15, <1>16

LEMMA AcceptKeeps ==
  ASSUME TInv, AcceptTargetPass
  PROVE  TInv'
  <1>1. PICK c \in ChunkIds : c = At
    BY AtIsLeast DEF AcceptTargetPass, InRun, TInv, RunInv
  <1> DEFINE n == op.target
  <1>2. /\ InRun /\ RunType /\ PassInv /\ op.pass = n /\ n \in Passes /\ op.saved /\ op.job # None
        /\ chunk' = AcceptedTarget(c, n, op.job, TargetContextComplete(c))
        /\ UNCHANGED <<jobs, answers, targets, choice, approved>> /\ op' = Idle
    BY <1>1 DEF AcceptTargetPass, AtTarget, InRun, TInv, RunInv, RunType, PassInv, approvalVars
  <1>3. SavedInv'
    BY <1>2 DEF TInv, SavedInv
  <1>4. op.job \in Results(c, n) /\ op.job.base = Base(c, n)
        /\ chunk[c].selected[n] = Key(op.job)
        /\ \A m \in 2 .. n - 1 : PassDone(c, m)
    BY <1>1, <1>2 DEF PassInv
  <1>5. chunk[c] \in Rows(c)
    BY DEF TInv, SelectedInv
  <1>6. RunInv' /\ TermsInv'
    BY <1>2 DEF Idle, RunInv, InRun, TInv, TermsInv
  <1> HIDE DEF n
  <1>7. CASE n = 5
    <2> DEFINE row == WithFinal(chunk[c], op.job, IF TargetContextComplete(c) THEN "done" ELSE "stale")
    <2>1. chunk' = InvalidateContextDependents([chunk EXCEPT ![c] = row], c, op.job.value)
      BY <1>2, <1>7 DEF AcceptedTarget
    <2>2. /\ row \in Rows(c) /\ row.final = op.job /\ row.deps = Mentions[c]
          /\ row.selected = chunk[c].selected /\ row.invalid = chunk[c].invalid
          /\ row.status = IF TargetContextComplete(c) THEN "done" ELSE "stale"
      BY SMTT(30), <1>4, <1>5, <1>7, FinalRow
    <2> HIDE DEF row
    <2>3. ASSUME row.status = "done"
          PROVE  /\ \A m \in {2, 3, 4} : PassDone(c, m)
                 /\ chunk[c].selected[5] # None /\ op.job.base = Base(c, 5)
                 /\ \A b \in 1 .. (c - 1) : chunk[b].final # None
      <3>1. \A b \in 1 .. (c - 1) : chunk[b].status = "done" /\ b \in ChunkIds
        BY <2>2, <2>3, StoreAssumption DEF TargetContextComplete, ChunkIds
      <3>2. Key(op.job) # None
        <4>1. Key(op.job) \in Keys(c, 5) /\ 5 \in Passes
          BY <1>4, <1>7 DEF Results, Keys, Key, Passes
        <4> QED BY <4>1, RunAssumption
      <3>3. \A m \in {2, 3, 4} : PassDone(c, m)
        BY <1>4, <1>7
      <3> QED BY <1>4, <1>7, <3>1, <3>2, <3>3 DEF TInv, CurrentInv, IsCurrent
    <2>4. SelectedInv' /\ CurrentInv'
      BY <1>2, <1>3, <1>4, <1>7, <2>1, <2>2, <2>3, TextKeepsCurrent
    <2> QED BY <1>3, <1>6, <2>4 DEF TInv
  <1>8. CASE n # 5
    <2> DEFINE status == IF chunk[c].status = "done" THEN "stale" ELSE chunk[c].status
               row == [chunk[c] EXCEPT !.status = status]
    <2>1. chunk' = [chunk EXCEPT ![c] = row]
      BY <1>2, <1>8, Zenon DEF AcceptedTarget
    <2>2. status \in {"pending", "stale"}
      BY <1>5 DEF Rows
    <2> HIDE DEF status
    <2>3. /\ row \in Rows(c) /\ row.final = chunk[c].final /\ row.selected = chunk[c].selected
          /\ row.status # "done"
      <3>1. PICK f, d, e, i, k : chunk[c] = [status |-> k, final |-> f, deps |-> d, selected |-> e, invalid |-> i]
        BY <1>5 DEF Rows
      <3>2. row = [status |-> status, final |-> f, deps |-> d, selected |-> e, invalid |-> i]
        BY <3>1
      <3>3. chunk[c].final = f /\ chunk[c].selected = e /\ row \in Rows(c)
        BY <1>5, <2>2, <3>1, <3>2 DEF Rows
      <3> QED BY <2>2, <3>2, <3>3
    <2> HIDE DEF row
    <2>4. /\ chunk'[c] = row /\ (\A r \in ChunkIds : r # c => chunk'[r] = chunk[r])
          /\ chunk' \in [ChunkIds -> UNION {Rows(r) : r \in ChunkIds}]
      BY <2>1, <2>3 DEF TInv, SelectedInv
    <2>5. SelectedInv'
      <3>1. \A r \in ChunkIds : chunk'[r] \in Rows(r) /\ chunk'[r].selected = chunk[r].selected
        BY <2>3, <2>4 DEF TInv, SelectedInv
      <3>2. \A r \in ChunkIds, m \in Passes :
               chunk'[r].selected[m] # None => \E job \in jobs'[r][m] : Key(job) = chunk'[r].selected[m]
        BY <1>2, <3>1 DEF TInv, SelectedInv
      <3> QED BY <2>4, <3>1, <3>2 DEF SelectedInv
    <2>6. \A r \in ChunkIds : chunk'[r].final = chunk[r].final
      BY <2>3, <2>4
    <2>7. \A r \in ChunkIds : \A b \in 1 .. (r - 1) : b \in ChunkIds
      BY StoreAssumption DEF ChunkIds
    <2>8. ASSUME NEW r \in ChunkIds, chunk'[r].status = "done" PROVE IsCurrent(r)'
      <3>1. r # c /\ chunk'[r] = chunk[r] /\ IsCurrent(r)
        BY <2>3, <2>4, <2>8 DEF TInv, CurrentInv
      <3>2. ContextHolds(r, chunk[r].final.base.context)'
        BY <2>6, <2>7, <3>1, HeldContext
      <3>3. \A b \in 1 .. (r - 1) : chunk'[b].final # None
        BY <2>6, <2>7, <3>1 DEF IsCurrent
      <3> QED BY <1>2, <1>3, <3>1, <3>2, <3>3, CurrentKept DEF TInv, IsCurrent
    <2> QED BY <1>3, <1>6, <2>5, <2>8 DEF TInv, CurrentInv
  <1> QED BY <1>7, <1>8

-----------------------------------------------------------------------------
(* Beginning a run *)

\* A run begins at the first pass of its first chunk.
LEMMA RunBeginsKeeps ==
  ASSUME TInv, UNCHANGED <<chunk, jobs, answers, choice, approved>>, SavedInv', ~InRun,
         InRun', RunType', TodoInv', op'.pass = 2, op'.job = None, op'.saved = FALSE
  PROVE  TInv'
  <1>1. SelectedInv'
    BY DEF TInv, SelectedInv
  <1>2. CurrentInv'
    <2> SUFFICES ASSUME NEW c \in ChunkIds, chunk[c].status = "done" PROVE IsCurrent(c)'
      BY DEF CurrentInv
    <2>1. IsCurrent(c)
      BY DEF TInv, CurrentInv
    <2>2. \A b \in 1 .. (c - 1) : chunk'[b].final # None
      BY <2>1 DEF IsCurrent
    <2>3. ContextHolds(c, chunk[c].final.base.context)'
      BY <2>1, HeldContext
    <2> QED BY <2>1, <2>2, <2>3, CurrentKept DEF TInv, IsCurrent
  <1>3. PassInv'
    BY DEF PassInv
  <1>4. TermsInv'
    BY DEF TInv, TermsInv, InRun
  <1> QED BY <1>1, <1>2, <1>3, <1>4 DEF TInv, RunInv

LEMMA TranslateBeginsKeeps ==
  ASSUME TInv, NEW limit \in Limits, TranslateBegins(limit)
  PROVE  TInv'
  <1> DEFINE todo == IF limit = 0 THEN Unfinished ELSE FirstOf(limit, Unfinished)
             room == IF limit = 0 THEN Chunks ELSE limit - Cardinality(todo)
  <1>1. /\ todo # {} /\ approved /\ op = Idle
        /\ op' = [kind |-> "translate", todo |-> todo, limit |-> limit, room |-> room,
                  pass |-> 2, job |-> None, saved |-> FALSE]
        /\ UNCHANGED <<chunk, jobs, answers, targets, choice, approved>>
    BY Zenon DEF TranslateBegins, ScopeFree, ApprovalCurrent, approvalVars, translationVars
  <1>2. Unfinished \in SUBSET ChunkIds /\ limit \in Int /\ Chunks \in Int
    BY RunAssumption, StoreAssumption DEF Unfinished
  <1>3. /\ todo \subseteq Unfinished /\ (limit = 0 => todo = Unfinished) /\ room \in Int
        /\ (limit = 0 => room = Chunks)
        /\ \A c \in todo : \A b \in Unfinished : b < c => b \in todo
    BY <1>2, FirstAreFirst
  <1>4. todo \in SUBSET ChunkIds
    BY <1>2, <1>3
  <1> HIDE DEF todo, room
  <1>5. /\ op'.kind = "translate" /\ op'.todo = todo /\ op'.limit = limit /\ op'.room = room
        /\ op'.pass = 2 /\ op'.job = None /\ op'.saved = FALSE
        /\ op' = [kind |-> "translate", todo |-> op'.todo, limit |-> op'.limit, room |-> op'.room,
                  pass |-> op'.pass, job |-> op'.job, saved |-> op'.saved]
    BY <1>1
  <1>6. RunType'
    <2>1. approved' /\ op'.todo \in SUBSET ChunkIds /\ op'.todo # {} /\ op'.room \in Int
      BY <1>1, <1>3, <1>4, <1>5
    <2>2. op'.pass \in 2 .. 6 /\ op'.kind # "target" /\ ~op'.saved
      BY <1>5
    <2>3. op'.saved \in BOOLEAN
      BY <1>5
    <2> QED BY <1>5, <2>1, <2>2, <2>3 DEF RunType
  <1>7. TodoInv'
    <2>1. ASSUME NEW c \in todo, NEW b \in 1 .. (c - 1) PROVE b \in todo \/ chunk'[b].final # None
      <3>1. b \in ChunkIds /\ b < c
        BY <1>4, StoreAssumption DEF ChunkIds
      <3> QED BY <1>1, <1>3, <3>1 DEF Unfinished, TInv, CurrentInv, IsCurrent
    <2>2. limit = 0 => \A c \in ChunkIds \ todo : chunk'[c].status = "done"
      BY <1>1, <1>3 DEF Unfinished
    <2> QED BY <1>3, <1>5, <2>1, <2>2 DEF TodoInv
  <1>8. SavedInv' /\ ~InRun /\ InRun'
    BY <1>1, <1>5 DEF TInv, SavedInv, InRun, Idle
  <1> QED BY <1>1, <1>5, <1>6, <1>7, <1>8, RunBeginsKeeps

LEMMA TargetBeginsKeeps ==
  ASSUME TInv, NEW c \in ChunkIds, NEW n \in Targets, NEW rerun \in BOOLEAN, TargetBegins(c, n, rerun)
  PROVE  TInv'
  <1> DEFINE force == IF rerun THEN targets + 1 ELSE 0
  <1>1. /\ approved /\ op = Idle /\ targets < MaxTargets /\ targets' = targets + 1
        /\ op' = [kind |-> "target", todo |-> {c}, target |-> n, force |-> force,
                  pass |-> 2, job |-> None, saved |-> FALSE]
        /\ UNCHANGED <<chunk, jobs, answers, choice, approved>>
    BY Zenon DEF TargetBegins, ScopeFree, ApprovalCurrent, approvalVars
  <1>2. targets + 1 \in 0 .. MaxTargets /\ 0 \in 0 .. MaxTargets
    BY <1>1, RunAssumption DEF TInv, SavedInv
  <1>3. force \in 0 .. MaxTargets /\ n \in Passes /\ 2 \in 2 .. n
    BY <1>2, RunAssumption DEF Passes
  <1> HIDE DEF force
  <1>4. /\ op'.kind = "target" /\ op'.todo = {c} /\ op'.target = n /\ op'.force = force
        /\ op'.pass = 2 /\ op'.job = None /\ op'.saved = FALSE
        /\ op' = [kind |-> "target", todo |-> op'.todo, target |-> op'.target, force |-> op'.force,
                  pass |-> op'.pass, job |-> op'.job, saved |-> op'.saved]
    BY <1>1
  <1>5. RunType'
    <2>1. approved' /\ op'.todo \in SUBSET ChunkIds /\ op'.todo # {}
      BY <1>1, <1>4
    <2>2. op'.pass \in 2 .. 6 /\ op'.kind # "translate" /\ op'.pass \in 2 .. op'.target
          /\ op'.force \in 0 .. MaxTargets /\ op'.target \in Passes
      BY <1>3, <1>4
    <2>3. op'.saved \in BOOLEAN
      BY <1>4
    <2> QED BY <1>4, <2>1, <2>2, <2>3 DEF RunType
  <1>6. SavedInv' /\ ~InRun /\ InRun' /\ TodoInv'
    BY <1>1, <1>2, <1>4 DEF TInv, SavedInv, InRun, Idle, TodoInv
  <1> QED BY <1>1, <1>4, <1>5, <1>6, RunBeginsKeeps

-----------------------------------------------------------------------------
(* Approval and reset *)

\* The terms an approval changes are marked in the transaction that changes them.
LEMMA CommitKeeps ==
  ASSUME WInv, TInv, CommitApproval
  PROVE  TInv'
  <1>1. /\ op.kind = "approve" /\ op.draft \in Drafts /\ op'.kind = "approve"
        /\ choice' = op.draft.choice /\ approved' /\ UNCHANGED <<jobs, answers, targets>>
        /\ chunk' = [c \in ChunkIds |-> IF Affected(c) THEN InvalidatePasses(chunk[c], 2) ELSE chunk[c]]
    BY DEF CommitApproval, Approving, WInv, OpInv, ApprovalInv
  <1>2. choice' \in [Terms -> Forms]
    BY <1>1 DEF Drafts
  <1>3. SavedInv' /\ RunInv' /\ TermsInv'
    BY <1>1, <1>2 DEF TInv, SavedInv, RunInv, InRun, TermsInv
  <1>4. ASSUME NEW c \in ChunkIds
        PROVE  /\ chunk'[c] \in Rows(c) /\ chunk'[c].final = chunk[c].final
               /\ chunk'[c].selected = chunk[c].selected /\ chunk'[c].deps = chunk[c].deps
               /\ IF Affected(c) THEN chunk'[c].status = "done" => chunk[c].final = None /\ chunk[c].status = "done"
                  ELSE chunk'[c] = chunk[c]
    <2>1. chunk[c] \in Rows(c) /\ 2 \in 2 .. 6
      BY DEF TInv, SelectedInv
    <2>2. CASE Affected(c)
      <3>1. chunk'[c] = InvalidatePasses(chunk[c], 2)
        BY <1>1, <2>2
      <3> QED BY <2>1, <2>2, <3>1, InvalidatedRow
    <2>3. CASE ~Affected(c)
      BY <1>1, <2>1, <2>3
    <2> QED BY <2>2, <2>3
  <1>5. SelectedInv'
    <2>1. \A c \in ChunkIds : chunk'[c] \in UNION {Rows(r) : r \in ChunkIds}
      BY <1>4
    <2>2. chunk' = [c \in ChunkIds |-> chunk'[c]]
      BY <1>1
    <2>3. chunk' \in [ChunkIds -> UNION {Rows(r) : r \in ChunkIds}]
      BY <2>1, <2>2
    <2>4. \A c \in ChunkIds, n \in Passes :
             chunk'[c].selected[n] # None => \E job \in jobs'[c][n] : Key(job) = chunk'[c].selected[n]
      BY <1>1, <1>4 DEF TInv, SelectedInv
    <2> QED BY <1>4, <2>3, <2>4 DEF SelectedInv
  <1>6. \A c \in ChunkIds : \A b \in 1 .. (c - 1) : b \in ChunkIds
    BY StoreAssumption DEF ChunkIds
  <1>7. ASSUME NEW c \in ChunkIds, chunk'[c].status = "done" PROVE IsCurrent(c)'
    <2>1. IsCurrent(c) /\ chunk'[c] = chunk[c] /\ ~Affected(c)
      BY <1>4, <1>7 DEF TInv, CurrentInv, IsCurrent
    <2>2. ContextHolds(c, chunk[c].final.base.context)'
      BY <1>4, <1>6, <2>1, HeldContext
    <2>3. \A b \in 1 .. (c - 1) : chunk'[b].final # None
      BY <1>4, <1>6, <2>1 DEF IsCurrent
    <2>4. ASSUME NEW t \in Mentions[c] PROVE choice'[t] = choice[t]
      <3>1. t \in Terms /\ t \in chunk[c].deps
        BY <2>1, StoreAssumption DEF IsCurrent, ChunkIds
      <3>2. t \notin ChangedTerms
        BY <2>1, <3>1 DEF Affected
      <3>3. choice[t] # None
        <4>1. chunk[c].final \in Results(c, 5)
          BY <2>1 DEF IsCurrent, TInv, SelectedInv, Rows
        <4>2. chunk[c].final.base.lexicon \in [Mentions[c] -> Forms]
          BY <4>1 DEF Results, Bases
        <4>3. chunk[c].final.base.lexicon[t] = choice[t]
          BY <2>1 DEF IsCurrent, ApprovedLexicon
        <4> QED BY <4>2, <4>3, StoreAssumption
      <3> QED BY <1>1, <3>1, <3>2, <3>3 DEF ChangedTerms
    <2> QED BY <1>1, <1>3, <2>1, <2>2, <2>3, <2>4, CurrentKept DEF TInv, IsCurrent
  <1> QED BY <1>3, <1>5, <1>7 DEF TInv, CurrentInv

\* Nothing was translated when a reset takes the terms away.
LEMMA ClearKeeps ==
  ASSUME WInv, TInv, ClearP1
  PROVE  TInv'
  <1>1. /\ op.kind = "reset" /\ op'.kind = "reset" /\ ~approved'
        /\ UNCHANGED <<chunk, jobs, answers, targets>>
    BY DEF ClearP1, Resetting, translationVars, WInv, OpInv
  <1>2. SavedInv' /\ SelectedInv'
    BY <1>1 DEF TInv, SavedInv, SelectedInv
  <1> QED BY <1>1, <1>2 DEF TInv, CurrentInv, RunInv, InRun, TermsInv

-----------------------------------------------------------------------------
(* Every step *)

LEMMA TextInvariance == Spec => []TInv
  <1>1. Init => TInv
    <2> SUFFICES ASSUME Init PROVE TInv
      OBVIOUS
    <2>1. /\ op = Idle /\ ~approved /\ chunk = [c \in ChunkIds |-> NoChunk]
          /\ jobs = [c \in ChunkIds |-> [n \in Passes |-> {}]] /\ answers = {} /\ targets = 0
      BY DEF Init, StoreInit
    <2>2. \A c \in ChunkIds : NoChunk \in Rows(c) /\ chunk[c] = NoChunk
      BY <2>1 DEF NoChunk, Rows
    <2>3. SavedInv
      BY <2>1, RunAssumption DEF SavedInv
    <2>4. SelectedInv
      <3>1. chunk \in [ChunkIds -> UNION {Rows(c) : c \in ChunkIds}]
        BY <2>1, <2>2
      <3>2. \A n \in Passes : NoChunk.selected[n] = None
        BY DEF NoChunk
      <3> QED BY <2>2, <3>1, <3>2 DEF SelectedInv
    <2>5. CurrentInv
      BY <2>2 DEF CurrentInv, NoChunk
    <2> QED BY <2>1, <2>3, <2>4, <2>5 DEF TInv, RunInv, InRun, TermsInv, Idle
  <1>2. WInv /\ TInv /\ [Next]_vars => TInv'
    <2> SUFFICES ASSUME WInv, TInv, [Next]_vars PROVE TInv'
      OBVIOUS
    <2>1. CASE UNCHANGED vars
      <3>1. UNCHANGED <<op, translationVars, choice, approved>>
        BY <2>1 DEF vars, approvalVars
      <3> QED BY <3>1, OthersKeep
    <2>2. CASE Dies
      <3>1. UNCHANGED <<translationVars, choice, approved>> /\ op' = Idle
        BY <2>2 DEF Dies, approvalVars
      <3> QED BY <3>1, OthersKeep DEF Idle, InRun
    <2>3. CASE AnalysisNext
      <3>1. CASE ClearP1
        BY <3>1, ClearKeeps
      <3>2. CASE ResetBegins
        <4>1. UNCHANGED <<translationVars, choice, approved>> /\ ~DependentWork /\ op'.kind = "reset"
          BY <3>2 DEF ResetBegins, approvalVars
        <4> QED BY <4>1, OthersKeep DEF InRun
      <3>3. CASE \E u \in UnitIds : \/ FreezeInputs(u) \/ ReuseInputs(u)
                                    \/ AskP1(u) \/ SaveP1(u) \/ MergeAnalysis(u) \/ SaveReceipt(u)
        <4>1. PICK u \in UnitIds : \/ FreezeInputs(u) \/ ReuseInputs(u)
                                   \/ AskP1(u) \/ SaveP1(u) \/ MergeAnalysis(u) \/ SaveReceipt(u)
          BY <3>3
        <4>2. op.kind = "analyze"
              /\ op = [kind |-> "analyze", unit |-> op.unit, only |-> op.only, ready |-> op.ready]
          BY <4>1 DEF FreezeInputs, ReuseInputs, AskP1, SaveP1, MergeAnalysis, SaveReceipt,
             Open, Ready, Analyzing, WInv, OpInv
        <4>3. UNCHANGED <<translationVars, choice, approved>>
          BY <4>1 DEF FreezeInputs, ReuseInputs, AskP1, SaveP1, MergeAnalysis, SaveReceipt,
             UnitStep, approvalVars
        <4>4. /\ [op EXCEPT !.ready = TRUE].kind = "analyze" /\ Idle.kind = "idle"
              /\ NextUnit.kind = "analyze"
          BY <4>2 DEF Idle, NextUnit
        <4>5. op' \in {op, [op EXCEPT !.ready = TRUE], Idle, NextUnit}
          BY <4>1 DEF FreezeInputs, ReuseInputs, AskP1, SaveP1, MergeAnalysis, SaveReceipt,
             UnitStep
        <4>6. op' = op \/ op'.kind \in {"analyze", "idle"}
          BY <4>4, <4>5
        <4> QED BY <4>3, <4>6, OthersKeep DEF InRun
      <3>4. CASE \/ AnalyzeBegins \/ (\E u \in UnitIds : AnalyzeUnitBegins(u))
                 \/ UnitRunEnds \/ FinishAnalysis \/ WriteReview \/ ResetCompletes \/ ResetFails
        <4>1. UNCHANGED <<translationVars, choice, approved>> /\ op'.kind \in {"analyze", "idle", "draft"}
          BY <3>4 DEF AnalyzeBegins, AnalyzeUnitBegins, UnitRunEnds, FinishAnalysis, WriteReview,
             ResetCompletes, ResetFails, Idle, approvalVars
        <4> QED BY <4>1, OthersKeep DEF InRun
      <3>5. CASE ResetMovesInputs \/ ResetMovesReview \/ ResetMovesArtifacts
        <4>1. UNCHANGED <<translationVars, choice, approved>> /\ op.kind = "reset" /\ op'.kind = "reset"
          BY <3>5 DEF ResetMovesInputs, ResetMovesReview, ResetMovesArtifacts, Resetting, WInv,
             OpInv,
             approvalVars
        <4> QED BY <4>1, OthersKeep DEF InRun
      <3> QED BY <2>3, <3>1, <3>2, <3>3, <3>4, <3>5 DEF AnalysisNext
    <2>4. CASE ApprovalNext
      <3>1. CASE CommitApproval
        BY <3>1, CommitKeeps
      <3>2. CASE \/ \E t \in Terms, form \in Forms, mark \in {None, "individual", "reopened"} :
                       PatchTerm(t, form, mark)
                 \/ \E confirmed \in BOOLEAN : SetConfirmed(confirmed)
        <4>1. UNCHANGED <<translationVars, choice, approved, op>>
          BY <3>2 DEF PatchTerm, SetConfirmed, Edit
        <4> QED BY <4>1, OthersKeep
      <3>3. CASE \/ OpenReview \/ (\E confirm, defaults \in BOOLEAN : ApproveBegins(confirm, defaults))
                 \/ WriteApprovedReview \/ WriteLexicon \/ SaveApprovalRevision
        <4>1. UNCHANGED <<translationVars, choice, approved>> /\ op'.kind \in {"draft", "approve", "idle"}
          BY <3>3 DEF OpenReview, ApproveBegins, WriteApprovedReview, WriteLexicon,
             SaveApprovalRevision,
             Approving, Idle, WInv, OpInv, approvalVars
        <4> QED BY <4>1, OthersKeep DEF InRun
      <3> QED BY <2>4, <3>1, <3>2, <3>3 DEF ApprovalNext
    <2>5. CASE TranslationNext
      <3>1. CASE TargetLacksInput
        <4>1. UNCHANGED <<translationVars, choice, approved>> /\ op' = Idle
          BY <3>1 DEF TargetLacksInput, approvalVars
        <4> QED BY <4>1, OthersKeep DEF Idle, InRun
      <3> QED BY <2>5, <3>1, TranslateBeginsKeeps, TargetBeginsKeeps, UseSavedKeeps, RecoverKeeps,
              AskKeeps, SaveKeeps, RecordGeneratedKeeps, FinishKeeps, AcceptKeeps DEF TranslationNext
    <2>6. CASE PublishingNext
      <3>1. UNCHANGED <<translationVars, choice, approved>> /\ op'.kind \in {"publish", "idle"}
        BY <2>6 DEF PublishingNext, PublishBegins, PublishReuses, BuildEpub, RecordEdition,
           PublishFails,
           Publishing, Idle, WInv, OpInv, approvalVars
      <3> QED BY <3>1, OthersKeep DEF InRun
    <2> QED BY <2>1, <2>2, <2>3, <2>4, <2>5, <2>6 DEF Next
  <1> QED BY <1>1, <1>2, WorkspaceInvariance, PTL DEF Spec

-----------------------------------------------------------------------------
(* The theorems *)

\* No operation but the reset itself ever works on a half-reset project, whatever step the
\* reset died at (execute_reset, OperationScope).
THEOREM NobodyWorksOnAHalfReset == Spec => []ResetIsWhole
  <1>1. WInv => ResetIsWhole
    BY DEF WInv, UnitInv, Whole, ResetIsWhole
  <1> QED BY <1>1, WorkspaceInvariance, PTL

\* An accepted unit was analysed with the findings of exactly the units before it, across
\* crashes, single-unit runs and resets (_freeze_p1_inputs, execute_analyze).
THEOREM EveryUnitReadItsPredecessors == Spec => []UnitsReadPredecessors
  <1>1. WInv => UnitsReadPredecessors
    BY DEF WInv, UnitInv, Read, UnitsReadPredecessors
  <1> QED BY <1>1, WorkspaceInvariance, PTL

\* Unless an approval died after its commit, an approval is current only when the draft, the
\* store and the exported lexicon name the same forms (execute_approval, approval_current).
THEOREM ApprovalsAgree == Spec => []AgreedUnlessTorn
  <1>1. ASSUME WInv PROVE AgreedUnlessTorn
    <2> SUFFICES ASSUME ~torn, ApprovalCurrent PROVE Agreed
      BY DEF AgreedUnlessTorn, CurrentMeansAgreed
    <2>1. receipt \in Drafts /\ receipt.choice = choice /\ lexicon = choice
      BY <1>1 DEF WInv, ApprovalInv, ApprovalCurrent
    <2>2. receipt # None
      BY <2>1, DraftsAssumption
    <2> QED BY <2>1, <2>2 DEF ApprovalCurrent, Agreed
  <1> QED BY <1>1, WorkspaceInvariance, PTL

\* Every edition ever recorded can still be read as it was recorded, after later editions,
\* failed ones and builds that died before their record (publish).
THEOREM EditionsStay == Spec => []EditionsHold
  <1>1. WInv => EditionsHold
    BY DEF WInv, EditionInv
  <1> QED BY <1>1, WorkspaceInvariance, PTL

\* A chunk is done only with a text made from the forms approved now, from an end of the text
\* the chunk before it has now and from its own drafts that are selected now, whatever was
\* approved, revised, rerun or cut short since (execute_translate, execute_target_pass, the store's
\* record_translation_pass, finish_chunk, accept_target_pass, commit_approval).
THEOREM DoneMeansCurrent == Spec => []DoneIsCurrent
  <1>1. ASSUME TInv PROVE DoneIsCurrent
    <2> SUFFICES ASSUME NEW c \in ChunkIds, chunk[c].status = "done"
                 PROVE  /\ chunk[c].final.base.lexicon = ApprovedLexicon(c)
                        /\ ContextHolds(c, chunk[c].final.base.context)
                        /\ \A n \in {3, 4} : /\ chunk[c].selected[n] # None
                                             /\ chunk[c].final.base.drafts[n] = Draft(c, n)
      BY DEF DoneIsCurrent
    <2> QED BY <1>1 DEF TInv, CurrentInv, IsCurrent
  <1> QED BY <1>1, TextInvariance, PTL

\* A run without a limit that ends by itself leaves every chunk done: the chunks its own
\* revisions made stale are part of the run (execute_translate).
THEOREM UnlimitedRunFinishes == Spec => UnlimitedRunFinishesAll
  <1>1. TInv /\ [Next]_vars
        => [(FinishChunk /\ op.limit = 0 /\ op' = Idle) => \A c \in ChunkIds : chunk'[c].status = "done"]_vars
    BY FinishKeeps
  <1> QED BY <1>1, TextInvariance, PTL DEF Spec, UnlimitedRunFinishesAll

=============================================================================
