------------------------ MODULE GenerationJob_proofs ------------------------
(***************************************************************************)
(* Theorems about GenerationJob, for every set of sections, section count  *)
(* and number of retry rounds.                                             *)
(***************************************************************************)
EXTENDS GenerationJobInv, FiniteSetTheorems, TLAPS

-----------------------------------------------------------------------------
(* The reducers and the terminal documents.                                *)

LEMMA ReducersType ==
    ASSUME NEW doc \in Document, NEW s \in Sections
    PROVE  /\ SectionStarted(doc, s) \in Document
           /\ SectionPartial(doc, s) \in Document
           /\ SectionAssets(doc, s) \in Document
           /\ SectionFinal(doc, s) \in Document
           /\ SectionReady(doc, s) \in Document
BY DEF Document, DocumentStatus, SectionStarted, SectionPartial, SectionAssets,
       SectionFinal, SectionReady

LEMMA ConstantDocumentsType ==
    /\ NoDocument \in Document
    /\ InitialDocument \in Document
    /\ [InitialDocument EXCEPT !.status = "running"] \in Document
    /\ EmptyDocument("failed") \in Document
BY DEF Document, DocumentStatus, NoDocument, InitialDocument, EmptyDocument

(* A failed document keeps what the document held.                         *)
LEMMA FailedSnapshotType ==
    ASSUME NEW doc \in Document
    PROVE  /\ FailedSnapshot(doc) \in Document
           /\ FailedSnapshot(doc).status = "failed"
           /\ FailedSnapshot(doc).sections = doc.sections
BY DEF Document, DocumentStatus, FailedSnapshot

LEMMA RaceRecoveredType ==
    ASSUME NEW doc \in Document
    PROVE  /\ RaceRecovered(doc) \in Document
           /\ RaceRecovered(doc).status \in Outcomes
           /\ RaceRecovered(doc).sections = doc.sections
BY DEF Document, DocumentStatus, RaceRecovered, Outcomes

LEMMA ResultDocumentType ==
    ASSUME NEW outline \in SUBSET Sections, NEW as \in SUBSET Sections,
           NEW bd \in SUBSET Sections, NEW dr \in SUBSET Sections
    PROVE  /\ ResultDocument(outline, as, bd, dr) \in Document
           /\ ResultDocument(outline, as, bd, dr).status \in Outcomes
           /\ ResultDocument(outline, as, bd, dr).sections = as
BY DEF Document, DocumentStatus, ResultDocument, Outcomes

LEMMA InterruptedSnapshotType ==
    ASSUME NEW doc \in Document
    PROVE  /\ InterruptedSnapshot(doc) \in Document
           /\ InterruptedSnapshot(doc).status = "failed"
BY FailedSnapshotType, ConstantDocumentsType DEF InterruptedSnapshot, EmptyDocument

LEMMA SavedType ==
    ASSUME NEW r \in Row, NEW doc \in Document
    PROVE  Saved(r, doc) \in Row /\ Saved(r, doc).status = r.status
           /\ Saved(r, doc).doc = doc
BY DEF Row, Saved

LEMMA StatusSetType ==
    ASSUME NEW r \in Row, NEW st \in Active \union Outcomes
    PROVE  StatusSet(r, st) \in Row /\ StatusSet(r, st).status = st
           /\ StatusSet(r, st).doc = r.doc
BY DEF Row, StatusSet

-----------------------------------------------------------------------------
(* Type correctness.  Publishing a result appends the document's status to *)
(* the outcomes, and committing one writes it to the row, so the type of   *)
(* both rests on the document being terminal from the moment the result is *)
(* there.                                                                  *)

LEMMA InitTypeInv == Init => TypeInv
<1> SUFFICES ASSUME Init PROVE TypeInv
  OBVIOUS
<1>1. NoDocument \in Document
  BY ConstantDocumentsType
<1>2. row \in Row /\ document \in Document
  BY <1>1 DEF Init, Row
<1>3. phase \in [Sections -> PhaseNames] /\ save \in [Sections -> Document]
  BY <1>1 DEF Init, NoPhase, NoSaves, PhaseNames
<1>4. rounds \in 0..MaxRounds
  BY MaxRoundsAssumption DEF Init
<1>5. announced \in Seq(Outcomes)
  BY DEF Init
<1> QED
  BY <1>2, <1>3, <1>4, <1>5 DEF Init, TypeInv, TypeOK, ResultIsTerminal, ResultSteps

LEMMA DocumentToSaveType ==
    ASSUME TypeInv, pc \in SaveSteps
    PROVE  DocumentToSave(pc) \in Document
BY ConstantDocumentsType, FailedSnapshotType
   DEF TypeInv, TypeOK, SaveSteps, DocumentToSave

LEMMA StatusToSetType ==
    ASSUME TypeInv, pc \in StatusSteps
    PROVE  StatusToSet(pc) \in Active \union Outcomes
BY DEF TypeInv, ResultIsTerminal, ResultSteps, StatusSteps, StatusToSet, Active, Outcomes

LEMMA EngineGoneType ==
    ASSUME EngineGone
    PROVE  /\ phase' \in [Sections -> PhaseNames]
           /\ save' \in [Sections -> Document]
           /\ assembled' \subseteq Sections
           /\ bad' \subseteq Sections
           /\ draft' \subseteq Sections
           /\ rounds' \in 0..MaxRounds
BY ConstantDocumentsType, MaxRoundsAssumption
   DEF EngineGone, NoPhase, NoSaves, PhaseNames

LEMMA RaiseType ==
    ASSUME TypeInv, Raise, server' \in {server, "stopping"}, UNCHANGED heartbeat,
           pc \in AcceptSteps \union JobSteps
    PROVE  TypeInv'
<1>1. row' \in Row
  <2>1. CASE UNCHANGED row
    BY <2>1 DEF TypeInv, TypeOK
  <2>2. CASE pc \in SaveSteps /\ row' = Saved(row, DocumentToSave(pc))
    BY <2>2, DocumentToSaveType, SavedType DEF TypeInv, TypeOK
  <2>3. CASE pc \in {"acc_status", "job_status"} /\ row' = StatusSet(row, StatusToSet(pc))
    BY <2>3, StatusToSetType, StatusSetType DEF TypeInv, TypeOK, StatusSteps
  <2> QED
    BY <2>1, <2>2, <2>3 DEF Raise
<1>2. /\ pc' \in {"refused", "fail_doc", "fin_beat", "fin_check", "gaveup"}
  BY DEF Raise, RaisedAt
<1> QED
  BY <1>1, <1>2 DEF Raise, TypeInv, TypeOK, ResultIsTerminal, ResultSteps, EndedSteps,
     JobSteps, HandlerSteps, FinallySteps, engineVars

LEMMA EmitType ==
    ASSUME TypeInv, NEW s \in Sections, NEW step \in PhaseNames,
           NEW doc \in Document, Emit(s, step, doc)
    PROVE  /\ phase' \in [Sections -> PhaseNames]
           /\ save' \in [Sections -> Document]
           /\ document' \in Document
BY DEF TypeInv, TypeOK, Emit

(* What a section's task and the router leave alone.                       *)
LEMMA EngineInternal ==
    ASSUME TypeInv, (\E s \in Sections : SectionNext(s)) \/ RetryRound
    PROVE  /\ pc = "engine"
           /\ row'.status = row.status
           /\ UNCHANGED <<aged, server, pc, heartbeat, announced, lostAck, reaped>>
<1>1. CASE RetryRound
  BY <1>1 DEF RetryRound, historyVars
<1>2. ASSUME NEW s \in Sections, SectionNext(s)
      PROVE  /\ pc = "engine"
             /\ row' \in {row, Saved(row, save[s])}
             /\ UNCHANGED <<aged, server, pc, heartbeat, announced, lostAck, reaped>>
  BY <1>2 DEF SectionNext, historyVars, EmitStarted, EventSaved, ContentFails,
     SchemaRejects, EmitFirstPartial, EmitAssetPending, EmitSecondPartial,
     EmitAssetReady, AssembleStops, EmitFinal, EmitReady, RetryAssembles,
     RetryStops, MainEmitFinal, MainEmitReady
<1>3. \A s \in Sections : Saved(row, save[s]).status = row.status
  BY SavedType DEF TypeInv, TypeOK
<1> QED
  BY <1>1, <1>2, <1>3

LEMMA SectionStepType ==
    ASSUME TypeInv, NEW s \in Sections, SectionNext(s)
    PROVE  TypeInv'
<1> USE DEF TypeInv, TypeOK, historyVars
<1>1. pc' \notin ResultSteps
  BY EngineInternal DEF ResultSteps
<1>2. ResultIsTerminal'
  BY <1>1 DEF ResultIsTerminal, ResultSteps
<1>3. CASE EmitStarted(s)
  <2>1. SectionStarted(document, s) \in Document
    BY ReducersType
  <2>2. /\ phase' \in [Sections -> PhaseNames]
        /\ save' \in [Sections -> Document]
        /\ document' \in Document
    BY <1>3, <2>1, EmitType DEF EmitStarted, PhaseNames
  <2> QED
    BY <1>3, <1>2, <2>2 DEF EmitStarted
<1>4. CASE EmitFirstPartial(s)
  <2>1. SectionPartial(document, s) \in Document
    BY ReducersType
  <2>2. /\ phase' \in [Sections -> PhaseNames]
        /\ save' \in [Sections -> Document]
        /\ document' \in Document
    BY <1>4, <2>1, EmitType DEF EmitFirstPartial, PhaseNames
  <2> QED
    BY <1>4, <1>2, <2>2 DEF EmitFirstPartial, RerenderRecord
<1>5. CASE EmitAssetPending(s)
  <2>1. SectionAssets(document, s) \in Document
    BY ReducersType
  <2>2. /\ phase' \in [Sections -> PhaseNames]
        /\ save' \in [Sections -> Document]
        /\ document' \in Document
    BY <1>5, <2>1, EmitType DEF EmitAssetPending, PhaseNames
  <2> QED
    BY <1>5, <1>2, <2>2 DEF EmitAssetPending
<1>6. CASE EmitSecondPartial(s)
  <2>1. SectionPartial(document, s) \in Document
    BY ReducersType
  <2>2. /\ phase' \in [Sections -> PhaseNames]
        /\ save' \in [Sections -> Document]
        /\ document' \in Document
    BY <1>6, <2>1, EmitType DEF EmitSecondPartial, PhaseNames
  <2> QED
    BY <1>6, <1>2, <2>2 DEF EmitSecondPartial
<1>7. CASE EmitAssetReady(s)
  <2>1. SectionAssets(document, s) \in Document
    BY ReducersType
  <2>2. /\ phase' \in [Sections -> PhaseNames]
        /\ save' \in [Sections -> Document]
        /\ document' \in Document
    BY <1>7, <2>1, EmitType DEF EmitAssetReady, PhaseNames
  <2> QED
    BY <1>7, <1>2, <2>2 DEF EmitAssetReady
<1>8. CASE EmitFinal(s)
  <2>1. SectionFinal(document, s) \in Document
    BY ReducersType
  <2>2. /\ phase' \in [Sections -> PhaseNames]
        /\ save' \in [Sections -> Document]
        /\ document' \in Document
    BY <1>8, <2>1, EmitType DEF EmitFinal, PhaseNames
  <2> QED
    BY <1>8, <1>2, <2>2 DEF EmitFinal
<1>9. CASE EmitReady(s)
  <2>1. SectionReady(document, s) \in Document
    BY ReducersType
  <2>2. /\ phase' \in [Sections -> PhaseNames]
        /\ save' \in [Sections -> Document]
        /\ document' \in Document
    BY <1>9, <2>1, EmitType DEF EmitReady, PhaseNames
  <2> QED
    BY <1>9, <1>2, <2>2 DEF EmitReady
<1>10. CASE MainEmitFinal(s)
  <2>1. SectionFinal(document, s) \in Document
    BY ReducersType
  <2>2. /\ phase' \in [Sections -> PhaseNames]
        /\ save' \in [Sections -> Document]
        /\ document' \in Document
    BY <1>10, <2>1, EmitType DEF MainEmitFinal, PhaseNames
  <2> QED
    BY <1>10, <1>2, <2>2 DEF MainEmitFinal
<1>11. CASE MainEmitReady(s)
  <2>1. SectionReady(document, s) \in Document
    BY ReducersType
  <2>2. /\ phase' \in [Sections -> PhaseNames]
        /\ save' \in [Sections -> Document]
        /\ document' \in Document
    BY <1>11, <2>1, EmitType DEF MainEmitReady, PhaseNames
  <2> QED
    BY <1>11, <1>2, <2>2 DEF MainEmitReady
<1>12. CASE EventSaved(s)
  <2>1. row' \in Row
    BY <1>12, SavedType DEF EventSaved
  <2> QED
    BY <1>12, <1>2, <2>1, ConstantDocumentsType DEF EventSaved
<1>13. CASE ContentFails(s)
  BY <1>13, <1>2 DEF ContentFails, PhaseNames
<1>14. CASE SchemaRejects(s)
  BY <1>14, <1>2 DEF SchemaRejects, PhaseNames, RerenderRecord
<1>15. CASE AssembleStops(s)
  BY <1>15, <1>2 DEF AssembleStops, PhaseNames
<1>16. CASE RetryAssembles(s)
  BY <1>16, <1>2 DEF RetryAssembles, PhaseNames
<1>17. CASE RetryStops(s)
  BY <1>17, <1>2 DEF RetryStops, PhaseNames
<1> QED
  BY <1>3, <1>4, <1>5, <1>6, <1>7, <1>8, <1>9, <1>10, <1>11, <1>12, <1>13, <1>14, <1>15, <1>16, <1>17 DEF SectionNext

LEMMA InFlightCommitsType ==
    ASSUME TypeInv, InFlightCommits
    PROVE  row' \in Row /\ row'.status = row.status
BY SavedType DEF TypeInv, TypeOK, InFlightCommits

LEMMA EngineLeftType ==
    ASSUME TypeInv, NEW step \in {"fail_doc", "race_doc"}, EngineLeft(step),
           server' \in {server, "stopping"}, document' \in Document,
           step = "race_doc" => document'.status \in Outcomes
    PROVE  TypeInv'
BY InFlightCommitsType, EngineGoneType
   DEF EngineLeft, TypeInv, TypeOK, ResultIsTerminal, ResultSteps, historyVars,
       JobSteps, TrySteps, HandlerSteps

LEMMA JobStepType ==
    ASSUME TypeInv, JobNext
    PROVE  TypeInv'
<1> USE DEF TypeInv, TypeOK, historyVars, engineVars
<1>1. CASE CreateRow
  <2>1. row' \in Row
    BY <1>1 DEF CreateRow, Row, Active
  <2> QED
    BY <1>1, <2>1 DEF CreateRow, ResultIsTerminal, ResultSteps, AcceptSteps, EndedSteps
<1>2. CASE SaveReturns
  <2>1. row' \in Row
    BY <1>2, DocumentToSaveType, SavedType DEF SaveReturns
  <2>2. /\ pc' \in StatusSteps
        /\ pc' \in ResultSteps => pc \in ResultSteps
    BY <1>2 DEF SaveReturns, SaveSteps, AfterSave, StatusSteps, ResultSteps
  <2> QED
    BY <1>2, <2>1, <2>2 DEF SaveReturns, ResultIsTerminal, StatusSteps, JobSteps,
       AcceptSteps, TrySteps, HandlerSteps, FinallySteps
<1>3. CASE StatusCommits
  <2>1. row' \in Row
    BY <1>3, StatusToSetType, StatusSetType DEF StatusCommits
  <2>2. /\ pc' \in PublishSteps \union BeatSteps
        /\ pc' \in ResultSteps => pc \in ResultSteps
    BY <1>3 DEF StatusCommits, StatusSteps, AfterStatus, PublishSteps, BeatSteps, ResultSteps
  <2> QED
    BY <1>3, <2>1, <2>2 DEF StatusCommits, ResultIsTerminal, PublishSteps, BeatSteps,
       JobSteps, AcceptSteps, TrySteps, HandlerSteps, FinallySteps
<1>4. CASE Publish
  <2>1. pc' \in {"done", "fin_beat"}
    BY <1>4 DEF Publish
  <2>2. document' \in Document
    BY <1>4, FailedSnapshotType DEF Publish
  <2>3. announced' \in Seq(Outcomes)
    <3>1. CASE pc \in {"fail_pub", "orph_pub"}
      <4>1. announced' = Append(announced, "failed")
        BY <1>4, <3>1 DEF Publish
      <4>2. "failed" \in Outcomes
        BY DEF Outcomes
      <4> QED
        BY <4>1, <4>2
    <3>2. CASE pc \notin {"fail_pub", "orph_pub"}
      <4>1. announced' = Append(announced, document.status)
        BY <1>4, <3>2 DEF Publish
      <4>2. document.status \in Outcomes
        BY <1>4, <3>2 DEF Publish, PublishSteps, ResultIsTerminal, ResultSteps
      <4> QED
        BY <4>1, <4>2
    <3> QED
      BY <3>1, <3>2
  <2> QED
    BY <1>4, <2>1, <2>2, <2>3 DEF Publish, ResultIsTerminal, ResultSteps, EndedSteps,
       JobSteps, FinallySteps
<1>5. CASE BeatReturns
  <2>1. document' \in Document
    BY <1>5, ConstantDocumentsType DEF BeatReturns
  <2>2. phase' \in [Sections -> PhaseNames]
    BY <1>5 DEF BeatReturns, PhaseNames
  <2> QED
    BY <1>5, <2>1, <2>2 DEF BeatReturns, ResultIsTerminal, ResultSteps, JobSteps, TrySteps
<1>6. CASE AwaitRaises
  <2>1. pc \in AcceptSteps \union JobSteps
    BY <1>6 DEF AwaitRaises, SaveSteps, StatusSteps, PublishSteps, BeatSteps,
       AcceptSteps, JobSteps, TrySteps, HandlerSteps, FinallySteps
  <2> QED
    BY <1>6, <2>1, RaiseType DEF AwaitRaises
<1>7. CASE HeartbeatDies
  BY <1>7 DEF HeartbeatDies, ResultIsTerminal
<1>8. CASE JoinHeartbeat
  BY <1>8 DEF JoinHeartbeat, ResultIsTerminal, ResultSteps, EndedSteps, JobSteps, FinallySteps
<1>9. CASE CheckRow
  BY <1>9 DEF CheckRow, ResultIsTerminal, ResultSteps, EndedSteps, JobSteps, FinallySteps
<1> QED
  BY <1>1, <1>2, <1>3, <1>4, <1>5, <1>6, <1>7, <1>8, <1>9 DEF JobNext

LEMMA EngineStepType ==
    ASSUME TypeInv, EngineNext
    PROVE  TypeInv'
<1> USE DEF TypeInv, TypeOK, historyVars
<1>1. CASE \E s \in Sections : SectionNext(s)
  BY <1>1, SectionStepType
<1>2. CASE RetryRound
  <2>1. phase' \in [Sections -> PhaseNames]
    BY <1>2 DEF RetryRound, PhaseNames
  <2>2. rounds' \in 0..MaxRounds
    BY <1>2, MaxRoundsAssumption DEF RetryRound
  <2> QED
    BY <1>2, <2>1, <2>2 DEF RetryRound, ResultIsTerminal
<1>3. CASE EngineReturns
  <2>1. /\ document' \in Document
        /\ document'.status \in Outcomes
    BY <1>3, ResultDocumentType DEF EngineReturns
  <2> QED
    BY <1>3, <2>1, EngineGoneType DEF EngineReturns, ResultIsTerminal, JobSteps, TrySteps
<1>4. CASE PlannerFails
  <2>1. /\ document' \in Document
        /\ document'.status \in Outcomes
    BY <1>4, ResultDocumentType DEF PlannerFails
  <2> QED
    BY <1>4, <2>1, EngineGoneType DEF PlannerFails, ResultIsTerminal, JobSteps, TrySteps
<1>5. CASE EngineRaises
  BY <1>5, EngineLeftType DEF EngineRaises
<1>6. CASE EngineTimesOut
  BY <1>6, EngineLeftType, RaceRecoveredType DEF EngineTimesOut
<1> QED
  BY <1>1, <1>2, <1>3, <1>4, <1>5, <1>6 DEF EngineNext

LEMMA ServerStepType ==
    ASSUME TypeInv, ServerNext
    PROVE  TypeInv'
<1> USE DEF TypeInv, TypeOK, historyVars, engineVars
<1>1. CASE Shutdown
  <2>1. CASE pc = "engine" /\ EngineLeft("fail_doc") /\ UNCHANGED document
    BY <1>1, <2>1, EngineLeftType DEF Shutdown
  <2>2. CASE pc \in JobSteps \ {"engine", "fin_beat"} /\ Raise /\ UNCHANGED heartbeat
    BY <1>1, <2>2, RaiseType DEF Shutdown
  <2>3. CASE /\ pc = "fin_beat" /\ pc' = "fin_check" /\ heartbeat' = "none"
             /\ UNCHANGED <<row, aged, document, engineVars, historyVars>>
    BY <1>1, <2>3 DEF Shutdown, ResultIsTerminal, ResultSteps, JobSteps, FinallySteps
  <2>4. CASE UNCHANGED <<row, aged, pc, document, heartbeat, engineVars, historyVars>>
    BY <1>1, <2>4 DEF Shutdown, ResultIsTerminal
  <2> QED
    BY <1>1, <2>1, <2>2, <2>3, <2>4 DEF Shutdown
<1>2. CASE Exit
  BY <1>2 DEF Exit, ResultIsTerminal
<1>3. CASE Crash
  <2>1. document' \in Document
    BY <1>3, ConstantDocumentsType DEF Crash
  <2>2. pc' \in EndedSteps \union {"idle"}
    BY <1>3 DEF Crash, EndedSteps
  <2>3. pc' \notin ResultSteps
    BY <2>2 DEF EndedSteps, ResultSteps
  <2> QED
    BY <1>3, <2>1, <2>2, <2>3, InFlightCommitsType, EngineGoneType DEF Crash, ResultIsTerminal
<1>4. CASE Age
  BY <1>4 DEF Age, ResultIsTerminal
<1>5. CASE Boot
  BY <1>5 DEF Boot, ResultIsTerminal
<1>6. CASE ReapSave
  <2>1. InterruptedSnapshot(IF row.hasPath THEN row.doc ELSE NoDocument) \in Document
    BY InterruptedSnapshotType, ConstantDocumentsType DEF Row
  <2>2. row' \in Row
    BY <1>6, <2>1, SavedType DEF ReapSave
  <2> QED
    BY <1>6, <2>2 DEF ReapSave, ResultIsTerminal
<1>7. StatusSet(row, "failed") \in Row
  BY StatusSetType DEF Outcomes
<1>8. CASE ReapStatus
  BY <1>7, <1>8 DEF ReapStatus, ResultIsTerminal
<1>9. CASE ReapRaises
  BY <1>7, <1>9 DEF ReapRaises, ResultIsTerminal
<1> QED
  BY <1>1, <1>2, <1>3, <1>4, <1>5, <1>6, <1>8, <1>9 DEF ServerNext

LEMMA TypeInvStep == TypeInv /\ [Next]_vars => TypeInv'
<1>1. CASE UNCHANGED vars
  BY <1>1 DEF vars, engineVars, historyVars, TypeInv, TypeOK, ResultIsTerminal
<1> QED
  BY <1>1, JobStepType, EngineStepType, ServerStepType DEF Next

(* Every reachable state is well typed: in particular only the outcomes of *)
(* a generation are ever published as its end.                             *)
THEOREM TypeCorrect == Spec => []TypeOK
<1>1. TypeInv => TypeOK
  BY DEF TypeInv
<1> QED
  BY <1>1, InitTypeInv, TypeInvStep, PTL DEF Spec

-----------------------------------------------------------------------------
(* Statuses: what the row says at each await, and what was announced.      *)

LEMMA InitStatusInv == Init => StatusInv
BY DEF Init, StatusInv, RowStatusAt, AnnouncedLast, LostAckLate, ServerAlone,
       AcceptSteps, EndedSteps, FinallySteps

(* A failed await leaves the status alone, except that it may have         *)
(* committed the first two.                                                *)
LEMMA RaiseStatus ==
    ASSUME TypeInv, StatusInv, Raise, server' \in {server, "stopping"},
           server \in {"up", "stopping"}, server' = "stopping" => pc' # "refused",
           pc \in AcceptSteps \union JobSteps
    PROVE  StatusInv'
<1> USE DEF TypeInv, TypeOK
<1>1. /\ row'.status = row.status \/ pc \in {"acc_status", "job_status"}
      /\ row'.status \in Active \/ row'.status = row.status
  <2>1. CASE UNCHANGED row
    BY <2>1
  <2>2. CASE pc \in SaveSteps /\ row' = Saved(row, DocumentToSave(pc))
    BY <2>2, DocumentToSaveType, SavedType
  <2>3. CASE pc \in {"acc_status", "job_status"} /\ row' = StatusSet(row, StatusToSet(pc))
    <3>1. StatusToSet(pc) \in Active
      BY <2>3 DEF StatusToSet, Active
    <3> QED
      BY <2>3, <3>1, StatusSetType
  <2> QED
    BY <2>1, <2>2, <2>3 DEF Raise
<1> QED
  BY <1>1, ZenonT(40) DEF Raise, RaisedAt, StatusInv, RowStatusAt, AnnouncedLast, LostAckLate,
     ServerAlone, AcceptSteps, JobSteps, TrySteps, HandlerSteps, FinallySteps, EndedSteps,
     PublishSteps, Active, Outcomes

LEMMA JobStepStatus ==
    ASSUME TypeInv, StatusInv, JobNext
    PROVE  StatusInv'
<1> USE DEF TypeInv, TypeOK, historyVars, engineVars, StatusInv, RowStatusAt,
     AnnouncedLast, LostAckLate, ServerAlone
<1>1. CASE CreateRow
  BY <1>1 DEF CreateRow, Row, AcceptSteps, EndedSteps, FinallySteps
<1>2. CASE SaveReturns
  <2>1. row'.status = row.status
    BY <1>2, DocumentToSaveType, SavedType DEF SaveReturns
  <2> QED
    BY <1>2, <2>1 DEF SaveReturns, SaveSteps, AfterSave, AcceptSteps, EndedSteps, FinallySteps
<1>3. CASE StatusCommits
  <2>1. row'.status = StatusToSet(pc)
    BY <1>3, StatusToSetType, StatusSetType DEF StatusCommits
  <2> QED
    BY <1>3, <2>1 DEF StatusCommits, StatusSteps, AfterStatus, StatusToSet, AcceptSteps,
       EndedSteps, FinallySteps, Active, Outcomes, ResultIsTerminal, ResultSteps
<1>4. CASE Publish
  <2>1. announced = <<>>
    BY <1>4 DEF Publish, PublishSteps, EndedSteps
  <2>2. announced' = <<row.status>>
    BY <1>4, <2>1 DEF Publish, PublishSteps
  <2>3. row.status \in Outcomes
    BY <1>4 DEF Publish, PublishSteps, Outcomes, ResultIsTerminal, ResultSteps
  <2>4. pc' \in {"done", "fin_beat"} /\ pc \in PublishSteps
    BY <1>4 DEF Publish
  <2> QED
    BY <1>4, <2>2, <2>3, <2>4 DEF Publish, PublishSteps, AcceptSteps, EndedSteps, FinallySteps
<1>5. CASE BeatReturns
  BY <1>5 DEF BeatReturns, BeatSteps, AcceptSteps, EndedSteps, FinallySteps
<1>6. CASE AwaitRaises
  <2>1. pc \in AcceptSteps \union JobSteps
    BY <1>6 DEF AwaitRaises, SaveSteps, StatusSteps, PublishSteps, BeatSteps,
       AcceptSteps, JobSteps, TrySteps, HandlerSteps, FinallySteps
  <2> QED
    BY <1>6, <2>1, RaiseStatus DEF AwaitRaises, AcceptSteps, EndedSteps, JobSteps, TrySteps,
       HandlerSteps, FinallySteps, Raise, RaisedAt
<1>7. CASE HeartbeatDies
  BY <1>7 DEF HeartbeatDies
<1>8. CASE JoinHeartbeat
  BY <1>8 DEF JoinHeartbeat, AcceptSteps, EndedSteps, FinallySteps
<1>9. CASE CheckRow
  BY <1>9 DEF CheckRow, Row, AcceptSteps, EndedSteps, FinallySteps, Active, Outcomes
<1> QED
  BY <1>1, <1>2, <1>3, <1>4, <1>5, <1>6, <1>7, <1>8, <1>9 DEF JobNext

LEMMA InFlightKeepsStatus ==
    ASSUME TypeInv, InFlightCommits
    PROVE  row'.status = row.status
BY InFlightCommitsType

LEMMA EngineStepStatus ==
    ASSUME TypeInv, StatusInv, EngineNext
    PROVE  StatusInv'
<1> USE DEF historyVars, StatusInv, RowStatusAt, AnnouncedLast, LostAckLate, ServerAlone
<1>1. CASE (\E s \in Sections : SectionNext(s)) \/ RetryRound
  BY <1>1, EngineInternal DEF AcceptSteps, EndedSteps, FinallySteps
<1>2. CASE EngineReturns \/ PlannerFails
  BY <1>2 DEF EngineReturns, PlannerFails, AcceptSteps, EndedSteps, FinallySteps
<1>3. CASE EngineRaises \/ EngineTimesOut
  <2>1. /\ EngineLeft("fail_doc") \/ EngineLeft("race_doc")
        /\ UNCHANGED server
    BY <1>3 DEF EngineRaises, EngineTimesOut
  <2>2. row'.status = row.status
    BY <2>1, InFlightKeepsStatus DEF EngineLeft
  <2> QED
    BY <2>1, <2>2 DEF EngineLeft, AcceptSteps, EndedSteps, FinallySteps, Active
<1> QED
  BY <1>1, <1>2, <1>3 DEF EngineNext

LEMMA ServerStepStatus ==
    ASSUME TypeInv, StatusInv, ServerNext
    PROVE  StatusInv'
<1> USE DEF TypeInv, TypeOK, historyVars, engineVars, StatusInv, RowStatusAt,
     AnnouncedLast, LostAckLate, ServerAlone
<1>1. CASE Shutdown
  <2>1. CASE pc = "engine" /\ EngineLeft("fail_doc")
    <3>1. row'.status = row.status
      BY <2>1, InFlightKeepsStatus DEF EngineLeft
    <3> QED
      BY <1>1, <2>1, <3>1 DEF Shutdown, EngineLeft, AcceptSteps, EndedSteps, FinallySteps, Active
  <2>2. CASE pc \in JobSteps \ {"engine", "fin_beat"} /\ Raise
    <3>1. pc' # "refused"
      BY <2>2 DEF Raise, RaisedAt, JobSteps, TrySteps, HandlerSteps, FinallySteps, AcceptSteps
    <3> QED
      BY <1>1, <2>2, <3>1, RaiseStatus DEF Shutdown
  <2>3. CASE /\ pc = "fin_beat" /\ pc' = "fin_check"
             /\ UNCHANGED <<row, aged, document, engineVars, historyVars>>
    BY <1>1, <2>3 DEF Shutdown, AcceptSteps, EndedSteps, FinallySteps
  <2>4. CASE UNCHANGED <<row, aged, pc, document, heartbeat, engineVars, historyVars>>
    BY <1>1, <2>4 DEF Shutdown
  <2> QED
    BY <1>1, <2>1, <2>2, <2>3, <2>4 DEF Shutdown
<1>2. CASE Exit
  BY <1>2 DEF Exit, JobSteps, AcceptSteps
<1>3. CASE Crash
  <2>1. row'.status = row.status
    BY <1>3, InFlightKeepsStatus DEF Crash
  <2> QED
    BY <1>3, <2>1 DEF Crash, AcceptSteps, EndedSteps, FinallySteps
<1>4. CASE Age
  BY <1>4 DEF Age
<1>5. CASE Boot
  BY <1>5 DEF Boot
<1>6. CASE ReapSave
  <2>1. /\ InterruptedSnapshot(IF row.hasPath THEN row.doc ELSE NoDocument) \in Document
        /\ InterruptedSnapshot(IF row.hasPath THEN row.doc ELSE NoDocument).status = "failed"
    BY InterruptedSnapshotType, ConstantDocumentsType DEF Row
  <2>2. row'.status = row.status /\ row'.doc.status = "failed"
    BY <1>6, <2>1, SavedType DEF ReapSave
  <2> QED
    BY <1>6, <2>2 DEF ReapSave, AcceptSteps, EndedSteps
<1>7. /\ StatusSet(row, "failed").status = "failed"
      /\ "failed" \in Outcomes
  BY StatusSetType DEF Outcomes
<1>8. CASE ReapStatus
  BY <1>7, <1>8 DEF ReapStatus, AcceptSteps, EndedSteps, FinallySteps, Active, Outcomes
<1>9. CASE ReapRaises
  BY <1>7, <1>9 DEF ReapRaises, AcceptSteps, EndedSteps, FinallySteps, Active, Outcomes
<1> QED
  BY <1>1, <1>2, <1>3, <1>4, <1>5, <1>6, <1>8, <1>9 DEF ServerNext

LEMMA StatusInvStep == TypeInv /\ StatusInv /\ [Next]_vars => StatusInv'
<1>1. CASE UNCHANGED vars
  BY <1>1 DEF vars, engineVars, historyVars, StatusInv, RowStatusAt, AnnouncedLast,
     LostAckLate, ServerAlone
<1> QED
  BY <1>1, JobStepStatus, EngineStepStatus, ServerStepStatus DEF Next

LEMMA StatusInvHolds == Spec => [](TypeInv /\ StatusInv)
BY InitTypeInv, TypeInvStep, InitStatusInv, StatusInvStep, PTL DEF Spec

(* The stream-ending events of a job: at most one outcome is published,    *)
(* and whatever fails, stops or restarts before or after, it is the status *)
(* of the row for good.                                                    *)
THEOREM AnnouncedIsFinalHolds == Spec => []AnnouncedIsFinal
<1>1. StatusInv => AnnouncedIsFinal
  BY DEF StatusInv, AnnouncedLast, AnnouncedIsFinal
<1> QED
  BY <1>1, StatusInvHolds, PTL

(* The finally block: a job that runs to its end leaves no active row.     *)
THEOREM FinishedJobSettlesRowHolds == Spec => []FinishedJobSettlesRow
<1>1. StatusInv => FinishedJobSettlesRow
  BY DEF StatusInv, RowStatusAt, FinishedJobSettlesRow
<1> QED
  BY <1>1, StatusInvHolds, PTL

-----------------------------------------------------------------------------
(* The refinement: a step of the job, the pipeline or the server is a step *)
(* of GenerationLifecycle or does not show there.                          *)

LEMMA RaiseRefines ==
    ASSUME TypeInv, StatusInv, Raise
    PROVE  Lifecycle!Start \/ UNCHANGED Lifecycle!lifecycleVars
<1> USE DEF TypeInv, TypeOK, StatusInv, RowStatusAt
<1>1. UNCHANGED announced
  BY DEF Raise
<1>2. CASE UNCHANGED row
  BY <1>1, <1>2 DEF Lifecycle!lifecycleVars
<1>3. CASE pc \in SaveSteps /\ row' = Saved(row, DocumentToSave(pc))
  BY <1>1, <1>3, DocumentToSaveType, SavedType DEF Lifecycle!lifecycleVars
<1>4. CASE pc \in {"acc_status", "job_status"} /\ row' = StatusSet(row, StatusToSet(pc))
  <2>1. row'.status = StatusToSet(pc) /\ row.status = "pending"
    BY <1>4, StatusToSetType, StatusSetType DEF AcceptSteps, StatusSteps
  <2> QED
    BY <1>1, <1>4, <2>1 DEF StatusToSet, Lifecycle!Start, Lifecycle!lifecycleVars
<1> QED
  BY <1>2, <1>3, <1>4 DEF Raise

LEMMA JobStepRefines ==
    ASSUME TypeInv, StatusInv, JobNext
    PROVE  Lifecycle!Next \/ UNCHANGED Lifecycle!lifecycleVars
<1> USE DEF TypeInv, TypeOK, historyVars, engineVars, StatusInv, RowStatusAt,
     Lifecycle!Next, Lifecycle!lifecycleVars
<1>1. CASE CreateRow
  <2>1. row.status = "absent"
    BY <1>1 DEF CreateRow
  <2>2. row'.status = "pending"
    BY <1>1 DEF CreateRow, Row
  <2> QED
    BY <1>1, <2>1, <2>2 DEF CreateRow, Lifecycle!Accept
<1>2. CASE SaveReturns
  BY <1>2, DocumentToSaveType, SavedType DEF SaveReturns
<1>3. CASE StatusCommits
  <2>1. row'.status = StatusToSet(pc) /\ UNCHANGED announced
    BY <1>3, StatusToSetType, StatusSetType DEF StatusCommits
  <2>2. CASE pc \in {"acc_status", "job_status"}
    BY <2>1, <2>2 DEF StatusToSet, AcceptSteps, Lifecycle!Start
  <2>3. CASE pc \in {"res_status", "race_status"}
    <3>1. StatusToSet(pc) \in Outcomes
      BY <2>3 DEF StatusToSet, ResultIsTerminal, ResultSteps
    <3> QED
      BY <2>1, <2>3, <3>1 DEF Lifecycle!Finish, Lifecycle!Active, Lifecycle!Outcomes, Outcomes
  <2>4. CASE pc \in {"fail_status", "orph_status"}
    <3>1. row'.status = "failed" /\ announced = <<>>
      BY <2>1, <2>4 DEF StatusToSet, AnnouncedLast, EndedSteps
    <3>2. row.status \in Active \union Outcomes
      BY <2>4 DEF Row
    <3> QED
      BY <2>1, <3>1, <3>2 DEF Lifecycle!Finish, Lifecycle!Revise, Lifecycle!Active,
         Lifecycle!Outcomes, Outcomes, Active
  <2> QED
    BY <1>3, <2>2, <2>3, <2>4 DEF StatusCommits, StatusSteps
<1>4. CASE Publish
  <2>1. announced = <<>>
    BY <1>4 DEF Publish, PublishSteps, AnnouncedLast, EndedSteps
  <2>2. announced' = <<row.status>> /\ UNCHANGED row
    BY <1>4, <2>1 DEF Publish, PublishSteps
  <2>3. row.status \in Outcomes
    BY <1>4 DEF Publish, PublishSteps, Outcomes, ResultIsTerminal, ResultSteps
  <2> QED
    BY <2>1, <2>2, <2>3 DEF Lifecycle!Announce, Lifecycle!Outcomes, Outcomes
<1>5. CASE BeatReturns
  BY <1>5 DEF BeatReturns
<1>6. CASE AwaitRaises
  BY <1>6, RaiseRefines DEF AwaitRaises
<1>7. CASE HeartbeatDies \/ JoinHeartbeat \/ CheckRow
  BY <1>7 DEF HeartbeatDies, JoinHeartbeat, CheckRow
<1> QED
  BY <1>1, <1>2, <1>3, <1>4, <1>5, <1>6, <1>7 DEF JobNext

LEMMA EngineStepRefines ==
    ASSUME TypeInv, EngineNext
    PROVE  UNCHANGED Lifecycle!lifecycleVars
<1> USE DEF historyVars, Lifecycle!lifecycleVars
<1>1. CASE (\E s \in Sections : SectionNext(s)) \/ RetryRound
  BY <1>1, EngineInternal
<1>2. CASE EngineReturns \/ PlannerFails
  BY <1>2 DEF EngineReturns, PlannerFails
<1>3. CASE EngineRaises \/ EngineTimesOut
  BY <1>3, InFlightKeepsStatus DEF EngineRaises, EngineTimesOut, EngineLeft
<1> QED
  BY <1>1, <1>2, <1>3 DEF EngineNext

LEMMA ServerStepRefines ==
    ASSUME TypeInv, StatusInv, ServerNext
    PROVE  Lifecycle!Next \/ UNCHANGED Lifecycle!lifecycleVars
<1> USE DEF TypeInv, TypeOK, historyVars, engineVars, StatusInv,
     Lifecycle!Next, Lifecycle!lifecycleVars
<1>1. CASE Shutdown
  BY <1>1, RaiseRefines, InFlightKeepsStatus DEF Shutdown, EngineLeft
<1>2. CASE Exit \/ Age \/ Boot
  BY <1>2 DEF Exit, Age, Boot
<1>3. CASE Crash
  BY <1>3, InFlightKeepsStatus DEF Crash
<1>4. CASE ReapSave
  <2>1. InterruptedSnapshot(IF row.hasPath THEN row.doc ELSE NoDocument) \in Document
    BY InterruptedSnapshotType, ConstantDocumentsType DEF Row
  <2> QED
    BY <1>4, <2>1, SavedType DEF ReapSave
<1>5. StatusSet(row, "failed").status = "failed"
  BY StatusSetType DEF Outcomes
<1>6. CASE ReapStatus \/ ReapRaises
  BY <1>5, <1>6 DEF ReapStatus, ReapRaises, ServerAlone, Active,
     Lifecycle!Finish, Lifecycle!Active, Lifecycle!Outcomes
<1> QED
  BY <1>1, <1>2, <1>3, <1>4, <1>6 DEF ServerNext

(* The job, the pipeline, crashes, shutdowns and startup recovery keep the *)
(* promise clients rely on: the row moves forward, and one outcome at most *)
(* is announced, after it was committed.                                   *)
THEOREM JobImplementsLifecycle == Spec => ImplementsLifecycle
<1>1. Init => Lifecycle!Init
  BY DEF Init, Lifecycle!Init
<1>2. TypeInv /\ StatusInv /\ [Next]_vars => [Lifecycle!Next]_(Lifecycle!lifecycleVars)
  <2>1. CASE UNCHANGED vars
    BY <2>1 DEF vars, historyVars, Lifecycle!lifecycleVars
  <2> QED
    BY <2>1, JobStepRefines, EngineStepRefines, ServerStepRefines DEF Next
<1> QED
  BY <1>1, <1>2, StatusInvHolds, PTL DEF Spec, ImplementsLifecycle, Lifecycle!Spec

-----------------------------------------------------------------------------
(* Counting: the two ways to be called completed.                          *)

LEMMA SameSizeIsAll ==
    ASSUME NEW S \in SUBSET Sections, Cardinality(S) >= Cardinality(Sections)
    PROVE  S = Sections
<1>1. /\ Cardinality(S) \in Nat
      /\ Cardinality(Sections) \in Nat
      /\ Cardinality(S) <= Cardinality(Sections)
      /\ Cardinality(Sections) = Cardinality(S) => Sections = S
  BY FS_Subset, FS_CardinalityType, SectionsAssumption
<1> QED
  BY <1>1

(* The pipeline's result is completed only if every section is assembled.  *)
LEMMA CompletedResultDocument ==
    ASSUME NEW as \in SUBSET Sections, NEW bd \in SUBSET Sections, NEW dr \in SUBSET Sections,
           ResultDocument(Sections, as, bd, dr).status = "completed"
    PROVE  Complete(ResultDocument(Sections, as, bd, dr))
<1> DEFINE partial == (dr \ as) \ bd
           failed == bd \ as
           planned == IF Cardinality(Sections) > SectionCount
                      THEN Cardinality(Sections) ELSE SectionCount
<1>1. Cardinality(as) = planned /\ partial = {} /\ failed = {}
  BY DEF ResultDocument
<1>2. Cardinality(Sections) \in Nat /\ planned >= Cardinality(Sections)
  BY FS_CardinalityType, SectionsAssumption, SectionCountAssumption
<1>3. Cardinality(as) >= Cardinality(Sections)
  <2> HIDE DEF planned
  <2> QED
    BY <1>1, <1>2
<1>4. as = Sections
  BY <1>3, SameSizeIsAll
<1> QED
  BY <1>1, <1>4 DEF ResultDocument, Complete

(* Without an outline the result is not completed.                         *)
LEMMA EmptyResultDocument == ResultDocument({}, {}, {}, {}).status # "completed"
<1>1. Cardinality({}) = 0
  BY FS_EmptySet
<1> QED
  BY <1>1, SectionCountAssumption DEF ResultDocument

(* The timeout race is won only by a document with every section.          *)
LEMMA RaceIsComplete ==
    ASSUME NEW doc \in Document, AllDone(doc), doc.failed = {},
           doc.sections # {} => doc.manifest = Sections
    PROVE  Complete(RaceRecovered(doc))
<1> USE DEF Document
<1>1. Cardinality({}) = 0 /\ IsFiniteSet(doc.manifest) /\ IsFiniteSet(doc.sections)
  BY FS_EmptySet, FS_Subset, SectionsAssumption
<1>2. /\ Cardinality(doc.manifest) \in Nat
      /\ Cardinality(doc.sections) \in Nat
      /\ Cardinality(doc.manifest) = 0 <=> doc.manifest = {}
  BY <1>1, FS_CardinalityType, FS_EmptySet
<1>3. Cardinality(doc.sections) >= Cardinality(doc.manifest)
  BY <1>1, <1>2 DEF AllDone
<1>4. doc.sections # {}
  BY <1>1, <1>2, <1>3 DEF AllDone
<1>5. doc.sections = Sections
  BY <1>3, <1>4, SameSizeIsAll
<1> QED
  BY <1>4, <1>5 DEF AllDone, RaceRecovered, Complete

-----------------------------------------------------------------------------
LEMMA InitDocumentInv == Init => DocumentInv
BY DEF Init, DocumentInv, WrittenDocument, SavesInEngine, StartsEmpty, EngineDocument,
       ReadyInDocument, CompletedResult, DocumentMatchesRow, ReadySectionsKept,
       CompletedIsComplete, ResultSteps, Outcomes, AcceptSteps, JobSteps, TrySteps,
       HandlerSteps, FinallySteps

(* What a job's save writes.                                               *)
LEMMA SavedSections ==
    ASSUME TypeInv, DocumentInv, pc \in SaveSteps \ {"acc_doc"}
    PROVE  /\ DocumentToSave(pc).sections = document.sections
           /\ readyPublished \subseteq document.sections
BY FailedSnapshotType
   DEF TypeInv, TypeOK, DocumentInv, ReadyInDocument, SaveSteps, JobSteps, TrySteps, HandlerSteps,
       FinallySteps, DocumentToSave

LEMMA UnchangedDocument ==
    ASSUME DocumentInv,
           UNCHANGED <<row, pc, document, engineVars, readyPublished, lostAck, reaped>>
    PROVE  DocumentInv'
BY DEF engineVars, DocumentInv, WrittenDocument, SavesInEngine, NoSaves, StartsEmpty,
   EngineDocument, AllPlanned, ReadyInDocument, CompletedResult, DocumentMatchesRow,
   ReadySectionsKept, CompletedIsComplete, Complete

LEMMA RaiseDocument ==
    ASSUME TypeInv, StatusInv, DocumentInv, Raise, pc \in AcceptSteps \union JobSteps,
           pc # "engine"
    PROVE  DocumentInv'
<1> USE DEF TypeInv, TypeOK, engineVars
<1>1. /\ UNCHANGED <<document, save, readyPublished, reaped>>
      /\ pc' = RaisedAt(pc)
      /\ lostAck' = (lostAck \/ pc \in PublishSteps)
  BY DEF Raise
<1>2. pc' \in {"refused", "fail_doc", "fin_beat", "fin_check", "gaveup"}
  BY <1>1 DEF RaisedAt
<1>3. /\ WrittenDocument' /\ StartsEmpty' /\ EngineDocument' /\ CompletedResult'
      /\ SavesInEngine'
  BY <1>1, <1>2 DEF WrittenDocument, StartsEmpty, EngineDocument, CompletedResult, ResultSteps,
     DocumentInv, SavesInEngine, NoSaves
<1>4. ReadyInDocument'
  BY <1>1 DEF RaisedAt, DocumentInv, ReadyInDocument, AcceptSteps, JobSteps, TrySteps,
     HandlerSteps, FinallySteps
<1>5. DocumentMatchesRow' /\ ReadySectionsKept' /\ CompletedIsComplete'
  <2>1. CASE UNCHANGED row
    BY <1>1, <2>1 DEF DocumentInv, DocumentMatchesRow, ReadySectionsKept, CompletedIsComplete
  <2>2. CASE pc \in SaveSteps /\ row' = Saved(row, DocumentToSave(pc))
    <3>1. row'.status = row.status /\ row'.doc = DocumentToSave(pc)
      BY <2>2, DocumentToSaveType, SavedType
    <3>2. row.status \in Outcomes => lostAck /\ pc \in SaveSteps \ {"acc_doc"}
      BY <2>2 DEF StatusInv, RowStatusAt, SaveSteps, AcceptSteps, Active, Outcomes
    <3> QED
      BY <1>1, <3>1, <3>2, SavedSections DEF DocumentMatchesRow, ReadySectionsKept,
         CompletedIsComplete, Outcomes
  <2>3. CASE pc \in {"acc_status", "job_status"} /\ row' = StatusSet(row, StatusToSet(pc))
    <3>1. row'.status \notin Outcomes
      BY <2>3, StatusToSetType, StatusSetType DEF StatusToSet, StatusSteps, Outcomes
    <3> QED
      BY <3>1 DEF DocumentMatchesRow, ReadySectionsKept, CompletedIsComplete, Outcomes
  <2> QED
    BY <2>1, <2>2, <2>3 DEF Raise
<1> QED
  BY <1>3, <1>4, <1>5 DEF DocumentInv

LEMMA JobStepDocument ==
    ASSUME TypeInv, StatusInv, DocumentInv, JobNext
    PROVE  DocumentInv'
<1> USE DEF TypeInv, TypeOK, historyVars, engineVars
<1>1. CASE CreateRow
  <2>1. row'.status = "pending" /\ pc' \in {"acc_doc", "refused"} /\ pc = "idle"
    BY <1>1 DEF CreateRow, Row
  <2> QED
    BY <1>1, <2>1 DEF CreateRow, DocumentInv, WrittenDocument, SavesInEngine, NoSaves, StartsEmpty,
       EngineDocument, ReadyInDocument, CompletedResult, DocumentMatchesRow,
       ReadySectionsKept, CompletedIsComplete, ResultSteps, Outcomes, AcceptSteps,
       JobSteps, TrySteps, HandlerSteps, FinallySteps
<1>2. CASE SaveReturns
  <2>1. row'.status = row.status /\ row'.doc = DocumentToSave(pc)
    BY <1>2, DocumentToSaveType, SavedType DEF SaveReturns
  <2>2. row.status \in Outcomes => lostAck /\ pc \in SaveSteps \ {"acc_doc"}
    BY <1>2 DEF SaveReturns, StatusInv, RowStatusAt, SaveSteps, AcceptSteps, Active, Outcomes
  <2>3. DocumentMatchesRow' /\ ReadySectionsKept' /\ CompletedIsComplete'
    BY <1>2, <2>1, <2>2, SavedSections DEF SaveReturns, DocumentMatchesRow,
       ReadySectionsKept, CompletedIsComplete, Outcomes
  <2>4. WrittenDocument'
    BY <1>2, <2>1 DEF SaveReturns, WrittenDocument, SaveSteps, AfterSave, DocumentToSave
  <2>5. /\ SavesInEngine' /\ StartsEmpty' /\ EngineDocument'
        /\ ReadyInDocument' /\ CompletedResult'
    BY <1>2 DEF SaveReturns, SaveSteps, AfterSave, DocumentInv, SavesInEngine, NoSaves,
       StartsEmpty, EngineDocument, ReadyInDocument, CompletedResult, ResultSteps,
       AcceptSteps, JobSteps, TrySteps, HandlerSteps, FinallySteps
  <2> QED
    BY <2>3, <2>4, <2>5 DEF DocumentInv
<1>3. CASE StatusCommits
  <2>1. row'.status = StatusToSet(pc) /\ row'.doc = row.doc
    BY <1>3, StatusToSetType, StatusSetType DEF StatusCommits
  <2>2. /\ WrittenDocument' /\ SavesInEngine' /\ StartsEmpty' /\ EngineDocument'
        /\ ReadyInDocument' /\ CompletedResult'
    BY <1>3, <2>1 DEF StatusCommits, StatusSteps, AfterStatus, DocumentInv, WrittenDocument,
       SavesInEngine, NoSaves, StartsEmpty, EngineDocument, ReadyInDocument, CompletedResult,
       ResultSteps, AcceptSteps, JobSteps, TrySteps, HandlerSteps, FinallySteps
  <2>3. CASE pc \in {"acc_status", "job_status"}
    BY <1>3, <2>1, <2>2, <2>3 DEF DocumentInv, StatusToSet, DocumentMatchesRow,
       ReadySectionsKept, CompletedIsComplete, Outcomes
  <2>4. CASE pc \in {"res_status", "race_status"}
    <3>1. row'.status = document.status /\ row'.doc = document
      BY <2>1, <2>4 DEF StatusToSet, DocumentInv, WrittenDocument
    <3>2. readyPublished \subseteq document.sections
      BY <2>4 DEF DocumentInv, ReadyInDocument, JobSteps, TrySteps, HandlerSteps
    <3> QED
      BY <1>3, <2>2, <2>4, <3>1, <3>2 DEF StatusCommits, DocumentInv, DocumentMatchesRow,
         ReadySectionsKept, CompletedIsComplete, CompletedResult, ResultSteps, Complete
  <2>5. CASE pc \in {"fail_status", "orph_status"}
    <3>1. row'.status = "failed" /\ row'.doc = FailedSnapshot(document)
      BY <2>1, <2>5 DEF StatusToSet, DocumentInv, WrittenDocument
    <3>2. readyPublished \subseteq document.sections
      BY <2>5 DEF DocumentInv, ReadyInDocument, JobSteps, HandlerSteps, FinallySteps
    <3> QED
      BY <1>3, <2>2, <3>1, <3>2, FailedSnapshotType DEF StatusCommits, DocumentInv,
         DocumentMatchesRow, ReadySectionsKept, CompletedIsComplete
  <2> QED
    BY <1>3, <2>3, <2>4, <2>5 DEF StatusCommits, StatusSteps
<1>4. CASE Publish
  <2>1. /\ pc' \in {"done", "fin_beat"} /\ pc \in PublishSteps
        /\ UNCHANGED <<row, save, readyPublished, lostAck, reaped>>
        /\ document'.sections = document.sections
    BY <1>4, FailedSnapshotType DEF Publish
  <2> QED
    BY <2>1 DEF DocumentInv, WrittenDocument, SavesInEngine, NoSaves, StartsEmpty,
       EngineDocument, ReadyInDocument, CompletedResult, DocumentMatchesRow,
       ReadySectionsKept, CompletedIsComplete, Complete, ResultSteps, PublishSteps,
       AcceptSteps, JobSteps, TrySteps, HandlerSteps, FinallySteps
<1>5. CASE BeatReturns
  <2>1. DocumentMatchesRow' /\ ReadySectionsKept' /\ CompletedIsComplete'
    BY <1>5 DEF BeatReturns, DocumentInv, DocumentMatchesRow, ReadySectionsKept,
       CompletedIsComplete, Complete
  <2>2. WrittenDocument' /\ SavesInEngine' /\ StartsEmpty' /\ ReadyInDocument' /\ CompletedResult'
    BY <1>5 DEF BeatReturns, BeatSteps, DocumentInv, WrittenDocument, SavesInEngine, NoSaves,
       StartsEmpty, ReadyInDocument, CompletedResult, ResultSteps, AcceptSteps, JobSteps,
       TrySteps, HandlerSteps, FinallySteps
  <2>3. EngineDocument'
    <3>1. CASE pc = "acc_beat"
      BY <1>5, <3>1 DEF BeatReturns, EngineDocument
    <3>2. CASE pc = "job_beat"
      <4>1. document' = [InitialDocument EXCEPT !.status = "running"]
        BY <1>5, <3>2 DEF BeatReturns, DocumentInv, StartsEmpty
      <4>2. /\ document'.status = "running" /\ document'.failed = {}
            /\ document'.sections = {}
        BY <4>1 DEF InitialDocument, EmptyDocument
      <4> QED
        BY <1>5, <3>2, <4>2 DEF BeatReturns, EngineDocument, AllPlanned
    <3> QED
      BY <1>5, <3>1, <3>2 DEF BeatReturns, BeatSteps
  <2> QED
    BY <2>1, <2>2, <2>3 DEF DocumentInv
<1>6. CASE AwaitRaises
  <2>1. pc \in AcceptSteps \union JobSteps /\ pc # "engine"
    BY <1>6 DEF AwaitRaises, SaveSteps, StatusSteps, PublishSteps, BeatSteps,
       AcceptSteps, JobSteps, TrySteps, HandlerSteps, FinallySteps
  <2> QED
    BY <1>6, <2>1, RaiseDocument DEF AwaitRaises
<1>7. CASE HeartbeatDies
  BY <1>7, UnchangedDocument DEF HeartbeatDies
<1>8. CASE JoinHeartbeat \/ CheckRow
  <2>1. /\ pc \in {"fin_beat", "fin_check"}
        /\ pc' \in {"escaped", "fin_check", "orph_doc", "done"}
        /\ UNCHANGED <<row, document, save, readyPublished, lostAck, reaped>>
    BY <1>8 DEF JoinHeartbeat, CheckRow
  <2> QED
    BY <2>1 DEF DocumentInv, WrittenDocument, SavesInEngine, NoSaves, StartsEmpty,
       EngineDocument, ReadyInDocument, CompletedResult, DocumentMatchesRow,
       ReadySectionsKept, CompletedIsComplete, Complete, ResultSteps,
       AcceptSteps, JobSteps, TrySteps, HandlerSteps, FinallySteps
<1> QED
  BY <1>1, <1>2, <1>3, <1>4, <1>5, <1>6, <1>7, <1>8 DEF JobNext

-----------------------------------------------------------------------------
(* The pipeline.  While it runs the row is active and the parts about      *)
(* written and finished documents say nothing; what matters is             *)
(* EngineDocument and that published sections stay in the document.        *)

LEMMA EngineOnly ==
    ASSUME TypeInv, StatusInv, pc = "engine", pc' = "engine", row'.status = row.status,
           EngineDocument', readyPublished' \subseteq document'.sections
    PROVE  DocumentInv'
BY DEF StatusInv, RowStatusAt, DocumentInv, WrittenDocument, SavesInEngine, StartsEmpty,
   ReadyInDocument, CompletedResult, DocumentMatchesRow, ReadySectionsKept,
   CompletedIsComplete, ResultSteps, Outcomes, AcceptSteps, JobSteps, TrySteps

LEMMA EngineReady ==
    ASSUME DocumentInv, pc = "engine"
    PROVE  EngineDocument /\ readyPublished \subseteq document.sections
BY DEF DocumentInv, ReadyInDocument, JobSteps, TrySteps

(* What every reducer keeps while the pipeline runs.                       *)
LEMMA ReducersKeep ==
    ASSUME NEW doc \in Document, NEW s \in Sections, doc.status = "running", doc.failed = {}
    PROVE  /\ SectionStarted(doc, s) = [doc EXCEPT !.manifest = @ \union {s}]
           /\ SectionPartial(doc, s) = [doc EXCEPT !.partial = @ \union {s}]
           /\ SectionAssets(doc, s) = doc
           /\ SectionFinal(doc, s) = [doc EXCEPT !.partial = @ \ {s}]
           /\ SectionReady(doc, s) = [doc EXCEPT !.sections = @ \union {s},
                                                 !.partial = @ \ {s}]
BY DEF Document, SectionStarted, SectionPartial, SectionAssets, SectionFinal, SectionReady

LEMMA FannedOutAll ==
    ASSUME EngineDocument, pc = "engine",
           FannedOut \/ \E s \in Sections : phase[s] \notin {"unplanned", "planned"}
    PROVE  AllPlanned
BY DEF FannedOut, EngineDocument, AllPlanned

LEMMA SectionStepDocument ==
    ASSUME TypeInv, StatusInv, DocumentInv, NEW s \in Sections, SectionNext(s)
    PROVE  DocumentInv'
<1> USE DEF TypeInv, TypeOK, historyVars
<1>1. /\ pc = "engine" /\ pc' = "engine" /\ row'.status = row.status
      /\ EngineDocument /\ readyPublished \subseteq document.sections
      /\ document \in Document
  BY EngineInternal, EngineReady
<1>2. document.status = "running" /\ document.failed = {}
  BY <1>1 DEF EngineDocument
<1>3. CASE EmitStarted(s)
  <2>1. /\ document' = [document EXCEPT !.manifest = @ \union {s}]
        /\ UNCHANGED readyPublished
    BY <1>3, <1>1, <1>2, ReducersKeep DEF EmitStarted, Emit
  <2> QED
    BY <1>3, <1>1, <1>2, <2>1, EngineOnly DEF EmitStarted, Emit, EngineDocument, AllPlanned, Document
<1>4. CASE EmitFirstPartial(s)
  <2>1. /\ document' = [document EXCEPT !.partial = @ \union {s}]
        /\ UNCHANGED readyPublished
    BY <1>4, <1>1, <1>2, ReducersKeep DEF EmitFirstPartial, Emit
  <2>2. AllPlanned
    BY <1>4, <1>1, FannedOutAll DEF EmitFirstPartial
  <2> QED
    BY <1>4, <1>1, <1>2, <2>1, <2>2, EngineOnly DEF EmitFirstPartial, Emit, EngineDocument, AllPlanned, Document
<1>5. CASE EmitAssetPending(s)
  <2>1. /\ document' = document
        /\ UNCHANGED readyPublished
    BY <1>5, <1>1, <1>2, ReducersKeep DEF EmitAssetPending, Emit
  <2>2. AllPlanned
    BY <1>5, <1>1, FannedOutAll DEF EmitAssetPending
  <2> QED
    BY <1>5, <1>1, <1>2, <2>1, <2>2, EngineOnly DEF EmitAssetPending, Emit, EngineDocument, AllPlanned, Document
<1>6. CASE EmitSecondPartial(s)
  <2>1. /\ document' = [document EXCEPT !.partial = @ \union {s}]
        /\ UNCHANGED readyPublished
    BY <1>6, <1>1, <1>2, ReducersKeep DEF EmitSecondPartial, Emit
  <2>2. AllPlanned
    BY <1>6, <1>1, FannedOutAll DEF EmitSecondPartial
  <2> QED
    BY <1>6, <1>1, <1>2, <2>1, <2>2, EngineOnly DEF EmitSecondPartial, Emit, EngineDocument, AllPlanned, Document
<1>7. CASE EmitAssetReady(s)
  <2>1. /\ document' = document
        /\ UNCHANGED readyPublished
    BY <1>7, <1>1, <1>2, ReducersKeep DEF EmitAssetReady, Emit
  <2>2. AllPlanned
    BY <1>7, <1>1, FannedOutAll DEF EmitAssetReady
  <2> QED
    BY <1>7, <1>1, <1>2, <2>1, <2>2, EngineOnly DEF EmitAssetReady, Emit, EngineDocument, AllPlanned, Document
<1>8. CASE EmitFinal(s)
  <2>1. /\ document' = [document EXCEPT !.partial = @ \ {s}]
        /\ UNCHANGED readyPublished
    BY <1>8, <1>1, <1>2, ReducersKeep DEF EmitFinal, Emit
  <2>2. AllPlanned
    BY <1>8, <1>1, FannedOutAll DEF EmitFinal
  <2> QED
    BY <1>8, <1>1, <1>2, <2>1, <2>2, EngineOnly DEF EmitFinal, Emit, EngineDocument, AllPlanned, Document
<1>9. CASE EmitReady(s)
  <2>1. /\ document' = [document EXCEPT !.sections = @ \union {s}, !.partial = @ \ {s}]
        /\ UNCHANGED readyPublished
    BY <1>9, <1>1, <1>2, ReducersKeep DEF EmitReady, Emit
  <2>2. AllPlanned
    BY <1>9, <1>1, FannedOutAll DEF EmitReady
  <2> QED
    BY <1>9, <1>1, <1>2, <2>1, <2>2, EngineOnly DEF EmitReady, Emit, EngineDocument, AllPlanned, Document
<1>10. CASE MainEmitFinal(s)
  <2>1. /\ document' = [document EXCEPT !.partial = @ \ {s}]
        /\ UNCHANGED readyPublished
    BY <1>10, <1>1, <1>2, ReducersKeep DEF MainEmitFinal, Emit
  <2>2. AllPlanned
    BY <1>10, <1>1, FannedOutAll DEF MainEmitFinal
  <2> QED
    BY <1>10, <1>1, <1>2, <2>1, <2>2, EngineOnly DEF MainEmitFinal, Emit, EngineDocument, AllPlanned, Document
<1>11. CASE MainEmitReady(s)
  <2>1. /\ document' = [document EXCEPT !.sections = @ \union {s}, !.partial = @ \ {s}]
        /\ UNCHANGED readyPublished
    BY <1>11, <1>1, <1>2, ReducersKeep DEF MainEmitReady, Emit
  <2>2. AllPlanned
    BY <1>11, <1>1, FannedOutAll DEF MainEmitReady
  <2> QED
    BY <1>11, <1>1, <1>2, <2>1, <2>2, EngineOnly DEF MainEmitReady, Emit, EngineDocument, AllPlanned, Document
<1>12. CASE EventSaved(s)
  BY <1>12, <1>1, EngineOnly DEF EventSaved, EngineDocument, AllPlanned
<1>13. CASE ContentFails(s)
  <2>1. AllPlanned
    BY <1>13, <1>1, FannedOutAll DEF ContentFails
  <2> QED
    BY <1>13, <1>1, <2>1, EngineOnly DEF ContentFails, EngineDocument, AllPlanned
<1>14. CASE SchemaRejects(s)
  <2>1. AllPlanned
    BY <1>14, <1>1, FannedOutAll DEF SchemaRejects
  <2> QED
    BY <1>14, <1>1, <2>1, EngineOnly DEF SchemaRejects, EngineDocument, AllPlanned
<1>15. CASE AssembleStops(s)
  <2>1. AllPlanned
    BY <1>15, <1>1, FannedOutAll DEF AssembleStops
  <2> QED
    BY <1>15, <1>1, <2>1, EngineOnly DEF AssembleStops, EngineDocument, AllPlanned
<1>16. CASE RetryAssembles(s)
  <2>1. AllPlanned
    BY <1>16, <1>1, FannedOutAll DEF RetryAssembles
  <2> QED
    BY <1>16, <1>1, <2>1, EngineOnly DEF RetryAssembles, EngineDocument, AllPlanned
<1>17. CASE RetryStops(s)
  <2>1. AllPlanned
    BY <1>17, <1>1, FannedOutAll DEF RetryStops
  <2> QED
    BY <1>17, <1>1, <2>1, EngineOnly DEF RetryStops, EngineDocument, AllPlanned
<1> QED
  BY <1>3, <1>4, <1>5, <1>6, <1>7, <1>8, <1>9, <1>10, <1>11, <1>12, <1>13, <1>14, <1>15, <1>16, <1>17 DEF SectionNext

LEMMA EngineLeftDocument ==
    ASSUME TypeInv, StatusInv, DocumentInv, NEW step \in {"fail_doc", "race_doc"},
           EngineLeft(step), document'.sections = document.sections,
           step = "race_doc" => Complete(document')
    PROVE  DocumentInv'
<1>1. pc = "engine" /\ pc' = step /\ row'.status = "running"
  BY InFlightKeepsStatus DEF EngineLeft, StatusInv, RowStatusAt
<1>2. save' = NoSaves /\ UNCHANGED readyPublished
  BY DEF EngineLeft, EngineGone, historyVars
<1>3. readyPublished' \subseteq document'.sections
  BY <1>1, <1>2, EngineReady
<1> QED
  BY <1>1, <1>2, <1>3 DEF DocumentInv, WrittenDocument, SavesInEngine, NoSaves, StartsEmpty,
     EngineDocument, ReadyInDocument, CompletedResult, DocumentMatchesRow, ReadySectionsKept,
     CompletedIsComplete, ResultSteps, Outcomes, AcceptSteps, JobSteps, TrySteps

(* The pipeline ends with a result document.                               *)
LEMMA ResultStepDocument ==
    ASSUME StatusInv, pc = "engine", pc' = "res_doc", UNCHANGED row, save' = NoSaves,
           readyPublished' \subseteq document'.sections,
           document'.status = "completed" => Complete(document')
    PROVE  DocumentInv'
BY DEF StatusInv, RowStatusAt, DocumentInv, WrittenDocument, SavesInEngine, NoSaves,
   StartsEmpty, EngineDocument, ReadyInDocument, CompletedResult, DocumentMatchesRow,
   ReadySectionsKept, CompletedIsComplete, ResultSteps, Outcomes, AcceptSteps, JobSteps,
   TrySteps

LEMMA EngineStepDocument ==
    ASSUME TypeInv, StatusInv, DocumentInv, EngineNext
    PROVE  DocumentInv'
<1> USE DEF TypeInv, TypeOK, historyVars
<1>1. CASE \E s \in Sections : SectionNext(s)
  BY <1>1, SectionStepDocument
<1>2. CASE RetryRound
  <2>1. /\ pc = "engine" /\ pc' = "engine" /\ row'.status = row.status
        /\ EngineDocument /\ readyPublished \subseteq document.sections
        /\ UNCHANGED <<document, assembled, readyPublished>>
    BY <1>2, EngineReady DEF RetryRound
  <2>2. \A s \in Sections : phase'[s] \in {"rerender", "retry"} \/ phase'[s] = phase[s]
    BY <1>2 DEF RetryRound
  <2>3. \A s \in Sections : phase[s] # "unplanned"
    BY <1>2 DEF RetryRound, Resting
  <2> QED
    BY <2>1, <2>2, <2>3, EngineOnly DEF EngineDocument, AllPlanned
<1>3. CASE EngineReturns
  <2>1. /\ pc = "engine" /\ pc' = "res_doc" /\ save' = NoSaves
        /\ UNCHANGED <<row, readyPublished>>
        /\ document' = ResultDocument(Sections, assembled, bad, draft)
    BY <1>3 DEF EngineReturns, EngineGone
  <2>2. readyPublished \subseteq assembled
    BY <2>1, EngineReady DEF EngineDocument
  <2>3. document'.sections = assembled
    BY <2>1, ResultDocumentType
  <2>4. document'.status = "completed" => Complete(document')
    BY <2>1, CompletedResultDocument
  <2> QED
    BY <2>1, <2>2, <2>3, <2>4, ResultStepDocument
<1>4. CASE PlannerFails
  <2>1. /\ pc = "engine" /\ pc' = "res_doc" /\ save' = NoSaves
        /\ UNCHANGED <<row, readyPublished>>
        /\ document' = ResultDocument({}, {}, {}, {})
        /\ \A s \in Sections : phase[s] = "unplanned"
    BY <1>4 DEF PlannerFails, EngineGone
  <2>2. readyPublished = {}
    <3>1. Sections # {} => document.sections = {}
      BY <2>1, EngineReady DEF EngineDocument, AllPlanned
    <3> QED
      BY <2>1, <3>1, EngineReady
  <2> QED
    BY <2>1, <2>2, EmptyResultDocument, ResultStepDocument
<1>5. CASE EngineRaises
  BY <1>5, EngineLeftDocument DEF EngineRaises
<1>6. CASE EngineTimesOut
  <2>1. CASE AllDone(document)
    <3>1. EngineLeft("race_doc") /\ document' = RaceRecovered(document)
      BY <1>6, <2>1 DEF EngineTimesOut
    <3>2. EngineDocument /\ pc = "engine"
      BY <3>1, EngineReady DEF EngineLeft
    <3>3. document.sections # {} => document.manifest = Sections
      BY <3>2 DEF EngineDocument, AllPlanned, Document
    <3>4. Complete(document')
      BY <2>1, <3>1, <3>2, <3>3, RaceIsComplete DEF EngineDocument
    <3> QED
      BY <3>1, <3>4, RaceRecoveredType, EngineLeftDocument
  <2>2. CASE ~AllDone(document)
    BY <1>6, <2>2, EngineLeftDocument DEF EngineTimesOut
  <2> QED
    BY <2>1, <2>2
<1> QED
  BY <1>1, <1>2, <1>3, <1>4, <1>5, <1>6 DEF EngineNext

-----------------------------------------------------------------------------
(* Shutdown, crash and restart.                                            *)

(* What the saves in flight of a dying pipeline can do to the row.         *)
LEMMA CrashDocument ==
    ASSUME TypeInv, StatusInv, DocumentInv, Crash
    PROVE  DocumentInv'
<1> USE DEF TypeInv, TypeOK, historyVars
<1>1. /\ pc' \in EndedSteps \union {"idle"}
      /\ pc' = "idle" => pc = "idle"
      /\ save' = NoSaves
      /\ UNCHANGED <<readyPublished, lostAck, reaped>>
      /\ row'.status = row.status
  BY InFlightKeepsStatus DEF Crash, EngineGone, EndedSteps
<1>2. pc # "engine" => row' = row
  BY DEF Crash, InFlightCommits, Saving, DocumentInv, SavesInEngine, NoSaves
<1>3. pc = "engine" => row'.status = "running"
  BY <1>1 DEF StatusInv, RowStatusAt
<1>4. DocumentMatchesRow' /\ ReadySectionsKept' /\ CompletedIsComplete'
  BY <1>1, <1>2, <1>3 DEF DocumentInv, DocumentMatchesRow, ReadySectionsKept,
     CompletedIsComplete, Outcomes
<1>5. ReadyInDocument'
  BY <1>1 DEF DocumentInv, ReadyInDocument, EndedSteps, AcceptSteps, JobSteps, TrySteps,
     HandlerSteps, FinallySteps
<1>6. /\ WrittenDocument' /\ SavesInEngine' /\ StartsEmpty' /\ EngineDocument'
      /\ CompletedResult'
  BY <1>1 DEF EndedSteps, WrittenDocument, SavesInEngine, NoSaves, StartsEmpty,
     EngineDocument, CompletedResult, ResultSteps
<1> QED
  BY <1>4, <1>5, <1>6 DEF DocumentInv

(* Startup recovery only meets jobs that are over and rows that are still  *)
(* active.                                                                 *)
LEMMA ReapDocument ==
    ASSUME TypeInv, StatusInv, DocumentInv, ReapSave \/ ReapStatus \/ ReapRaises
    PROVE  DocumentInv'
<1> USE DEF TypeInv, TypeOK, historyVars, engineVars
<1>1. /\ pc \in EndedSteps \union {"idle"} /\ row.status \in Active
      /\ server = "reap_status" => reaped /\ row.doc.status = "failed"
      /\ UNCHANGED <<pc, document, engineVars, readyPublished, lostAck>>
  BY DEF ReapSave, ReapStatus, ReapRaises, StatusInv, ServerAlone
<1>2. /\ StatusSet(row, "failed").status = "failed"
      /\ StatusSet(row, "failed").doc = row.doc
  BY StatusSetType DEF Outcomes
<1>3. DocumentMatchesRow' /\ ReadySectionsKept' /\ CompletedIsComplete'
  <2>1. CASE row'.status = row.status
    BY <1>1, <2>1 DEF DocumentMatchesRow, ReadySectionsKept, CompletedIsComplete,
       Active, Outcomes
  <2>2. CASE /\ server = "reap_status" /\ row' = StatusSet(row, "failed")
             /\ UNCHANGED reaped
    BY <1>1, <1>2, <2>2 DEF DocumentMatchesRow, ReadySectionsKept, CompletedIsComplete
  <2>3. CASE ReapSave
    <3>1. InterruptedSnapshot(IF row.hasPath THEN row.doc ELSE NoDocument) \in Document
      BY InterruptedSnapshotType, ConstantDocumentsType DEF Row
    <3> QED
      BY <2>1, <2>3, <3>1, SavedType DEF ReapSave
  <2> QED
    BY <2>1, <2>2, <2>3 DEF ReapStatus, ReapRaises
<1>4. ReadyInDocument'
  BY <1>1 DEF DocumentInv, ReadyInDocument, EndedSteps, AcceptSteps, JobSteps, TrySteps,
     HandlerSteps, FinallySteps
<1>5. /\ WrittenDocument' /\ SavesInEngine' /\ StartsEmpty' /\ EngineDocument'
      /\ CompletedResult'
  BY <1>1 DEF DocumentInv, EndedSteps, WrittenDocument, SavesInEngine, NoSaves, StartsEmpty,
     EngineDocument, CompletedResult, ResultSteps
<1> QED
  BY <1>3, <1>4, <1>5 DEF DocumentInv

LEMMA ServerStepDocument ==
    ASSUME TypeInv, StatusInv, DocumentInv, ServerNext
    PROVE  DocumentInv'
<1> USE DEF TypeInv, TypeOK, historyVars, engineVars
<1>1. CASE Shutdown
  <2>1. CASE pc = "engine" /\ EngineLeft("fail_doc") /\ UNCHANGED document
    BY <2>1, EngineLeftDocument
  <2>2. CASE pc \in JobSteps \ {"engine", "fin_beat"} /\ Raise
    BY <2>2, RaiseDocument
  <2>3. CASE /\ pc = "fin_beat" /\ pc' = "fin_check"
             /\ UNCHANGED <<row, aged, document, engineVars, historyVars>>
    BY <2>3 DEF DocumentInv, WrittenDocument, SavesInEngine, NoSaves, StartsEmpty,
       EngineDocument, ReadyInDocument, CompletedResult, DocumentMatchesRow,
       ReadySectionsKept, CompletedIsComplete, Complete, ResultSteps, AcceptSteps, JobSteps,
       TrySteps, HandlerSteps, FinallySteps
  <2>4. CASE UNCHANGED <<row, aged, pc, document, heartbeat, engineVars, historyVars>>
    BY <2>4, UnchangedDocument
  <2> QED
    BY <1>1, <2>1, <2>2, <2>3, <2>4 DEF Shutdown
<1>2. CASE Exit \/ Age \/ Boot
  BY <1>2, UnchangedDocument DEF Exit, Age, Boot
<1> QED
  BY <1>1, <1>2, CrashDocument, ReapDocument DEF ServerNext

LEMMA DocumentInvStep == TypeInv /\ StatusInv /\ DocumentInv /\ [Next]_vars => DocumentInv'
<1>1. CASE UNCHANGED vars
  BY <1>1, UnchangedDocument DEF vars, historyVars
<1> QED
  BY <1>1, JobStepDocument, EngineStepDocument, ServerStepDocument DEF Next

-----------------------------------------------------------------------------
(* IInv, the inductive invariant of the job: at every await, what the row, *)
(* the in-memory document and the pipeline's state have to do with each    *)
(* other.                                                                  *)
THEOREM JobInvariant == Spec => []IInv
BY InitTypeInv, TypeInvStep, InitStatusInv, StatusInvStep, InitDocumentInv,
   DocumentInvStep, PTL DEF Spec, IInv

(* Document and status are separate transactions, and events' saves race:  *)
(* still a terminal row holds the document of its own outcome, unless a    *)
(* committed status update was reported as failed.                         *)
THEOREM DocumentMatchesRowHolds == Spec => []DocumentMatchesRow
<1>1. IInv => DocumentMatchesRow
  BY DEF IInv, DocumentInv
<1> QED
  BY <1>1, JobInvariant, PTL

(* A section clients were told is ready is in the finished document,       *)
(* however the pipeline ended, unless startup recovery rewrote the row.    *)
THEOREM ReadySectionsKeptHolds == Spec => []ReadySectionsKept
<1>1. IInv => ReadySectionsKept
  BY DEF IInv, DocumentInv
<1> QED
  BY <1>1, JobInvariant, PTL

(* A completed generation has every outlined section and nothing partial   *)
(* or failed, whether the pipeline returned or lost the timeout race.      *)
THEOREM CompletedIsCompleteHolds == Spec => []CompletedIsComplete
<1>1. IInv => CompletedIsComplete
  BY DEF IInv, DocumentInv
<1> QED
  BY <1>1, JobInvariant, PTL

(* The timeout race: when the deadline expires after every section was     *)
(* reported ready, the in-memory document says so, whatever saves are      *)
(* still in flight, and the generation is recovered instead of failed.     *)
THEOREM LateTimeoutSparesHolds ==
    ASSUME Sections # {}
    PROVE  Spec => LateTimeoutSpares
<1>1. ASSUME IInv, EngineTimesOut, AllReady
      PROVE  pc' = "race_doc"
  <2>1. pc = "engine" /\ document \in Document
    BY <1>1 DEF EngineTimesOut, EngineLeft, IInv, TypeInv, TypeOK
  <2>2. EngineDocument
    BY <1>1, <2>1, EngineReady DEF IInv
  <2>3. /\ document.status = "running"
        /\ document.manifest = Sections
        /\ document.sections = Sections
        /\ document.partial = {}
        /\ document.failed = {}
    BY <1>1, <2>1, <2>2 DEF AllReady, EngineDocument, Document
  <2>4. Cardinality(Sections) \in Nat /\ Cardinality({}) = 0
    BY SectionsAssumption, FS_CardinalityType, FS_EmptySet
  <2>5. AllDone(document)
    BY <2>3, <2>4 DEF AllDone
  <2> QED
    BY <1>1, <2>5 DEF EngineTimesOut, EngineLeft
<1>2. IInv => [EngineTimesOut /\ AllReady => pc' = "race_doc"]_vars
  BY <1>1
<1> QED
  BY <1>2, JobInvariant, PTL DEF LateTimeoutSpares
=============================================================================
