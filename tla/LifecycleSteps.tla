--------------------------- MODULE LifecycleSteps ---------------------------
(***************************************************************************)
(* The first part of the proofs about LifecycleRecovery, for any number of *)
(* create attempts, any kinds, any number of recovery loops, with and      *)
(* without recovery: types are preserved, and what a step can and cannot   *)
(* change.  Each of the latter lemmas is about one goroutine, loop or      *)
(* actor, and spares the proof of the invariant the actions that leave it  *)
(* alone.                                                                  *)
(***************************************************************************)
EXTENDS LifecycleInvariant, TLAPS

USE NAssumption, KindAssumption, BoundsAssumption, RecoveryAssumption, ReconcilersAssumption

-----------------------------------------------------------------------------
(* Types *)

LEMMA MergeFactsType ==
  ASSUME NEW p \in Facts, NEW q \in Facts
  PROVE  MergeFacts(p, q) \in Facts
BY DEF Facts, MergeFacts, UIDs

LEMMA MergeResourcesType ==
  ASSUME NEW p \in Resources, NEW q \in Resources
  PROVE  MergeResources(p, q) \in Resources
BY MergeFactsType DEF Resources, MergeResources

LEMMA MergeRecordType ==
  ASSUME NEW p \in Records, NEW q \in Records
  PROVE  MergeRecord(p, q) \in Records
BY MergeResourcesType DEF Records, MergeRecord, Reasons

LEMMA ConstantTypes ==
  /\ 1 \in Attempts /\ N \in Attempts /\ 0 \in UIDs /\ Foreign \in UIDs
  /\ Attempts \subseteq UIDs /\ Attempts \subseteq 0 .. N /\ NoUID = 0
  /\ Unlisted \in Facts /\ Intent \in Facts
  /\ NoResources \in Resources /\ EmptyRecord \in Records
  /\ NoTarget \in Targets /\ IdleWorker \in Workers /\ NoObject \in [uid : UIDs, deleting : BOOLEAN]
  /\ \A a \in Attempts : Kind[a] \in {"pods", "secrets", "namespaces"} /\ a # Foreign /\ a # NoUID
<1>1. /\ 1 \in Attempts /\ N \in Attempts /\ 0 \in UIDs /\ Foreign \in UIDs
      /\ Attempts \subseteq UIDs /\ Attempts \subseteq 0 .. N /\ NoUID = 0
      /\ \A a \in Attempts : a # Foreign /\ a # NoUID
  BY DEF Attempts, UIDs, Foreign, NoUID
<1>2. \A a \in Attempts : Kind[a] \in {"pods", "secrets", "namespaces"}
  OBVIOUS
<1>3. Unlisted \in Facts
  BY <1>1 DEF Unlisted, Facts
<1>4. Intent \in Facts
  BY <1>1 DEF Intent, Entry, Facts
<1>5. NoResources \in Resources
  BY <1>3 DEF NoResources, Resources
<1>6. EmptyRecord \in Records
  BY <1>5 DEF EmptyRecord, Records, Reasons
<1>7. NoTarget \in Targets
  BY <1>1 DEF NoTarget, Targets
<1>8. IdleWorker \in Workers
  BY <1>6, <1>7 DEF IdleWorker, Workers, WorkerPcs
<1>9. NoObject \in [uid : UIDs, deleting : BOOLEAN]
  BY <1>1 DEF NoObject
<1> QED BY <1>1, <1>2, <1>3, <1>4, <1>5, <1>6, <1>7, <1>8, <1>9

LEMMA EntryTypes ==
  ASSUME NEW f \in Facts, NEW uid \in UIDs
  PROVE  /\ Learn(f, uid) \in Facts /\ Condemn(f, uid) \in Facts /\ Discard(f) \in Facts
         /\ MarkDone(f) \in Facts /\ MarkPending(f) \in Facts
BY DEF Facts, Entry, Learn, Condemn, Discard, MarkDone, MarkPending

(* Whatever a save does to the store keeps the record a record. *)
LEMMA SaveByType ==
  ASSUME record \in Records, holders \in SUBSET (Reconcilers \cup {Owner}),
         NEW rec \in Records, NEW w \in Reconcilers \cup {Owner}, SaveBy(w, rec)
  PROVE  record' \in Records /\ holders' \in SUBSET (Reconcilers \cup {Owner}) /\ cm' = cm
         /\ Saved(rec) \in Records /\ record' = Saved(rec)
BY MergeRecordType DEF SaveBy, Saved

LEMMA SnapshotType ==
  ASSUME closed \in BOOLEAN, setupDone \in BOOLEAN, res \in Resources
  PROVE  Snapshot \in Records
<1>1. (closed /\ setupDone) \in BOOLEAN
  OBVIOUS
<1>2. (IF closed /\ setupDone THEN "task-finished" ELSE "") \in Reasons
  BY DEF Reasons
<1> QED BY <1>1, <1>2 DEF Snapshot, Records

LEMMA AfterOutcomeType ==
  ASSUME next \in Attempts, NEW err, AfterOutcome(err)
  PROVE  setupPc' \in {"failed", "succeeded", "create"} /\ next' \in Attempts
BY DEF AfterOutcome, Attempts

LEMMA TypeInit == Init => TypeOK
BY ConstantTypes, ZenonT(60) DEF Init, TypeOK, TaskInit, ApiInit, SetupIdle, CleanerOff, TaskTypeOK,
      ApiTypeOK, SetupPcs, CleanPcs

LEMMA TypeSetup ==
  ASSUME TypeOK, SetupStep, UNCHANGED recoveryVars
  PROVE  TypeOK'
<1> USE ConstantTypes DEF TypeOK, TaskTypeOK, ApiTypeOK, SetupPcs, recoveryVars, apiVars, storeVars,
      stateVars,
      saveVars, cleanVars, SetupGoes, SetupAt
<1>1. CASE SetupSkipped BY <1>1 DEF SetupSkipped
<1>2. CASE SetupStart BY <1>2, ZenonT(60) DEF SetupStart
<1>3. CASE ChecksPassed BY <1>3 DEF ChecksPassed
<1>4. CASE ChecksFailed BY <1>4 DEF ChecksFailed
<1>5. CASE InitializeSend BY <1>5 DEF InitializeSend
<1>6. CASE InitializeOk BY <1>6 DEF InitializeOk
<1>7. CASE InitializeRejected BY <1>7 DEF InitializeRejected
<1>8. CASE InitializeLost BY <1>8 DEF InitializeLost
<1>9. CASE CreateBlocked BY <1>9 DEF CreateBlocked
<1>10. CASE CreateIntent BY <1>10 DEF CreateIntent, Resources
<1>11. CASE IntentBegin BY <1>11, SnapshotType DEF IntentBegin, TakeSave
<1>12. CASE IntentSaved
  BY <1>12, SaveByType, MergeResourcesType DEF IntentSaved, SyncAnswered, SaveAnswered, ReleaseSave,
        Records
<1>13. CASE IntentUnsaved
  BY <1>13, SaveByType, EntryTypes, SMTT(40) DEF IntentUnsaved, ReleaseSave, Resources
<1>14. CASE CreateSend BY <1>14 DEF CreateSend, SendPost
<1>15. CASE CreateUnsent BY <1>15, AfterOutcomeType DEF CreateUnsent, CreateReturns
<1>16. CASE CreateOk 
  <2>1. res' \in Resources BY <1>16, EntryTypes DEF CreateOk, Resources
  <2> QED BY <1>16, <2>1, AfterOutcomeType DEF CreateOk, CreateReturns
<1>17. CASE CreateRejected 
  <2>1. res' \in Resources BY <1>17, EntryTypes DEF CreateRejected, Resources
  <2> QED BY <1>17, <2>1, AfterOutcomeType DEF CreateRejected, CreateReturns
<1>18. CASE CreateLost BY <1>18, AfterOutcomeType DEF CreateLost, CreateReturns
<1>19. CASE OutcomeBegin BY <1>19, SnapshotType DEF OutcomeBegin, TakeSave
<1>20. CASE OutcomeSaved
  BY <1>20, SaveByType, MergeResourcesType, AfterOutcomeType
     DEF OutcomeSaved, SyncAnswered, SaveAnswered, ReleaseSave, Records
<1>21. CASE SetupReturn BY <1>21 DEF SetupReturn
<1> QED BY <1>1, <1>2, <1>3, <1>4, <1>5, <1>6, <1>7, <1>8, <1>9, <1>10, <1>11, <1>12, <1>13, <1>14,
           <1>15, <1>16, <1>17, <1>18, <1>19, <1>20, <1>21 DEF SetupStep

LEMMA TypeCleaner ==
  ASSUME TypeOK, CleanerAims, CleanerStep, UNCHANGED recoveryVars
  PROVE  TypeOK'
<1> USE ConstantTypes DEF TypeOK, TaskTypeOK, ApiTypeOK, CleanPcs, recoveryVars, apiVars, storeVars,
      stateVars,
      saveVars, setupVars, CleanGoes, CleanAt, Visits, Visited
<1>1. CASE HandoffBegin BY <1>1, SnapshotType DEF HandoffBegin, TakeSave
<1>2. CASE HandoffSaved
  BY <1>2, SaveByType, MergeResourcesType DEF HandoffSaved, SyncAnswered, SaveAnswered, ReleaseSave,
        Records
<1>3. CASE Scan BY <1>3 DEF Scan
<1>4. ASSUME NEW a \in Attempts, SkipNamespace(a) PROVE TypeOK'
  BY <1>4 DEF SkipNamespace
<1>5. ASSUME NEW a \in Attempts, ReadGone(a) PROVE TypeOK'
  <2>1. res' \in Resources BY <1>5, EntryTypes DEF ReadGone, Resources
  <2>2. complete' \in BOOLEAN BY <1>5 DEF ReadGone
  <2> QED BY <1>5, <2>1, <2>2 DEF ReadGone
<1>6. ASSUME NEW a \in Attempts, ReadDying(a) PROVE TypeOK'
  <2>1. res' \in Resources BY <1>6, EntryTypes DEF ReadDying, Resources
  <2> QED BY <1>6, <2>1 DEF ReadDying
<1>7. ASSUME NEW a \in Attempts, ReadFailed(a) PROVE TypeOK'
  BY <1>7 DEF ReadFailed
<1>8. ASSUME NEW a \in Attempts, BeforeDelete(a) PROVE TypeOK'
  <2>1. DeleteUID(a, view[a]) \in UIDs
    BY DEF DeleteUID, Resources, Facts
  <2>2. res' \in Resources BY <1>8, <2>1, EntryTypes DEF BeforeDelete, Resources
  <2>3. DeletesUnread(a, view[a]) \in BOOLEAN BY DEF DeletesUnread
  <2>4. target' \in Targets BY <1>8, <2>1, <2>3 DEF BeforeDelete, TargetOf, Targets
  <2> QED BY <1>8, <2>2, <2>4 DEF BeforeDelete
<1>9. CASE NoteBegin BY <1>9, SnapshotType DEF NoteBegin, TakeSave
<1>10. CASE NoteSaved
  BY <1>10, SaveByType, MergeResourcesType DEF NoteSaved, SyncAnswered, SaveAnswered, ReleaseSave,
        Records
<1>11. ASSUME DeleteProves \/ DeleteSent \/ DeleteLost PROVE TypeOK'
  <2>1. target.attempt \in Attempts
    BY <1>11 DEF DeleteProves, DeleteSent, DeleteLost, CleanerAims, Aimed
  <2>2. res' \in Resources
    BY <1>11, EntryTypes DEF DeleteProves, DeleteSent, DeleteLost, Deleted, Resources
  <2>3. object' \in [Attempts -> [uid : UIDs, deleting : BOOLEAN]]
    <3>1. target.uid \in UIDs
      BY DEF Targets
    <3>2. CASE object' = object
      BY <3>2
    <3>3. CASE object' = [object EXCEPT ![target.attempt] = [uid |-> target.uid, deleting |-> TRUE]]
      BY <2>1, <3>1, <3>3
    <3> QED
      BY <1>11, <3>2, <3>3 DEF DeleteProves, DeleteSent, DeleteLost, Delete, LostDelete
  <2>4. request' = request /\ deletesSent' \in SUBSET Attempts
    BY <1>11, <2>1 DEF DeleteProves, DeleteSent, DeleteLost, Delete, LostDelete
  <2>5. complete' \in BOOLEAN /\ todo' \in SUBSET Attempts /\ UNCHANGED view
    BY <1>11 DEF DeleteProves, DeleteSent, DeleteLost, Deleted
  <2> QED
    BY <1>11, <2>2, <2>3, <2>4, <2>5 DEF DeleteProves, DeleteSent, DeleteLost, Deleted
<1>12. CASE PassUnsaved
  <2>1. PassEnds("done") \/ PassEnds("begin")
    BY <1>12 DEF PassUnsaved
  <2>2. cleanPc' \in CleanPcs /\ complete' \in BOOLEAN
    BY <2>1 DEF PassEnds
  <2>3. view' \in Resources /\ todo' \in SUBSET Attempts /\ target' \in Targets
    BY <2>1 DEF PassEnds
  <2> QED BY <1>12, <2>2, <2>3 DEF PassUnsaved
<1>13. CASE FlushBegin BY <1>13, SnapshotType DEF FlushBegin, TakeSave
<1>14. CASE FlushSaved
  <2>1. /\ cm' = cm /\ record' \in Records /\ res' \in Resources
        /\ holders' \in SUBSET (Reconcilers \cup {Owner})
    BY <1>14, SaveByType, MergeResourcesType DEF FlushSaved, SyncAnswered, SaveAnswered, Records
  <2> QED BY <1>14, <2>1, ZenonT(60) DEF FlushSaved, SyncAnswered, ReleaseSave, PassEnds
<1>15. CASE FinishBegin BY <1>15, SnapshotType DEF FinishBegin, TakeSave
<1>16. CASE FinishSaved BY <1>16, SaveByType DEF FinishSaved
<1>17. CASE FinishUnsaved
  <2>1. cm' = cm /\ record' \in Records /\ holders' \in SUBSET (Reconcilers \cup {Owner})
    BY <1>17, SaveByType DEF FinishUnsaved
  <2>2. cleanPc' \in {"done", "begin"} /\ UNCHANGED <<view, todo, target, complete>>
    BY <1>17 DEF FinishUnsaved
  <2> QED BY <1>17, <2>1, <2>2 DEF FinishUnsaved, ReleaseSave
<1>18. CASE FinishRemoved
  <2>1. /\ cm' \in {cm, "removed"} /\ record' \in Records
        /\ holders' \in SUBSET (Reconcilers \cup {Owner})
    BY <1>18 DEF FinishRemoved, RemoveBy
  <2>2. cleanPc' \in {"done", "begin"} /\ UNCHANGED <<view, todo, target, complete>>
    BY <1>18 DEF FinishRemoved
  <2> QED BY <1>18, <2>1, <2>2 DEF FinishRemoved, ReleaseSave
<1>19. CASE FinishNotRemoved BY <1>19 DEF FinishNotRemoved, ReleaseSave
<1> QED BY <1>1, <1>2, <1>3, <1>4, <1>5, <1>6, <1>7, <1>8, <1>9, <1>10, <1>11, <1>12, <1>13, <1>14,
           <1>15, <1>16, <1>17, <1>18, <1>19 DEF CleanerStep

LEMMA TypeReconcile ==
  ASSUME TypeOK, worker \in [Reconcilers -> Scans], NEW r \in Reconcilers, ReconcileStep(r)
  PROVE  TypeOK'
<1> USE ConstantTypes DEF TypeOK, TaskTypeOK, ApiTypeOK, At, Rec
<1> DEFINE w == worker[r]
<1>1. /\ w \in Workers /\ w.rec \in Records /\ w.todo \in SUBSET Attempts /\ w.target \in Targets
      /\ Saved(w.rec) \in Records
      /\ \A pc \in WorkerPcs, rec \in Records, t \in Targets, s \in SUBSET Attempts :
           [pc |-> pc, rec |-> rec, todo |-> s, target |-> t] \in Workers
  BY MergeRecordType DEF Workers, Saved
<1>2. \A a \in Attempts : w.rec.res[a] \in Facts
  BY <1>1 DEF Records, Resources
<1>3. \A a \in Attempts, f \in Facts : WithFacts(w.rec, a, f) \in Records
  <2> TAKE a \in Attempts, f \in Facts
  <2>1. [w.rec.res EXCEPT ![a] = f] \in Resources
    BY <1>1 DEF Records, Resources
  <2> QED BY <1>1, <2>1 DEF WithFacts, Records
<1> USE DEF taskVars, apiVars, storeVars, ownerVars, stateVars, saveVars, setupVars, cleanVars
<1>4. ASSUME UNCHANGED <<taskVars, evidence>>, worker' \in [Reconcilers -> Workers] PROVE TypeOK'
  BY <1>4
<1>5. ASSUME UNCHANGED <<apiVars, ownerVars, evidence>>, worker' \in [Reconcilers -> Workers],
             SaveBy(r, w.rec) \/ UNCHANGED storeVars
      PROVE  TypeOK'
  <2>1. record' \in Records /\ holders' \in SUBSET (Reconcilers \cup {Owner}) /\ cm' = cm
    BY <1>1, <1>5, SaveByType
  <2> QED BY <1>5, <2>1
<1>6. \A pc \in WorkerPcs, rec \in Records : Goes(r, pc, rec) => worker' \in [Reconcilers -> Workers]
  BY <1>1 DEF Goes
<1>7. \A a \in Attempts, f \in Facts : EntryReturns(r, a, f) => worker' \in [Reconcilers -> Workers]
  BY <1>1, <1>3 DEF EntryReturns, EntryLeaves, WorkerPcs
<1>8. IdleWorker \in Workers
  OBVIOUS
<1>9. CASE List(r) BY <1>9, <1>6, <1>4 DEF List, WorkerPcs
<1>10. CASE JudgeClosed(r) BY <1>10, <1>1, <1>6, <1>4 DEF JudgeClosed, WorkerPcs
<1>11. CASE JudgeTerminated(r)
  <2>1. [closed |-> TRUE, reason |-> "executor-terminated", res |-> w.rec.res] \in Records
    BY <1>1 DEF Records, Reasons
  <2> QED BY <1>11, <2>1, <1>6, <1>4 DEF JudgeTerminated, WorkerPcs
<1>12. CASE TakeOver(r)
  <2>1. worker' \in [Reconcilers -> Workers]
    BY <1>12, <1>1 DEF TakeOver, WorkerPcs
  <2> QED BY <1>12, <2>1, <1>5 DEF TakeOver
<1>13. CASE GiveUp(r)
  <2>1. worker' \in [Reconcilers -> Workers]
    BY <1>13 DEF GiveUp
  <2> QED BY <1>13, <2>1, <1>5 DEF GiveUp
<1>14. ASSUME NEW a \in Attempts, SkipEntry(r, a) PROVE TypeOK'
  BY <1>14, <1>2, <1>7, <1>4 DEF SkipEntry
<1>15. ASSUME NEW a \in Attempts, EntryGone(r, a) PROVE TypeOK'
  <2>1. MarkDone(w.rec.res[a]) \in Facts
    BY <1>2, EntryTypes
  <2>2. worker' \in [Reconcilers -> Workers]
    BY <1>15, <2>1, <1>2, <1>7 DEF EntryGone
  <2> QED BY <1>15, <2>2, <1>4 DEF EntryGone
<1>16. ASSUME NEW a \in Attempts, EntryDying(r, a) PROVE TypeOK'
  <2>1. Learn(w.rec.res[a], object[a].uid) \in Facts
    BY <1>2, EntryTypes
  <2>2. worker' \in [Reconcilers -> Workers]
    BY <1>16, <2>1, <1>7 DEF EntryDying
  <2> QED BY <1>16, <2>2, <1>4 DEF EntryDying
<1>17. ASSUME NEW a \in Attempts, EntryFailed(r, a) PROVE TypeOK'
  BY <1>17, <1>2, <1>7, <1>4 DEF EntryFailed
<1>18. ASSUME NEW a \in Attempts, EntryCondemned(r, a) PROVE TypeOK'
  <2> DEFINE f == w.rec.res[a]
  <2>1. DeleteUID(a, f) \in UIDs
    BY <1>2 DEF DeleteUID, Facts
  <2>2. WithFacts(w.rec, a, Condemn(f, DeleteUID(a, f))) \in Records
    BY <2>1, <1>2, <1>3, EntryTypes
  <2>3. DeletesUnread(a, f) \in BOOLEAN BY DEF DeletesUnread
  <2>4. TargetOf(a, f) \in Targets
    BY <2>1, <2>3 DEF TargetOf, Targets
  <2>5. worker' \in [Reconcilers -> Workers]
    BY <1>18, <2>2, <2>4, <1>1 DEF EntryCondemned, WorkerPcs
  <2> QED BY <1>18, <2>5, <1>4 DEF EntryCondemned
<1>19. CASE NoteStored(r)
  <2>1. worker' \in [Reconcilers -> Workers]
    BY <1>19, <1>1, <1>6 DEF NoteStored, WorkerPcs
  <2> QED BY <1>19, <2>1, <1>5 DEF NoteStored
<1>20. CASE NoteFailed(r)
  <2> DEFINE a == w.target.attempt
             saved == Saved(w.rec)
  <2>1. a \in Attempts
    BY <1>20 DEF NoteFailed, Scans, Aimed
  <2>2. saved \in Records /\ saved.res \in Resources /\ saved.res[a] \in Facts
    BY <1>1, <2>1 DEF Records, Resources
  <2>3. MarkPending(saved.res[a]) \in Facts
    BY <2>2, EntryTypes
  <2>4. WithFacts(saved, a, MarkPending(saved.res[a])) \in Records
    <3> DEFINE f == MarkPending(saved.res[a])
    <3>1. [saved.res EXCEPT ![a] = f] \in Resources
      BY <2>1, <2>2, <2>3 DEF Resources
    <3> QED BY <2>2, <3>1 DEF WithFacts, Records
  <2>5. EntryReturns(r, a, w.rec.res[a]) \/ EntryLeaves(r, saved, a, MarkPending(saved.res[a]))
    BY <1>20 DEF NoteFailed
  <2>6. ASSUME EntryLeaves(r, saved, a, MarkPending(saved.res[a]))
        PROVE  worker' \in [Reconcilers -> Workers]
    BY <1>1, <2>4, <2>6 DEF EntryLeaves, WorkerPcs
  <2>7. worker' \in [Reconcilers -> Workers]
    BY <2>1, <1>2, <1>7, <2>5, <2>6
  <2>8. UNCHANGED <<apiVars, ownerVars, evidence>> /\ (SaveBy(r, w.rec) \/ UNCHANGED storeVars)
    BY <1>20 DEF NoteFailed
  <2> QED BY <2>7, <2>8, <1>5
<1>21. CASE DeleteEntry(r)
  <2>1. w.target.attempt \in Attempts /\ w.target.uid \in UIDs
    BY <1>21, <1>1 DEF DeleteEntry, Scans, Aimed, Targets
  <2>2. /\ MarkDone(w.rec.res[w.target.attempt]) \in Facts
        /\ MarkPending(w.rec.res[w.target.attempt]) \in Facts
    BY <2>1, <1>2, EntryTypes
  <2>3. worker' \in [Reconcilers -> Workers]
    BY <1>21, <2>1, <2>2, <1>7 DEF DeleteEntry
  <2>4. /\ object' \in {object, [object EXCEPT ![w.target.attempt] = [uid |-> w.target.uid, deleting |-> TRUE]]}
        /\ request' = request /\ deletesSent' \in SUBSET Attempts
    BY <1>21, <2>1 DEF DeleteEntry, Delete, LostDelete
  <2>5. object' \in [Attempts -> [uid : UIDs, deleting : BOOLEAN]]
    <3>1. [uid |-> w.target.uid, deleting |-> TRUE] \in [uid : UIDs, deleting : BOOLEAN]
      BY <2>1
    <3>2. CASE object' = object
      BY <3>2
    <3>3. CASE object' = [object EXCEPT ![w.target.attempt] = [uid |-> w.target.uid, deleting |-> TRUE]]
      BY <2>1, <3>1, <3>3
    <3> QED BY <2>4, <3>2, <3>3
  <2> QED BY <1>21, <2>3, <2>4, <2>5 DEF DeleteEntry
<1>22. CASE FinalSaved(r)
  <2>1. worker' \in [Reconcilers -> Workers]
    BY <1>22, <1>1, <1>6 DEF FinalSaved, WorkerPcs
  <2> QED BY <1>22, <2>1, <1>5 DEF FinalSaved
<1>23. CASE RemoveRecord(r)
  <2>1. worker' \in [Reconcilers -> Workers]
    BY <1>23 DEF RemoveRecord
  <2> QED BY <1>23, <2>1 DEF RemoveRecord, RemoveBy
<1> QED BY <1>9, <1>10, <1>11, <1>12, <1>13, <1>14, <1>15, <1>16, <1>17, <1>18, <1>19, <1>20,
           <1>21, <1>22, <1>23 DEF ReconcileStep

LEMMA ApiType == 
  ASSUME ApiTypeOK, ApiNext
  PROVE  ApiTypeOK'
<1> USE ConstantTypes DEF ApiTypeOK
<1> PICK a \in Attempts : Commit(a) \/ Refuse(a) \/ Finalize(a) \/ ExternalDelete(a) \/ ForeignCreate(a)
  BY DEF ApiNext
<1>1. \A o \in [uid : UIDs, deleting : BOOLEAN] :
        [object EXCEPT ![a] = o] \in [Attempts -> [uid : UIDs, deleting : BOOLEAN]]
  OBVIOUS
<1>2. /\ [uid |-> Foreign, deleting |-> FALSE] \in [uid : UIDs, deleting : BOOLEAN]
      /\ [uid |-> a, deleting |-> FALSE] \in [uid : UIDs, deleting : BOOLEAN]
  OBVIOUS
<1>3. CASE Commit(a) BY <1>1, <1>2, <1>3 DEF Commit
<1>4. CASE Refuse(a) BY <1>4 DEF Refuse
<1>5. CASE Finalize(a) BY <1>1, <1>5 DEF Finalize
<1>6. CASE ExternalDelete(a) BY <1>1, <1>6 DEF ExternalDelete
<1>7. CASE ForeignCreate(a) BY <1>1, <1>2, <1>7 DEF ForeignCreate
<1> QED BY <1>3, <1>4, <1>5, <1>6, <1>7

LEMMA TypeOther ==
  ASSUME TypeOK,
         \/ (Cancel \/ StopCleanup \/ World) /\ UNCHANGED recoveryVars
         \/ OwnerCrash \/ TerminationShown \/ EvidenceLost \/ UNCHANGED vars
  PROVE  TypeOK'
<1> USE ConstantTypes DEF TypeOK, TaskTypeOK, ApiTypeOK, CleanPcs, recoveryVars, taskVars, apiVars,
      storeVars,
      ownerVars, stateVars, saveVars, setupVars, cleanVars, CleanGoes
<1>1. CASE Cancel /\ UNCHANGED recoveryVars BY <1>1 DEF Cancel
<1>2. CASE StopCleanup /\ UNCHANGED recoveryVars BY <1>2 DEF StopCleanup
<1>3. CASE RecordCommit /\ UNCHANGED recoveryVars BY <1>3 DEF RecordCommit
<1>10. CASE RecordRefuse /\ UNCHANGED recoveryVars BY <1>10 DEF RecordRefuse
<1>6. CASE OwnerCrash
  BY <1>6 DEF OwnerCrash, PassEnds, SetupPcs
<1>7. CASE TerminationShown BY <1>7 DEF TerminationShown
<1>11. CASE EvidenceLost BY <1>11 DEF EvidenceLost
<1>8. CASE UNCHANGED vars
  BY <1>8 DEF vars
<1>9. CASE ApiStep /\ UNCHANGED recoveryVars
  BY <1>9, ApiType DEF ApiStep
<1> QED BY <1>1, <1>2, <1>3, <1>6, <1>7, <1>8, <1>9, <1>10, <1>11 DEF World

LEMMA TypeNext ==
  ASSUME TypeOK, CleanerAims, worker \in [Reconcilers -> Scans], [Next]_vars
  PROVE  TypeOK'
BY TypeSetup, TypeCleaner, TypeReconcile, TypeOther DEF Next, TaskNext

-----------------------------------------------------------------------------
(* What steps change *)

LEMMA SetupFrame ==
  ASSUME SetupStep
  PROVE  /\ ownerUp /\ ownerUp' = ownerUp /\ cancelled' = cancelled /\ closed' = closed
         /\ object' = object /\ deletesSent' = deletesSent
         /\ cleanPc' = cleanPc /\ view' = view /\ todo' = todo /\ target' = target /\ complete' = complete
BY DEF SetupStep, SetupSkipped, SetupStart, ChecksPassed, ChecksFailed, InitializeSend, InitializeOk,
  InitializeRejected, InitializeLost, CreateBlocked, CreateIntent, IntentBegin, IntentSaved,
  IntentUnsaved,
  CreateSend, CreateUnsent, CreateOk, CreateRejected, CreateLost, OutcomeBegin, OutcomeSaved,
  SetupReturn,
  CreateReturns, SendPost, SetupAt, apiVars, stateVars, cleanVars

LEMMA CleanerFrame ==
  ASSUME CleanerStep
  PROVE  /\ ownerUp /\ ownerUp' = ownerUp /\ cancelled' = cancelled /\ closed' = closed
         /\ setupDone' = setupDone /\ recordRequired' = recordRequired /\ request' = request
         /\ setupPc' = setupPc /\ next' = next /\ createErr' = createErr
         /\ \/ object' = object /\ deletesSent' = deletesSent
            \/ /\ cleanPc = "delete"
               /\ Delete(target.attempt, target.uid) \/ LostDelete(target.attempt)
BY DEF CleanerStep, HandoffBegin, HandoffSaved, Scan, SkipNamespace, ReadGone, ReadDying, ReadFailed,
  BeforeDelete, NoteBegin, NoteSaved, DeleteProves, DeleteSent, DeleteLost, PassUnsaved, FlushBegin,
  FlushSaved, FinishBegin, FinishSaved, FinishUnsaved, FinishRemoved, FinishNotRemoved,
  Deleted, Delete, LostDelete, CleanAt, Visits, apiVars, stateVars, setupVars

LEMMA ReconcileFrame ==
  ASSUME TypeOK, NEW r \in Reconcilers, ReconcileStep(r)
  PROVE  /\ UNCHANGED ownerVars /\ evidence' = evidence /\ request' = request
         /\ \/ object' = object /\ deletesSent' = deletesSent
            \/ /\ worker[r].pc = "delete"
               /\ \/ Delete(worker[r].target.attempt, worker[r].target.uid)
                  \/ LostDelete(worker[r].target.attempt)
         /\ \A q \in Reconcilers \ {r} : worker'[q] = worker[q]
<1> USE DEF ReconcileStep, List, JudgeClosed, JudgeTerminated, TakeOver, GiveUp, SkipEntry,
      EntryGone, EntryDying,
    EntryFailed, EntryCondemned, NoteStored, NoteFailed, DeleteEntry, FinalSaved, RemoveRecord
<1>1. UNCHANGED ownerVars /\ evidence' = evidence
  BY DEF taskVars
<1>2. /\ request' = request
      /\ \/ object' = object /\ deletesSent' = deletesSent
         \/ /\ worker[r].pc = "delete"
            /\ \/ Delete(worker[r].target.attempt, worker[r].target.uid)
               \/ LostDelete(worker[r].target.attempt)
  BY DEF taskVars, apiVars, At, Delete, LostDelete
<1>3. \A q \in Reconcilers \ {r} : worker'[q] = worker[q]
  BY DEF EntryReturns, EntryLeaves, Goes, TypeOK
<1> QED BY <1>1, <1>2, <1>3

(* What else can happen to the objects of a task. *)
LEMMA ApiFrame ==
  ASSUME ApiTypeOK, ApiNext
  PROVE  \A a \in Attempts :
           /\ \/ request'[a] = request[a]
              \/ request[a] = "inflight" /\ request'[a] \in {"committed", "refused"}
           /\ object'[a].uid = a => object[a].uid = a \/ (request[a] = "inflight" /\ request'[a] = "committed")
           /\ deletesSent' = deletesSent
<1> PICK b \in Attempts : Commit(b) \/ Refuse(b) \/ Finalize(b) \/ ExternalDelete(b) \/ ForeignCreate(b)
  BY DEF ApiNext
<1> USE ConstantTypes DEF ApiTypeOK, NoObject, OwnExists, Exists
<1>1. CASE Commit(b) BY <1>1 DEF Commit
<1>2. CASE Refuse(b) BY <1>2 DEF Refuse
<1>3. CASE Finalize(b) BY <1>3 DEF Finalize
<1>4. CASE ExternalDelete(b) BY <1>4 DEF ExternalDelete
<1>5. CASE ForeignCreate(b) BY <1>5 DEF ForeignCreate
<1> QED BY <1>1, <1>2, <1>3, <1>4, <1>5

LEMMA DeleteFrame ==
  ASSUME ApiTypeOK, NEW b, NEW uid, Delete(b, uid) \/ LostDelete(b)
  PROVE  \A a \in Attempts : request'[a] = request[a] /\ object'[a].uid = object[a].uid
BY DEF ApiTypeOK, Delete, LostDelete

(* The four groups of steps that are not Setup's, the cleaner's or a loop's. *)
Elsewhere ==
  \/ (Cancel \/ StopCleanup \/ World) /\ UNCHANGED recoveryVars
  \/ OwnerCrash \/ TerminationShown \/ EvidenceLost \/ UNCHANGED vars

LEMMA NextSplit ==
  ASSUME [Next]_vars
  PROVE  \/ SetupStep /\ UNCHANGED recoveryVars
         \/ CleanerStep /\ UNCHANGED recoveryVars
         \/ \E r \in Reconcilers : ReconcileStep(r)
         \/ Elsewhere
BY DEF Next, TaskNext, Elsewhere

(* How Setup gets on. *)
SetupMoves ==
  \/ next' = next /\ setupPc' = setupPc
  \/ /\ next' = next
     /\ \/ setupPc = "idle" /\ setupPc' \in {"checks", "returned"}
        \/ setupPc = "checks" /\ setupPc' \in {"init", "create", "failed"}
        \/ setupPc = "init" /\ setupPc' = "initWait"
        \/ setupPc = "initWait" /\ setupPc' \in {"create", "failed"}
        \/ setupPc = "create" /\ setupPc' = "failed"
        \/ setupPc = "create" /\ setupPc' \in {"intent", "send"} /\ ~closed
        \/ setupPc = "intent" /\ setupPc' = "intentSave"
        \/ setupPc = "intentSave" /\ setupPc' \in {"send", "failed"}
        \/ setupPc = "send" /\ setupPc' = "wait"
        \/ setupPc \in {"send", "wait"} /\ setupPc' \in {"outcome", "failed", "succeeded"}
        \/ setupPc = "outcome" /\ setupPc' = "outcomeSave"
        \/ setupPc = "outcomeSave" /\ setupPc' \in {"failed", "succeeded"}
        \/ setupPc \in {"failed", "succeeded"} /\ setupPc' = "returned"
  \/ next' = next + 1 /\ setupPc \in {"wait", "outcomeSave"} /\ setupPc' = "create"

LEMMA SetupMove ==
  ASSUME SetupStep
  PROVE  SetupMoves
BY DEF SetupMoves, AfterOutcome, SetupGoes, SetupAt, SetupStep, SetupSkipped, SetupStart,
      ChecksPassed, ChecksFailed, InitializeSend, InitializeOk,
  InitializeRejected, InitializeLost, CreateBlocked, CreateIntent, IntentBegin, IntentSaved,
  IntentUnsaved,
  CreateSend, CreateUnsent, CreateOk, CreateRejected, CreateLost, OutcomeBegin, OutcomeSaved,
  SetupReturn,
  CreateReturns

(* The POST of an attempt is sent once, at send. *)
LEMMA RequestMove ==
  ASSUME TypeOK, [Next]_vars, NEW a \in Attempts
  PROVE  \/ request'[a] = request[a]
         \/ request[a] = "inflight" /\ request'[a] \in {"committed", "refused"}
         \/ /\ a = next /\ ownerUp /\ setupPc = "send" /\ setupPc' = "wait" /\ next' = next
            /\ request'[a] = "inflight" /\ UNCHANGED <<storeVars, res>>
<1> USE DEF TypeOK, TaskTypeOK, apiVars, taskVars
<1>1. CASE SetupStep
  BY <1>1 DEF ApiTypeOK, SendPost, SetupGoes, SetupAt, SetupStep, SetupSkipped, SetupStart,
        ChecksPassed, ChecksFailed, InitializeSend, InitializeOk,
  InitializeRejected, InitializeLost, CreateBlocked, CreateIntent, IntentBegin, IntentSaved,
  IntentUnsaved,
  CreateSend, CreateUnsent, CreateOk, CreateRejected, CreateLost, OutcomeBegin, OutcomeSaved,
  SetupReturn,
  CreateReturns
<1>2. CASE CleanerStep BY <1>2, CleanerFrame
<1>3. ASSUME NEW r \in Reconcilers, ReconcileStep(r) PROVE request' = request
  BY <1>3, ReconcileFrame
<1>4. CASE Elsewhere
  BY <1>4, ApiFrame
     DEF Elsewhere, Cancel, StopCleanup, World, ApiStep, RecordCommit, RecordRefuse, OwnerCrash,
         TerminationShown, EvidenceLost, vars
<1> QED BY <1>1, <1>2, <1>3, <1>4, NextSplit

(* Only a create that was in flight can bring an own object about. *)
LEMMA ObjectMove ==
  ASSUME TypeOK, [Next]_vars, NEW a \in Attempts, object'[a].uid = a
  PROVE  object[a].uid = a \/ (request[a] = "inflight" /\ request'[a] = "committed")
<1> USE DEF TypeOK, TaskTypeOK, apiVars, taskVars
<1>1. CASE SetupStep BY <1>1, SetupFrame
<1>2. CASE CleanerStep BY <1>2, CleanerFrame, DeleteFrame
<1>3. ASSUME NEW r \in Reconcilers, ReconcileStep(r) PROVE object'[a].uid = object[a].uid
  BY <1>3, ReconcileFrame, DeleteFrame
<1>4. CASE Elsewhere
  BY <1>4, ApiFrame
     DEF Elsewhere, Cancel, StopCleanup, World, ApiStep, RecordCommit, RecordRefuse, OwnerCrash,
         TerminationShown, EvidenceLost, vars
<1> QED BY <1>1, <1>2, <1>3, <1>4, NextSplit
=============================================================================
