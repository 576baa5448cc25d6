----------------------- MODULE LifecycleCleanupProofs -----------------------
(***************************************************************************)
(* Two things that whoever cleans up may rely on: a task's namespace goes  *)
(* last, and the record takes every save and is empty in the end.          *)
(***************************************************************************)
EXTENDS LifecycleTheorems

-----------------------------------------------------------------------------
(* The namespace: the owner deletes it in a pass that saw everything else  *)
(* gone, a recovery loop from its copy of a record that others keep        *)
(* writing to.                                                             *)

LEMMA BarrenStable ==
  ASSUME IInv, [Next]_vars, Barren
  PROVE  Barren'
<1>1. (Gate \/ ~ownerUp)'
  BY GateStable, EndsStable DEF Barren
<1>2. ASSUME NEW b \in Attempts, Kind[b] # "namespaces", Live(b)' PROVE FALSE
  <2>1. ~Live(b) /\ (Gate \/ ~ownerUp)
    BY <1>2 DEF Barren
  <2>2. CASE OwnExists(b)'
    BY <2>1, <2>2, ObjectMove DEF Live, OwnExists, IInv
  <2>3. CASE request'[b] = "inflight"
    BY <2>1, <2>3, RequestMove DEF Live, IInv, Gate, InCreate
  <2> QED BY <1>2, <2>2, <2>3 DEF Live
<1> QED BY <1>1, <1>2 DEF Barren

(* cleanOnce comes to a namespace only in a pass that is complete so far,  *)
(* and after all Pods and Secrets.                                         *)
LEMMA CleanerKnows ==
  ASSUME IInv, NEW a \in Attempts, BeforeDelete(a), Kind[a] = "namespaces"
  PROVE  Barren
<1>1. /\ ownerUp /\ complete /\ a \in todo
      /\ \A b \in todo : Rank(a) < Rank(b) \/ Rank(a) = Rank(b)
  BY DEF BeforeDelete, Visits, CleanAt, First
<1>2. ASSUME NEW b \in todo PROVE Kind[b] = "namespaces"
  <2>1. b \in Attempts /\ Kind[b] \in {"pods", "secrets", "namespaces"}
    BY ConstantTypes DEF IInv, TypeOK, TaskTypeOK
  <2> QED BY <1>1, <2>1 DEF Rank
<1>3. Gate /\ \A b \in Attempts : res[b].listed => res[b].done \/ b \in todo
  BY <1>1 DEF IInv, CleanerCovers
<1>4. ASSUME NEW b \in Attempts, Kind[b] # "namespaces", Live(b) PROVE FALSE
  <2>1. res[b].listed
    BY <1>1, <1>4 DEF IInv, OwnerLists, OwnWasCreated, Live
  <2>2. res[b].done
    BY <1>2, <1>3, <1>4, <2>1
  <2> QED BY <1>4, <2>1, <2>2, DoneDead DEF IInv, CopiesAccurate, Truthful
<1> QED BY <1>3, <1>4 DEF Barren

(* reconcileRecord: all children it lists are done, and it lists all.      *)
LEMMA LoopKnows ==
  ASSUME IInv, NamespaceInv, NEW r \in Reconcilers, NEW a \in Attempts, EntryCondemned(r, a),
         Kind[a] = "namespaces"
  PROVE  Barren
<1>1. worker[r].pc = "each" /\ ChildrenDone(worker[r].rec)
  BY DEF EntryCondemned, VisitsEntry, At, Rec
<1>2. worker[r].rec \in Accurate /\ worker[r].rec.closed
  BY <1>1 DEF IInv, CopiesAccurate, Scans
<1>3. Gate \/ ~ownerUp
  BY <1>2 DEF Accurate, Gate, InCreate
<1>4. cm \in {"stored", "removed"} /\ (cm = "stored" => Covers(worker[r]))
  BY <1>1 DEF NamespaceInv
<1>5. ASSUME NEW b \in Attempts, Kind[b] # "namespaces", Live(b) PROVE FALSE
  <2>1. Recovery
    BY <1>4 DEF IInv, RecordKept, TypeOK, TaskTypeOK, RecoveryAssumption
  <2>2. cm = "stored" /\ record.res[b].listed
    BY <1>5, <2>1 DEF IInv, RecordLeads
  <2>3. worker[r].rec.res[b].listed /\ worker[r].rec.res[b].done
    BY <1>1, <1>4, <1>5, <2>2 DEF Covers, ChildrenDone
  <2> QED BY <1>2, <1>5, <2>3, DoneDead DEF Accurate, Truthful
<1> QED BY <1>3, <1>5 DEF Barren

-----------------------------------------------------------------------------
LEMMA CleanerTarget ==
  ASSUME IInv, NamespaceInv, [Next]_vars,
         cleanPc' \in {"note", "noteSave", "delete"}, NamespaceAimed(target')
  PROVE  Barren
<1>1. cleanPc' = cleanPc /\ target' = target => Barren
  BY DEF NamespaceInv, NamespaceAimed
<1>2. CASE SetupStep BY <1>1, <1>2, SetupFrame
<1>3. CASE CleanerStep
  <2>1. ASSUME NEW a \in Attempts, BeforeDelete(a) PROVE Barren
    <3>1. target'.attempt = a
      BY <2>1 DEF BeforeDelete, TargetOf
    <3> QED BY <2>1, <3>1, CleanerKnows DEF NamespaceAimed
  <2>2. CASE cleanPc \in {"note", "noteSave"} /\ target' = target
    BY <2>2 DEF NamespaceInv, NamespaceAimed
  <2> QED BY <1>1, <1>3, <2>1, <2>2
          DEF CleanerStep, HandoffBegin, HandoffSaved, Scan, SkipNamespace, ReadGone, ReadDying, ReadFailed,
              NoteBegin, NoteSaved, DeleteProves, DeleteSent, DeleteLost, Deleted, PassUnsaved, PassEnds,
              FlushBegin, FlushSaved, FinishBegin, FinishSaved, FinishUnsaved, FinishRemoved,
              FinishNotRemoved, CleanGoes, CleanAt
<1>4. ASSUME NEW r \in Reconcilers, ReconcileStep(r) PROVE Barren
  BY <1>1, <1>4, ReconcileFrame DEF IInv, ownerVars, cleanVars
<1>5. CASE Elsewhere
  BY <1>1, <1>5 DEF Elsewhere, Cancel, StopCleanup, World, ApiStep, RecordCommit, RecordRefuse, OwnerCrash,
     TerminationShown, EvidenceLost, vars, taskVars, ownerVars, cleanVars, CleanGoes, PassEnds
<1> QED BY <1>2, <1>3, <1>4, <1>5, NextSplit

(* What a step of loop r makes of its own variables. *)
LEMMA LoopTarget ==
  ASSUME IInv, NamespaceInv, NEW r \in Reconcilers, ReconcileStep(r),
         worker'[r].pc \in {"note", "delete"}, NamespaceAimed(worker'[r].target)
  PROVE  Barren
<1>0. worker \in [Reconcilers -> Workers]
  BY DEF IInv, TypeOK
<1>1. ASSUME NEW a \in Attempts, EntryCondemned(r, a) PROVE Barren
  <2>1. worker'[r].target.attempt = a
    BY <1>0, <1>1 DEF EntryCondemned, TargetOf
  <2> QED BY <1>1, <2>1, LoopKnows DEF NamespaceAimed
<1>2. CASE NoteStored(r)
  <2>1. worker[r].pc = "note" /\ worker'[r].target = worker[r].target
    BY <1>0, <1>2 DEF NoteStored, Goes, At
  <2> QED BY <2>1 DEF NamespaceInv
<1> QED BY <1>0, <1>1, <1>2
        DEF ReconcileStep, List, JudgeClosed, JudgeTerminated, TakeOver, GiveUp, SkipEntry, EntryGone,
            EntryDying, EntryFailed, NoteFailed, DeleteEntry, FinalSaved, RemoveRecord, Goes, EntryReturns,
            EntryLeaves, IdleWorker

LEMMA SavedCovers ==
  ASSUME IInv, NEW rec \in Accurate, NEW a \in Attempts
  PROVE  /\ record.res[a].listed \/ rec.res[a].listed => Saved(rec).res[a].listed
         /\ rec.closed => Saved(rec).closed
BY MergeListed DEF Saved, MergeRecord, IInv, CopiesAccurate, Accurate, Truthful

LEMMA LoopCovers ==
  ASSUME IInv, NamespaceInv, NEW r \in Reconcilers, ReconcileStep(r),
         worker'[r].pc \in {"each", "note", "delete"}, cm' = "stored"
  PROVE  Covers(worker[r])'
<1>0. /\ worker \in [Reconcilers -> Workers] /\ worker[r].rec \in Accurate
      /\ worker[r].pc \notin {"idle", "judge"} => worker[r].rec.closed
      /\ record.res \in [Attempts -> Facts] /\ worker[r].rec.res \in [Attempts -> Facts]
  BY DEF IInv, TypeOK, TaskTypeOK, Records, Resources, CopiesAccurate, Scans, Accurate
<1>1. ASSUME NEW a \in Attempts, NEW f, f.listed \/ f = worker[r].rec.res[a], NEW pc, NEW todos, NEW t,
             worker[r].pc \in {"each", "note", "delete"}, UNCHANGED storeVars,
             worker'[r] = [pc |-> pc, rec |-> WithFacts(worker[r].rec, a, f), todo |-> todos, target |-> t]
      PROVE  Covers(worker[r])'
  <2>1. Covers(worker[r]) /\ record' = record
    BY <1>1 DEF NamespaceInv, storeVars
  <2>2. worker'[r].rec.res = [worker[r].rec.res EXCEPT ![a] = f]
    BY <1>0, <1>1 DEF WithFacts, Accurate, Records
  <2> QED BY <1>0, <1>1, <2>1, <2>2 DEF Covers
<1>2. ASSUME record' = Saved(worker[r].rec), worker'[r].rec = Saved(worker[r].rec), worker[r].pc \in {"save", "note"}
      PROVE  Covers(worker[r])'
  BY <1>0, <1>2, SavedCovers, ConstantTypes DEF Covers
<1>3. CASE TakeOver(r)
  <2>1. record' = Saved(worker[r].rec) /\ worker'[r].rec = Saved(worker[r].rec) /\ worker[r].pc = "save"
    BY <1>0, <1>3 DEF TakeOver, SaveBy, Rec, At
  <2> QED BY <1>2, <2>1
<1>4. CASE NoteStored(r)
  <2>1. record' = Saved(worker[r].rec) /\ worker'[r].rec = Saved(worker[r].rec) /\ worker[r].pc = "note"
    BY <1>0, <1>4 DEF NoteStored, SaveBy, Rec, At, Goes
  <2> QED BY <1>2, <2>1
<1>5. CASE NoteFailed(r)
  <2> DEFINE a == worker[r].target.attempt
             saved == Saved(worker[r].rec)
  <2>0. worker[r].pc = "note" /\ a \in Attempts
    BY <1>0, <1>5 DEF NoteFailed, At, IInv, CopiesAccurate, Scans, Aimed
  <2>1. CASE UNCHANGED storeVars /\ EntryReturns(r, a, worker[r].rec.res[a])
    <3>1. worker'[r] = [pc |-> "each", rec |-> WithFacts(worker[r].rec, a, worker[r].rec.res[a]),
                        todo |-> worker[r].todo \ {a}, target |-> NoTarget]
      BY <1>0, <2>1 DEF EntryReturns, EntryLeaves, Rec
    <3> QED BY <1>1, <2>0, <2>1, <3>1
  <2>2. CASE /\ SaveBy(r, worker[r].rec) \/ UNCHANGED storeVars
             /\ EntryLeaves(r, saved, a, MarkPending(saved.res[a]))
    <3>1. worker'[r].rec = WithFacts(saved, a, MarkPending(saved.res[a]))
      BY <1>0, <2>2 DEF EntryLeaves
    <3>2. /\ saved.closed /\ saved.res \in [Attempts -> Facts]
          /\ \A b \in Attempts : record.res[b].listed => saved.res[b].listed
      BY <1>0, <2>0, SavedCovers, SavedAccurate DEF Accurate, Records, Resources
    <3>3. saved \in Records
      BY <1>0, SavedAccurate
    <3>4. worker'[r].rec.res = [saved.res EXCEPT ![a] = MarkPending(saved.res[a])]
      BY <3>1, <3>3 DEF WithFacts, Records
    <3>5. \A b \in Attempts : saved.res[b].listed => worker'[r].rec.res[b].listed
      BY <2>0, <3>2, <3>4 DEF MarkPending, Entry
    <3>6. record' = saved \/ (record' = record /\ cm = "stored")
      BY <2>2 DEF SaveBy, storeVars
    <3>7. record' = record /\ cm = "stored" => record.closed
      BY <2>0 DEF NamespaceInv, Covers
    <3> QED BY <3>2, <3>5, <3>6, <3>7 DEF Covers
  <2> QED BY <1>5, <2>1, <2>2 DEF NoteFailed, Rec
<1>6. ASSUME NEW a \in Attempts, SkipEntry(r, a) \/ EntryGone(r, a) \/ EntryDying(r, a) \/ EntryFailed(r, a)
      PROVE  Covers(worker[r])'
  <2>1. worker[r].pc = "each" /\ UNCHANGED storeVars
    BY <1>6 DEF SkipEntry, EntryGone, EntryDying, EntryFailed, VisitsEntry, At, taskVars
  <2>2. PICK f : EntryReturns(r, a, f) /\ (f.listed \/ f = worker[r].rec.res[a])
    BY <1>6 DEF SkipEntry, EntryGone, EntryDying, EntryFailed, Rec, MarkDone, Learn, Entry
  <2>3. worker'[r] = [pc |-> "each", rec |-> WithFacts(worker[r].rec, a, f),
                      todo |-> worker[r].todo \ {a}, target |-> NoTarget]
    BY <1>0, <2>2 DEF EntryReturns, EntryLeaves, Rec
  <2> QED BY <1>1, <2>1, <2>2, <2>3
<1>7. ASSUME NEW a \in Attempts, EntryCondemned(r, a) PROVE Covers(worker[r])'
  <2> DEFINE f == worker[r].rec.res[a]
             g == Condemn(f, DeleteUID(a, f))
  <2>1. worker[r].pc = "each" /\ UNCHANGED storeVars /\ g.listed
    BY <1>7 DEF EntryCondemned, VisitsEntry, At, taskVars, Condemn, Entry
  <2>2. worker'[r] = [pc |-> "note", rec |-> WithFacts(worker[r].rec, a, g),
                      todo |-> worker[r].todo, target |-> TargetOf(a, f)]
    BY <1>0, <1>7 DEF EntryCondemned, Rec
  <2> HIDE DEF g
  <2> QED BY <1>1, <2>1, <2>2
<1>8. CASE DeleteEntry(r)
  <2> DEFINE a == worker[r].target.attempt
  <2>1. worker[r].pc = "delete" /\ a \in Attempts /\ UNCHANGED storeVars
    BY <1>0, <1>8 DEF DeleteEntry, At, IInv, CopiesAccurate, Scans, Aimed
  <2>2. PICK f : EntryReturns(r, a, f) /\ f.listed
    BY <1>8 DEF DeleteEntry, Rec, MarkDone, MarkPending, Entry
  <2>3. worker'[r] = [pc |-> "each", rec |-> WithFacts(worker[r].rec, a, f),
                      todo |-> worker[r].todo \ {a}, target |-> NoTarget]
    BY <1>0, <2>2 DEF EntryReturns, EntryLeaves, Rec
  <2> HIDE DEF a
  <2> QED BY <1>1, <2>1, <2>2, <2>3
<1> QED BY <1>0, <1>3, <1>4, <1>5, <1>6, <1>7, <1>8
        DEF ReconcileStep, List, JudgeClosed, JudgeTerminated, GiveUp, FinalSaved, RemoveRecord, Goes, IdleWorker

-----------------------------------------------------------------------------
LEMMA NamespaceKept ==
  ASSUME IInv, NamespaceInv, [Next]_vars
  PROVE  NamespaceInv'
<1>0. worker \in [Reconcilers -> Workers] /\ TypeOK'
  BY TypeKept DEF IInv, TypeOK
<1>1. ASSUME NEW a \in deletesSent', Kind[a] = "namespaces" PROVE Barren'
  <2>1. a \in Attempts
    BY <1>0 DEF TypeOK, TaskTypeOK, ApiTypeOK
  <2>2. \/ a \in deletesSent
        \/ cleanPc = "delete" /\ a = target.attempt
        \/ \E r \in Reconcilers : worker[r].pc = "delete" /\ a = worker[r].target.attempt
    <3>1. CASE SetupStep BY <3>1, SetupFrame
    <3>2. CASE CleanerStep BY <3>2, CleanerFrame DEF Delete, LostDelete
    <3>3. ASSUME NEW r \in Reconcilers, ReconcileStep(r)
          PROVE  a \in deletesSent \/ (worker[r].pc = "delete" /\ a = worker[r].target.attempt)
      BY <3>3, ReconcileFrame DEF IInv, Delete, LostDelete
    <3>4. CASE Elsewhere
      BY <3>4, ApiFrame DEF Elsewhere, Cancel, StopCleanup, World, ApiStep, RecordCommit, RecordRefuse,
         OwnerCrash, TerminationShown, EvidenceLost, vars, taskVars, apiVars, IInv, TypeOK, TaskTypeOK
    <3> QED BY <3>1, <3>2, <3>3, <3>4, NextSplit
  <2>3. Barren
    BY <1>1, <2>1, <2>2 DEF NamespaceInv, NamespaceAimed
  <2> QED BY <2>3, BarrenStable
<1>2. cleanPc' \in {"note", "noteSave", "delete"} /\ NamespaceAimed(target') => Barren'
  BY CleanerTarget, BarrenStable
<1>3. cm \in {"stored", "removed"} => cm' \in {"stored", "removed"} /\ (cm' = "stored" => cm = "stored")
  BY StoreCases DEF storeVars, SaveBy, RemoveBy
<1>4. ASSUME NEW r \in Reconcilers
      PROVE  /\ worker'[r].pc \in {"note", "delete"} /\ NamespaceAimed(worker'[r].target) => Barren'
             /\ worker'[r].pc # "idle" => cm' \in {"stored", "removed"}
             /\ worker'[r].pc \in {"each", "note", "delete"} /\ cm' = "stored" => Covers(worker[r])'
  <2>1. CASE ReconcileStep(r)
    <3>1. worker[r].pc = "idle" /\ worker'[r].pc # "idle" => cm = "stored"
      BY <2>1 DEF ReconcileStep, List, JudgeClosed, JudgeTerminated, TakeOver, GiveUp, SkipEntry,
         EntryGone, EntryDying, EntryFailed, EntryCondemned, NoteStored, NoteFailed, DeleteEntry,
         FinalSaved, RemoveRecord, VisitsEntry, At
    <3> QED BY <1>3, <2>1, <3>1, LoopTarget, LoopCovers, BarrenStable DEF NamespaceInv
  <2>2. CASE worker'[r] = worker[r]
    <3>1. ASSUME worker[r].pc \in {"each", "note", "delete"}, cm' = "stored" PROVE Covers(worker[r])'
      <4>1. cm = "stored" /\ Covers(worker[r])
        BY <1>3, <3>1 DEF NamespaceInv
      <4>2. RecordGrows(record, record')
        BY <3>1, <4>1, StoreGrows
      <4> QED BY <2>2, <4>1, <4>2 DEF Covers, RecordGrows
    <3> QED BY <1>3, <2>2, <3>1, BarrenStable DEF NamespaceInv, NamespaceAimed
  <2>3. ReconcileStep(r) \/ worker'[r] = worker[r]
    <3>1. ASSUME NEW q \in Reconcilers, ReconcileStep(q) PROVE ReconcileStep(r) \/ worker'[r] = worker[r]
      BY <3>1, ReconcileFrame DEF IInv
    <3>2. CASE Elsewhere
      BY <3>2 DEF Elsewhere, OwnerCrash, TerminationShown, EvidenceLost, vars, recoveryVars
    <3> QED BY <3>1, <3>2, NextSplit DEF recoveryVars
  <2> QED BY <2>1, <2>2, <2>3
<1> QED BY <1>1, <1>2, <1>4 DEF NamespaceInv

(* When a namespace is deleted, nothing of the task is in it any more and  *)
(* nothing can follow, for every mix of kinds and any number of loops.     *)
THEOREM NamespaceGoesLast == Spec => []NamespaceLast
<1>1. Init => NamespaceInv
  BY DEF Init, TaskInit, ApiInit, CleanerOff, NamespaceInv, IdleWorker
<1>2. IInv /\ NamespaceInv /\ [Next]_vars => NamespaceInv'
  BY NamespaceKept
<1>3. IInv /\ NamespaceInv => NamespaceLast
  BY DEF NamespaceInv, NamespaceLast, Barren
<1> QED BY <1>1, <1>2, <1>3, Invariance, PTL DEF Spec

-----------------------------------------------------------------------------
(* The record as its writers meet it: no save of the owner or of a         *)
(* recovery loop is ever refused by mergeRecord, and a record that is      *)
(* still there when the cleaner is done lists nothing.                     *)

(* Who writes what *)

(* A save merges what the owner, or the loop that saves, has copied. *)
LEMMA StoreWriters ==
  ASSUME IInv, [Next]_vars
  PROVE  \/ UNCHANGED storeVars
         \/ ownerUp /\ SaveBy(Owner, snap)
         \/ \E r \in Reconcilers : worker[r].pc # "idle" /\ SaveBy(r, worker[r].rec)
         \/ cm' # "stored"
         \/ cm # "stored" /\ record' = record
<1>1. CASE SetupStep
  BY <1>1 DEF SyncAnswered, SaveAnswered, SetupAt, SetupStep, SetupSkipped, SetupStart, ChecksPassed,
     ChecksFailed, InitializeSend, InitializeOk, InitializeRejected, InitializeLost, CreateBlocked,
     CreateIntent, IntentBegin, IntentSaved, IntentUnsaved, CreateSend, CreateUnsent, CreateOk,
     CreateRejected, CreateLost, OutcomeBegin, OutcomeSaved, SetupReturn, CreateReturns
<1>2. CASE CleanerStep
  BY <1>2 DEF SyncAnswered, SaveAnswered, RemoveBy, Deleted, CleanAt, CleanerStep, HandoffBegin,
     HandoffSaved, Scan, SkipNamespace, ReadGone, ReadDying, ReadFailed, BeforeDelete, NoteBegin,
     NoteSaved, DeleteProves, DeleteSent, DeleteLost, PassUnsaved, FlushBegin, FlushSaved, FinishBegin,
     FinishSaved, FinishUnsaved, FinishRemoved, FinishNotRemoved, Visits
<1>3. ASSUME NEW r \in Reconcilers, ReconcileStep(r)
      PROVE  UNCHANGED storeVars \/ (worker[r].pc # "idle" /\ SaveBy(r, worker[r].rec)) \/ cm' # "stored"
  BY <1>3 DEF Rec, At, Saving, RemoveBy, taskVars, ReconcileStep, List, JudgeClosed, JudgeTerminated,
     TakeOver, GiveUp, SkipEntry, EntryGone, EntryDying, EntryFailed, EntryCondemned, NoteStored,
     NoteFailed, DeleteEntry, FinalSaved, RemoveRecord
<1>4. CASE Elsewhere
  BY <1>4 DEF storeVars, taskVars, Elsewhere, Cancel, StopCleanup, World, ApiStep, RecordCommit,
     RecordRefuse, OwnerCrash, TerminationShown, EvidenceLost, vars
<1> QED BY <1>1, <1>2, <1>3, <1>4, NextSplit

(* What persistMu's holder saves: a fresh snapshot, or what it just stored. *)
LEMMA SnapCases ==
  ASSUME IInv, [Next]_vars
  PROVE  \/ snap' = snap
         \/ snap' = Snapshot /\ res' = res
         \/ snap' = EmptyRecord
         \/ snap' = Saved(snap) /\ SaveBy(Owner, snap) /\ res' = res
<1>1. CASE SetupStep
  BY <1>1 DEF SyncAnswered, ReleaseSave, TakeSave, saveVars, SetupStep, SetupSkipped, SetupStart,
     ChecksPassed, ChecksFailed, InitializeSend, InitializeOk, InitializeRejected, InitializeLost,
     CreateBlocked, CreateIntent, IntentBegin, IntentSaved, IntentUnsaved, CreateSend, CreateUnsent,
     CreateOk, CreateRejected, CreateLost, OutcomeBegin, OutcomeSaved, SetupReturn, CreateReturns
<1>2. CASE CleanerStep
  BY <1>2 DEF SyncAnswered, ReleaseSave, TakeSave, saveVars, Deleted, CleanerStep, HandoffBegin,
     HandoffSaved, Scan, SkipNamespace, ReadGone, ReadDying, ReadFailed, BeforeDelete, NoteBegin,
     NoteSaved, DeleteProves, DeleteSent, DeleteLost, PassUnsaved, FlushBegin, FlushSaved, FinishBegin,
     FinishSaved, FinishUnsaved, FinishRemoved, FinishNotRemoved
<1>3. ASSUME NEW r \in Reconcilers, ReconcileStep(r) PROVE snap' = snap
  BY <1>3, ReconcileFrame DEF IInv, ownerVars, saveVars
<1>4. CASE Elsewhere
  BY <1>4 DEF saveVars, ownerVars, taskVars, Elsewhere, Cancel, StopCleanup, World, ApiStep, RecordCommit,
     RecordRefuse, OwnerCrash, TerminationShown, EvidenceLost, vars
<1> QED BY <1>1, <1>2, <1>3, <1>4, NextSplit

(* A loop goes on with a fresh record, with its own, or with the merged one. *)
LEMMA LoopMoves ==
  ASSUME IInv, NEW r \in Reconcilers, ReconcileStep(r), worker'[r].pc # "idle"
  PROVE  \/ cm = "stored" /\ worker'[r].rec = record /\ UNCHANGED storeVars
         \/ /\ worker[r].pc # "idle" /\ UNCHANGED storeVars
            /\ Within(worker'[r].rec.res, worker[r].rec.res)
            /\ worker'[r].rec.closed => worker[r].rec.closed \/ ~ownerUp
         \/ /\ worker[r].pc # "idle" /\ cm = "stored"
            /\ UNCHANGED storeVars \/ SaveBy(r, worker[r].rec)
            /\ Within(worker'[r].rec.res, Saved(worker[r].rec).res)
            /\ worker'[r].rec.closed => Saved(worker[r].rec).closed
<1> DEFINE w == worker[r]
<1>0. /\ worker \in [Reconcilers -> Workers] /\ w \in Scans /\ w.rec \in Accurate
      /\ w.rec \in Records /\ w.rec.res \in [Attempts -> Facts]
      /\ Saved(w.rec) \in Records /\ Saved(w.rec).res \in [Attempts -> Facts]
  BY SavedAccurate DEF IInv, TypeOK, CopiesAccurate, Scans, Accurate, Records, Resources
<1>1. ASSUME NEW rec \in Records, rec.res \in [Attempts -> Facts], NEW a \in Attempts, NEW f,
             rec.res[a].listed
      PROVE  Within(WithFacts(rec, a, f).res, rec.res) /\ WithFacts(rec, a, f).closed = rec.closed
  BY <1>1 DEF Within, WithFacts, Records
<1>2. ASSUME NEW a \in Attempts, NEW f, w.rec.res[a].listed, EntryReturns(r, a, f), w.pc # "idle",
             UNCHANGED storeVars
      PROVE  /\ w.pc # "idle" /\ UNCHANGED storeVars /\ Within(worker'[r].rec.res, w.rec.res)
             /\ worker'[r].rec.closed => w.rec.closed
  <2>1. worker'[r].rec = WithFacts(w.rec, a, f)
    BY <1>0, <1>2 DEF EntryReturns, EntryLeaves, Rec
  <2> QED BY <1>0, <1>1, <1>2, <2>1
<1>3. CASE List(r) \/ JudgeClosed(r) \/ JudgeTerminated(r)
  BY <1>0, <1>3 DEF List, JudgeClosed, JudgeTerminated, Goes, At, Rec, taskVars, Within,
     ExecutorTerminated, IInv, OwnerEnds
<1>4. CASE TakeOver(r) \/ NoteStored(r) \/ FinalSaved(r)
  <2>1. SaveBy(r, w.rec) /\ cm = "stored" /\ w.pc # "idle"
    BY <1>4 DEF TakeOver, NoteStored, FinalSaved, SaveBy, CanSave, At, Rec
  <2>2. worker'[r].rec = Saved(w.rec)
    BY <1>0, <1>4 DEF TakeOver, NoteStored, FinalSaved, Goes, Rec, IdleWorker
  <2> QED BY <2>1, <2>2 DEF Within
<1>5. CASE GiveUp(r) \/ RemoveRecord(r)
  BY <1>0, <1>5 DEF GiveUp, RemoveRecord, IdleWorker
<1>6. ASSUME w.pc \in {"note", "delete"} PROVE w.target.attempt \in Attempts /\ w.rec.res[w.target.attempt].listed
  BY <1>0, <1>6 DEF Scans, Aimed
<1>7. CASE NoteFailed(r)
  <2> DEFINE a == w.target.attempt
             saved == Saved(w.rec)
  <2>0. w.pc = "note" /\ a \in Attempts /\ w.rec.res[a].listed
    BY <1>6, <1>7 DEF NoteFailed, At
  <2>1. CASE UNCHANGED storeVars /\ EntryReturns(r, a, w.rec.res[a])
    BY <1>2, <2>0, <2>1
  <2>2. CASE /\ CanSave(w.rec) /\ (SaveBy(r, w.rec) \/ UNCHANGED storeVars)
             /\ EntryLeaves(r, saved, a, MarkPending(saved.res[a]))
    <3>1. worker'[r].rec = WithFacts(saved, a, MarkPending(saved.res[a]))
      BY <1>0, <2>2 DEF EntryLeaves
    <3>2. saved.res[a].listed
      BY <1>0, <2>0, SavedCovers
    <3>3. cm = "stored"
      BY <2>2 DEF CanSave
    <3> QED BY <1>0, <1>1, <2>0, <2>2, <3>1, <3>2, <3>3
  <2> QED BY <1>7, <2>1, <2>2 DEF NoteFailed, Rec
<1>8. CASE DeleteEntry(r)
  <2>1. w.pc = "delete" /\ UNCHANGED storeVars
    BY <1>8 DEF DeleteEntry, At
  <2>2. \E f : EntryReturns(r, w.target.attempt, f)
    BY <1>8 DEF DeleteEntry
  <2> QED BY <1>2, <1>6, <2>1, <2>2
<1>9. \A a \in w.todo : a \in Attempts /\ w.rec.res[a].listed
  BY <1>0 DEF Scans, Workers
<1>10. ASSUME NEW a \in Attempts, SkipEntry(r, a) \/ EntryGone(r, a) \/ EntryDying(r, a) \/ EntryFailed(r, a)
       PROVE  /\ w.pc # "idle" /\ UNCHANGED storeVars /\ Within(worker'[r].rec.res, w.rec.res)
              /\ worker'[r].rec.closed => w.rec.closed
  <2>1. w.pc = "each" /\ a \in w.todo /\ UNCHANGED storeVars
    BY <1>10 DEF SkipEntry, EntryGone, EntryDying, EntryFailed, VisitsEntry, At, First, taskVars
  <2>2. \E f : EntryReturns(r, a, f)
    BY <1>10 DEF SkipEntry, EntryGone, EntryDying, EntryFailed
  <2> QED BY <1>2, <1>9, <2>1, <2>2
<1>11. ASSUME NEW a \in Attempts, EntryCondemned(r, a)
       PROVE  /\ w.pc # "idle" /\ UNCHANGED storeVars /\ Within(worker'[r].rec.res, w.rec.res)
              /\ worker'[r].rec.closed => w.rec.closed
  <2>1. w.pc = "each" /\ a \in w.todo /\ UNCHANGED storeVars
    BY <1>11 DEF EntryCondemned, VisitsEntry, At, First, taskVars
  <2>2. \E f : worker'[r].rec = WithFacts(w.rec, a, f)
    BY <1>0, <1>11 DEF EntryCondemned, Rec
  <2> QED BY <1>0, <1>1, <1>9, <2>1, <2>2
<1> QED BY <1>3, <1>4, <1>5, <1>7, <1>8, <1>10, <1>11 DEF ReconcileStep

-----------------------------------------------------------------------------
(* MergeInv is kept *)

LEMMA ClosedForGood ==
  ASSUME IInv, NEW rec \in Accurate, rec.closed, ownerUp
  PROVE  closed
BY DEF Accurate

LEMMA OwnerWithinRecord ==
  ASSUME IInv, MergeInv, [Next]_vars, ownerUp', cm' = "stored", record'.closed
  PROVE  Within(res', record'.res)
<1>0. /\ ownerUp /\ record \in Accurate /\ snap \in Accurate
      /\ \A r \in Reconcilers : worker[r].rec \in Accurate
  BY EndsStable DEF IInv, CopiesAccurate, Scans
<1>1. cm = "stored"
  <2>1. ~EmptyRecord.closed
    BY DEF EmptyRecord
  <2> QED BY <2>1, StoreNext DEF StoreGoesOn, IInv, RecordKept
<1>2. RecordGrows(record, record')
  BY <1>1, StoreGrows
<1>3. ASSUME record.closed PROVE closed /\ Within(res, record'.res)
  BY <1>0, <1>1, <1>2, <1>3, ClosedForGood DEF MergeInv, Within, RecordGrows, KnowsMore
<1>4. ASSUME ~record.closed PROVE closed /\ Within(res, record'.res)
  <2>1. CASE SaveBy(Owner, snap)
    <3>1. snap.closed /\ record' = Saved(snap)
      BY <1>4, <2>1 DEF SaveBy, Saved, MergeRecord
    <3> QED BY <1>0, <3>1, ClosedForGood, SavedCovers DEF MergeInv, Within
  <2>2. ASSUME NEW r \in Reconcilers, worker[r].pc # "idle", SaveBy(r, worker[r].rec) PROVE FALSE
    <3>1. worker[r].rec.closed
      BY <1>4, <2>2 DEF SaveBy, Saved, MergeRecord
    <3> QED BY <1>0, <1>1, <1>4, <2>2, <3>1 DEF MergeInv
  <2> QED BY <1>1, <1>4, <2>1, <2>2, StoreWriters DEF storeVars
<1>5. Within(res', res)
  BY <1>3, <1>4, ResCompletesClosed DEF ResCompletes, Completes, Within
<1> QED BY <1>3, <1>4, <1>5 DEF Within

LEMMA OwnerWithinSnapshot ==
  ASSUME IInv, MergeInv, [Next]_vars, ownerUp', snap'.closed
  PROVE  Within(res', snap'.res)
<1>0. ownerUp /\ record \in Accurate /\ snap \in Accurate
  BY EndsStable DEF IInv, CopiesAccurate
<1>1. ASSUME closed PROVE Within(res', res)
  BY <1>1, ResCompletesClosed DEF ResCompletes, Completes, Within
<1>2. CASE snap' = snap
  BY <1>0, <1>1, <1>2, ClosedForGood DEF MergeInv, Within
<1>3. CASE snap' = Snapshot /\ res' = res
  BY <1>3 DEF Snapshot, Within
<1>4. CASE snap' = EmptyRecord
  BY <1>4 DEF EmptyRecord
<1>5. CASE snap' = Saved(snap) /\ SaveBy(Owner, snap) /\ res' = res
  <2>1. cm = "stored" /\ (record.closed \/ snap.closed)
    BY <1>5 DEF SaveBy, CanSave, Saved, MergeRecord
  <2> QED BY <1>0, <1>5, <2>1, SavedCovers DEF MergeInv, Within
<1> QED BY <1>2, <1>3, <1>4, <1>5, SnapCases

LEMMA LoopWithinRecord ==
  ASSUME IInv, NamespaceInv, MergeInv, [Next]_vars, NEW r \in Reconcilers, worker'[r].pc # "idle", cm' = "stored"
  PROVE  /\ Within(worker'[r].rec.res, record'.res)
         /\ ownerUp' /\ worker'[r].rec.closed => record'.closed
<1> DEFINE rec == worker[r].rec
<1>0. rec \in Accurate /\ (ownerUp' => ownerUp)
  BY EndsStable DEF IInv, CopiesAccurate, Scans
<1>1. ASSUME worker[r].pc # "idle" PROVE cm = "stored" /\ RecordGrows(record, record')
  <2>1. cm = "stored"
    BY <1>1, StoreCases DEF NamespaceInv, storeVars, SaveBy, RemoveBy
  <2> QED BY <2>1, StoreGrows
<1>2. ASSUME worker[r].pc # "idle"
      PROVE  /\ Within(rec.res, record.res) /\ Within(record.res, record'.res)
             /\ ownerUp /\ rec.closed => record.closed
             /\ record.closed => record'.closed
  BY <1>1, <1>2 DEF MergeInv, RecordGrows, KnowsMore, Within
<1>3. CASE worker'[r] = worker[r]
  BY <1>0, <1>2, <1>3 DEF Within
<1>4. CASE ReconcileStep(r)
  <2>1. CASE cm = "stored" /\ worker'[r].rec = record /\ UNCHANGED storeVars
    BY <2>1 DEF storeVars, Within
  <2>2. CASE /\ worker[r].pc # "idle" /\ UNCHANGED storeVars /\ Within(worker'[r].rec.res, rec.res)
             /\ worker'[r].rec.closed => rec.closed \/ ~ownerUp
    BY <1>0, <1>2, <2>2 DEF Within
  <2>3. CASE /\ worker[r].pc # "idle"
             /\ UNCHANGED storeVars \/ SaveBy(r, rec)
             /\ Within(worker'[r].rec.res, Saved(rec).res)
             /\ worker'[r].rec.closed => Saved(rec).closed
    <3>0. Within(rec.res, record.res)
      BY <1>2, <2>3
    <3>1. Within(Saved(rec).res, record.res)
      <4>1. ASSUME NEW a \in Attempts, Saved(rec).res[a].listed PROVE record.res[a].listed \/ rec.res[a].listed
        BY <1>0, <4>1, MergeListed DEF Saved, MergeRecord, IInv, CopiesAccurate, Accurate, Truthful
      <4> HIDE DEF rec
      <4> QED BY <3>0, <4>1 DEF Within
    <3>2. Saved(rec).closed => record.closed \/ rec.closed
      BY DEF Saved, MergeRecord
    <3> HIDE DEF rec
    <3>3. \/ record' = record
          \/ record' = Saved(rec)
      BY <2>3 DEF storeVars, SaveBy
    <3>4. /\ ownerUp /\ rec.closed => record.closed
          /\ record.closed => record'.closed
          /\ Within(record.res, record'.res)
      BY <1>2, <2>3
    <3>5. Within(worker'[r].rec.res, Saved(rec).res) /\ (worker'[r].rec.closed => Saved(rec).closed)
      BY <2>3
    <3> QED BY <1>0, <3>1, <3>2, <3>3, <3>4, <3>5 DEF Within
  <2> QED BY <1>4, <2>1, <2>2, <2>3, LoopMoves
<1>5. ReconcileStep(r) \/ worker'[r] = worker[r]
  <2>1. ASSUME NEW q \in Reconcilers, ReconcileStep(q) PROVE ReconcileStep(r) \/ worker'[r] = worker[r]
    BY <2>1, ReconcileFrame DEF IInv
  <2>2. CASE Elsewhere
    BY <2>2 DEF Elsewhere, OwnerCrash, TerminationShown, EvidenceLost, vars, recoveryVars
  <2> QED BY <2>1, <2>2, NextSplit DEF recoveryVars
<1> QED BY <1>3, <1>4, <1>5

LEMMA DeadHoldsNoMutex ==
  ASSUME MergeInv, TypeOK, [Next]_vars, ~ownerUp'
  PROVE  persist' = "free"
<1>1. ASSUME NEW r \in Reconcilers, ReconcileStep(r) PROVE ownerUp' = ownerUp /\ persist' = persist
  BY <1>1, ReconcileFrame DEF ownerVars, saveVars
<1>2. CASE Elsewhere
  BY <1>2 DEF MergeInv, Elsewhere, Cancel, StopCleanup, World, ApiStep, RecordCommit, RecordRefuse, OwnerCrash,
     TerminationShown, EvidenceLost, vars, taskVars, ownerVars, saveVars
<1> QED BY <1>1, <1>2, SetupFrame, CleanerFrame, NextSplit DEF MergeInv

LEMMA MergeKept ==
  ASSUME IInv, NamespaceInv, MergeInv, [Next]_vars
  PROVE  MergeInv'
BY OwnerWithinRecord, OwnerWithinSnapshot, LoopWithinRecord, DeadHoldsNoMutex DEF MergeInv, IInv, Within

(* What everything that is saved rests on: true facts, and no attempt the  *)
(* closed record lacks.                                                    *)
LEMMA Merges ==
  ASSUME IInv, NEW rec \in Accurate, record.closed => Within(rec.res, record.res)
  PROVE  Mergeable(record, rec)
<1>1. \A a \in Attempts : record.res[a] \in Truths(a) /\ rec.res[a] \in Truths(a)
  BY DEF IInv, CopiesAccurate, Accurate, Truthful
<1> QED BY <1>1 DEF Mergeable, Truths, Within

(* The owner and the recovery loops, whatever they have missed of each     *)
(* other's work, never meet a refusal of mergeRecord.                      *)
THEOREM NoMergeIsRefused == Spec => []NoRefusedMerge
<1>1. Init => NamespaceInv /\ MergeInv
  <2>1. Init => NamespaceInv
    BY DEF Init, TaskInit, ApiInit, CleanerOff, NamespaceInv, IdleWorker
  <2>2. Init => MergeInv
    <3>1. ~EmptyRecord.closed
      BY DEF EmptyRecord
    <3> QED BY <3>1 DEF Init, TaskInit, MergeInv, IdleWorker
  <2> QED BY <2>1, <2>2
<1>2. IInv /\ NamespaceInv /\ MergeInv /\ [Next]_vars => (NamespaceInv /\ MergeInv)'
  BY NamespaceKept, MergeKept
<1>3. ASSUME IInv, MergeInv PROVE NoRefusedMerge
  <2>1. ASSUME cm = "stored", persist # "free" PROVE Mergeable(record, snap)
    <3>1. ownerUp /\ snap \in Accurate
      BY <1>3, <2>1 DEF MergeInv, IInv, CopiesAccurate
    <3>2. record.closed => Within(snap.res, record.res)
      BY <1>3, <2>1, <3>1 DEF MergeInv, Accurate, Within
    <3> QED BY <1>3, <3>1, <3>2, Merges
  <2>2. ASSUME cm = "stored", NEW r \in Reconcilers, Saving(r) PROVE Mergeable(record, worker[r].rec)
    <3>1. worker[r].pc # "idle" /\ worker[r].rec \in Accurate
      BY <1>3, <2>2 DEF Saving, At, IInv, CopiesAccurate, Scans
    <3> QED BY <1>3, <2>2, <3>1, Merges DEF MergeInv
  <2> QED BY <2>1, <2>2 DEF NoRefusedMerge
<1> QED BY <1>1, <1>2, <1>3, Invariance, PTL DEF Spec

-----------------------------------------------------------------------------
(* LeftoverInv is kept *)

LEMMA NotRequired ==
  ASSUME IInv, [Next]_vars, ownerUp', ~recordRequired'
  PROVE  ~recordRequired \/ (cm = "refused" /\ cm' = "refused")
<1>1. CASE SetupStep
  BY <1>1 DEF storeVars, stateVars, SetupAt, SetupStep, SetupSkipped, SetupStart, ChecksPassed,
     ChecksFailed, InitializeSend, InitializeOk, InitializeRejected, InitializeLost, CreateBlocked,
     CreateIntent, IntentBegin, IntentSaved, IntentUnsaved, CreateSend, CreateUnsent, CreateOk,
     CreateRejected, CreateLost, OutcomeBegin, OutcomeSaved, SetupReturn, CreateReturns
<1>2. CASE CleanerStep BY <1>2, CleanerFrame
<1>3. ASSUME NEW r \in Reconcilers, ReconcileStep(r) PROVE recordRequired' = recordRequired
  BY <1>3, ReconcileFrame DEF IInv, ownerVars, stateVars
<1>4. CASE Elsewhere
  BY <1>4 DEF Elsewhere, Cancel, StopCleanup, World, ApiStep, RecordCommit, RecordRefuse, OwnerCrash,
     TerminationShown, EvidenceLost, vars, taskVars, ownerVars, stateVars
<1> QED BY <1>1, <1>2, <1>3, <1>4, NextSplit

LEMMA UnrequiredUnstored ==
  ASSUME IInv, LeftoverInv, [Next]_vars, ownerUp', ~recordRequired'
  PROVE  cm' \in {"none", "refused"}
<1>1. ownerUp
  BY EndsStable
<1>2. CASE cm = "refused" /\ cm' = "refused"
  BY <1>2
<1>3. CASE ~recordRequired
  <2>1. cm \in {"none", "refused"}
    BY <1>1, <1>3 DEF LeftoverInv
  <2>2. ~(setupPc = "init" /\ setupPc' = "initWait")
    BY <1>3, RequiredNext DEF RequiredMoves
  <2> QED BY <2>1, <2>2, StoreCases DEF storeVars, SaveBy, CanSave, RemoveBy
<1> QED BY <1>2, <1>3, NotRequired

(* The cleaner is done only when it has seen that there is no record.      *)
LEMMA EntersDone ==
  ASSUME IInv, LeftoverInv, CleanerStep, cleanPc' = "done"
  PROVE  cm' # "stored"
<1>1. ~Durable => cm # "stored"
  <2>1. ownerUp
    BY CleanerFrame
  <2> QED BY <2>1 DEF LeftoverInv, Durable, IInv, RecordKept
<1>2. (PassUnsaved /\ UNCHANGED storeVars /\ ~Durable) \/ FinishUnsaved \/ FinishRemoved
  BY DEF CleanGoes, PassEnds, Visits, Visited, CleanAt, Deleted, CleanerStep, HandoffBegin, HandoffSaved,
     Scan, SkipNamespace, ReadGone, ReadDying, ReadFailed, BeforeDelete, NoteBegin, NoteSaved,
     DeleteProves, DeleteSent, DeleteLost, PassUnsaved, FlushBegin, FlushSaved, FinishBegin, FinishSaved,
     FinishNotRemoved
<1> QED BY <1>1, <1>2 DEF FinishUnsaved, FinishRemoved, CleanGoes, RemoveBy, Missing, storeVars

(* The loops cannot take over an empty, open record of a living owner.     *)
LEMMA LeftAlone ==
  ASSUME IInv, LeftoverInv, NEW r \in Reconcilers, ReconcileStep(r), cleanPc = "done", cm' = "stored"
  PROVE  /\ cm = "stored" /\ record' = record
         /\ worker'[r].pc = "idle" \/ (worker'[r].pc = "judge" /\ ~worker'[r].rec.closed)
<1>0. worker \in [Reconcilers -> Workers] /\ ~ExecutorTerminated
  BY DEF IInv, TypeOK, ExecutorTerminated, OwnerEnds, CleanerCovers
<1>1. cm = "stored"
  BY DEF ReconcileStep, List, JudgeClosed, JudgeTerminated, TakeOver, GiveUp, SkipEntry, EntryGone,
     EntryDying, EntryFailed, EntryCondemned, NoteStored, NoteFailed, DeleteEntry, FinalSaved,
     RemoveRecord, SaveBy, CanSave, RemoveBy, taskVars, storeVars
<1>2. /\ record = EmptyRecord /\ ~EmptyRecord.closed
      /\ worker[r].pc = "idle" \/ (worker[r].pc = "judge" /\ ~worker[r].rec.closed)
  BY <1>1 DEF LeftoverInv, EmptyRecord
<1>3. List(r) \/ GiveUp(r)
  BY <1>0, <1>2 DEF At, Rec, VisitsEntry, ReconcileStep, JudgeClosed, JudgeTerminated, TakeOver, SkipEntry,
     EntryGone, EntryDying, EntryFailed, EntryCondemned, NoteStored, NoteFailed, DeleteEntry, FinalSaved,
     RemoveRecord
<1> QED BY <1>0, <1>1, <1>2, <1>3 DEF List, GiveUp, Goes, At, Saving, IdleWorker, taskVars, storeVars

LEMMA LeftoverKept ==
  ASSUME IInv, NamespaceInv, LeftoverInv, [Next]_vars
  PROVE  LeftoverInv'
<1> SUFFICES ASSUME cleanPc' = "done", cm' = "stored"
             PROVE  /\ record' = EmptyRecord
                    /\ \A r \in Reconcilers :
                         worker'[r].pc = "idle" \/ (worker'[r].pc = "judge" /\ ~worker'[r].rec.closed)
  BY UnrequiredUnstored DEF LeftoverInv
<1> DEFINE Quiet(w) == \A r \in Reconcilers : w[r].pc = "idle" \/ (w[r].pc = "judge" /\ ~w[r].rec.closed)
<1>0. cm = "stored" /\ cleanPc = "done" => record = EmptyRecord /\ Quiet(worker)
  BY DEF LeftoverInv
<1>1. CASE SetupStep /\ UNCHANGED recoveryVars
  <2>1. cleanPc = "done" /\ Gate
    BY <1>1, SetupFrame DEF IInv, CleanerCovers
  <2>2. UNCHANGED storeVars \/ cm' = "inflight"
    BY <1>1, <2>1 DEF Gate, InCreate, SetupAt, SetupStep, SetupSkipped, SetupStart, ChecksPassed,
       ChecksFailed, InitializeSend, InitializeOk, InitializeRejected, InitializeLost, CreateBlocked,
       CreateIntent, IntentBegin, IntentSaved, IntentUnsaved, CreateSend, CreateUnsent, CreateOk,
       CreateRejected, CreateLost, OutcomeBegin, OutcomeSaved, SetupReturn, CreateReturns
  <2> QED BY <1>0, <1>1, <2>1, <2>2 DEF storeVars, recoveryVars
<1>2. CASE CleanerStep
  BY <1>2, EntersDone
<1>3. ASSUME NEW r \in Reconcilers, ReconcileStep(r)
      PROVE  record' = EmptyRecord /\ Quiet(worker')
  <2>1. cleanPc = "done" /\ \A q \in Reconcilers \ {r} : worker'[q] = worker[q]
    BY <1>3, ReconcileFrame DEF IInv, ownerVars, cleanVars
  <2> QED BY <1>0, <1>3, <2>1, LeftAlone
<1>4. CASE Elsewhere
  <2>1. cleanPc = "done" /\ worker' = worker
    BY <1>4 DEF CleanGoes, PassEnds, Elsewhere, Cancel, StopCleanup, World, ApiStep, RecordCommit,
       RecordRefuse, OwnerCrash, TerminationShown, EvidenceLost, vars, recoveryVars, taskVars, ownerVars,
       cleanVars
  <2>2. UNCHANGED storeVars \/ (cm = "inflight" /\ record' = record)
    BY <1>4 DEF Elsewhere, Cancel, StopCleanup, World, ApiStep, RecordCommit, RecordRefuse, OwnerCrash,
       TerminationShown, EvidenceLost, vars, taskVars
  <2>3. CASE UNCHANGED storeVars
    BY <1>0, <2>1, <2>3 DEF storeVars
  <2>4. CASE cm = "inflight" /\ record' = record
    <3>1. record = EmptyRecord
      BY <2>4 DEF IInv, RecordKept
    <3>2. \A r \in Reconcilers : worker[r].pc = "idle"
      BY <2>4 DEF NamespaceInv
    <3> QED BY <2>1, <2>4, <3>1, <3>2
  <2> QED BY <2>2, <2>3, <2>4
<1> QED BY <1>1, <1>2, <1>3, <1>4, NextSplit

(* Whatever answers to initialize were lost, a record that outlives the    *)
(* cleaner lists no attempt: it never asks a recovery loop for anything.   *)
THEOREM LeftoverIsEmpty == Spec => []LeftoverRecordIsEmpty
<1>1. Init => NamespaceInv /\ LeftoverInv
  <2>1. Init => NamespaceInv
    BY DEF Init, TaskInit, ApiInit, CleanerOff, NamespaceInv, IdleWorker
  <2>2. Init => LeftoverInv
    BY DEF Init, TaskInit, CleanerOff, LeftoverInv
  <2> QED BY <2>1, <2>2
<1>2. IInv /\ NamespaceInv /\ LeftoverInv /\ [Next]_vars => (NamespaceInv /\ LeftoverInv)'
  BY NamespaceKept, LeftoverKept
<1>3. IInv /\ LeftoverInv => LeftoverRecordIsEmpty
  <2>1. EmptyRecord.res = NoResources
    BY DEF EmptyRecord
  <2> QED BY <2>1 DEF LeftoverInv, LeftoverRecordIsEmpty, IInv, RecordKept
<1> QED BY <1>1, <1>2, <1>3, Invariance, PTL DEF Spec
=============================================================================
