--------------------------- MODULE LifecycleProofs ---------------------------
(***************************************************************************)
(* IInv (LifecycleInvariant) is inductive, one lemma per conjunct, and     *)
(* what follows from it: the third part of the proofs about                *)
(* LifecycleRecovery.                                                      *)
(***************************************************************************)
EXTENDS LifecycleSteps

-----------------------------------------------------------------------------
(* What is true for good *)

(* A dead owner stays dead, a closed task closed, an ended Setup ended. *)
LEMMA EndsStable ==
  ASSUME IInv, [Next]_vars
  PROVE  /\ Over => Over'
         /\ setupPc = "returned" => setupPc' = "returned"
         /\ ownerUp' => ownerUp /\ (closed => closed')
         /\ closed' => closed \/ cleanPc' = "begin"
<1> USE DEF Over
<1>1. CASE SetupStep BY <1>1, SetupFrame, SetupMove DEF SetupMoves
<1>2. CASE CleanerStep BY <1>2, CleanerFrame
<1>3. ASSUME NEW r \in Reconcilers, ReconcileStep(r)
      PROVE  ownerUp' = ownerUp /\ closed' = closed /\ setupPc' = setupPc
  BY <1>3, ReconcileFrame DEF IInv, ownerVars, stateVars, setupVars
<1>4. CASE Elsewhere
  BY <1>4 DEF Elsewhere, Cancel, StopCleanup, World, ApiStep, RecordCommit, RecordRefuse, OwnerCrash,
       TerminationShown, EvidenceLost, vars, CleanGoes,
       taskVars, storeVars, ownerVars, stateVars, saveVars, setupVars, cleanVars, IInv, OwnerEnds
<1> QED BY <1>1, <1>2, <1>3, <1>4, NextSplit

LEMMA SettledStable ==
  ASSUME IInv, [Next]_vars, NEW a \in Attempts
  PROVE  /\ Settled(a) => Settled(a)'
         /\ request[a] = "committed" => request'[a] = "committed"
<1>1. setupPc = "send" /\ ownerUp => request[next] = "none" /\ ~Over
  BY DEF IInv, SentInOrder, BeforeSend, Over, TypeOK, TaskTypeOK
<1>2. OwnExists(a)' => OwnExists(a) \/ request[a] = "inflight"
  BY ObjectMove DEF IInv, OwnExists
<1>3. Over => Over'
  BY EndsStable
<1> QED BY <1>1, <1>2, <1>3, RequestMove DEF IInv, Settled

LEMMA UncreatedStays ==
  ASSUME IInv, [Next]_vars, NEW a \in Attempts, Settled(a), request[a] # "committed"
  PROVE  request'[a] # "committed"
<1>1. setupPc = "send" /\ ownerUp => request[next] = "none" /\ ~Over
  BY DEF IInv, SentInOrder, BeforeSend, Over, TypeOK, TaskTypeOK
<1> QED BY <1>1, RequestMove DEF IInv, Settled

LEMMA TruthsStable ==
  ASSUME IInv, [Next]_vars
  PROVE  Truthful \subseteq Truthful' /\ \A a \in Attempts : Truths(a) \subseteq Truths(a)'
<1>1. ASSUME NEW a \in Attempts PROVE Truths(a) \subseteq Truths(a)'
  <2>1. \A f : Grounded(a, f) /\ Settled(a) => Grounded(a, f)'
    BY UncreatedStays DEF Grounded
  <2> QED BY <2>1, SettledStable DEF Truths
<1> QED BY <1>1 DEF Truthful

LEMMA MergeTruths ==
  ASSUME NEW a \in Attempts, NEW p \in Truths(a), NEW q \in Truths(a)
  PROVE  MergeFacts(p, q) \in Truths(a)
<1>1. MergeFacts(p, q) \in Facts
  BY MergeFactsType DEF Truths
<1> QED BY <1>1 DEF Truths, Grounded, MergeFacts, DecodesFacts, Unlisted, Facts

LEMMA MergeTruthful ==
  ASSUME NEW p \in Truthful, NEW q \in Truthful
  PROVE  MergeResources(p, q) \in Truthful
<1>1. MergeResources(p, q) \in Resources
  BY MergeResourcesType DEF Truthful
<1> QED BY <1>1, MergeTruths DEF Truthful, MergeResources

(* Both the stored record and the one saved are accurate: so is the merge. *)
LEMMA MergeAccurate ==
  ASSUME NEW p \in Accurate, NEW q \in Accurate
  PROVE  MergeRecord(p, q) \in Accurate
<1>1. MergeRecord(p, q) \in Records
  BY MergeRecordType DEF Accurate
<1>2. MergeRecord(p, q).res = MergeResources(p.res, q.res) /\ MergeResources(p.res, q.res) \in Truthful
  BY MergeTruthful DEF Accurate, MergeRecord
<1>3. \A a \in Attempts : MergeResources(p.res, q.res)[a].listed => p.res[a].listed \/ q.res[a].listed
  BY DEF MergeResources, MergeFacts
<1>4. MergeRecord(p, q).closed => p.closed \/ q.closed
  BY DEF MergeRecord
<1> QED BY <1>1, <1>2, <1>3, <1>4 DEF Accurate

LEMMA EmptyAccurate ==
  Unlisted \in Facts /\ NoResources \in Truthful /\ EmptyRecord \in Accurate
<1>1. NoResources \in Truthful
  BY ConstantTypes DEF Truthful, Truths, NoResources, Unlisted
<1> QED BY <1>1, ConstantTypes DEF Accurate, EmptyRecord, NoResources, Unlisted

-----------------------------------------------------------------------------
(* What the code writes into an entry is true after the step that writes it. *)

LEMMA UpdateTruthful ==
  ASSUME NEW p \in Truthful', NEW a \in Attempts, NEW f \in Truths(a)'
  PROVE  [p EXCEPT ![a] = f] \in Truthful'
BY DEF Truthful, Truths, Resources

LEMMA LearnTrue ==
  ASSUME NEW a \in Attempts, NEW f \in Truths(a)', request'[a] = "committed"
  PROVE  Learn(f, a) \in Truths(a)' /\ Condemn(f, a) \in Truths(a)'
<1>1. Learn(f, a) \in Facts /\ Condemn(f, a) \in Facts
  BY EntryTypes, ConstantTypes DEF Truths
<1> QED BY <1>1, ConstantTypes DEF Truths, Grounded, Learn, Condemn, Entry, DecodesFacts, Unlisted

LEMMA DoneTrue ==
  ASSUME NEW a \in Attempts, NEW f \in Truths(a)', f.listed, ~f.unknown, Settled(a)',
         f.uid # NoUID /\ Kind[a] = "pods" => f.done \/ f.delReq
  PROVE  MarkDone(f) \in Truths(a)'
<1>1. MarkDone(f) \in Facts
  BY EntryTypes, ConstantTypes DEF Truths
<1> QED BY <1>1 DEF Truths, Grounded, MarkDone, Entry, DecodesFacts

LEMMA PendingTrue ==
  ASSUME NEW a \in Attempts, NEW f \in Truths(a)', f.listed, f.uid = a
  PROVE  MarkPending(f) \in Truths(a)'
<1>1. MarkPending(f) \in Facts
  BY EntryTypes, ConstantTypes DEF Truths
<1> QED BY <1>1, ConstantTypes DEF Truths, MarkPending, Entry, DecodesFacts

LEMMA DiscardTrue ==
  ASSUME NEW a \in Attempts, NEW f \in Truths(a)', request'[a] # "committed", Settled(a)'
  PROVE  Discard(f) \in Truths(a)'
<1>1. Discard(f) \in Facts
  BY EntryTypes, ConstantTypes DEF Truths
<1> QED BY <1>1, ConstantTypes DEF Truths, Grounded, Discard, Entry, DecodesFacts, Unlisted

(* What the cleaners conclude from reading, given facts that are true. *)
LEMMA GoneSettled ==
  ASSUME NEW a \in Attempts, NEW f \in Truths(a), f.listed, ~f.done, ~Exists(a), GoneIsProof(a, f)
  PROVE  /\ Settled(a) /\ ~f.unknown
         /\ f.uid # NoUID /\ Kind[a] = "pods" => f.delReq
BY ConstantTypes DEF Truths, DecodesFacts, GoneIsProof, Settled, Exists, OwnExists

LEMMA ReadOwn ==
  ASSUME OwnWasCreated, NEW a \in Attempts, NEW f \in Truths(a), f.listed
  PROVE  /\ ReadsDying(a, f) => object[a].uid = a /\ request[a] = "committed"
         /\ MayDelete(a, f) => DeleteUID(a, f) = a /\ request[a] = "committed"
BY ConstantTypes DEF Truths, ReadsDying, MayDelete, DeletesUnread, DeleteUID, Owned, OwnExists,
      OwnWasCreated

(* A record that is merged into the store lists nothing new to the owner. *)
LEMMA SavedAccurate ==
  ASSUME IInv, NEW rec \in Accurate
  PROVE  Saved(rec) \in Accurate /\ Saved(rec) \in Records /\ Saved(rec).res \in Truthful
BY MergeAccurate DEF IInv, CopiesAccurate, Saved, Accurate

LEMMA MergeListed ==
  ASSUME NEW p \in Resources, NEW q \in Resources, NEW a \in Attempts
  PROVE  MergeResources(p, q)[a].listed <=> p[a].listed \/ q[a].listed
<1>1. p[a] \in Facts /\ q[a] \in Facts
  BY DEF Resources
<1>2. MergeFacts(p[a], q[a]).listed <=> p[a].listed \/ q[a].listed
  BY <1>1 DEF MergeFacts, Facts
<1> QED BY <1>2 DEF MergeResources

LEMMA MergedUID ==
  ASSUME NEW f \in Facts, NEW g \in Facts, g.listed, g.uid # NoUID
  PROVE  MergeFacts(f, g).uid = g.uid
BY DEF MergeFacts

-----------------------------------------------------------------------------
(* c.resources: it stays true, and loses no attempt while its owner lives. *)
ResGoesOn ==
  /\ res' \in Truthful'
  /\ ownerUp' => \A a \in Attempts : res[a].listed => res'[a].listed

LEMMA ResKept ==
  ASSUME IInv, [Next]_vars
  PROVE  /\ res' = res => ResGoesOn
         /\ res' = MergeResources(res, Saved(snap).res) => ResGoesOn
         /\ \A a \in Attempts : \A f \in Truths(a)' : f.listed /\ res' = [res EXCEPT ![a] = f] => ResGoesOn
<1>1. res \in Truthful /\ res \in Truthful' /\ res \in Resources
  BY TruthsStable DEF IInv, CopiesAccurate, Truthful
<1>2. MergeResources(res, Saved(snap).res) \in Truthful'
  BY <1>1, SavedAccurate, MergeTruthful, TruthsStable DEF IInv, CopiesAccurate
<1>3. \A a \in Attempts : MergeResources(res, Saved(snap).res)[a].listed <=> res[a].listed \/ Saved(snap).res[a].listed
  BY <1>1, SavedAccurate, MergeListed DEF IInv, CopiesAccurate, Truthful
<1>4. \A a \in Attempts : \A f \in Truths(a)' : [res EXCEPT ![a] = f] \in Truthful'
  BY <1>1, UpdateTruthful
<1> QED BY <1>1, <1>2, <1>3, <1>4 DEF ResGoesOn, Resources

LEMMA ResSetup ==
  ASSUME IInv, [Next]_vars, SetupStep
  PROVE  ResGoesOn
<1> USE DEF SetupAt
<1>0. PICK n \in Attempts : n = next
  BY DEF IInv, TypeOK, TaskTypeOK
<1>1. res[n] \in Truths(n)'
  BY TruthsStable DEF IInv, TypeOK, TaskTypeOK, CopiesAccurate, Truthful
<1>2. CASE res' = res
  BY <1>2, ResKept
<1>3. CASE CreateIntent
  <2>1. Intent \in Truths(n)' /\ Intent.listed
    BY ConstantTypes DEF Truths, Intent, Entry, DecodesFacts
  <2> QED BY <1>0, <1>1, <1>3, <2>1, ResKept DEF CreateIntent
<1>4. CASE IntentSaved
  BY <1>4, ResKept DEF IntentSaved, SyncAnswered, SaveAnswered
<1>5. CASE IntentUnsaved
  <2>1. request[n] = "none"
    BY <1>0, <1>1, <1>5 DEF IntentUnsaved, IInv, SentInOrder, BeforeSend
  <2>2. request'[n] = "none"
    BY <2>1, <1>5 DEF IntentUnsaved, apiVars
  <2>3. Settled(n)'
    BY <1>0, <2>2, <1>5 DEF IntentUnsaved, SetupGoes, Settled, Over
  <2>4. Discard(res[n]) \in Truths(n)' /\ Discard(res[n]).listed
    BY <1>1, <2>2, <2>3, DiscardTrue DEF Discard, Entry
  <2> QED BY <1>0, <1>1, <1>5, <2>4, ResKept DEF IntentUnsaved
<1>6. CASE CreateOk
  <2>1. request'[n] = "committed"
    BY <1>0, <1>6 DEF CreateOk, CreateReturns, apiVars
  <2>2. Learn(res[n], n) \in Truths(n)' /\ Learn(res[n], n).listed
    BY <1>1, <2>1, LearnTrue DEF Learn, Entry
  <2> QED BY <1>0, <1>1, <1>6, <2>2, ResKept DEF CreateOk
<1>7. CASE CreateRejected
  <2>1. request'[n] = "refused"
    BY <1>0, <1>7 DEF CreateRejected, CreateReturns, apiVars
  <2>2. Discard(res[n]) \in Truths(n)' /\ Discard(res[n]).listed
    BY <1>1, <2>1, DiscardTrue DEF Discard, Entry, Settled
  <2> QED BY <1>0, <1>1, <1>7, <2>2, ResKept DEF CreateRejected
<1>8. CASE OutcomeSaved
  BY <1>8, ResKept DEF OutcomeSaved, SyncAnswered, SaveAnswered
<1> QED BY <1>2, <1>3, <1>4, <1>5, <1>6, <1>7, <1>8 DEF SetupStep, SetupSkipped, SetupStart,
      ChecksPassed, ChecksFailed, InitializeSend, InitializeOk,
       InitializeRejected, InitializeLost, CreateBlocked, CreateIntent, IntentBegin, IntentSaved,
       IntentUnsaved,
       CreateSend, CreateUnsent, CreateOk, CreateRejected, CreateLost, OutcomeBegin, OutcomeSaved,
       SetupReturn,
       CreateReturns

LEMMA ResCleaner ==
  ASSUME IInv, [Next]_vars, CleanerStep
  PROVE  ResGoesOn
<1>1. \A a \in Attempts : res[a] \in Truths(a)' /\ res[a] \in Truths(a) /\ view[a] \in Truths(a)
  BY TruthsStable DEF IInv, CopiesAccurate, Truthful
<1>2. request' = request /\ OwnWasCreated
  BY CleanerFrame DEF IInv
<1>3. CASE res' = res
  BY <1>3, ResKept
<1>4. CASE \E answer : SyncAnswered(answer)
  BY <1>4, ResKept DEF SyncAnswered, SaveAnswered
<1>5. ASSUME NEW a \in Attempts, Visits(a)
      PROVE  /\ view[a].listed /\ ~view[a].done /\ res[a].listed
             /\ (res[a].unknown => view[a].unknown) /\ (view[a].delReq => res[a].delReq)
  BY <1>5 DEF Visits, First, IInv, ViewIsOld
<1>6. ASSUME NEW a \in Attempts, ReadGone(a) PROVE ResGoesOn
  <2>1. CASE GoneIsProof(a, view[a])
    <3>1. Settled(a) /\ ~view[a].unknown /\ (Kind[a] = "pods" => view[a].delReq)
      BY <1>1, <1>5, <1>6, <2>1, GoneSettled DEF ReadGone, ReadsNothing, Truths, DecodesFacts
    <3>2. MarkDone(res[a]) \in Truths(a)' /\ MarkDone(res[a]).listed
      BY <1>1, <1>5, <1>6, <3>1, SettledStable, DoneTrue DEF ReadGone, MarkDone, Entry
    <3> QED BY <1>6, <2>1, <3>2, ResKept DEF ReadGone
  <2> QED BY <1>3, <1>6, <2>1 DEF ReadGone
<1>7. ASSUME NEW a \in Attempts, ReadDying(a) PROVE ResGoesOn
  <2>1. object[a].uid = a /\ request'[a] = "committed"
    BY <1>1, <1>2, <1>5, <1>7, ReadOwn DEF ReadDying
  <2>2. Learn(res[a], a) \in Truths(a)' /\ Learn(res[a], a).listed
    BY <1>1, <2>1, LearnTrue DEF Learn, Entry
  <2> QED BY <1>7, <2>1, <2>2, ResKept DEF ReadDying
<1>8. ASSUME NEW a \in Attempts, BeforeDelete(a) PROVE ResGoesOn
  <2>1. DeleteUID(a, view[a]) = a /\ request'[a] = "committed"
    BY <1>1, <1>2, <1>5, <1>8, ReadOwn DEF BeforeDelete
  <2>2. Condemn(res[a], a) \in Truths(a)' /\ Condemn(res[a], a).listed
    BY <1>1, <2>1, LearnTrue DEF Condemn, Entry
  <2> QED BY <1>8, <2>1, <2>2, ResKept DEF BeforeDelete
<1>9. CASE DeleteProves
  <2>0. PICK a \in Attempts : a = target.attempt
    BY <1>9 DEF DeleteProves, CleanAt, IInv, CleanerAims, Aimed
  <2>1. res[a].listed /\ ~res[a].unknown /\ res[a].uid = a /\ res[a].delReq
    BY <1>9, <2>0 DEF DeleteProves, CleanAt, IInv, CleanerAims, Aimed
  <2>2. request[a] = "committed" /\ ~OwnExists(a)
    BY <1>9, <1>1, <2>0, <2>1, ConstantTypes DEF DeleteProves, DeleteIsProof, Exists, OwnExists, Truths
  <2>3. Settled(a)'
    BY <2>1, <2>2, SettledStable DEF Settled
  <2>4. MarkDone(res[a]) \in Truths(a)' /\ MarkDone(res[a]).listed
    BY <1>1, <2>1, <2>3, DoneTrue DEF MarkDone, Entry
  <2> QED BY <1>9, <2>0, <2>4, ResKept DEF DeleteProves, Deleted
<1>10. CASE DeleteSent \/ DeleteLost
  BY <1>3, <1>10 DEF DeleteSent, DeleteLost, Deleted
<1> QED BY <1>3, <1>4, <1>6, <1>7, <1>8, <1>9, <1>10 DEF CleanerStep, HandoffBegin, HandoffSaved,
      Scan, SkipNamespace, ReadGone, ReadDying, ReadFailed,
       BeforeDelete, NoteBegin, NoteSaved, DeleteProves, DeleteSent, DeleteLost, PassUnsaved,
       FlushBegin,
       FlushSaved, FinishBegin, FinishSaved, FinishUnsaved, FinishRemoved, FinishNotRemoved

LEMMA ResNext ==
  ASSUME IInv, [Next]_vars
  PROVE  ResGoesOn
<1>1. ASSUME NEW r \in Reconcilers, ReconcileStep(r) PROVE res' = res
  BY <1>1, ReconcileFrame DEF IInv, ownerVars
<1>2. ASSUME Elsewhere PROVE res' = res \/ (res' = NoResources /\ ~ownerUp')
  BY <1>2 DEF Elsewhere, Cancel, StopCleanup, World, ApiStep, RecordCommit, RecordRefuse, OwnerCrash,
       TerminationShown, EvidenceLost, vars, taskVars, storeVars, ownerVars, stateVars, saveVars,
       setupVars, cleanVars
<1>3. NoResources \in Truthful'
  BY EmptyAccurate, TruthsStable
<1> QED BY <1>1, <1>2, <1>3, ResSetup, ResCleaner, ResKept, NextSplit DEF ResGoesOn

-----------------------------------------------------------------------------
(* The copies of the record *)

LEMMA AccurateStable ==
  ASSUME IInv, [Next]_vars
  PROVE  Accurate \subseteq Accurate'
BY TruthsStable, ResNext, EndsStable DEF Accurate, ResGoesOn

(* A snapshot says closed only when nothing can follow it. *)
LEMMA SnapshotAccurate ==
  ASSUME IInv, ownerUp, setupPc # "idle" \/ ~setupDone
  PROVE  Snapshot \in Accurate
<1>1. Snapshot \in Records
  BY SnapshotType DEF IInv, TypeOK, TaskTypeOK
<1>2. closed /\ setupDone => setupPc = "returned"
  BY DEF IInv, OwnerEnds
<1> QED BY <1>1, <1>2 DEF Snapshot, Accurate, IInv, CopiesAccurate

LEMMA SaveByAccurate ==
  ASSUME IInv, [Next]_vars, NEW w, NEW rec \in Accurate, SaveBy(w, rec) \/ UNCHANGED storeVars
  PROVE  record' \in Accurate' /\ cm' = cm
BY SavedAccurate, AccurateStable DEF SaveBy, storeVars, IInv, CopiesAccurate

LEMMA SetupAccurate ==
  ASSUME IInv, [Next]_vars, SetupStep
  PROVE  record' \in Accurate' /\ snap' \in Accurate'
<1> USE DEF SetupAt
<1>1. /\ record \in Accurate /\ snap \in Accurate /\ record \in Accurate' /\ snap \in Accurate'
      /\ EmptyRecord \in Accurate'
  BY AccurateStable, EmptyAccurate DEF IInv, CopiesAccurate
<1>2. CASE UNCHANGED <<record, snap>>
  BY <1>1, <1>2
<1>3. CASE IntentBegin \/ OutcomeBegin
  <2>1. Snapshot \in Accurate
    BY <1>3, SnapshotAccurate DEF IntentBegin, OutcomeBegin
  <2> QED BY <1>1, <1>3, <2>1, AccurateStable DEF IntentBegin, OutcomeBegin, TakeSave, storeVars
<1>4. CASE IntentSaved \/ IntentUnsaved \/ OutcomeSaved
  <2>1. SaveBy(Owner, snap) \/ UNCHANGED storeVars
    BY <1>4 DEF IntentSaved, IntentUnsaved, OutcomeSaved, SyncAnswered, SaveAnswered
  <2>2. snap' = EmptyRecord
    BY <1>4 DEF IntentSaved, IntentUnsaved, OutcomeSaved, SyncAnswered, ReleaseSave
  <2> QED BY <1>1, <2>1, <2>2, SaveByAccurate
<1> QED BY <1>2, <1>3, <1>4 DEF SetupStep, SetupSkipped, SetupStart, ChecksPassed, ChecksFailed,
      InitializeSend, InitializeOk,
       InitializeRejected, InitializeLost, CreateBlocked, CreateIntent, IntentBegin, IntentSaved,
       IntentUnsaved,
       CreateSend, CreateUnsent, CreateOk, CreateRejected, CreateLost, OutcomeBegin, OutcomeSaved,
       SetupReturn,
       CreateReturns,
       storeVars, saveVars

LEMMA CleanerAccurate ==
  ASSUME IInv, [Next]_vars, CleanerStep
  PROVE  record' \in Accurate' /\ snap' \in Accurate'
<1> USE DEF CleanAt
<1>1. /\ record \in Accurate /\ snap \in Accurate /\ record \in Accurate' /\ snap \in Accurate'
      /\ EmptyRecord \in Accurate'
  BY AccurateStable, EmptyAccurate DEF IInv, CopiesAccurate
<1>2. CASE UNCHANGED <<record, snap>>
  BY <1>1, <1>2
<1>3. CASE HandoffBegin \/ NoteBegin \/ FlushBegin \/ FinishBegin
  <2>1. setupPc # "idle"
    BY <1>3 DEF HandoffBegin, NoteBegin, FlushBegin, FinishBegin, Durable, IInv, RecordKept, NoRecordPcs
  <2>2. Snapshot \in Accurate
    BY <1>3, <2>1, SnapshotAccurate DEF HandoffBegin, NoteBegin, FlushBegin, FinishBegin
  <2> QED BY <1>1, <1>3, <2>2, AccurateStable
          DEF HandoffBegin, NoteBegin, FlushBegin, FinishBegin, TakeSave, storeVars
<1>4. CASE HandoffSaved \/ NoteSaved \/ FlushSaved
  <2>1. SaveBy(Owner, snap) \/ UNCHANGED storeVars
    BY <1>4 DEF HandoffSaved, NoteSaved, FlushSaved, SyncAnswered, SaveAnswered
  <2>2. snap' = EmptyRecord
    BY <1>4 DEF HandoffSaved, NoteSaved, FlushSaved, SyncAnswered, ReleaseSave
  <2> QED BY <1>1, <2>1, <2>2, SaveByAccurate
<1>5. CASE FinishSaved
  BY <1>1, <1>5, SaveByAccurate, SavedAccurate, AccurateStable DEF FinishSaved
<1>6. CASE FinishUnsaved \/ FinishRemoved \/ FinishNotRemoved
  <2>1. SaveBy(Owner, snap) \/ UNCHANGED storeVars \/ record' = EmptyRecord
    BY <1>6 DEF FinishUnsaved, FinishRemoved, FinishNotRemoved, RemoveBy
  <2>2. snap' = EmptyRecord
    BY <1>6 DEF FinishUnsaved, FinishRemoved, FinishNotRemoved, ReleaseSave
  <2> QED BY <1>1, <2>1, <2>2, SaveByAccurate
<1> QED BY <1>2, <1>3, <1>4, <1>5, <1>6 DEF CleanerStep, HandoffBegin, HandoffSaved, Scan,
      SkipNamespace, ReadGone, ReadDying, ReadFailed,
       BeforeDelete, NoteBegin, NoteSaved, DeleteProves, DeleteSent, DeleteLost, PassUnsaved,
       FlushBegin,
       FlushSaved, FinishBegin, FinishSaved, FinishUnsaved, FinishRemoved, FinishNotRemoved,
       Deleted, storeVars, saveVars

LEMMA ViewTruthful ==
  ASSUME IInv, [Next]_vars
  PROVE  view' \in Truthful'
<1>1. ASSUME SetupStep PROVE view' = view
  BY <1>1, SetupFrame
<1>2. ASSUME CleanerStep PROVE view' \in {view, res, NoResources}
  BY <1>2 DEF CleanerStep, HandoffBegin, HandoffSaved, Scan, SkipNamespace, ReadGone, ReadDying,
        ReadFailed,
       BeforeDelete, NoteBegin, NoteSaved, DeleteProves, DeleteSent, DeleteLost, PassUnsaved,
       FlushBegin,
       FlushSaved, FinishBegin, FinishSaved, FinishUnsaved, FinishRemoved, FinishNotRemoved,
       CleanGoes, PassEnds, Visited, Deleted
<1>3. ASSUME NEW r \in Reconcilers, ReconcileStep(r) PROVE view' = view
  BY <1>3, ReconcileFrame DEF IInv, ownerVars, cleanVars
<1>4. ASSUME Elsewhere PROVE view' \in {view, NoResources}
  BY <1>4 DEF Elsewhere, Cancel, StopCleanup, World, ApiStep, RecordCommit, RecordRefuse, OwnerCrash,
       TerminationShown, EvidenceLost, vars, CleanGoes, PassEnds, taskVars, storeVars, ownerVars,
       stateVars, saveVars, setupVars, cleanVars
<1> QED BY <1>1, <1>2, <1>3, <1>4, NextSplit, TruthsStable, EmptyAccurate DEF IInv, CopiesAccurate

(* One entry of a loop's record is assigned true facts. *)
LEMMA FactsAccurate ==
  ASSUME NEW rec \in Accurate', NEW a \in Attempts, NEW f \in Truths(a)', rec.res[a].listed
  PROVE  /\ WithFacts(rec, a, f) \in Accurate' /\ WithFacts(rec, a, f).closed = rec.closed
         /\ WithFacts(rec, a, f).res = [rec.res EXCEPT ![a] = f]
<1>1. rec \in Records /\ rec.res \in Resources
  BY DEF Accurate, Truthful
<1>2. [rec.res EXCEPT ![a] = f] \in Truthful' /\ [rec.res EXCEPT ![a] = f] \in Resources
  BY UpdateTruthful DEF Accurate, Truthful
<1>3. /\ WithFacts(rec, a, f) \in Records /\ WithFacts(rec, a, f).closed = rec.closed
      /\ WithFacts(rec, a, f).res = [rec.res EXCEPT ![a] = f]
  BY <1>1, <1>2 DEF WithFacts, Records
<1>4. \A b \in Attempts : [rec.res EXCEPT ![a] = f][b].listed => rec.res[b].listed
  BY <1>1 DEF Resources
<1> QED BY <1>2, <1>3, <1>4 DEF Accurate

LEMMA EntryLeavesScan ==
  ASSUME IInv, [Next]_vars, NEW r \in Reconcilers, NEW a \in Attempts, NEW f \in Truths(a)',
         NEW rec \in Accurate', rec.res[a].listed, rec.closed, \A b \in worker[r].todo : rec.res[b].listed,
         f.listed, EntryLeaves(r, rec, a, f)
  PROVE  worker'[r] \in Scans'
<1> DEFINE w == worker[r]
           v == [pc |-> "each", rec |-> WithFacts(rec, a, f), todo |-> w.todo \ {a}, target |-> NoTarget]
<1>1. w \in Scans /\ w \in Workers /\ rec.res \in Resources /\ worker'[r] = v
  BY DEF IInv, CopiesAccurate, Scans, EntryLeaves, Accurate, Truthful
<1>2. /\ WithFacts(rec, a, f) \in Accurate' /\ WithFacts(rec, a, f).closed = rec.closed
      /\ WithFacts(rec, a, f).res = [rec.res EXCEPT ![a] = f]
  BY FactsAccurate
<1>3. v \in Workers
  BY <1>1, <1>2, ConstantTypes DEF Workers, WorkerPcs, Accurate
<1>4. \A b \in v.todo : v.rec.res[b].listed
  BY <1>1, <1>2 DEF Scans, Resources, Workers
<1>5. v \in Scans'
  BY <1>2, <1>3, <1>4 DEF Scans
<1> QED BY <1>1, <1>5

LEMMA EntryReturnsScan ==
  ASSUME IInv, [Next]_vars, NEW r \in Reconcilers, NEW a \in Attempts, NEW f \in Truths(a)',
         worker[r].rec.res[a].listed, worker[r].rec.closed, f.listed, EntryReturns(r, a, f)
  PROVE  worker'[r] \in Scans'
<1>1. PICK rec \in Accurate' : rec = worker[r].rec /\ EntryLeaves(r, rec, a, f)
  BY AccurateStable DEF IInv, CopiesAccurate, Scans, EntryReturns, Rec
<1>2. \A b \in worker[r].todo : rec.res[b].listed
  BY <1>1 DEF IInv, CopiesAccurate, Scans
<1> QED BY <1>1, <1>2, EntryLeavesScan

(* The pass of a loop over its record, from the save to the removal. *)
LEMMA GoesScan ==
  ASSUME IInv, [Next]_vars, NEW r \in Reconcilers, NEW pc \in WorkerPcs, NEW rec \in Accurate,
         Goes(r, pc, rec), rec.closed \/ pc \in {"idle", "judge"},
         \A a \in worker[r].todo : rec.res[a].listed,
         pc \in {"idle", "judge", "save"} => worker[r].todo = {},
         pc # "note", pc = "delete" => Aimed(worker[r].target, rec.res), pc = "ack" => RecordComplete(rec)
  PROVE  worker'[r] \in Scans'
<1> DEFINE v == [pc |-> pc, rec |-> rec, todo |-> worker[r].todo, target |-> worker[r].target]
<1>1. worker[r] \in Workers /\ worker'[r] = v /\ rec \in Accurate'
  BY AccurateStable DEF IInv, CopiesAccurate, Scans, Goes
<1>2. v \in Workers
  BY <1>1 DEF Workers, Accurate
<1> QED BY <1>1, <1>2 DEF Scans

LEMMA IdleScan ==
  ASSUME IInv, [Next]_vars
  PROVE  IdleWorker \in Scans'
<1>1. EmptyRecord \in Accurate' /\ IdleWorker \in Workers
  BY AccurateStable, EmptyAccurate, ConstantTypes
<1> QED BY <1>1 DEF Scans, IdleWorker

LEMMA LoopAccurate ==
  ASSUME IInv, [Next]_vars, NEW r \in Reconcilers, ReconcileStep(r)
  PROVE  record' \in Accurate' /\ worker'[r] \in Scans'
<1> USE DEF At, Rec
<1> DEFINE w == worker[r]
<1>1. /\ w \in Scans /\ w.rec \in Accurate /\ record \in Accurate /\ record \in Accurate'
      /\ EmptyRecord \in Accurate' /\ IdleWorker \in Scans'
      /\ worker \in [Reconcilers -> Scans]
  BY AccurateStable, EmptyAccurate, IdleScan DEF IInv, CopiesAccurate, Scans
<1>2. /\ w \in Workers /\ w.rec \in Records /\ w.rec.res \in Resources
      /\ Saved(w.rec) \in Accurate /\ Saved(w.rec) \in Records
      /\ \A a \in Attempts : w.rec.res[a] \in Truths(a) /\ w.rec.res[a] \in Truths(a)'
  BY <1>1, SavedAccurate, TruthsStable DEF Scans, Accurate, Truthful
<1>3. /\ \A a \in Attempts : w.rec.res[a].listed => Saved(w.rec).res[a].listed
      /\ w.rec.closed => Saved(w.rec).closed
  BY <1>2, MergeListed DEF Saved, MergeRecord, IInv, TypeOK, TaskTypeOK, Records
<1>5. record' \in Accurate'
  <2>1. SaveBy(r, w.rec) \/ record' = record \/ record' = EmptyRecord
    BY DEF ReconcileStep, List, JudgeClosed, JudgeTerminated, TakeOver, GiveUp, SkipEntry, EntryGone,
          EntryDying,
       EntryFailed, EntryCondemned, NoteStored, NoteFailed, DeleteEntry, FinalSaved, RemoveRecord,
       taskVars, storeVars, RemoveBy
  <2> QED BY <1>1, <2>1, SaveByAccurate
<1> SUFFICES worker'[r] \in Scans'
  BY <1>5
<1>6. CASE List(r) BY <1>1, <1>6, GoesScan DEF List, WorkerPcs, Scans
<1>7. CASE JudgeClosed(r) BY <1>1, <1>7, GoesScan DEF JudgeClosed, WorkerPcs, Scans
<1>8. CASE JudgeTerminated(r)
  <2>2. ~ownerUp /\ setupPc = "returned"
    BY <1>8 DEF JudgeTerminated, ExecutorTerminated, IInv, OwnerEnds
  <2>3. [closed |-> TRUE, reason |-> "executor-terminated", res |-> w.rec.res] \in Accurate
    BY <1>1, <1>2, <2>2 DEF Accurate, Records, Reasons
  <2> QED BY <1>1, <1>8, <2>3, GoesScan DEF JudgeTerminated, WorkerPcs, Scans
<1>9. CASE TakeOver(r)
  <2> DEFINE v == [pc |-> "each", rec |-> Saved(w.rec), target |-> NoTarget,
                   todo |-> {a \in Attempts : Saved(w.rec).res[a].listed /\ ~Saved(w.rec).res[a].done}]
  <2>1. worker'[r] = v
    BY <1>1, <1>9 DEF TakeOver
  <2>2. v \in Workers /\ Saved(w.rec).closed /\ Saved(w.rec) \in Accurate'
    BY <1>1, <1>2, <1>3, <1>9, AccurateStable, ConstantTypes DEF TakeOver, Workers, WorkerPcs, Scans
  <2>3. v \in Scans'
    BY <2>2 DEF Scans
  <2> QED BY <2>1, <2>3
<1>10. CASE GiveUp(r) BY <1>1, <1>10 DEF GiveUp
<1>11. \A a \in w.todo : w.rec.res[a].listed /\ a \in Attempts
  BY <1>1, <1>2 DEF Scans, Workers
<1>12. ASSUME NEW a \in Attempts, SkipEntry(r, a) PROVE worker'[r] \in Scans'
  BY <1>1, <1>2, <1>11, <1>12, EntryReturnsScan DEF SkipEntry, First, Scans
<1>13. ASSUME NEW a \in Attempts, VisitsEntry(r, a)
       PROVE  w.rec.res[a].listed /\ ~w.rec.res[a].done /\ w.rec.closed
  BY <1>1, <1>11, <1>13 DEF VisitsEntry, First, Scans
<1>14. ASSUME NEW a \in Attempts, EntryGone(r, a) PROVE worker'[r] \in Scans'
  <2>1. w.rec.res[a].listed /\ ~w.rec.res[a].done /\ w.rec.closed
    BY <1>13, <1>14 DEF EntryGone
  <2>2. CASE GoneIsProof(a, w.rec.res[a])
    <3>1. /\ Settled(a) /\ ~w.rec.res[a].unknown
          /\ w.rec.res[a].uid # NoUID /\ Kind[a] = "pods" => w.rec.res[a].delReq
      BY <1>2, <1>14, <2>1, <2>2, GoneSettled DEF EntryGone, ReadsNothing
    <3>2. MarkDone(w.rec.res[a]) \in Truths(a)' /\ MarkDone(w.rec.res[a]).listed
      BY <1>2, <2>1, <3>1, SettledStable, DoneTrue DEF MarkDone, Entry
    <3> QED BY <1>14, <2>1, <2>2, <3>2, EntryReturnsScan DEF EntryGone
  <2> QED BY <1>2, <1>14, <2>1, <2>2, EntryReturnsScan DEF EntryGone
<1>15. ASSUME NEW a \in Attempts, EntryDying(r, a) PROVE worker'[r] \in Scans'
  <2>1. w.rec.res[a].listed /\ w.rec.closed
    BY <1>13, <1>15 DEF EntryDying
  <2>2. object[a].uid = a /\ request'[a] = "committed"
    BY <1>2, <1>15, <2>1, ReadOwn, SettledStable DEF EntryDying, IInv
  <2>3. Learn(w.rec.res[a], a) \in Truths(a)' /\ Learn(w.rec.res[a], a).listed
    BY <1>2, <2>2, LearnTrue DEF Learn, Entry
  <2> QED BY <1>15, <2>1, <2>2, <2>3, EntryReturnsScan DEF EntryDying
<1>16. ASSUME NEW a \in Attempts, EntryFailed(r, a) PROVE worker'[r] \in Scans'
  BY <1>2, <1>13, <1>16, EntryReturnsScan DEF EntryFailed
<1>17. ASSUME NEW a \in Attempts, EntryCondemned(r, a) PROVE worker'[r] \in Scans'
  <2> DEFINE f == w.rec.res[a]
             v == [pc |-> "note", rec |-> WithFacts(w.rec, a, Condemn(f, a)), todo |-> w.todo,
                   target |-> TargetOf(a, f)]
  <2>1. f.listed /\ w.rec.closed
    BY <1>13, <1>17 DEF EntryCondemned
  <2>2. DeleteUID(a, f) = a /\ request'[a] = "committed"
    BY <1>2, <1>17, <2>1, ReadOwn, SettledStable DEF EntryCondemned, IInv
  <2>3. Condemn(f, a) \in Truths(a)' /\ Condemn(f, a) = [listed |-> TRUE, uid |-> a, unknown |-> FALSE,
                                                        done |-> f.done, delReq |-> TRUE]
    BY <1>2, <2>2, LearnTrue DEF Condemn, Entry
  <2>4. PICK rec \in Accurate' : rec = w.rec
    BY <1>1, AccurateStable
  <2>5. PICK g \in Truths(a)' : g = Condemn(f, a)
    BY <2>3
  <2>6. /\ WithFacts(rec, a, g) \in Accurate' /\ WithFacts(rec, a, g).closed
        /\ WithFacts(rec, a, g).res = [rec.res EXCEPT ![a] = g]
    BY <2>1, <2>4, FactsAccurate
  <2>7. worker'[r] = v
    BY <1>1, <1>17, <2>2 DEF EntryCondemned
  <2>8. TargetOf(a, f) \in Targets /\ TargetOf(a, f).attempt = a /\ TargetOf(a, f).uid = a
    <3>1. DeletesUnread(a, f) \in BOOLEAN BY DEF DeletesUnread
    <3> QED BY <2>2, <3>1, ConstantTypes DEF TargetOf, Targets
  <2>9. v \in Workers
    BY <1>2, <2>4, <2>5, <2>6, <2>8 DEF Workers, WorkerPcs, Accurate
  <2>10. \A b \in w.todo : v.rec.res[b].listed
    <3>1. v.rec.res = [w.rec.res EXCEPT ![a] = g] /\ g.listed
      BY <2>3, <2>4, <2>5, <2>6
    <3>2. w.rec.res \in [Attempts -> Facts]
      BY <1>2 DEF Resources
    <3> QED BY <1>11, <3>1, <3>2
  <2>11. Aimed(v.target, v.rec.res)
    <3>1. v.rec = WithFacts(rec, a, g) /\ v.target = TargetOf(a, f)
      BY <2>4, <2>5
    <3>2. v.rec.res[a] = g
      BY <1>2, <2>4, <2>6, <3>1 DEF Resources
    <3>3. g.listed /\ ~g.unknown /\ g.uid = a /\ g.delReq
      BY <2>3, <2>5
    <3> QED BY <2>8, <3>1, <3>2, <3>3 DEF Aimed
  <2>12. v \in Scans'
    BY <2>4, <2>5, <2>6, <2>9, <2>10, <2>11 DEF Scans
  <2> QED BY <2>7, <2>12
<1>18. CASE NoteStored(r)
  <2> DEFINE t == w.target
  <2>1. Aimed(t, w.rec.res) /\ w.rec.closed
    BY <1>1, <1>18 DEF NoteStored, Scans
  <2>2. Aimed(t, Saved(w.rec).res)
    <3>1. PICK a \in Attempts : a = t.attempt
      BY <2>1 DEF Aimed
    <3>2. Saved(w.rec).res[a] = MergeFacts(record.res[a], w.rec.res[a])
      BY DEF Saved, MergeRecord, MergeResources
    <3>3. /\ MergeFacts(record.res[a], w.rec.res[a]).listed /\ ~MergeFacts(record.res[a], w.rec.res[a]).unknown
          /\ MergeFacts(record.res[a], w.rec.res[a]).uid = a
          /\ MergeFacts(record.res[a], w.rec.res[a]).delReq
      BY <2>1, <3>1, ConstantTypes DEF MergeFacts, Aimed
    <3> QED BY <2>1, <3>1, <3>2, <3>3 DEF Aimed
  <2> QED BY <1>1, <1>2, <1>3, <1>11, <1>18, <2>1, <2>2, GoesScan DEF NoteStored, WorkerPcs, Scans
<1>19. ASSUME w.pc \in {"note", "delete"}
       PROVE  \E a \in Attempts : /\ a = w.target.attempt /\ w.rec.closed /\ w.rec.res[a].listed /\ ~w.rec.res[a].unknown
                                  /\ w.rec.res[a].uid = a /\ w.rec.res[a].delReq /\ request[a] = "committed"
  <2>1. PICK a \in Attempts : a = w.target.attempt
    BY <1>1, <1>19 DEF Scans, Aimed
  <2>2. /\ w.rec.closed /\ w.rec.res[a].listed /\ ~w.rec.res[a].unknown
        /\ w.rec.res[a].uid = a /\ w.rec.res[a].delReq
    BY <1>1, <1>19, <2>1 DEF Scans, Aimed
  <2>3. request[a] = "committed"
    BY <1>2, <2>2, ConstantTypes DEF Truths
  <2> QED BY <2>1, <2>2, <2>3
<1>20. CASE NoteFailed(r)
  <2>1. PICK a \in Attempts : /\ a = w.target.attempt /\ w.rec.closed /\ w.rec.res[a].listed /\ ~w.rec.res[a].unknown
                              /\ w.rec.res[a].uid = a /\ request[a] = "committed"
    BY <1>19, <1>20 DEF NoteFailed
  <2>2. CASE EntryReturns(r, a, w.rec.res[a])
    BY <1>2, <2>1, <2>2, EntryReturnsScan
  <2>3. CASE EntryLeaves(r, Saved(w.rec), a, MarkPending(Saved(w.rec).res[a]))
    <3>1. PICK rec \in Accurate' : rec = Saved(w.rec) /\ EntryLeaves(r, rec, a, MarkPending(rec.res[a]))
      BY <1>2, <2>3, AccurateStable
    <3>2. rec.closed /\ rec.res[a].listed /\ \A b \in w.todo : rec.res[b].listed
      BY <1>1, <1>2, <1>3, <2>1, <3>1 DEF Scans, Workers
    <3>3. rec.res[a] = MergeFacts(record.res[a], w.rec.res[a])
      BY <3>1 DEF Saved, MergeRecord, MergeResources
    <3>4. rec.res[a].uid = a
      <4>1. w.rec.res[a] \in Facts
        BY <1>2 DEF Resources
      <4>2. record.res[a] \in Facts
        BY DEF IInv, TypeOK, TaskTypeOK, Records, Resources
      <4>3. a # NoUID
        BY ConstantTypes
      <4>4. w.rec.res[a].listed /\ w.rec.res[a].uid = a
        BY <2>1
      <4> HIDE DEF w
      <4>5. MergeFacts(record.res[a], w.rec.res[a]).uid = w.rec.res[a].uid
        BY <4>1, <4>2, <4>3, <4>4, MergedUID
      <4> QED BY <3>3, <4>4, <4>5
    <3>5. rec.res[a] \in Truths(a)'
      BY <3>1 DEF Accurate, Truthful
    <3>6. MarkPending(rec.res[a]) \in Truths(a)' /\ MarkPending(rec.res[a]).listed
      BY <3>2, <3>4, <3>5, PendingTrue DEF MarkPending, Entry
    <3> QED BY <3>1, <3>2, <3>6, EntryLeavesScan
  <2> QED BY <1>20, <2>1, <2>2, <2>3 DEF NoteFailed
<1>21. CASE DeleteEntry(r)
  <2>1. PICK a \in Attempts : /\ a = w.target.attempt /\ w.rec.closed /\ w.rec.res[a].listed /\ ~w.rec.res[a].unknown
                              /\ w.rec.res[a].uid = a /\ w.rec.res[a].delReq /\ request[a] = "committed"
    BY <1>19, <1>21 DEF DeleteEntry
  <2>2. MarkPending(w.rec.res[a]) \in Truths(a)' /\ MarkPending(w.rec.res[a]).listed
    BY <1>2, <2>1, PendingTrue DEF MarkPending, Entry
  <2>3. CASE DeleteIsProof(w.target)
    <3>1. Settled(a)
      BY <2>1, <2>3, ConstantTypes DEF DeleteIsProof, Exists, OwnExists, Settled
    <3>2. MarkDone(w.rec.res[a]) \in Truths(a)' /\ MarkDone(w.rec.res[a]).listed
      BY <1>2, <2>1, <3>1, SettledStable, DoneTrue DEF MarkDone, Entry
    <3> QED BY <1>21, <2>1, <2>2, <3>2, EntryReturnsScan DEF DeleteEntry
  <2> QED BY <1>21, <2>1, <2>2, <2>3, EntryReturnsScan DEF DeleteEntry
<1>22. CASE FinalSaved(r)
  <2>1. CASE Goes(r, "ack", Saved(w.rec)) /\ RecordComplete(Saved(w.rec))
    BY <1>1, <1>2, <1>3, <1>11, <1>22, <2>1, GoesScan DEF FinalSaved, WorkerPcs, Scans
  <2>2. CASE worker'[r] = IdleWorker
    BY <1>1, <2>2
  <2> QED BY <1>1, <1>22, <2>1, <2>2 DEF FinalSaved
<1>23. CASE RemoveRecord(r) BY <1>1, <1>23 DEF RemoveRecord
<1> QED BY <1>5, <1>6, <1>7, <1>8, <1>9, <1>10, <1>12, <1>14, <1>15, <1>16, <1>17, <1>18, <1>20,
           <1>21, <1>22, <1>23 DEF ReconcileStep

-----------------------------------------------------------------------------
(* The conjuncts of IInv, one by one *)

LEMMA TypeKept ==
  ASSUME IInv, [Next]_vars
  PROVE  TypeOK'
BY TypeNext DEF IInv, CopiesAccurate

LEMMA CopiesKept ==
  ASSUME IInv, [Next]_vars
  PROVE  CopiesAccurate'
<1>1. res' \in Truthful' /\ view' \in Truthful'
  BY ResNext, ViewTruthful DEF ResGoesOn
<1>2. /\ record \in Accurate' /\ snap \in Accurate' /\ EmptyRecord \in Accurate'
      /\ \A q \in Reconcilers : worker[q] \in Scans'
  BY AccurateStable, EmptyAccurate DEF IInv, CopiesAccurate, Scans
<1>3. CASE SetupStep /\ UNCHANGED recoveryVars
  BY <1>1, <1>2, <1>3, SetupAccurate, TypeKept DEF CopiesAccurate, recoveryVars, TypeOK
<1>4. CASE CleanerStep /\ UNCHANGED recoveryVars
  BY <1>1, <1>2, <1>4, CleanerAccurate, TypeKept DEF CopiesAccurate, recoveryVars, TypeOK
<1>5. ASSUME NEW r \in Reconcilers, ReconcileStep(r) PROVE CopiesAccurate'
  <2>1. snap' = snap
    BY <1>5, ReconcileFrame DEF IInv, ownerVars, saveVars
  <2>2. record' \in Accurate' /\ worker'[r] \in Scans'
    BY <1>5, LoopAccurate
  <2>3. \A q \in Reconcilers : worker'[q] \in Scans'
    BY <1>2, <1>5, <2>2, ReconcileFrame DEF IInv
  <2> QED BY <1>1, <1>2, <2>1, <2>2, <2>3, TypeKept DEF CopiesAccurate, TypeOK
<1>6. CASE Elsewhere
  <2>1. record' = record /\ snap' \in {snap, EmptyRecord} /\ worker' = worker
    BY <1>6 DEF Elsewhere, Cancel, StopCleanup, World, ApiStep, RecordCommit, RecordRefuse, OwnerCrash,
       TerminationShown, EvidenceLost, vars, recoveryVars, taskVars, storeVars, ownerVars, stateVars,
       saveVars, setupVars, cleanVars
  <2> QED BY <1>1, <1>2, <2>1, TypeKept DEF CopiesAccurate, TypeOK
<1> QED BY <1>3, <1>4, <1>5, <1>6, NextSplit

LEMMA OwnWasCreatedKept ==
  ASSUME IInv, [Next]_vars
  PROVE  OwnWasCreated'
BY ObjectMove, SettledStable DEF IInv, OwnWasCreated, OwnExists

(* What Setup, the process and the gate do, whichever step is taken. *)
LEMMA SetupNext ==
  ASSUME IInv, [Next]_vars
  PROVE  SetupMoves \/ ~ownerUp'
<1>1. CASE SetupStep BY <1>1, SetupMove
<1>2. CASE CleanerStep BY <1>2, CleanerFrame DEF SetupMoves
<1>3. ASSUME NEW r \in Reconcilers, ReconcileStep(r) PROVE SetupMoves
  BY <1>3, ReconcileFrame DEF IInv, SetupMoves, ownerVars, setupVars
<1>4. CASE Elsewhere
  BY <1>4 DEF SetupMoves, Elsewhere, Cancel, StopCleanup, World, ApiStep, RecordCommit, RecordRefuse,
        OwnerCrash,
       TerminationShown, EvidenceLost, vars, taskVars, storeVars, ownerVars, stateVars, saveVars,
       setupVars, cleanVars
<1> QED BY <1>1, <1>2, <1>3, <1>4, NextSplit

LEMMA SentInOrderKept ==
  ASSUME IInv, [Next]_vars
  PROVE  SentInOrder'
<1> SUFFICES ASSUME ownerUp', NEW a \in Attempts, a > next' \/ (a = next' /\ setupPc' \in BeforeSend)
             PROVE  request'[a] = "none"
  BY DEF SentInOrder, BeforeSend
<1>1. SetupMoves /\ ownerUp /\ next \in Attempts
  BY SetupNext, EndsStable DEF IInv, TypeOK, TaskTypeOK
<1>2. a > next \/ (a = next /\ setupPc \in BeforeSend)
  BY <1>1 DEF SetupMoves, BeforeSend, Attempts
<1>3. request[a] = "none"
  BY <1>1, <1>2 DEF IInv, SentInOrder
<1>4. ~(a = next /\ setupPc = "send" /\ setupPc' = "wait" /\ next' = next)
  BY <1>1 DEF BeforeSend, Attempts
<1> QED BY <1>3, <1>4, RequestMove DEF IInv

LEMMA OwnerListsKept ==
  ASSUME IInv, [Next]_vars
  PROVE  OwnerLists'
<1> SUFFICES ASSUME ownerUp', NEW a \in Attempts,
                    \/ request'[a] # "none"
                    \/ a = next' /\ setupPc' \in {"intent", "intentSave", "send", "wait"}
             PROVE  res'[a].listed
  BY DEF OwnerLists
<1>1. SetupMoves /\ ownerUp /\ (res[a].listed => res'[a].listed)
  BY SetupNext, EndsStable, ResNext DEF ResGoesOn
<1>2. CASE request'[a] # "none"
  BY <1>1, <1>2, RequestMove DEF IInv, OwnerLists
<1>3. CASE a = next' /\ setupPc' \in {"intent", "intentSave", "send", "wait"} /\ ~CreateIntent
  <2>1. ASSUME setupPc = "create" PROVE FALSE
    <3>1. SetupStep
      BY <1>1, <1>3, <2>1, CleanerFrame, ReconcileFrame, NextSplit
         DEF IInv, Elsewhere, Cancel, StopCleanup, World, ApiStep, RecordCommit, RecordRefuse,
               OwnerCrash,
       TerminationShown, EvidenceLost, vars, taskVars, storeVars, ownerVars, stateVars, saveVars,
       setupVars, cleanVars
    <3> QED BY <1>3, <2>1, <3>1 DEF SetupGoes, SetupAt, AfterOutcome, SetupStep, SetupSkipped,
          SetupStart, ChecksPassed, ChecksFailed, InitializeSend, InitializeOk,
       InitializeRejected, InitializeLost, CreateBlocked, CreateIntent, IntentBegin, IntentSaved,
       IntentUnsaved,
       CreateSend, CreateUnsent, CreateOk, CreateRejected, CreateLost, OutcomeBegin, OutcomeSaved,
       SetupReturn,
       CreateReturns
  <2> QED BY <1>1, <1>3, <2>1 DEF SetupMoves, IInv, OwnerLists
<1>4. CASE a = next' /\ CreateIntent
  BY <1>4 DEF CreateIntent, SetupGoes, Intent, Entry, IInv, TypeOK, TaskTypeOK, Resources
<1> QED BY <1>2, <1>3, <1>4

(* Once the task is closed, entries are only ever completed. *)
Completes(e, f, a) ==
  /\ f.listed => e.listed
  /\ e.listed => /\ (f.unknown => e.unknown) /\ (e.done => f.done)
                 /\ (e.uid = a => f.uid = a) /\ (e.delReq => f.delReq)

ResCompletes == \A a \in Attempts : Completes(res[a], res'[a], a)

LEMMA ResCompletesBy ==
  ASSUME IInv, [Next]_vars, ownerUp
  PROVE  /\ res' = res => ResCompletes
         /\ res' = MergeResources(res, Saved(snap).res) => ResCompletes
         /\ \A a \in Attempts : \A f \in Facts :
              Completes(res[a], f, a) /\ res' = [res EXCEPT ![a] = f] => ResCompletes
<1>1. \A a \in Attempts : Completes(res[a], res[a], a)
  BY DEF Completes
<1>2. ASSUME NEW a \in Attempts PROVE Completes(res[a], MergeResources(res, Saved(snap).res)[a], a)
  <2>1. Saved(snap) \in Accurate
    BY SavedAccurate DEF IInv, CopiesAccurate
  <2>2. Saved(snap).res[a] \in Truths(a) /\ (Saved(snap).res[a].listed => res[a].listed)
    BY <2>1 DEF Accurate, Truthful
  <2>3. MergeResources(res, Saved(snap).res)[a] = MergeFacts(res[a], Saved(snap).res[a])
    BY DEF MergeResources
  <2>4. Completes(res[a], MergeFacts(res[a], Saved(snap).res[a]), a)
    BY <2>2, ConstantTypes DEF Completes, MergeFacts, Truths
  <2> QED BY <2>3, <2>4
<1> QED BY <1>1, <1>2 DEF ResCompletes, IInv, TypeOK, TaskTypeOK, Resources

LEMMA ResCompletesClosed ==
  ASSUME IInv, [Next]_vars, closed, ownerUp'
  PROVE  ResCompletes
<1>0. /\ ownerUp
      /\ \A a \in Attempts : res[a] \in Facts /\ view[a] \in Truths(a) /\ res[a] \in Truths(a)
      /\ OwnWasCreated
  BY EndsStable DEF IInv, TypeOK, TaskTypeOK, Resources, CopiesAccurate, Truthful
<1>1. CASE res' = res
  BY <1>0, <1>1, ResCompletesBy
<1>2. CASE \E answer : SaveAnswered(answer)
  BY <1>0, <1>2, ResCompletesBy DEF SaveAnswered
<1>3. CASE SetupStep
  <2> USE DEF SetupAt
  <2>0. PICK n \in Attempts : n = next
    BY DEF IInv, TypeOK, TaskTypeOK
  <2>1. CASE IntentUnsaved \/ CreateRejected
    <3>1. res[n].listed /\ res' = [res EXCEPT ![n] = Discard(res[n])]
      BY <2>0, <2>1, <1>0 DEF IntentUnsaved, CreateRejected, IInv, OwnerLists
    <3>2. Discard(res[n]) \in Facts /\ Completes(res[n], Discard(res[n]), n)
      BY <3>1, <1>0, EntryTypes, ConstantTypes DEF Completes, Discard, Entry
    <3> QED BY <1>0, <3>1, <3>2, ResCompletesBy
  <2>2. CASE CreateOk
    <3>1. res[n].listed /\ res' = [res EXCEPT ![n] = Learn(res[n], n)]
      BY <2>0, <2>2, <1>0 DEF CreateOk, IInv, OwnerLists
    <3>2. Learn(res[n], n) \in Facts /\ Completes(res[n], Learn(res[n], n), n)
      BY <3>1, <1>0, EntryTypes, ConstantTypes DEF Completes, Learn, Entry
    <3> QED BY <1>0, <3>1, <3>2, ResCompletesBy
  <2> QED BY <1>1, <1>2, <1>3, <2>1, <2>2
          DEF SetupStep, SetupSkipped, SetupStart, ChecksPassed, ChecksFailed, InitializeSend,
                InitializeOk,
       InitializeRejected, InitializeLost, CreateBlocked, CreateIntent, IntentBegin, IntentSaved,
       IntentUnsaved,
       CreateSend, CreateUnsent, CreateOk, CreateRejected, CreateLost, OutcomeBegin, OutcomeSaved,
       SetupReturn,
       CreateReturns,
       SyncAnswered
<1>4. CASE CleanerStep
  <2>1. ASSUME NEW a \in Attempts, Visits(a)
        PROVE  view[a].listed /\ ~view[a].done /\ res[a].listed
    BY <2>1 DEF Visits, First, IInv, ViewIsOld
  <2>2. ASSUME NEW a \in Attempts, ReadGone(a) PROVE ResCompletes
    <3>1. MarkDone(res[a]) \in Facts /\ Completes(res[a], MarkDone(res[a]), a)
      BY <2>1, <2>2, <1>0, EntryTypes, ConstantTypes DEF Completes, MarkDone, Entry, ReadGone
    <3> QED BY <1>0, <2>2, <3>1, ResCompletesBy DEF ReadGone
  <2>3. ASSUME NEW a \in Attempts, ReadDying(a) PROVE ResCompletes
    <3>1. object[a].uid = a
      BY <1>0, <2>1, <2>3, ReadOwn DEF ReadDying
    <3>2. Learn(res[a], a) \in Facts /\ Completes(res[a], Learn(res[a], a), a)
      BY <2>1, <2>3, <1>0, EntryTypes, ConstantTypes DEF Completes, Learn, Entry, ReadDying
    <3> QED BY <1>0, <2>3, <3>1, <3>2, ResCompletesBy DEF ReadDying
  <2>4. ASSUME NEW a \in Attempts, BeforeDelete(a) PROVE ResCompletes
    <3>1. DeleteUID(a, view[a]) = a
      BY <1>0, <2>1, <2>4, ReadOwn DEF BeforeDelete
    <3>2. Condemn(res[a], a) \in Facts /\ Completes(res[a], Condemn(res[a], a), a)
      BY <2>1, <2>4, <1>0, EntryTypes, ConstantTypes DEF Completes, Condemn, Entry, BeforeDelete
    <3> QED BY <1>0, <2>4, <3>1, <3>2, ResCompletesBy DEF BeforeDelete
  <2>5. CASE DeleteProves
    <3>1. PICK a \in Attempts : a = target.attempt /\ res[a].listed
      BY <2>5 DEF DeleteProves, CleanAt, IInv, CleanerAims, Aimed
    <3>2. MarkDone(res[a]) \in Facts /\ Completes(res[a], MarkDone(res[a]), a)
      BY <3>1, <1>0, EntryTypes, ConstantTypes DEF Completes, MarkDone, Entry
    <3> QED BY <1>0, <2>5, <3>1, <3>2, ResCompletesBy DEF DeleteProves, Deleted
  <2> QED BY <1>1, <1>2, <1>4, <2>2, <2>3, <2>4, <2>5
          DEF CleanerStep, HandoffBegin, HandoffSaved, Scan, SkipNamespace, ReadGone, ReadDying,
                ReadFailed,
       BeforeDelete, NoteBegin, NoteSaved, DeleteProves, DeleteSent, DeleteLost, PassUnsaved,
       FlushBegin,
       FlushSaved, FinishBegin, FinishSaved, FinishUnsaved, FinishRemoved, FinishNotRemoved,
       SyncAnswered, Deleted
<1>5. ASSUME NEW r \in Reconcilers, ReconcileStep(r) PROVE res' = res
  BY <1>5, ReconcileFrame DEF IInv, ownerVars
<1>6. ASSUME Elsewhere PROVE res' = res \/ ~ownerUp'
  BY <1>6 DEF Elsewhere, Cancel, StopCleanup, World, ApiStep, RecordCommit, RecordRefuse, OwnerCrash,
       TerminationShown, EvidenceLost, vars, taskVars, storeVars, ownerVars, stateVars, saveVars,
       setupVars, cleanVars
<1> QED BY <1>0, <1>1, <1>3, <1>4, <1>5, <1>6, ResCompletesBy, NextSplit

LEMMA CleanerOffOpen ==
  ASSUME IInv, ~closed
  PROVE  cleanPc = "off" /\ ~complete
BY DEF IInv, CleanerCovers, TypeOK, TaskTypeOK

LEMMA ViewIsOldKept ==
  ASSUME IInv, [Next]_vars
  PROVE  ViewIsOld'
<1>0. /\ res \in Resources /\ view \in Resources /\ \A a \in Attempts : res[a] \in Facts /\ view[a] \in Facts
      /\ \A a \in Attempts : ~NoResources[a].listed
      /\ \A a \in todo : a \in Attempts
  BY ConstantTypes DEF IInv, TypeOK, TaskTypeOK, Resources, NoResources, Unlisted
<1>1. ASSUME view' = NoResources, todo' = {} PROVE ViewIsOld'
  BY <1>0, <1>1 DEF ViewIsOld
<1>2. CASE ownerUp' /\ closed /\ view' = view /\ todo' \subseteq todo
  BY <1>0, <1>2, ResCompletesClosed, EndsStable, ResNext
     DEF ViewIsOld, IInv, ResCompletes, Completes, ResGoesOn
<1>3. CASE Scan
  <2>1. closed' /\ res' = res /\ view' = res /\ todo' = {a \in Attempts : res[a].listed /\ ~res[a].done}
    BY <1>3 DEF Scan, CleanAt, IInv, CleanerCovers, stateVars
  <2> QED BY <1>0, <2>1 DEF ViewIsOld
<1>4. CASE ~closed /\ ownerUp'
  <2>1. view' = NoResources /\ todo' = {}
    <3>1. cleanPc = "off" /\ view = NoResources /\ todo = {}
      BY <1>4, CleanerOffOpen DEF IInv, ViewIsOld
    <3>2. CASE SetupStep BY <3>1, <3>2, SetupFrame
    <3>3. ASSUME CleanerStep PROVE FALSE
      BY <3>1, <3>3 DEF CleanerStep, HandoffBegin, HandoffSaved, Scan, SkipNamespace, ReadGone,
            ReadDying, ReadFailed,
       BeforeDelete, NoteBegin, NoteSaved, DeleteProves, DeleteSent, DeleteLost, PassUnsaved,
       FlushBegin,
       FlushSaved, FinishBegin, FinishSaved, FinishUnsaved, FinishRemoved, FinishNotRemoved,
           CleanAt, Visits
    <3>4. ASSUME NEW r \in Reconcilers, ReconcileStep(r) PROVE view' = view /\ todo' = todo
      BY <3>4, ReconcileFrame DEF IInv, ownerVars, cleanVars
    <3>5. ASSUME Elsewhere PROVE (view' = view /\ todo' = todo) \/ (view' = NoResources /\ todo' = {})
      BY <3>5 DEF Elsewhere, Cancel, StopCleanup, World, ApiStep, RecordCommit, RecordRefuse,
            OwnerCrash,
       TerminationShown, EvidenceLost, vars, CleanGoes, PassEnds, taskVars, storeVars, ownerVars,
       stateVars, saveVars, setupVars, cleanVars
    <3> QED BY <3>1, <3>2, <3>3, <3>4, <3>5, NextSplit
  <2> QED BY <1>1, <2>1
<1>5. CASE ~ownerUp'
  <2>1. Elsewhere \/ UNCHANGED <<view, todo, ownerUp, res, closed>>
    <3>1. ASSUME NEW r \in Reconcilers, ReconcileStep(r) PROVE UNCHANGED <<view, todo, ownerUp, res, closed>>
      BY <3>1, ReconcileFrame DEF IInv, ownerVars, cleanVars, stateVars
    <3> QED BY <1>5, <3>1, SetupFrame, CleanerFrame, NextSplit
  <2>2. ASSUME Elsewhere PROVE UNCHANGED <<view, todo, ownerUp, res, closed>> \/ (view' = NoResources /\ todo' = {})
    BY <1>5, <2>2 DEF Elsewhere, Cancel, StopCleanup, World, ApiStep, RecordCommit, RecordRefuse,
          OwnerCrash,
       TerminationShown, EvidenceLost, vars, CleanGoes, PassEnds, taskVars, storeVars, ownerVars,
       stateVars, saveVars, setupVars, cleanVars
  <2>3. UNCHANGED <<view, todo, ownerUp, res, closed>> => ViewIsOld'
    BY DEF IInv, ViewIsOld
  <2> QED BY <1>1, <2>1, <2>2, <2>3
<1>6. CASE closed /\ ownerUp' /\ ~Scan
  <2>1. CASE SetupStep BY <1>2, <1>6, <2>1, SetupFrame
  <2>2. ASSUME CleanerStep PROVE (view' = view /\ todo' \subseteq todo) \/ (view' = NoResources /\ todo' = {})
    BY <1>6, <2>2 DEF CleanerStep, HandoffBegin, HandoffSaved, Scan, SkipNamespace, ReadGone,
          ReadDying, ReadFailed,
       BeforeDelete, NoteBegin, NoteSaved, DeleteProves, DeleteSent, DeleteLost, PassUnsaved,
       FlushBegin,
       FlushSaved, FinishBegin, FinishSaved, FinishUnsaved, FinishRemoved, FinishNotRemoved,
         CleanGoes, PassEnds, Visited, Deleted
  <2>3. ASSUME NEW r \in Reconcilers, ReconcileStep(r) PROVE view' = view /\ todo' = todo
    BY <2>3, ReconcileFrame DEF IInv, ownerVars, cleanVars
  <2>4. ASSUME Elsewhere PROVE (view' = view /\ todo' = todo) \/ (view' = NoResources /\ todo' = {})
    BY <2>4 DEF Elsewhere, Cancel, StopCleanup, World, ApiStep, RecordCommit, RecordRefuse, OwnerCrash,
       TerminationShown, EvidenceLost, vars, CleanGoes, PassEnds, taskVars, storeVars, ownerVars,
       stateVars, saveVars, setupVars, cleanVars
  <2> QED BY <1>1, <1>2, <1>6, <2>1, <2>2, <2>3, <2>4, NextSplit
<1> QED BY <1>3, <1>4, <1>5, <1>6 DEF IInv, TypeOK, TaskTypeOK

LEMMA CleanerAimsKept ==
  ASSUME IInv, [Next]_vars
  PROVE  CleanerAims'
<1>0. /\ \A a \in Attempts : view[a] \in Truths(a) /\ res[a] \in Facts
      /\ res \in Resources /\ OwnWasCreated
      /\ cleanPc # "off" => closed /\ ownerUp
  BY DEF IInv, CopiesAccurate, Truthful, TypeOK, TaskTypeOK, Resources, CleanerCovers
<1>1. CASE cleanPc' \notin {"note", "noteSave", "delete"}
  BY <1>1 DEF CleanerAims
<1>2. ASSUME ownerUp', cleanPc \in {"note", "noteSave", "delete"}, target' = target PROVE CleanerAims'
  <2>1. Aimed(target, res) /\ closed
    BY <1>0, <1>2 DEF IInv, CleanerAims
  <2>2. PICK a \in Attempts : /\ a = target.attempt /\ target.uid = a /\ res[a].listed /\ ~res[a].unknown
                           /\ res[a].uid = a /\ res[a].delReq
    BY <2>1 DEF Aimed
  <2>3. res'[a].listed /\ ~res'[a].unknown /\ res'[a].uid = a /\ res'[a].delReq
    BY <1>2, <2>1, <2>2, ResCompletesClosed, ResNext DEF ResCompletes, Completes, ResGoesOn
  <2> QED BY <1>2, <2>2, <2>3 DEF CleanerAims, Aimed
<1>3. ASSUME NEW a \in Attempts, BeforeDelete(a) PROVE CleanerAims'
  <2>1. view[a].listed
    BY <1>3 DEF BeforeDelete, Visits, First, IInv, ViewIsOld
  <2>2. DeleteUID(a, view[a]) = a
    BY <1>0, <1>3, <2>1, ReadOwn DEF BeforeDelete
  <2>3. res'[a] = Condemn(res[a], a) /\ target'.attempt = a /\ target'.uid = a
    BY <1>0, <1>3, <2>2 DEF BeforeDelete, TargetOf, Resources
  <2> QED BY <2>3 DEF CleanerAims, Aimed, Condemn, Entry
<1>4. CASE SetupStep
  BY <1>1, <1>2, <1>4, SetupFrame
<1>5. CASE CleanerStep
  <2>1. ownerUp'
    BY <1>5, CleanerFrame
  <2>2. \/ cleanPc' \notin {"note", "noteSave", "delete"}
        \/ cleanPc \in {"note", "noteSave", "delete"} /\ target' = target
        \/ \E a \in Attempts : BeforeDelete(a)
    BY <1>5 DEF CleanerStep, HandoffBegin, HandoffSaved, Scan, SkipNamespace, ReadGone, ReadDying,
          ReadFailed,
       BeforeDelete, NoteBegin, NoteSaved, DeleteProves, DeleteSent, DeleteLost, PassUnsaved,
       FlushBegin,
       FlushSaved, FinishBegin, FinishSaved, FinishUnsaved, FinishRemoved, FinishNotRemoved,
         CleanGoes, PassEnds, Deleted, CleanAt, Visits
  <2> QED BY <1>1, <1>2, <1>3, <2>1, <2>2
<1>6. ASSUME NEW r \in Reconcilers, ReconcileStep(r)
      PROVE  cleanPc' = cleanPc /\ target' = target /\ res' = res /\ ownerUp' = ownerUp
  BY <1>6, ReconcileFrame DEF IInv, ownerVars, cleanVars
<1>7. ASSUME Elsewhere
      PROVE  \/ cleanPc' \in {"off", "begin"}
             \/ cleanPc' = cleanPc /\ target' = target /\ res' = res /\ ownerUp' = ownerUp
  BY <1>7 DEF Elsewhere, Cancel, StopCleanup, World, ApiStep, RecordCommit, RecordRefuse, OwnerCrash,
       TerminationShown, EvidenceLost, vars, CleanGoes, PassEnds, taskVars, storeVars, ownerVars,
       stateVars, saveVars, setupVars, cleanVars
<1> QED BY <1>0, <1>1, <1>2, <1>4, <1>5, <1>6, <1>7, NextSplit

(* The gate stays shut. *)
LEMMA GateStable ==
  ASSUME IInv, [Next]_vars, Gate, ownerUp'
  PROVE  Gate'
<1>1. SetupMoves /\ closed'
  BY SetupNext, EndsStable DEF Gate
<1> QED BY <1>1 DEF SetupMoves, Gate, InCreate

AllDone == \A a \in Attempts : res[a].listed => res[a].done

LEMMA CleanerCoversKept ==
  ASSUME IInv, [Next]_vars
  PROVE  CleanerCovers'
<1> USE DEF CleanerCovers
<1>0. /\ complete => Gate /\ \A a \in Attempts : res[a].listed => res[a].done \/ a \in todo
      /\ cleanPc \in {"finish", "finishSave", "remove", "done"} =>
           Gate /\ \A a \in Attempts : res[a].listed => res[a].done
      /\ cleanPc # "off" => closed /\ ownerUp
      /\ cleanPc = "flushSave" => todo = {}
      /\ complete => cleanPc \in {"pick", "note", "noteSave", "delete", "flushSave"}
      /\ complete \in BOOLEAN
  BY DEF IInv, TypeOK, TaskTypeOK
<1>1. ASSUME Gate, ownerUp'
      PROVE  /\ Gate' /\ ResCompletes
             /\ AllDone => AllDone'
             /\ \A s : (\A a \in Attempts : res[a].listed => res[a].done \/ a \in s)
                         => \A a \in Attempts : res'[a].listed => res'[a].done \/ a \in s
  BY <1>1, GateStable, ResCompletesClosed DEF Gate, ResCompletes, Completes, AllDone
<1>2. ASSUME cleanPc' = cleanPc, complete' = complete, todo' = todo, ownerUp' = ownerUp, closed => closed'
      PROVE  CleanerCovers'
  BY <1>0, <1>1, <1>2 DEF AllDone
<1>3. CASE SetupStep
  BY <1>2, <1>3, SetupFrame
<1>4. ASSUME NEW r \in Reconcilers, ReconcileStep(r) PROVE CleanerCovers'
  BY <1>2, <1>4, ReconcileFrame DEF IInv, ownerVars, cleanVars, stateVars
<1>5. CASE Elsewhere
  <2>1. CASE cleanPc' = "off" /\ complete' = FALSE /\ todo' = {}
    BY <2>1
  <2>2. CASE cleanPc' = "begin" /\ complete' = complete /\ closed' /\ ownerUp' /\ ~closed
    BY <1>0, <2>2, CleanerOffOpen
  <2> QED BY <1>2, <1>5, <2>1, <2>2 DEF Elsewhere, Cancel, StopCleanup, World, ApiStep, RecordCommit,
        RecordRefuse, OwnerCrash,
       TerminationShown, EvidenceLost, vars, CleanGoes, PassEnds, taskVars, storeVars, ownerVars,
       stateVars, saveVars, setupVars, cleanVars
<1>6. CASE CleanerStep
  <2>0. ownerUp /\ ownerUp' /\ closed' = closed /\ cleanPc # "off" /\ closed
    <3>1. cleanPc # "off"
      BY <1>6 DEF CleanerStep, HandoffBegin, HandoffSaved, Scan, SkipNamespace, ReadGone, ReadDying,
            ReadFailed,
       BeforeDelete, NoteBegin, NoteSaved, DeleteProves, DeleteSent, DeleteLost, PassUnsaved,
       FlushBegin,
       FlushSaved, FinishBegin, FinishSaved, FinishUnsaved, FinishRemoved, FinishNotRemoved,
           CleanAt, Visits
    <3> QED BY <1>0, <1>6, <3>1, CleanerFrame
  <2>1. ASSUME complete' = FALSE, cleanPc' \in {"begin", "scan", "pick"} PROVE CleanerCovers'
    BY <2>0, <2>1
  <2>2. ASSUME complete' = complete, todo' = todo, cleanPc' \in {"note", "noteSave", "delete"} PROVE CleanerCovers'
    BY <1>0, <1>1, <2>0, <2>2
  <2>3. CASE HandoffBegin \/ HandoffSaved
    BY <1>0, <2>0, <2>3 DEF HandoffBegin, HandoffSaved, CleanGoes, CleanAt
  <2>4. CASE Scan
    <3>1. setupDone => Gate
      BY <2>0 DEF IInv, OwnerEnds, Gate, InCreate
    <3>2. complete' = setupDone /\ cleanPc' = "pick" /\ res' = res
          /\ todo' = {a \in Attempts : res[a].listed /\ ~res[a].done}
      BY <2>4 DEF Scan
    <3> QED BY <1>1, <2>0, <3>1, <3>2
  <2>5. ASSUME NEW a \in Attempts, SkipNamespace(a) \/ ReadDying(a) \/ ReadFailed(a) PROVE CleanerCovers'
    BY <2>1, <2>5 DEF SkipNamespace, ReadDying, ReadFailed, Visited, Visits, CleanAt
  <2>6. ASSUME NEW a \in Attempts, ReadGone(a) PROVE CleanerCovers'
    <3>1. /\ todo' = todo \ {a} /\ cleanPc' = "pick" /\ complete' \in BOOLEAN
          /\ complete' => complete /\ GoneIsProof(a, view[a])
      BY <1>0, <2>6 DEF ReadGone, Visited, Visits, CleanAt
    <3>2. CASE ~complete'
      BY <2>1, <3>1, <3>2
    <3>3. CASE complete'
      <4>1. res'[a].done
        BY <2>6, <3>1, <3>3 DEF ReadGone, IInv, TypeOK, TaskTypeOK, Resources, MarkDone, Entry
      <4>2. \A b \in Attempts : res'[b].listed => res'[b].done \/ b \in todo
        BY <1>0, <1>1, <2>0, <3>1, <3>3
      <4> QED BY <1>0, <1>1, <2>0, <3>1, <3>3, <4>1, <4>2
    <3> QED BY <3>2, <3>3
  <2>7. ASSUME NEW a \in Attempts, BeforeDelete(a) PROVE CleanerCovers'
    BY <2>2, <2>7 DEF BeforeDelete
  <2>8. CASE NoteBegin \/ NoteSaved
    BY <2>2, <2>8 DEF NoteBegin, NoteSaved, CleanGoes
  <2>9. CASE DeleteProves
    <3>1. PICK a \in Attempts : a = target.attempt
      BY <2>9 DEF DeleteProves, CleanAt, IInv, CleanerAims, Aimed
    <3>2. todo' = todo \ {a} /\ cleanPc' = "pick" /\ complete' = complete /\ res'[a].done
      BY <1>0, <2>9, <3>1 DEF DeleteProves, Deleted, Visited, IInv, TypeOK, TaskTypeOK, Resources,
            MarkDone, Entry
    <3>3. CASE complete
      <4>1. \A b \in Attempts : res'[b].listed => res'[b].done \/ b \in todo
        BY <1>0, <1>1, <2>0, <3>3
      <4> QED BY <1>0, <1>1, <2>0, <3>2, <3>3, <4>1
    <3> QED BY <1>0, <2>1, <3>2, <3>3
  <2>10. CASE DeleteSent \/ DeleteLost
    BY <2>1, <2>10 DEF DeleteSent, DeleteLost, Deleted, Visited
  <2>11. CASE PassUnsaved
    <3>1. CASE ~complete
      BY <2>1, <2>11, <3>1 DEF PassUnsaved, PassEnds
    <3>2. CASE complete
      <4>1. Gate /\ AllDone
        BY <1>0, <2>11, <3>2 DEF PassUnsaved, AllDone
      <4> QED BY <1>1, <2>0, <2>11, <3>2, <4>1 DEF PassUnsaved, PassEnds, AllDone
    <3> QED BY <3>1, <3>2
  <2>12. CASE FlushBegin
    BY <1>0, <1>1, <2>0, <2>12 DEF FlushBegin, CleanGoes, CleanAt
  <2>13. CASE FlushSaved
    <3>1. CASE PassEnds("begin")
      BY <2>1, <3>1 DEF PassEnds
    <3>2. CASE complete /\ PassEnds("finish")
      <4>1. Gate /\ AllDone
        BY <1>0, <2>13, <3>2 DEF FlushSaved, CleanAt, AllDone
      <4> QED BY <1>1, <2>0, <3>2, <4>1 DEF PassEnds, AllDone
    <3> QED BY <2>13, <3>1, <3>2 DEF FlushSaved
  <2>14. CASE FinishBegin \/ FinishSaved \/ FinishUnsaved \/ FinishRemoved \/ FinishNotRemoved
    <3>1. /\ cleanPc \in {"finish", "finishSave", "remove", "done"} /\ complete' = complete /\ todo' = todo
          /\ cleanPc' \in {"finishSave", "remove", "done", "begin"}
      BY <2>14 DEF FinishBegin, FinishSaved, FinishUnsaved, FinishRemoved, FinishNotRemoved, CleanAt,
            CleanGoes
    <3> QED BY <1>0, <1>1, <2>0, <3>1 DEF AllDone
  <2> QED BY <1>6, <2>3, <2>4, <2>5, <2>6, <2>7, <2>8, <2>9, <2>10, <2>11, <2>12, <2>13, <2>14
        DEF CleanerStep
<1> QED BY <1>3, <1>4, <1>5, <1>6, NextSplit




LEMMA SaveMutexKept ==
  ASSUME IInv, [Next]_vars
  PROVE  SaveMutex'
<1> USE DEF SaveMutex
<1>0. /\ setupPc \in {"intentSave", "outcomeSave"} => persist = "setup"
      /\ cleanPc \in {"beginSave", "noteSave", "flushSave", "finishSave", "remove"} => persist = "clean"
  BY DEF IInv
<1>1. CASE SetupStep
  <2>1. \/ setupPc' \notin {"intentSave", "outcomeSave"} /\ persist' = persist
        \/ setupPc' \notin {"intentSave", "outcomeSave"} /\ setupPc \in {"intentSave", "outcomeSave"}
        \/ persist = "free" /\ persist' = "setup"
    BY <1>1 DEF SetupGoes, SetupAt, TakeSave, AfterOutcome, saveVars, SetupStep, SetupSkipped,
          SetupStart, ChecksPassed, ChecksFailed, InitializeSend, InitializeOk,
       InitializeRejected, InitializeLost, CreateBlocked, CreateIntent, IntentBegin, IntentSaved,
       IntentUnsaved,
       CreateSend, CreateUnsent, CreateOk, CreateRejected, CreateLost, OutcomeBegin, OutcomeSaved,
       SetupReturn,
       CreateReturns
  <2> QED BY <1>0, <1>1, <2>1, SetupFrame
<1>2. CASE CleanerStep
  <2>1. \/ cleanPc' \notin {"beginSave", "noteSave", "flushSave", "finishSave", "remove"} /\ persist' = persist
        \/ /\ cleanPc' \notin {"beginSave", "noteSave", "flushSave", "finishSave", "remove"}
           /\ cleanPc \in {"beginSave", "noteSave", "flushSave", "finishSave", "remove"}
        \/ persist = "free" /\ persist' = "clean"
        \/ cleanPc = "finishSave" /\ cleanPc' = "remove" /\ persist' = persist
    BY <1>2 DEF CleanGoes, CleanAt, Visits, TakeSave, PassEnds, Deleted, saveVars, CleanerStep,
          HandoffBegin, HandoffSaved, Scan, SkipNamespace, ReadGone, ReadDying, ReadFailed,
       BeforeDelete, NoteBegin, NoteSaved, DeleteProves, DeleteSent, DeleteLost, PassUnsaved,
       FlushBegin,
       FlushSaved, FinishBegin, FinishSaved, FinishUnsaved, FinishRemoved, FinishNotRemoved
  <2> QED BY <1>0, <1>2, <2>1, CleanerFrame
<1>3. ASSUME NEW r \in Reconcilers, ReconcileStep(r) PROVE UNCHANGED <<persist, setupPc, cleanPc>>
  BY <1>3, ReconcileFrame DEF IInv, ownerVars, cleanVars, setupVars, saveVars
<1>4. ASSUME Elsewhere
      PROVE  \/ UNCHANGED <<persist, setupPc>> /\ cleanPc' \in {cleanPc, "begin"}
             \/ setupPc' = "returned" /\ cleanPc' = "off"
  BY <1>4 DEF Elsewhere, Cancel, StopCleanup, World, ApiStep, RecordCommit, RecordRefuse, OwnerCrash,
       TerminationShown, EvidenceLost, vars, CleanGoes, PassEnds, taskVars, storeVars, ownerVars,
       stateVars, saveVars, setupVars, cleanVars
<1> QED BY <1>0, <1>1, <1>2, <1>3, <1>4, NextSplit

LEMMA OwnerEndsKept ==
  ASSUME IInv, [Next]_vars
  PROVE  OwnerEnds'
<1> USE DEF OwnerEnds
<1>0. /\ setupDone => setupPc \in {"idle", "returned"}
      /\ evidence = "shown" => ~ownerUp
      /\ ~ownerUp => setupPc = "returned" /\ cleanPc = "off"
  BY DEF IInv
<1>1. CASE SetupStep /\ UNCHANGED recoveryVars
  <2>1. setupDone' => (setupPc \in {"idle", "returned"} /\ setupPc' = setupPc) \/ setupPc' = "returned" \/ ~SetupStep
    BY <1>0, <1>1 DEF SetupGoes, SetupAt, stateVars, SetupStep, SetupSkipped, SetupStart,
          ChecksPassed, ChecksFailed, InitializeSend, InitializeOk,
       InitializeRejected, InitializeLost, CreateBlocked, CreateIntent, IntentBegin, IntentSaved,
       IntentUnsaved,
       CreateSend, CreateUnsent, CreateOk, CreateRejected, CreateLost, OutcomeBegin, OutcomeSaved,
       SetupReturn,
       CreateReturns
  <2> QED BY <1>0, <1>1, <2>1, SetupFrame DEF recoveryVars
<1>2. CASE CleanerStep /\ UNCHANGED recoveryVars
  BY <1>0, <1>2, CleanerFrame DEF recoveryVars
<1>3. ASSUME NEW r \in Reconcilers, ReconcileStep(r) PROVE OwnerEnds'
  BY <1>0, <1>3, ReconcileFrame DEF IInv, ownerVars, cleanVars, setupVars, stateVars
<1>4. CASE Elsewhere
  BY <1>0, <1>4 DEF Elsewhere, Cancel, StopCleanup, World, ApiStep, RecordCommit, RecordRefuse,
        OwnerCrash,
       TerminationShown, EvidenceLost, vars, CleanGoes, PassEnds, recoveryVars, taskVars, storeVars,
       ownerVars, stateVars, saveVars, setupVars, cleanVars
<1> QED BY <1>1, <1>2, <1>3, <1>4, NextSplit

LEMMA LiveTaskStays ==
  ASSUME IInv, [Next]_vars
  PROVE  LiveTaskKept'
<1> USE DEF LiveTaskKept
<1>0. closed \/ ~ownerUp => closed' \/ ~ownerUp'
  BY EndsStable
<1>1. deletesSent' = deletesSent \/ closed \/ ~ownerUp
  <2>1. CASE SetupStep BY <2>1, SetupFrame
  <2>2. CASE CleanerStep BY <2>2, CleanerFrame DEF IInv, CleanerCovers
  <2>3. ASSUME NEW r \in Reconcilers, ReconcileStep(r) PROVE deletesSent' = deletesSent \/ closed \/ ~ownerUp
    <3>1. worker[r].pc = "delete" => worker[r].rec.closed /\ worker[r].rec \in Accurate
      BY DEF IInv, CopiesAccurate, Scans
    <3> QED BY <2>3, <3>1, ReconcileFrame DEF IInv, Accurate
  <2>4. CASE Elsewhere
    <3>1. ASSUME ApiStep PROVE deletesSent' = deletesSent
      BY <3>1 DEF ApiStep, ApiNext, Commit, Refuse, Finalize, ExternalDelete, ForeignCreate
    <3> QED BY <2>4, <3>1 DEF Elsewhere, Cancel, StopCleanup, World, RecordCommit, RecordRefuse,
          OwnerCrash,
              TerminationShown, EvidenceLost, vars, taskVars, apiVars
  <2> QED BY <2>1, <2>2, <2>3, <2>4, NextSplit
<1> QED BY <1>0, <1>1 DEF IInv

(* A goroutine without a record never saves. *)
LEMMA CleanerNoRecord ==
  ASSUME CleanerStep, ~Durable, cleanPc \in NoRecordPcs
  PROVE  cleanPc' \in NoRecordPcs /\ UNCHANGED storeVars
BY DEF NoRecordPcs, CleanGoes, CleanAt, Visits, PassEnds, Deleted, CleanerStep, HandoffBegin,
      HandoffSaved, Scan, SkipNamespace, ReadGone, ReadDying, ReadFailed,
       BeforeDelete, NoteBegin, NoteSaved, DeleteProves, DeleteSent, DeleteLost, PassUnsaved,
       FlushBegin,
       FlushSaved, FinishBegin, FinishSaved, FinishUnsaved, FinishRemoved, FinishNotRemoved

(* Who removes the record knows that it is complete. *)
LEMMA RemovedComplete ==
  ASSUME IInv, cm = "stored",
         \/ CleanAt("remove") /\ RecordComplete(snap) /\ RemoveBy(Owner)
         \/ \E r \in Reconcilers : At(r, "ack") /\ RemoveBy(r)
  PROVE  RecordComplete(record)
BY DEF IInv, HoldersKnow, CopiesAccurate, Scans, CleanAt, At, RemoveBy

(* What is complete is over. *)
LEMMA CompleteOver ==
  ASSUME IInv, RecordComplete(record), cm = "stored", Recovery
  PROVE  setupPc = "returned" /\ \A a \in Attempts : ~Live(a)
<1>1. setupPc = "returned"
  BY DEF IInv, CopiesAccurate, Accurate, RecordComplete
<1>2. ASSUME NEW a \in Attempts, Live(a) PROVE FALSE
  <2>1. record.res[a].listed
    BY <1>2 DEF IInv, RecordLeads
  <2>2. Settled(a)
    BY <2>1 DEF IInv, CopiesAccurate, Accurate, Truthful, Truths, RecordComplete
  <2> QED BY <1>2, <2>2 DEF Live, Settled, IInv, OwnWasCreated
<1> QED BY <1>1, <1>2

StoreGoesOn ==
  /\ cm = "stored" =>
       \/ cm' = "stored" /\ \A a \in Attempts : record.res[a].listed => record'.res[a].listed
       \/ cm' = "removed" /\ RecordComplete(record)
  /\ cm = "none" => cm' = "none" \/ (setupPc = "init" /\ setupPc' = "initWait")
  /\ cm # "stored" => record' = record /\ holders' = holders

LEMMA SaveByGoesOn ==
  ASSUME IInv, NEW w, NEW rec \in Accurate, SaveBy(w, rec)
  PROVE  StoreGoesOn
<1>1. record.res \in Resources /\ rec.res \in Resources
  BY DEF IInv, CopiesAccurate, Accurate, Truthful
<1>2. \A a \in Attempts : record.res[a].listed => MergeRecord(record, rec).res[a].listed
  BY <1>1, MergeListed DEF MergeRecord
<1> QED BY <1>2 DEF SaveBy, Saved, CanSave, StoreGoesOn

LEMMA RemoveByGoesOn ==
  ASSUME NEW w, RemoveBy(w), RecordComplete(record)
  PROVE  StoreGoesOn
BY DEF RemoveBy, StoreGoesOn

(* Every way the store changes; one of them at a time, and never together  *)
(* with the objects.                                                       *)
LEMMA StoreCases ==
  ASSUME IInv, [Next]_vars
  PROVE  \/ UNCHANGED storeVars
         \/ \E w : \E rec \in Accurate : SaveBy(w, rec)
         \/ \E w : RemoveBy(w) /\ RecordComplete(record)
         \/ /\ cm = "none" /\ cm' = "inflight" /\ setupPc = "init" /\ setupPc' = "initWait"
            /\ record' = record /\ holders' = holders
         \/ cm = "inflight" /\ cm' \in {"stored", "refused"} /\ record' = record /\ holders' = holders
<1>0. snap \in Accurate /\ \A r \in Reconcilers : worker[r].rec \in Accurate
  BY DEF IInv, CopiesAccurate, Scans
<1>1. CASE SetupStep
  <2>1. UNCHANGED storeVars \/ SaveBy(Owner, snap) \/ InitializeSend
    BY <1>1 DEF SyncAnswered, SaveAnswered, SetupStep, SetupSkipped, SetupStart, ChecksPassed,
          ChecksFailed, InitializeSend, InitializeOk,
       InitializeRejected, InitializeLost, CreateBlocked, CreateIntent, IntentBegin, IntentSaved,
       IntentUnsaved,
       CreateSend, CreateUnsent, CreateOk, CreateRejected, CreateLost, OutcomeBegin, OutcomeSaved,
       SetupReturn,
       CreateReturns
  <2>2. InitializeSend => /\ cm = "none" /\ cm' = "inflight" /\ setupPc = "init" /\ setupPc' = "initWait"
                          /\ record' = record /\ holders' = holders
    BY DEF InitializeSend, SetupAt, SetupGoes, IInv, RecordKept
  <2> QED BY <1>0, <2>1, <2>2
<1>2. CASE CleanerStep
  <2>1. \/ UNCHANGED storeVars \/ SaveBy(Owner, snap)
        \/ CleanAt("remove") /\ RecordComplete(snap) /\ RemoveBy(Owner)
    BY <1>2 DEF SyncAnswered, SaveAnswered, Deleted, CleanerStep, HandoffBegin, HandoffSaved, Scan,
          SkipNamespace, ReadGone, ReadDying, ReadFailed,
       BeforeDelete, NoteBegin, NoteSaved, DeleteProves, DeleteSent, DeleteLost, PassUnsaved,
       FlushBegin,
       FlushSaved, FinishBegin, FinishSaved, FinishUnsaved, FinishRemoved, FinishNotRemoved
  <2> QED BY <1>0, <2>1, RemovedComplete DEF RemoveBy
<1>3. ASSUME NEW r \in Reconcilers, ReconcileStep(r)
      PROVE  UNCHANGED storeVars \/ SaveBy(r, worker[r].rec) \/ (RemoveBy(r) /\ RecordComplete(record))
  <2>1. UNCHANGED storeVars \/ SaveBy(r, worker[r].rec) \/ (At(r, "ack") /\ RemoveBy(r))
    BY <1>3 DEF Rec, taskVars, ReconcileStep, List, JudgeClosed, JudgeTerminated, TakeOver, GiveUp,
          SkipEntry, EntryGone, EntryDying,
       EntryFailed, EntryCondemned, NoteStored, NoteFailed, DeleteEntry, FinalSaved, RemoveRecord
  <2> QED BY <2>1, RemovedComplete DEF RemoveBy
<1>4. CASE Elsewhere
  BY <1>4 DEF storeVars, taskVars, Elsewhere, Cancel, StopCleanup, World, ApiStep, RecordCommit,
        RecordRefuse, OwnerCrash,
       TerminationShown, EvidenceLost, vars
<1> QED BY <1>0, <1>1, <1>2, <1>3, <1>4, NextSplit

LEMMA StoreNext ==
  ASSUME IInv, [Next]_vars
  PROVE  StoreGoesOn
<1>1. CASE UNCHANGED storeVars
  BY <1>1 DEF storeVars, StoreGoesOn
<1>2. ASSUME NEW w, RemoveBy(w), RecordComplete(record) PROVE StoreGoesOn
  BY <1>2, RemoveByGoesOn
<1>3. ASSUME cm \in {"none", "inflight"}, cm = "none" => setupPc = "init" /\ setupPc' = "initWait",
             record' = record, holders' = holders
      PROVE  StoreGoesOn
  BY <1>3 DEF StoreGoesOn
<1> QED BY <1>1, <1>2, <1>3, StoreCases, SaveByGoesOn

RequiredMoves ==
  \/ recordRequired' = recordRequired /\ ~(setupPc = "init" /\ setupPc' = "initWait")
  \/ setupPc = "init" /\ setupPc' = "initWait" /\ recordRequired'
  \/ setupPc = "initWait" /\ setupPc' = "failed" /\ ~recordRequired'
  \/ ~recordRequired' /\ setupPc' = "returned" /\ cleanPc' = "off"

LEMMA RequiredNext ==
  ASSUME IInv, [Next]_vars
  PROVE  RequiredMoves
<1>1. CASE SetupStep BY <1>1 DEF RequiredMoves, SetupGoes, SetupAt, AfterOutcome, stateVars,
      SetupStep, SetupSkipped, SetupStart, ChecksPassed, ChecksFailed, InitializeSend, InitializeOk,
       InitializeRejected, InitializeLost, CreateBlocked, CreateIntent, IntentBegin, IntentSaved,
       IntentUnsaved,
       CreateSend, CreateUnsent, CreateOk, CreateRejected, CreateLost, OutcomeBegin, OutcomeSaved,
       SetupReturn,
       CreateReturns
<1>2. CASE CleanerStep BY <1>2, CleanerFrame DEF RequiredMoves
<1>3. ASSUME NEW r \in Reconcilers, ReconcileStep(r) PROVE RequiredMoves
  BY <1>3, ReconcileFrame DEF IInv, ownerVars, stateVars, setupVars, RequiredMoves
<1>4. CASE Elsewhere
  BY <1>4 DEF RequiredMoves, PassEnds, Elsewhere, Cancel, StopCleanup, World, ApiStep, RecordCommit,
        RecordRefuse, OwnerCrash,
       TerminationShown, EvidenceLost, vars, taskVars, storeVars, ownerVars, stateVars, saveVars,
       setupVars, cleanVars
<1> QED BY <1>1, <1>2, <1>3, <1>4, NextSplit

LEMMA RecordKeptStays ==
  ASSUME IInv, [Next]_vars
  PROVE  RecordKept'
<1>1. /\ setupPc \in {"idle", "checks", "init"} => ~recordRequired /\ cm = "none" /\ cleanPc \in NoRecordPcs
      /\ setupPc = "initWait" => recordRequired
      /\ setupPc \in {"init", "initWait"} => Recovery
      /\ cm # "stored" => record = EmptyRecord /\ holders = {}
      /\ ~Recovery => ~recordRequired /\ cm = "none" /\ cleanPc \in NoRecordPcs
      /\ ~ownerUp => setupPc = "returned" /\ cleanPc = "off"
  BY DEF IInv, RecordKept, OwnerEnds
<1>2. SetupMoves \/ (setupPc' = "returned" /\ cleanPc' = "off" /\ ~ownerUp')
  <2>1. ~ownerUp' => (setupPc' = "returned" /\ cleanPc' = "off")
    BY OwnerEndsKept DEF OwnerEnds
  <2> QED BY <2>1, SetupNext
<1>3. setupPc = "checks" /\ setupPc' = "init" => Recovery
  <2>1. CASE SetupStep
    BY <2>1 DEF SetupGoes, SetupAt, AfterOutcome, SetupStep, SetupSkipped, SetupStart, ChecksPassed,
          ChecksFailed, InitializeSend, InitializeOk,
       InitializeRejected, InitializeLost, CreateBlocked, CreateIntent, IntentBegin, IntentSaved,
       IntentUnsaved,
       CreateSend, CreateUnsent, CreateOk, CreateRejected, CreateLost, OutcomeBegin, OutcomeSaved,
       SetupReturn,
       CreateReturns
  <2>2. CASE CleanerStep BY <2>2, CleanerFrame
  <2>3. ASSUME NEW r \in Reconcilers, ReconcileStep(r) PROVE setupPc' = setupPc
    BY <2>3, ReconcileFrame DEF IInv, ownerVars, setupVars
  <2>4. ASSUME Elsewhere PROVE setupPc' \in {setupPc, "returned"}
    BY <2>4 DEF Elsewhere, Cancel, StopCleanup, World, ApiStep, RecordCommit, RecordRefuse, OwnerCrash,
       TerminationShown, EvidenceLost, vars, taskVars, storeVars, ownerVars, stateVars, saveVars,
       setupVars, cleanVars
  <2> QED BY <2>1, <2>2, <2>3, <2>4, NextSplit
<1>4. ~Durable /\ cleanPc \in NoRecordPcs => cleanPc' \in NoRecordPcs
  <2>1. CASE SetupStep BY <2>1, SetupFrame
  <2>2. CASE CleanerStep BY <2>2, CleanerNoRecord
  <2>3. ASSUME NEW r \in Reconcilers, ReconcileStep(r) PROVE cleanPc' = cleanPc
    BY <2>3, ReconcileFrame DEF IInv, ownerVars, cleanVars
  <2>4. ASSUME Elsewhere PROVE cleanPc' \in {cleanPc, "off", "begin"}
    BY <2>4 DEF CleanGoes, PassEnds, Elsewhere, Cancel, StopCleanup, World, ApiStep, RecordCommit,
          RecordRefuse, OwnerCrash,
       TerminationShown, EvidenceLost, vars, taskVars, storeVars, ownerVars, stateVars, saveVars,
       setupVars, cleanVars
  <2> QED BY <2>1, <2>2, <2>3, <2>4, NextSplit DEF NoRecordPcs
<1>5. cm' # "stored" => record' = EmptyRecord /\ holders' = {}
  <2>1. CASE cm # "stored" BY <1>1, <2>1, StoreNext DEF StoreGoesOn
  <2>2. CASE cm = "stored" /\ cm' # "stored"
    <3>1. (\E w : RemoveBy(w)) \/ UNCHANGED <<cm, holders>> \/ cm' = cm
      <4>1. CASE SetupStep
        BY <1>1, <2>2, <4>1 DEF SyncAnswered, SaveAnswered, SaveBy, storeVars, SetupAt, SetupStep,
              SetupSkipped, SetupStart, ChecksPassed, ChecksFailed, InitializeSend, InitializeOk,
       InitializeRejected, InitializeLost, CreateBlocked, CreateIntent, IntentBegin, IntentSaved,
       IntentUnsaved,
       CreateSend, CreateUnsent, CreateOk, CreateRejected, CreateLost, OutcomeBegin, OutcomeSaved,
       SetupReturn,
       CreateReturns
      <4>2. CASE CleanerStep
        BY <4>2 DEF SyncAnswered, SaveAnswered, SaveBy, Deleted, storeVars, CleanerStep,
              HandoffBegin, HandoffSaved, Scan, SkipNamespace, ReadGone, ReadDying, ReadFailed,
       BeforeDelete, NoteBegin, NoteSaved, DeleteProves, DeleteSent, DeleteLost, PassUnsaved,
       FlushBegin,
       FlushSaved, FinishBegin, FinishSaved, FinishUnsaved, FinishRemoved, FinishNotRemoved
      <4>3. ASSUME NEW r \in Reconcilers, ReconcileStep(r) PROVE (\E w : RemoveBy(w)) \/ cm' = cm
        BY <4>3 DEF SaveBy, taskVars, storeVars, ReconcileStep, List, JudgeClosed, JudgeTerminated,
              TakeOver, GiveUp, SkipEntry, EntryGone, EntryDying,
       EntryFailed, EntryCondemned, NoteStored, NoteFailed, DeleteEntry, FinalSaved, RemoveRecord
      <4>4. ASSUME Elsewhere PROVE cm' = cm \/ cm = "inflight"
        BY <4>4 DEF Elsewhere, Cancel, StopCleanup, World, ApiStep, RecordCommit, RecordRefuse,
              OwnerCrash,
       TerminationShown, EvidenceLost, vars, taskVars, storeVars
      <4> QED BY <2>2, <4>1, <4>2, <4>3, <4>4, NextSplit
    <3> QED BY <2>2, <3>1 DEF RemoveBy
  <2> QED BY <2>1, <2>2
<1> USE DEF RecordKept
<1>6. setupPc' = "initWait" => recordRequired'
  BY <1>1, <1>2, RequiredNext DEF SetupMoves, RequiredMoves
<1>7. setupPc' \in {"init", "initWait"} => Recovery
  BY <1>1, <1>2, <1>3 DEF SetupMoves
<1>8. setupPc' \in {"idle", "checks", "init"} => ~recordRequired' /\ cm' = "none" /\ cleanPc' \in NoRecordPcs
  BY <1>1, <1>2, <1>4, RequiredNext, StoreNext DEF SetupMoves, RequiredMoves, StoreGoesOn, Durable
<1>9. ~Recovery => ~recordRequired' /\ cm' = "none" /\ cleanPc' \in NoRecordPcs
  BY <1>1, <1>4, RequiredNext, StoreNext DEF RequiredMoves, StoreGoesOn, Durable
<1> QED BY <1>5, <1>6, <1>7, <1>8, <1>9

LEMMA HoldersKnowKept ==
  ASSUME IInv, [Next]_vars
  PROVE  HoldersKnow'
<1> USE DEF HoldersKnow
<1>0. /\ cleanPc = "remove" /\ Owner \in holders => record = snap
      /\ \A r \in Reconcilers : worker[r].pc = "ack" /\ r \in holders => record = worker[r].rec
      /\ \A r \in Reconcilers : r # Owner
      /\ setupPc \in {"intentSave", "outcomeSave"} => persist = "setup"
      /\ cleanPc = "remove" => persist = "clean"
  <2>1. HoldersKnow /\ SaveMutex
    BY DEF IInv
  <2>2. \A r \in Reconcilers : r # Owner
    BY ReconcilersAssumption
  <2> QED BY <2>1, <2>2 DEF SaveMutex
<1>1. ASSUME NEW w, NEW rec, SaveBy(w, rec), NEW q, q # w, q \in holders' PROVE record' = record /\ q \in holders
  BY <1>1 DEF SaveBy
<1>2. CASE SetupStep /\ UNCHANGED recoveryVars
  <2>1. \/ UNCHANGED <<record, holders, snap>>
        \/ UNCHANGED <<record, holders>> /\ persist = "free"
        \/ setupPc \in {"intentSave", "outcomeSave"} /\ (SaveBy(Owner, snap) \/ UNCHANGED storeVars)
    BY <1>2 DEF SyncAnswered, SaveAnswered, TakeSave, SetupAt, storeVars, saveVars, SetupStep,
          SetupSkipped, SetupStart, ChecksPassed, ChecksFailed, InitializeSend, InitializeOk,
       InitializeRejected, InitializeLost, CreateBlocked, CreateIntent, IntentBegin, IntentSaved,
       IntentUnsaved,
       CreateSend, CreateUnsent, CreateOk, CreateRejected, CreateLost, OutcomeBegin, OutcomeSaved,
       SetupReturn,
       CreateReturns
  <2> QED BY <1>0, <1>1, <1>2, <2>1, SetupFrame DEF recoveryVars, storeVars
<1>3. CASE CleanerStep /\ UNCHANGED recoveryVars
  <2>1. CASE FinishSaved
    BY <1>0, <1>1, <1>3, <2>1 DEF FinishSaved, SaveBy, recoveryVars
  <2>2. CASE ~FinishSaved
    <3>1. cleanPc' # "remove"
      BY <1>3, <2>2 DEF CleanGoes, CleanAt, Visits, PassEnds, Deleted, CleanerStep, HandoffBegin,
            HandoffSaved, Scan, SkipNamespace, ReadGone, ReadDying, ReadFailed,
       BeforeDelete, NoteBegin, NoteSaved, DeleteProves, DeleteSent, DeleteLost, PassUnsaved,
       FlushBegin,
       FlushSaved, FinishBegin, FinishSaved, FinishUnsaved, FinishRemoved, FinishNotRemoved
    <3>2. UNCHANGED storeVars \/ SaveBy(Owner, snap) \/ holders' = {}
      BY <1>3, <2>2 DEF SyncAnswered, SaveAnswered, Deleted, RemoveBy, CleanerStep, HandoffBegin,
            HandoffSaved, Scan, SkipNamespace, ReadGone, ReadDying, ReadFailed,
       BeforeDelete, NoteBegin, NoteSaved, DeleteProves, DeleteSent, DeleteLost, PassUnsaved,
       FlushBegin,
       FlushSaved, FinishBegin, FinishSaved, FinishUnsaved, FinishRemoved, FinishNotRemoved
    <3> QED BY <1>0, <1>1, <1>3, <3>1, <3>2 DEF recoveryVars, storeVars
  <2> QED BY <2>1, <2>2
<1>4. ASSUME NEW r \in Reconcilers, ReconcileStep(r) PROVE HoldersKnow'
  <2>0. /\ cleanPc' = cleanPc /\ snap' = snap /\ \A q \in Reconcilers \ {r} : worker'[q] = worker[q]
        /\ worker \in [Reconcilers -> Workers]
    BY <1>4, ReconcileFrame DEF IInv, TypeOK, ownerVars, cleanVars, saveVars
  <2>1. UNCHANGED storeVars \/ SaveBy(r, worker[r].rec) \/ holders' = {}
    BY <1>4 DEF Rec, RemoveBy, taskVars, ReconcileStep, List, JudgeClosed, JudgeTerminated, TakeOver,
          GiveUp, SkipEntry, EntryGone, EntryDying,
       EntryFailed, EntryCondemned, NoteStored, NoteFailed, DeleteEntry, FinalSaved, RemoveRecord
  <2>2. CASE worker'[r].pc = "ack"
    <3>1. SaveBy(r, worker[r].rec) /\ worker'[r].rec = Saved(worker[r].rec)
      <4>1. ASSUME NEW a \in Attempts,
                   SkipEntry(r, a) \/ EntryGone(r, a) \/ EntryDying(r, a) \/ EntryFailed(r, a) \/ EntryCondemned(r, a)
            PROVE  worker'[r].pc \in {"each", "note"}
        BY <2>0, <4>1 DEF EntryReturns, EntryLeaves, SkipEntry, EntryGone, EntryDying, EntryFailed,
              EntryCondemned
      <4>2. CASE \/ List(r) \/ JudgeClosed(r) \/ JudgeTerminated(r) \/ TakeOver(r) \/ GiveUp(r)
                 \/ NoteStored(r) \/ NoteFailed(r) \/ DeleteEntry(r) \/ RemoveRecord(r)
        BY <2>0, <2>2, <4>2 DEF Goes, EntryReturns, EntryLeaves, IdleWorker,
             List, JudgeClosed, JudgeTerminated, TakeOver, GiveUp, NoteStored, NoteFailed,
             DeleteEntry, RemoveRecord
      <4>3. CASE FinalSaved(r)
        BY <2>0, <2>2, <4>3 DEF FinalSaved, Goes, IdleWorker, Rec
      <4> QED BY <1>4, <2>2, <4>1, <4>2, <4>3 DEF ReconcileStep
    <3> QED BY <1>0, <1>1, <2>0, <3>1 DEF SaveBy
  <2>3. CASE worker'[r].pc # "ack"
    BY <1>0, <1>1, <2>0, <2>1, <2>3 DEF storeVars
  <2> QED BY <2>2, <2>3
<1>5. CASE Elsewhere
  <2>1. /\ UNCHANGED <<record, holders, worker>>
        /\ cleanPc' \in {"off", "begin"} \/ UNCHANGED <<cleanPc, snap>>
    BY <1>5 DEF CleanGoes, PassEnds, recoveryVars, Elsewhere, Cancel, StopCleanup, World, ApiStep,
          RecordCommit, RecordRefuse, OwnerCrash,
       TerminationShown, EvidenceLost, vars, taskVars, storeVars, ownerVars, stateVars, saveVars,
       setupVars, cleanVars
  <2> QED BY <1>0, <2>1
<1> QED BY <1>2, <1>3, <1>4, <1>5, NextSplit

LEMMA RecordLeadsKept ==
  ASSUME IInv, [Next]_vars
  PROVE  RecordLeads'
<1> SUFFICES ASSUME Recovery PROVE RecordLeads'
  BY DEF RecordLeads
<1>0. /\ \A a \in Attempts : Live(a) => cm = "stored" /\ record.res[a].listed
      /\ setupPc = "intentSave" => snap.res[next].listed
      /\ setupPc \in {"send", "wait"} => record.res[next].listed
      /\ InCreate \/ setupPc \in {"create", "succeeded"} => recordRequired /\ cm = "stored"
      /\ next \in Attempts
  BY DEF IInv, RecordLeads, TypeOK, TaskTypeOK
<1>1. cm = "stored" /\ (setupPc # "returned" \/ \E a \in Attempts : Live(a))
        => cm' = "stored" /\ \A a \in Attempts : record.res[a].listed => record'.res[a].listed
  BY StoreNext, CompleteOver DEF StoreGoesOn
<1>2. SetupMoves \/ setupPc' = "returned"
  <2>1. ~ownerUp' => setupPc' = "returned"
    BY OwnerEndsKept DEF OwnerEnds
  <2> QED BY <2>1, SetupNext
<1>3. ASSUME NEW a \in Attempts, Live(a)' PROVE cm' = "stored" /\ record'.res[a].listed
  <2>1. CASE Live(a)
    BY <1>0, <1>1, <2>1
  <2>2. CASE ~Live(a)
    <3>1. a = next /\ setupPc = "send"
      BY <1>3, <2>2, RequestMove, ObjectMove DEF Live, OwnExists, IInv
    <3> QED BY <1>0, <1>1, <3>1 DEF InCreate
  <2> QED BY <2>1, <2>2
<1>4. ASSUME setupPc' = "intentSave" PROVE snap'.res[next'].listed
  <2>1. CASE IntentBegin
    BY <1>0, <2>1 DEF IntentBegin, TakeSave, Snapshot, SetupAt, SetupGoes, IInv, OwnerLists
  <2>2. CASE ~IntentBegin
    <3>1. setupPc = "intentSave" /\ next' = next /\ snap' = snap
      <4>1. ASSUME SetupStep PROVE FALSE
        BY <1>4, <2>2, <4>1 DEF SetupGoes, SetupAt, AfterOutcome, SetupStep, SetupSkipped,
              SetupStart, ChecksPassed, ChecksFailed, InitializeSend, InitializeOk,
       InitializeRejected, InitializeLost, CreateBlocked, CreateIntent, IntentBegin, IntentSaved,
       IntentUnsaved,
       CreateSend, CreateUnsent, CreateOk, CreateRejected, CreateLost, OutcomeBegin, OutcomeSaved,
       SetupReturn,
       CreateReturns
      <4>2. ASSUME CleanerStep, setupPc' = setupPc PROVE snap' = snap
        <5>1. persist = "setup"
          BY <1>4, <4>2 DEF IInv, SaveMutex
        <5>2. snap' = snap \/ persist = "free" \/ cleanPc \in {"beginSave", "noteSave", "flushSave", "finishSave", "remove"}
          BY <4>2 DEF SyncAnswered, TakeSave, Deleted, saveVars, CleanAt, CleanerStep, HandoffBegin,
                HandoffSaved, Scan, SkipNamespace, ReadGone, ReadDying, ReadFailed,
       BeforeDelete, NoteBegin, NoteSaved, DeleteProves, DeleteSent, DeleteLost, PassUnsaved,
       FlushBegin,
       FlushSaved, FinishBegin, FinishSaved, FinishUnsaved, FinishRemoved, FinishNotRemoved
        <5> QED BY <5>1, <5>2 DEF IInv, SaveMutex
      <4>3. CASE CleanerStep
        BY <1>4, <4>2, <4>3, CleanerFrame
      <4>4. ASSUME NEW r \in Reconcilers, ReconcileStep(r) PROVE UNCHANGED <<setupPc, next, snap>>
        BY <4>4, ReconcileFrame DEF IInv, ownerVars, setupVars, saveVars
      <4>5. ASSUME Elsewhere PROVE UNCHANGED <<setupPc, next, snap>> \/ setupPc' = "returned"
        BY <4>5 DEF Elsewhere, Cancel, StopCleanup, World, ApiStep, RecordCommit, RecordRefuse,
              OwnerCrash,
       TerminationShown, EvidenceLost, vars, taskVars, storeVars, ownerVars, stateVars, saveVars,
       setupVars, cleanVars
      <4> QED BY <1>4, <4>1, <4>3, <4>4, <4>5, NextSplit
    <3> QED BY <1>0, <3>1
  <2> QED BY <2>1, <2>2
<1>5. ASSUME setupPc' \in {"send", "wait"} PROVE record'.res[next'].listed
  <2>1. CASE setupPc \in {"send", "wait"}
    BY <1>0, <1>1, <1>2, <1>5, <2>1 DEF SetupMoves, InCreate
  <2>2. CASE setupPc \notin {"send", "wait"}
    <3>1. setupPc \in {"create", "intentSave"} /\ next' = next
      BY <1>2, <1>5, <2>2 DEF SetupMoves
    <3>2. IntentSaved
      <4>1. SetupStep
        <5>1. ASSUME NEW r \in Reconcilers, ReconcileStep(r) PROVE setupPc' = setupPc
          BY <5>1, ReconcileFrame DEF IInv, ownerVars, setupVars
        <5>2. ASSUME Elsewhere PROVE setupPc' \in {setupPc, "returned"}
          BY <5>2 DEF Elsewhere, Cancel, StopCleanup, World, ApiStep, RecordCommit, RecordRefuse,
                OwnerCrash,
       TerminationShown, EvidenceLost, vars, taskVars, storeVars, ownerVars, stateVars, saveVars,
       setupVars, cleanVars
        <5> QED BY <1>5, <2>2, <5>1, <5>2, CleanerFrame, NextSplit
      <4>2. CreateIntent => setupPc' = "intent"
        BY <1>0 DEF CreateIntent, Durable, SetupGoes, SetupAt
      <4> QED BY <1>5, <2>2, <3>1, <4>1, <4>2 DEF SetupGoes, SetupAt, AfterOutcome, SetupStep,
            SetupSkipped, SetupStart, ChecksPassed, ChecksFailed, InitializeSend, InitializeOk,
       InitializeRejected, InitializeLost, CreateBlocked, CreateIntent, IntentBegin, IntentSaved,
       IntentUnsaved,
       CreateSend, CreateUnsent, CreateOk, CreateRejected, CreateLost, OutcomeBegin, OutcomeSaved,
       SetupReturn,
       CreateReturns
    <3>3. snap.res[next].listed /\ record' = MergeRecord(record, snap)
      BY <1>0, <3>2 DEF IntentSaved, SetupAt, SyncAnswered, SaveAnswered, SaveBy, Saved
    <3>4. record.res \in Resources /\ snap.res \in Resources
      BY DEF IInv, CopiesAccurate, Accurate, Truthful
    <3>5. record'.res = MergeResources(record.res, snap.res)
      BY <3>3 DEF MergeRecord
    <3>6. next \in Attempts
      BY <1>0
    <3>7. MergeResources(record.res, snap.res)[next].listed
      BY <3>3, <3>4, <3>6, MergeListed
    <3> QED BY <3>1, <3>5, <3>7
  <2> QED BY <2>1, <2>2
<1>6. ASSUME InCreate' \/ setupPc' \in {"create", "succeeded"} PROVE recordRequired' /\ cm' = "stored"
  <2>1. setupPc = "checks" /\ setupPc' = "create" => FALSE
    <3>1. CASE SetupStep
      BY <3>1 DEF SetupGoes, SetupAt, AfterOutcome, SetupStep, SetupSkipped, SetupStart,
            ChecksPassed, ChecksFailed, InitializeSend, InitializeOk,
       InitializeRejected, InitializeLost, CreateBlocked, CreateIntent, IntentBegin, IntentSaved,
       IntentUnsaved,
       CreateSend, CreateUnsent, CreateOk, CreateRejected, CreateLost, OutcomeBegin, OutcomeSaved,
       SetupReturn,
       CreateReturns
    <3>2. CASE CleanerStep BY <3>2, CleanerFrame
    <3>3. ASSUME NEW r \in Reconcilers, ReconcileStep(r) PROVE setupPc' = setupPc
      BY <3>3, ReconcileFrame DEF IInv, ownerVars, setupVars
    <3>4. ASSUME Elsewhere PROVE setupPc' \in {setupPc, "returned"}
      BY <3>4 DEF Elsewhere, Cancel, StopCleanup, World, ApiStep, RecordCommit, RecordRefuse,
            OwnerCrash,
       TerminationShown, EvidenceLost, vars, taskVars, storeVars, ownerVars, stateVars, saveVars,
       setupVars, cleanVars
    <3> QED BY <3>1, <3>2, <3>3, <3>4, NextSplit
  <2>2. setupPc = "initWait" /\ setupPc' = "create" => cm = "stored"
    <3>1. CASE SetupStep
      BY <3>1 DEF SetupGoes, SetupAt, AfterOutcome, SetupStep, SetupSkipped, SetupStart,
            ChecksPassed, ChecksFailed, InitializeSend, InitializeOk,
       InitializeRejected, InitializeLost, CreateBlocked, CreateIntent, IntentBegin, IntentSaved,
       IntentUnsaved,
       CreateSend, CreateUnsent, CreateOk, CreateRejected, CreateLost, OutcomeBegin, OutcomeSaved,
       SetupReturn,
       CreateReturns
    <3>2. CASE CleanerStep BY <3>2, CleanerFrame
    <3>3. ASSUME NEW r \in Reconcilers, ReconcileStep(r) PROVE setupPc' = setupPc
      BY <3>3, ReconcileFrame DEF IInv, ownerVars, setupVars
    <3>4. ASSUME Elsewhere PROVE setupPc' \in {setupPc, "returned"}
      BY <3>4 DEF Elsewhere, Cancel, StopCleanup, World, ApiStep, RecordCommit, RecordRefuse,
            OwnerCrash,
       TerminationShown, EvidenceLost, vars, taskVars, storeVars, ownerVars, stateVars, saveVars,
       setupVars, cleanVars
    <3> QED BY <3>1, <3>2, <3>3, <3>4, NextSplit
  <2>3. CASE setupPc = "initWait"
    BY <1>1, <1>2, <1>6, <2>2, <2>3, RequiredNext DEF SetupMoves, InCreate, RequiredMoves, IInv,
          RecordKept
  <2>4. CASE setupPc # "initWait"
    <3>1. InCreate \/ setupPc \in {"create", "succeeded"}
      BY <1>2, <1>6, <2>1, <2>4 DEF SetupMoves, InCreate
    <3> QED BY <1>0, <1>1, <1>6, <3>1, RequiredNext DEF InCreate, RequiredMoves
  <2> QED BY <2>3, <2>4
<1> QED BY <1>3, <1>4, <1>5, <1>6 DEF RecordLeads

-----------------------------------------------------------------------------
(* The objects of others *)

(* Every DELETE carries the UID of an object of the attempt it is for. *)
LEMMA ObjectNext ==
  ASSUME IInv, [Next]_vars
  PROVE  \/ object' = object
         \/ ApiNext
         \/ \E a \in Attempts : Delete(a, a)
<1>1. CASE SetupStep BY <1>1, SetupFrame
<1>2. CASE CleanerStep
  <2>1. cleanPc = "delete" => \E a \in Attempts : a = target.attempt /\ a = target.uid
    BY DEF IInv, CleanerAims, Aimed
  <2> QED BY <1>2, <2>1, CleanerFrame DEF LostDelete
<1>3. ASSUME NEW r \in Reconcilers, ReconcileStep(r) PROVE object' = object \/ \E a \in Attempts : Delete(a, a)
  <2>1. worker[r].pc = "delete" => \E a \in Attempts : a = worker[r].target.attempt /\ a = worker[r].target.uid
    BY DEF IInv, CopiesAccurate, Scans, Aimed
  <2> QED BY <1>3, <2>1, ReconcileFrame DEF IInv, LostDelete
<1>4. CASE Elsewhere
  BY <1>4 DEF Elsewhere, Cancel, StopCleanup, World, ApiStep, RecordCommit, RecordRefuse, OwnerCrash,
       TerminationShown, EvidenceLost, vars, taskVars, apiVars
<1> QED BY <1>1, <1>2, <1>3, <1>4, NextSplit

LEMMA ForeignStep ==
  ASSUME IInv, [Next]_vars, NEW a \in Attempts, object[a].uid = Foreign
  PROVE  object'[a] = object[a]
<1>0. /\ object \in [Attempts -> [uid : UIDs, deleting : BOOLEAN]] /\ ~object[a].deleting
      /\ \A b \in Attempts : b # Foreign /\ b # NoUID
      /\ Foreign # NoUID
  BY ConstantTypes, NAssumption DEF IInv, TypeOK, TaskTypeOK, ApiTypeOK, ForeignAlive, Foreign, NoUID
<1>1. ASSUME NEW b \in Attempts, Delete(b, b) PROVE object'[a] = object[a]
  BY <1>0, <1>1 DEF Delete
<1>2. ASSUME NEW b \in Attempts,
             Commit(b) \/ Refuse(b) \/ Finalize(b) \/ ExternalDelete(b) \/ ForeignCreate(b)
      PROVE  object'[a] = object[a]
  BY <1>0, <1>2 DEF Commit, Refuse, Finalize, ExternalDelete, ForeignCreate, Exists, OwnExists
<1> QED BY <1>1, <1>2, ObjectNext DEF ApiNext

LEMMA ForeignAliveKept ==
  ASSUME IInv, [Next]_vars
  PROVE  ForeignAlive'
<1> SUFFICES ASSUME NEW a \in Attempts, object'[a].uid = Foreign PROVE ~object'[a].deleting
  BY DEF ForeignAlive
<1>0. /\ object \in [Attempts -> [uid : UIDs, deleting : BOOLEAN]]
      /\ object[a].uid = Foreign => ~object[a].deleting
      /\ \A b \in Attempts : b # Foreign /\ b # NoUID
      /\ Foreign # NoUID
  BY ConstantTypes, NAssumption DEF IInv, TypeOK, TaskTypeOK, ApiTypeOK, ForeignAlive, Foreign, NoUID
<1>1. ASSUME NEW b \in Attempts, Delete(b, b) PROVE ~object'[a].deleting
  BY <1>0, <1>1 DEF Delete
<1>2. ASSUME NEW b \in Attempts,
             Commit(b) \/ Refuse(b) \/ Finalize(b) \/ ExternalDelete(b) \/ ForeignCreate(b)
      PROVE  ~object'[a].deleting
  BY <1>0, <1>2 DEF Commit, Refuse, Finalize, ExternalDelete, ForeignCreate, NoObject
<1> QED BY <1>0, <1>1, <1>2, ObjectNext DEF ApiNext

-----------------------------------------------------------------------------
LEMMA InitIInv == Init => IInv
<1> SUFFICES ASSUME Init PROVE IInv
  OBVIOUS
<1> USE DEF Init, TaskInit, ApiInit, SetupIdle, CleanerOff
<1>1. TypeOK
  BY TypeInit
<1>2. /\ NoResources \in Truthful /\ EmptyRecord \in Accurate
      /\ ~EmptyRecord.closed /\ \A a \in Attempts : ~NoResources[a].listed
  BY EmptyAccurate DEF EmptyRecord, NoResources, Unlisted
<1>3. IdleWorker \in Scans
  BY <1>2, ConstantTypes DEF Scans, IdleWorker
<1>4. CopiesAccurate
  BY <1>2, <1>3 DEF CopiesAccurate, EmptyRecord
<1>5. OwnWasCreated /\ ForeignAlive
  BY ConstantTypes DEF OwnWasCreated, ForeignAlive, OwnExists, NoObject
<1>6. SentInOrder /\ OwnerLists /\ ViewIsOld
  BY <1>2 DEF SentInOrder, OwnerLists, ViewIsOld
<1>7. CleanerAims /\ CleanerCovers /\ SaveMutex /\ OwnerEnds
  BY DEF CleanerAims, CleanerCovers, SaveMutex, OwnerEnds
<1>8. RecordLeads /\ RecordKept
  BY ConstantTypes DEF RecordLeads, RecordKept, Live, OwnExists, NoObject, InCreate, NoRecordPcs
<1>9. HoldersKnow /\ LiveTaskKept
  BY DEF HoldersKnow, LiveTaskKept
<1> QED BY <1>1, <1>4, <1>5, <1>6, <1>7, <1>8, <1>9 DEF IInv

LEMMA NextIInv == IInv /\ [Next]_vars => IInv'
BY TypeKept, CopiesKept, OwnWasCreatedKept, ForeignAliveKept, SentInOrderKept, OwnerListsKept,
      ViewIsOldKept,
   CleanerAimsKept, CleanerCoversKept, SaveMutexKept, RecordLeadsKept, RecordKeptStays, OwnerEndsKept,
   HoldersKnowKept, LiveTaskStays
   DEF IInv

(* IInv holds in every reachable state, for any number of attempts and of  *)
(* recovery loops, with and without recovery.                              *)
THEOREM Invariance == Spec => []IInv
BY InitIInv, NextIInv, PTL DEF Spec
=============================================================================
