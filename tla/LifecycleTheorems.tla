-------------------------- MODULE LifecycleTheorems --------------------------
(***************************************************************************)
(* The properties of LifecycleSafety that follow from IInv, for every      *)
(* number of create attempts and of recovery loops: the last part of the   *)
(* proofs about LifecycleRecovery.                                         *)
(***************************************************************************)
EXTENDS LifecycleProofs

(* Every variable keeps its type. *)
THEOREM TypeCorrect == Spec => []TypeOK
BY Invariance, PTL DEF IInv

LEMMA DoneDead ==
  ASSUME IInv, NEW a \in Attempts, NEW f \in Truths(a), f.listed, f.done
  PROVE  ~Live(a)
BY DEF Truths, Settled, Live, IInv, OwnWasCreated

(* The cleaner closes c.done, and anyone removes the record, only when no  *)
(* object of the task exists and none can appear any more.                 *)
THEOREM NothingIsForgotten == Spec => []NothingForgotten
<1>1. ASSUME IInv PROVE NothingForgotten
  <2>1. CASE cm = "removed"
    BY <1>1, <2>1 DEF NothingForgotten, IInv, RecordLeads, RecordKept, TypeOK, TaskTypeOK, Live
  <2>2. ASSUME cleanPc = "done", NEW a \in Attempts, Live(a) PROVE FALSE
    <3>1. ownerUp /\ request[a] # "none"
      BY <1>1, <2>2 DEF IInv, CleanerCovers, OwnWasCreated, Live
    <3>2. res[a].listed /\ res[a].done
      BY <1>1, <2>2, <3>1 DEF IInv, OwnerLists, CleanerCovers
    <3> QED BY <1>1, <2>2, <3>2, DoneDead DEF IInv, CopiesAccurate, Truthful
  <2> QED BY <2>1, <2>2 DEF NothingForgotten
<1> QED BY <1>1, Invariance, PTL

(* With recovery, whatever is live is listed as unfinished in the store.   *)
THEOREM IntentIsDurable == Spec => []DurableIntent
<1>1. ASSUME IInv PROVE DurableIntent
  <2> SUFFICES ASSUME Recovery, NEW a \in Attempts, Live(a)
               PROVE  cm = "stored" /\ record.res[a].listed /\ ~record.res[a].done
    BY DEF DurableIntent
  <2>1. cm = "stored" /\ record.res[a].listed
    BY <1>1 DEF IInv, RecordLeads
  <2> QED BY <1>1, <2>1, DoneDead DEF IInv, CopiesAccurate, Accurate, Truthful
<1> QED BY <1>1, Invariance, PTL

(* No recovery loop and no cleaner deletes anything of a task that runs.   *)
THEOREM LiveTaskIsKept == Spec => []LiveTaskKept
BY Invariance, PTL DEF IInv

(* Every record in the store can be decoded.                               *)
THEOREM RecordIsReadable == Spec => []RecordReadable
<1>1. ASSUME IInv PROVE RecordReadable
  BY <1>1 DEF RecordReadable, Decodes, DecodesFacts, IInv, CopiesAccurate, Accurate, Truthful, Truths
<1> QED BY <1>1, Invariance, PTL

(* A Pod of known UID is recorded as finished only after the wish to       *)
(* delete it was: an externally deleted Pod is never taken for stopped.    *)
THEOREM VanishedPodIsRetained == Spec => []VanishedPodRetained
<1>1. ASSUME IInv PROVE VanishedPodRetained
  <2> SUFFICES ASSUME NEW a \in Attempts, Kind[a] = "pods", record.res[a].done, record.res[a].uid # NoUID
               PROVE  record.res[a].delReq
    BY DEF VanishedPodRetained
  <2>1. record.res[a] \in Truths(a)
    BY <1>1 DEF IInv, CopiesAccurate, Accurate, Truthful
  <2> QED BY <2>1 DEF Truths, Grounded, Unlisted
<1> QED BY <1>1, Invariance, PTL

(* After the record says closed, no create is sent.                        *)
THEOREM ClosedGateHolds == Spec => ClosedGate
<1>1. ASSUME IInv, [Next]_vars, record.closed, NEW a \in Attempts, request[a] = "none"
      PROVE  request'[a] = "none"
  <2>1. setupPc = "returned"
    BY <1>1 DEF IInv, CopiesAccurate, Accurate
  <2> QED BY <1>1, <2>1, RequestMove DEF IInv
<1>2. IInv /\ [Next]_vars =>
        [cm = "stored" /\ record.closed => \A a \in Attempts : request[a] = "none" => request'[a] = "none"]_vars
  BY <1>1
<1> QED BY <1>2, Invariance, PTL DEF Spec, ClosedGate

(* No step of the code changes an object of somebody else.                 *)
THEOREM ForeignIsUntouched == Spec => ForeignUntouched
<1>1. IInv /\ [Next]_vars => [\A a \in Attempts : object[a].uid = Foreign => object'[a] = object[a]]_vars
  BY ForeignStep
<1> QED BY <1>1, Invariance, PTL DEF Spec, ForeignUntouched

(* mergeRecord never takes a fact back. *)
LEMMA MergeGrows ==
  ASSUME NEW current \in Records, NEW incoming \in Records, Mergeable(current, incoming)
  PROVE  RecordGrows(current, MergeRecord(current, incoming))
<1> DEFINE merged == MergeRecord(current, incoming)
<1>1. ASSUME NEW a \in Attempts
      PROVE  /\ KnowsMore(current.res[a], merged.res[a])
             /\ current.closed => (merged.res[a].listed => current.res[a].listed)
  <2>1. /\ current.res[a] \in Facts /\ incoming.res[a] \in Facts
        /\ merged.res[a] = MergeFacts(current.res[a], incoming.res[a])
    BY DEF Records, Resources, MergeRecord, MergeResources
  <2> QED BY <2>1 DEF Mergeable, KnowsMore, MergeFacts, Facts, NoUID
<1>2. /\ current.closed => merged.closed
      /\ current.reason = "executor-terminated" => merged.reason = "executor-terminated"
  BY DEF MergeRecord
<1> HIDE DEF merged
<1> QED BY <1>1, <1>2 DEF RecordGrows, merged

LEMMA StoreGrows ==
  ASSUME IInv, [Next]_vars, cm = "stored", cm' = "stored"
  PROVE  RecordGrows(record, record')
<1>1. record' = record => RecordGrows(record, record')
  BY DEF RecordGrows, KnowsMore
<1>2. ASSUME NEW w, NEW rec \in Accurate, SaveBy(w, rec) PROVE RecordGrows(record, record')
  BY <1>2, MergeGrows DEF SaveBy, CanSave, Saved, Accurate, IInv, TypeOK, TaskTypeOK
<1> QED BY <1>1, <1>2, StoreCases DEF RemoveBy, storeVars

(* No writer, however stale its copy, takes back what the record says.     *)
THEOREM FactsAreKept == Spec => FactsOnlyGrow
<1>1. IInv /\ [Next]_vars => [cm = "stored" /\ cm' = "stored" => RecordGrows(record, record')]_vars
  BY StoreGrows
<1> QED BY <1>1, Invariance, PTL DEF Spec, FactsOnlyGrow

-----------------------------------------------------------------------------
(* The refinement. *)

live == {a \in Attempts : Live(a)}

(* The store and the set of live attempts never change in one step, and    *)
(* each step starts or ends one attempt at most.                           *)
LEMMA LiveCases ==
  ASSUME IInv, [Next]_vars
  PROVE  \/ live' = live
         \/ /\ UNCHANGED storeVars
            /\ \/ \E a \in Attempts : live' = live \ {a}
               \/ setupPc = "send" /\ request[next] = "none" /\ live' = live \cup {next}
<1> USE DEF Live, OwnExists
<1>0. TypeOK /\ ApiTypeOK /\ next \in Attempts
  BY DEF IInv, TypeOK, TaskTypeOK
<1>1. ASSUME request' = request, \A a \in Attempts : object'[a].uid = object[a].uid PROVE live' = live
  BY <1>1 DEF live
<1>2. CASE SetupStep
  <2>1. object' = object
    BY <1>2, SetupFrame
  <2>2. request' = request \/ CreateSend
    BY <1>2 DEF apiVars, SetupStep, SetupSkipped, SetupStart, ChecksPassed, ChecksFailed,
          InitializeSend, InitializeOk,
       InitializeRejected, InitializeLost, CreateBlocked, CreateIntent, IntentBegin, IntentSaved,
       IntentUnsaved,
       CreateSend, CreateUnsent, CreateOk, CreateRejected, CreateLost, OutcomeBegin, OutcomeSaved,
       SetupReturn,
       CreateReturns
  <2>3. CASE CreateSend
    <3>1. request' = [request EXCEPT ![next] = "inflight"] /\ setupPc = "send" /\ UNCHANGED storeVars
      BY <2>3 DEF CreateSend, SendPost, SetupAt
    <3>2. ownerUp /\ request[next] = "none"
      BY <1>0, <2>3 DEF CreateSend, SetupAt, IInv, SentInOrder, BeforeSend
    <3>3. live' = live \cup {next}
      BY <1>0, <2>1, <3>1 DEF live, ApiTypeOK
    <3> QED BY <3>1, <3>2, <3>3
  <2> QED BY <1>1, <2>1, <2>2, <2>3
<1>3. CASE CleanerStep
  BY <1>0, <1>1, <1>3, CleanerFrame, DeleteFrame
<1>4. ASSUME NEW r \in Reconcilers, ReconcileStep(r) PROVE live' = live
  BY <1>0, <1>1, <1>4, ReconcileFrame, DeleteFrame
<1>5. CASE ApiNext /\ UNCHANGED storeVars
  <2>1. PICK b \in Attempts : Commit(b) \/ Refuse(b) \/ Finalize(b) \/ ExternalDelete(b) \/ ForeignCreate(b)
    BY <1>5 DEF ApiNext
  <2>2. \A a \in Attempts \ {b} : request'[a] = request[a] /\ object'[a] = object[a]
    BY <1>0, <2>1 DEF ApiTypeOK, Commit, Refuse, Finalize, ExternalDelete, ForeignCreate
  <2>3. Live(b)' => Live(b)
    BY <1>0, <2>1, ConstantTypes
       DEF ApiTypeOK, Commit, Refuse, Finalize, ExternalDelete, ForeignCreate, NoObject
  <2>4. live' = live \/ live' = live \ {b}
    BY <2>2, <2>3 DEF live
  <2> QED BY <1>5, <2>4
<1>6. CASE Elsewhere
  <2>1. (ApiNext /\ UNCHANGED storeVars) \/ UNCHANGED apiVars
    BY <1>6 DEF taskVars, Elsewhere, Cancel, StopCleanup, World, ApiStep, RecordCommit, RecordRefuse,
          OwnerCrash,
       TerminationShown, EvidenceLost, vars
  <2> QED BY <1>1, <1>5, <2>1 DEF apiVars
<1> QED BY <1>2, <1>3, <1>4, <1>6, NextSplit

(* The owner, its crash and any number of recovery loops, with all their   *)
(* stale copies, keep one ledger: each step maps to a step of DurableLedger.*)
THEOREM LedgerIsImplemented == ASSUME Recovery PROVE Spec => ImplementsLedger
<1> USE DEF Ledger!ledgerVars, ledgerState
<1>1. Init => Ledger!Init
  <2> SUFFICES ASSUME Init PROVE Ledger!Init
    OBVIOUS
  <2>1. cm = "none" /\ record = EmptyRecord /\ \A a \in Attempts : ~Live(a)
    BY ConstantTypes DEF Init, TaskInit, ApiInit, Live, OwnExists, NoObject
  <2> QED BY <2>1 DEF Ledger!Init, EmptyRecord, NoResources, Unlisted
<1>2. IInv /\ [Next]_vars => [Ledger!Next]_(Ledger!ledgerVars)
  <2> SUFFICES ASSUME IInv, [Next]_vars
               PROVE  Ledger!Next \/ UNCHANGED Ledger!ledgerVars
    OBVIOUS
  <2> DEFINE alive == {a \in Attempts : Live(a)}
  <2>0. /\ cm \in {"none", "inflight", "refused", "stored", "removed"} /\ record \in Records
        /\ cm # "stored" => record = EmptyRecord
        /\ \A a \in Attempts : ~EmptyRecord.res[a].listed /\ ~EmptyRecord.res[a].done
        /\ ~EmptyRecord.closed
    BY DEF IInv, TypeOK, TaskTypeOK, RecordKept, EmptyRecord, NoResources, Unlisted
  <2>1. CASE UNCHANGED storeVars /\ alive' = alive
    BY <2>1 DEF storeVars
  <2>2. ASSUME UNCHANGED storeVars, NEW a \in Attempts, alive' = alive \ {a}
        PROVE  Ledger!End(a)
    BY <2>2 DEF storeVars, Ledger!End
  <2>3. ASSUME UNCHANGED storeVars, setupPc = "send", request[next] = "none", alive' = alive \cup {next}
        PROVE  next \in Attempts /\ Ledger!Start(next)
    <3>1. next \in Attempts /\ cm = "stored" /\ record.res[next].listed
      BY <2>3 DEF IInv, TypeOK, TaskTypeOK, RecordLeads, InCreate
    <3>2. ~record.closed /\ ~record.res[next].done
      BY <2>3, <3>1 DEF IInv, CopiesAccurate, Accurate, Truthful, Truths, Settled, Over
    <3> QED BY <2>3, <3>1, <3>2 DEF storeVars, Ledger!Start
  <2>4. ASSUME NEW w, NEW rec \in Accurate, SaveBy(w, rec), alive' = alive
        PROVE  Ledger!Write
    <3>1. /\ cm = "stored" /\ cm' = "stored" /\ record' = Saved(rec) /\ Saved(rec) \in Accurate
          /\ RecordGrows(record, record')
      BY <2>4, SavedAccurate, MergeGrows DEF SaveBy, CanSave, Saved, Accurate, IInv, TypeOK, TaskTypeOK
    <3>2. ASSUME NEW a \in Attempts, record'.res[a].done PROVE record'.res[a].listed /\ ~Live(a)
      BY <3>1, <3>2, DoneDead DEF Accurate, Truthful, Truths, Unlisted
    <3>3. \A a \in Attempts : /\ record.res[a].listed => record'.res[a].listed
                              /\ record.res[a].done => record'.res[a].done
                              /\ record.closed /\ record'.res[a].listed => record.res[a].listed
      BY <3>1 DEF RecordGrows, KnowsMore, IInv, CopiesAccurate, Accurate, Truthful, Truths, Unlisted
    <3>4. record.closed => record'.closed
      BY <3>1 DEF RecordGrows
    <3> HIDE DEF alive
    <3> QED BY <2>4, <3>1, <3>2, <3>3, <3>4 DEF Ledger!Write, alive
  <2>5. ASSUME NEW w, RemoveBy(w), RecordComplete(record), alive' = alive
        PROVE  Ledger!Forget
    <3>1. \A a \in Attempts : record.res[a].listed <=> record.res[a].done
      BY <2>5 DEF RecordComplete, IInv, CopiesAccurate, Accurate, Truthful, Truths, Unlisted
    <3> QED BY <2>0, <2>5, <3>1 DEF RemoveBy, RecordComplete, Ledger!Forget
  <2>6. ASSUME cm \in {"none", "inflight"}, cm' \in {"inflight", "stored", "refused"},
               record' = record, alive' = alive
        PROVE  Ledger!Open \/ UNCHANGED Ledger!ledgerVars
    BY <2>0, <2>6 DEF Ledger!Open
  <2>7. \/ alive' = alive
        \/ /\ UNCHANGED storeVars
           /\ \/ \E a \in Attempts : alive' = alive \ {a}
              \/ setupPc = "send" /\ request[next] = "none" /\ alive' = alive \cup {next}
    BY LiveCases DEF live
  <2> HIDE DEF alive
  <2> QED BY <2>1, <2>2, <2>3, <2>4, <2>5, <2>6, <2>7, StoreCases DEF Ledger!Next
<1> QED BY <1>1, <1>2, Invariance, PTL DEF Spec, ImplementsLedger, Ledger!Spec
=============================================================================
