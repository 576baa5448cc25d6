------------------------- MODULE LifecycleLiveness -------------------------
(***************************************************************************)
(* What cleanup and recovery eventually achieve, and the fairness that     *)
(* takes.  Every goroutine keeps running (WF), and the API server settles  *)
(* requests in flight and finishes the deletions it accepted (WF).         *)
(* cleanUntilDone retries for as long as the process runs, and every       *)
(* recovery loop scans again every five seconds: a request that is tried   *)
(* again and again is assumed to succeed sometime (SF).  Of the owner's    *)
(* requests the specification assumes it for those about Pods only; what   *)
(* needs the others too says so (RestServed).                              *)
(***************************************************************************)
EXTENDS LifecycleSafety

ApiFairness ==
  /\ \A a \in Attempts :
       /\ WF_vars((Commit(a) \/ Refuse(a)) /\ UNCHANGED <<storeVars, ownerVars, recoveryVars>>)
       /\ WF_vars(Finalize(a) /\ UNCHANGED <<storeVars, ownerVars, recoveryVars>>)
  /\ WF_vars((RecordCommit \/ RecordRefuse) /\ UNCHANGED recoveryVars)

Reaches(a) == ReadGone(a) \/ ReadDying(a) \/ BeforeDelete(a)

DeleteArrives(a) ==
  /\ target.attempt = a
  /\ DeleteProves \/ (DeleteSent /\ ~DeleteIsProof(target))

FlushArrives ==
  /\ FlushSaved
  /\ SaveBy(Owner, snap) \/ Missing
  /\ complete => cleanPc' = "finish"

FinishArrives == FinishSaved \/ (FinishUnsaved /\ cleanPc' = "done")

RemoveArrives == FinishRemoved /\ cleanPc' = "done"

OwnerFairness ==
  /\ WF_vars((SetupStep \/ StopCleanup) /\ UNCHANGED recoveryVars)
  /\ WF_vars(CleanerStep /\ UNCHANGED recoveryVars)
  /\ \A a \in Attempts : Kind[a] = "pods" =>
       /\ SF_vars(Reaches(a) /\ UNCHANGED recoveryVars)
       /\ SF_vars(DeleteArrives(a) /\ UNCHANGED recoveryVars)

(* The other requests of the owner succeed sometime as well, and Setup gets*)
(* persistMu in the end (a waiter for a Go mutex is served after a         *)
(* millisecond).                                                           *)
RestServed ==
  /\ SF_vars((IntentBegin \/ OutcomeBegin) /\ UNCHANGED recoveryVars)
  /\ \A a \in Attempts : Kind[a] # "pods" =>
       /\ SF_vars(Reaches(a) /\ UNCHANGED recoveryVars)
       /\ SF_vars(DeleteArrives(a) /\ UNCHANGED recoveryVars)
  /\ SF_vars(FlushArrives /\ UNCHANGED recoveryVars)
  /\ SF_vars(FinishArrives /\ UNCHANGED recoveryVars)
  /\ SF_vars(RemoveArrives /\ UNCHANGED recoveryVars)

(* A recovery loop keeps what it learns in local variables until its last  *)
(* save: a scan that is cut off starts over.  So it is not enough that     *)
(* each of its requests succeeds sometime; one scan has to succeed as a    *)
(* whole.  Stated here: faults stop at some time.                          *)
Proceeds(r) ==
  LET pc == worker[r].pc
  IN  \/ pc = "judge" /\ (Rec(r).closed \/ ExecutorTerminated)
      \/ Saving(r) /\ CanSave(Rec(r))
      \/ pc = "each" /\ worker[r].todo # {}
      \/ pc = "delete"
      \/ pc = "ack" /\ (Rec(r).reason = "executor-terminated" \/ ExecutorTerminated)
                    /\ cm = "stored" /\ r \in holders

Answerable(r, a) == ~Exists(a) \/ Owned(a, Rec(r).res[a])

EntryDeleteArrives(r) ==
  LET t == worker[r].target
  IN  Delete(t.attempt, t.uid) /\ worker'[r].rec.res[t.attempt].done = DeleteIsProof(t)

Faulty(r) ==
  \/ Proceeds(r) /\ GiveUp(r) /\ ~FinalSaved(r) /\ ~RemoveRecord(r)
  \/ \E a \in Attempts : Answerable(r, a) /\ EntryFailed(r, a)
  \/ CanSave(Rec(r)) /\ NoteFailed(r)
  \/ DeleteEntry(r) /\ ~EntryDeleteArrives(r)

LoopFairness(r) == WF_vars(ReconcileStep(r)) /\ <>[][~Faulty(r)]_vars

FairSpec ==
  Spec /\ ApiFairness /\ OwnerFairness /\ \A r \in Reconcilers : LoopFairness(r)

-----------------------------------------------------------------------------
(* Why an attempt with facts f may stay unfinished for good; each is       *)
(* reported and left to a person (docs/cleanup-recovery.md).               *)

(* The create's answer is lost and no object is there to settle it. *)
OutcomeUnknown(a, f) == f.unknown /\ request[a] # "inflight" /\ ~OwnExists(a)

(* A Pod vanished before anyone asked to delete it. *)
StopUnconfirmed(a, f) == Kind[a] = "pods" /\ f.uid # NoUID /\ ~f.delReq /\ ~OwnExists(a)

(* Somebody else's object holds the name. *)
NameTaken(a) == object[a].uid = Foreign

Retained(f, a) ==
  f.listed /\ ~f.done /\ (OutcomeUnknown(a, f) \/ StopUnconfirmed(a, f) \/ NameTaken(a))

(* While the owner lives, a stopped task ends with c.done closed, or with  *)
(* an attempt that is retained for one of the reasons above; stopping can  *)
(* neither hang nor spin (stopCleanup, cleanUntilDone), if no request of   *)
(* it fails for ever.                                                      *)
StoppedTaskEnds ==
  RestServed =>
    closed ~> \/ cleanPc = "done" \/ ~ownerUp
              \/ setupPc = "returned" /\ \E a \in Attempts : Retained(res[a], a)

(* After the owner's death is proved, its record is removed, or retained   *)
(* for one of those reasons, unless the proof is lost first                *)
(* (reconcile, reconcileRecord).                                           *)
OrphanEnds ==
  (evidence = "shown" /\ cm = "stored")
    ~> \/ cm = "removed" \/ evidence = "lost"
       \/ \E a \in Attempts : Retained(record.res[a], a)

(* Once a task is stopped no Pod of it keeps running: the Pod is deleted   *)
(* although a Secret or the namespace can never be read or deleted and the *)
(* record never be saved, unless the owner dies.  Only the requests about  *)
(* the Pod itself must succeed sometime (cleanOnce visits Pods first,      *)
(* saves with best effort, and goes on after an entry that failed).        *)
StoppedPodEnds ==
  \A a \in Attempts : Kind[a] = "pods" =>
    (closed /\ OwnExists(a)) ~> (object[a].deleting \/ ~OwnExists(a) \/ ~ownerUp)
=============================================================================
