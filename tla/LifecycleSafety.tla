-------------------------- MODULE LifecycleSafety --------------------------
(***************************************************************************)
(* What the task lifecycle promises: properties of LifecycleRecovery.      *)
(***************************************************************************)
EXTENDS LifecycleRecovery

(* A create attempt that can still put an object into the cluster, or has. *)
Live(a) == OwnExists(a) \/ request[a] = "inflight"

(* Once the owner's cleaner has closed c.done, or anyone has removed the   *)
(* durable record, no object of the task exists and none can still appear: *)
(* the cleaner and recovery may forget a task only then (cleanUntilDone,   *)
(* finish, remove).                                                        *)
NothingForgotten ==
  cleanPc = "done" \/ cm = "removed" => \A a \in Attempts : ~Live(a)

(* With recovery enabled, whatever exists or may still come to exist is    *)
(* listed as unfinished in the stored record, at every moment: a crash at  *)
(* any step leaves a record from which another runner can clean up         *)
(* (create saves its intent before it sends, recovery_store.go merges).    *)
DurableIntent ==
  Recovery => \A a \in Attempts :
    Live(a) => cm = "stored" /\ record.res[a].listed /\ ~record.res[a].done

(* No cleaner changes an object of somebody else that has, or has taken    *)
(* over, the name of one of the task's objects (cleanResourceContext's     *)
(* ownership checks and UID preconditions).                                *)
ForeignUntouched ==
  [][\A a \in Attempts : object[a].uid = Foreign => object'[a] = object[a]]_vars

(* No object of a task is deleted while its owner lives and has not        *)
(* stopped the task, whatever the recovery loops hold in their copies of   *)
(* the record (reconcileRecord's evidence rule).                           *)
LiveTaskKept == deletesSent # {} => closed \/ ~ownerUp

(* When a namespace is deleted, every Pod and Secret the task put into it  *)
(* is gone and none can follow (cleanOnce's complete, reconcileRecord's    *)
(* childrenDone).                                                          *)
NamespaceLast ==
  \A a \in deletesSent : Kind[a] = "namespaces" =>
    \A b \in Attempts : Kind[b] # "namespaces" => ~Live(b)

(* Every record that reaches the store can be read back: an entry decode   *)
(* refuses would make the record unprocessable for good.                   *)
RecordReadable == cm = "stored" => Decodes(record)

(* No save is ever refused by mergeRecord: neither the owner nor a         *)
(* recovery loop meets a UID that disagrees or a closed record that lacks  *)
(* one of its attempts, so no cleanup gets stuck on merging.               *)
NoRefusedMerge ==
  cm = "stored" =>
    /\ persist # "free" => Mergeable(record, snap)
    /\ \A r \in Reconcilers : Saving(r) => Mergeable(record, worker[r].rec)

(* Concurrent writers with stale copies never take back what the stored    *)
(* record has established: closed stays closed, a UID stays, a completed   *)
(* deletion stays completed, and a closed task gains no attempt.           *)
FactsOnlyGrow ==
  [][cm = "stored" /\ cm' = "stored" => RecordGrows(record, record')]_vars

(* Once the stored record says the task is closed, no further create is    *)
(* sent: what the record lists is all there will ever be.                  *)
ClosedGate ==
  [][cm = "stored" /\ record.closed
       => \A a \in Attempts : request[a] = "none" => request'[a] = "none"]_vars

(* A Pod of known UID counts as finished only after a cleaner recorded the *)
(* wish to delete it: a Pod that vanished by itself keeps the diagnosis    *)
(* "execution stop unconfirmed".                                           *)
VanishedPodRetained ==
  cm = "stored" => \A a \in Attempts :
    LET f == record.res[a]
    IN  Kind[a] = "pods" /\ f.done /\ f.uid # NoUID => f.delReq

(* A record the owner leaves behind after its cleaner is done (the answer  *)
(* to initialize was lost) lists no attempt.                               *)
LeftoverRecordIsEmpty ==
  cleanPc = "done" /\ cm \in {"inflight", "stored"} => record.res = NoResources

(* docs/cleanup-recovery.md: a Pod that disappeared before this program    *)
(* issued its deletion keeps the diagnosis.                                *)
PodStopConfirmed ==
  cm = "stored" => \A a \in Attempts :
    LET f == record.res[a]
    IN  Kind[a] = "pods" /\ f.done /\ f.uid # NoUID => a \in deletesSent

-----------------------------------------------------------------------------
(* The refinement mapping to DurableLedger. *)

ledgerState ==
  IF cm = "stored" THEN IF record.closed THEN "closed" ELSE "open"
  ELSE IF cm = "removed" THEN "removed" ELSE "absent"

Ledger == INSTANCE DurableLedger WITH
  ledger  <- ledgerState,
  listed  <- {a \in Attempts : record.res[a].listed},
  settled <- {a \in Attempts : record.res[a].done},
  live    <- {a \in Attempts : Live(a)}

(* With recovery enabled, the record in the cluster is such a ledger, in   *)
(* every behaviour of the owner, its crash, and any number of recovery     *)
(* loops.                                                                  *)
ImplementsLedger == Ledger!Spec
=============================================================================
