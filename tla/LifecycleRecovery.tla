------------------------- MODULE LifecycleRecovery -------------------------
(***************************************************************************)
(* The task of TaskCleanup together with what outlives its process: the    *)
(* crash of the owner and the recovery loops of the runner pool            *)
(* (src/engine/recovery.go).  The leader-election lease only limits        *)
(* duplicate work, so any number of recovery loops may be in reconcile at  *)
(* once here, and each may be cut off at any point.                        *)
(***************************************************************************)
EXTENDS TaskCleanup

CONSTANT Reconcilers    \* the recovery loops, one per runner process

ASSUME ReconcilersAssumption == Owner \notin Reconcilers

VARIABLES
  evidence,    \* the owner's Pod status proves its container terminated
  worker       \* the local variables of reconcileRecord in each loop

recoveryVars == <<evidence, worker>>
vars == <<taskVars, recoveryVars>>

WorkerPcs == {"idle", "judge", "save", "each", "note", "delete", "ack"}

Workers == [pc : WorkerPcs, rec : Records, todo : SUBSET Attempts, target : Targets]

IdleWorker == [pc |-> "idle", rec |-> EmptyRecord, todo |-> {}, target |-> NoTarget]

TypeOK ==
  /\ TaskTypeOK
  /\ holders \in SUBSET (Reconcilers \cup {Owner})
  /\ evidence \in {"none", "shown", "lost"}
  /\ worker \in [Reconcilers -> Workers]

Init ==
  /\ TaskInit
  /\ evidence = "none"
  /\ worker = [r \in Reconcilers |-> IdleWorker]

-----------------------------------------------------------------------------
(* The owner's process dies: SIGKILL, OOM, node loss.  A later process of  *)
(* the pool has a session of its own and none of these variables.          *)
OwnerCrash ==
  /\ Recovery
  /\ ownerUp /\ ownerUp' = FALSE
  /\ cancelled' = FALSE /\ closed' = FALSE
  /\ setupDone' = FALSE /\ recordRequired' = FALSE
  /\ res' = NoResources
  /\ persist' = "free" /\ snap' = EmptyRecord
  /\ setupPc' = "returned" /\ next' = 1 /\ createErr' = "nil"
  /\ PassEnds("off")
  /\ UNCHANGED <<apiVars, storeVars, recoveryVars>>

(* The kubelet reports the container's termination.  RunnerIdentity shows  *)
(* that executorTerminated accepts no other process's termination.         *)
TerminationShown ==
  /\ ~ownerUp /\ evidence = "none"
  /\ evidence' = "shown"
  /\ UNCHANGED <<taskVars, worker>>

(* The Pod is deleted, or a second restart overwrites the status. *)
EvidenceLost ==
  /\ evidence = "shown"
  /\ evidence' = "lost"
  /\ UNCHANGED <<taskVars, worker>>

ExecutorTerminated == evidence = "shown"

-----------------------------------------------------------------------------
(* reconcileRecord, in loop r *)

At(r, pc) == worker[r].pc = pc

Rec(r) == worker[r].rec

WithFacts(rec, a, facts) == [rec EXCEPT !.res = [@ EXCEPT ![a] = facts]]

Goes(r, pc, rec) ==
  worker' = [worker EXCEPT ![r] = [pc |-> pc, rec |-> rec, todo |-> @.todo, target |-> @.target]]

(* The list returns a copy of the record that may be stale when used. *)
List(r) ==
  /\ At(r, "idle")
  /\ cm = "stored" /\ Decodes(record)
  /\ Goes(r, "judge", record)
  /\ UNCHANGED <<taskVars, evidence>>

JudgeClosed(r) ==
  /\ At(r, "judge") /\ Rec(r).closed
  /\ Goes(r, "save", Rec(r))
  /\ UNCHANGED <<taskVars, evidence>>

(* Wrong: an open record is taken over without evidence. *)
JudgeTerminatedWrong(r) ==
  /\ At(r, "judge") /\ ~Rec(r).closed
  /\ Goes(r, "save", [closed |-> TRUE, reason |-> "executor-terminated", res |-> Rec(r).res])
  /\ UNCHANGED <<taskVars, evidence>>

(* Wrong: the record that is taken over stays open. *)
JudgedOpenWrong(r) ==
  /\ At(r, "judge") /\ ~Rec(r).closed
  /\ ExecutorTerminated
  /\ Goes(r, "save", [closed |-> FALSE, reason |-> "executor-terminated", res |-> Rec(r).res])
  /\ UNCHANGED <<taskVars, evidence>>

(* An open record is taken over only on evidence that its owner is dead. *)
JudgeTerminated(r) ==
  /\ At(r, "judge") /\ ~Rec(r).closed
  /\ ExecutorTerminated
  /\ Goes(r, "save", [closed |-> TRUE, reason |-> "executor-terminated", res |-> Rec(r).res])
  /\ UNCHANGED <<taskVars, evidence>>

TakeOver(r) ==
  /\ At(r, "save")
  /\ SaveBy(r, Rec(r))
  /\ LET saved == Saved(Rec(r))
     IN  worker' = [worker EXCEPT ![r] =
           [pc |-> "each", rec |-> saved, target |-> NoTarget,
            todo |-> {a \in Attempts : saved.res[a].listed /\ ~saved.res[a].done}]]
  /\ UNCHANGED <<apiVars, ownerVars, evidence>>

(* The pcs from which an update of the record may be under way. *)
Saving(r) == worker[r].pc \in {"save", "note"} \/ (At(r, "each") /\ worker[r].todo = {})

(* Any error, a record that is left alone, a lost lease, a crash of the    *)
(* loop: this scan ends.  An update whose answer was lost may be stored.   *)
GiveUp(r) ==
  /\ ~At(r, "idle")
  /\ worker' = [worker EXCEPT ![r] = IdleWorker]
  /\ \/ UNCHANGED storeVars
     \/ Saving(r) /\ SaveBy(r, Rec(r))
  /\ UNCHANGED <<apiVars, ownerVars, evidence>>

(* Wrong: the namespace goes when its children are only asked to go. *)
ChildrenDoneWrong(rec) ==
  \A a \in Attempts : rec.res[a].listed /\ Kind[a] # "namespaces"
                        => rec.res[a].done \/ rec.res[a].delReq

ChildrenDone(rec) ==
  \A a \in Attempts : rec.res[a].listed /\ Kind[a] # "namespaces" => rec.res[a].done

(* The loop is through with a; these are the facts about it now, in rec,   *)
(* the record it goes on with.                                             *)
EntryLeaves(r, rec, a, facts) ==
  worker' = [worker EXCEPT ![r] =
    [pc |-> "each", rec |-> WithFacts(rec, a, facts), todo |-> @.todo \ {a}, target |-> NoTarget]]

EntryReturns(r, a, facts) == EntryLeaves(r, Rec(r), a, facts)

(* Already done in the meantime, or a namespace with unfinished children. *)
SkipEntry(r, a) ==
  /\ At(r, "each") /\ First(worker[r].todo, a)
  /\ \/ Rec(r).res[a].done
     \/ Kind[a] = "namespaces" /\ ~ChildrenDone(Rec(r))
  /\ EntryReturns(r, a, Rec(r).res[a])
  /\ UNCHANGED <<taskVars, evidence>>

VisitsEntry(r, a) ==
  /\ At(r, "each") /\ First(worker[r].todo, a)
  /\ ~Rec(r).res[a].done
  /\ Kind[a] = "namespaces" => ChildrenDone(Rec(r))

EntryGone(r, a) ==
  /\ VisitsEntry(r, a)
  /\ ReadsNothing(a, Rec(r).res[a])
  /\ LET f == Rec(r).res[a]
     IN  EntryReturns(r, a, IF GoneIsProof(a, f) THEN MarkDone(f) ELSE f)
  /\ UNCHANGED <<taskVars, evidence>>

EntryDying(r, a) ==
  /\ VisitsEntry(r, a)
  /\ ReadsDying(a, Rec(r).res[a])
  /\ EntryReturns(r, a, Learn(Rec(r).res[a], object[a].uid))
  /\ UNCHANGED <<taskVars, evidence>>

EntryFailed(r, a) ==
  /\ VisitsEntry(r, a)
  /\ Reads(a, Rec(r).res[a])
  /\ EntryReturns(r, a, Rec(r).res[a])
  /\ UNCHANGED <<taskVars, evidence>>

EntryCondemned(r, a) ==
  /\ VisitsEntry(r, a)
  /\ LET f == Rec(r).res[a]
     IN  /\ MayDelete(a, f)
         /\ worker' = [worker EXCEPT ![r] =
              [pc |-> "note", rec |-> WithFacts(Rec(r), a, Condemn(f, DeleteUID(a, f))),
               todo |-> @.todo, target |-> TargetOf(a, f)]]
  /\ UNCHANGED <<taskVars, evidence>>

(* Unlike the owner, recovery deletes nothing it could not note first. *)
NoteStored(r) ==
  /\ At(r, "note")
  /\ SaveBy(r, Rec(r))
  /\ Goes(r, "delete", Saved(Rec(r)))
  /\ UNCHANGED <<apiVars, ownerVars, evidence>>

(* When only the update failed, the loop goes on with the merged record.   *)
NoteFailed(r) ==
  /\ At(r, "note")
  /\ LET a == worker[r].target.attempt
         saved == Saved(Rec(r))
     IN  \/ /\ UNCHANGED storeVars
            /\ EntryReturns(r, a, Rec(r).res[a])
         \/ /\ CanSave(Rec(r))
            /\ SaveBy(r, Rec(r)) \/ UNCHANGED storeVars
            /\ EntryLeaves(r, saved, a, MarkPending(saved.res[a]))
  /\ UNCHANGED <<apiVars, ownerVars, evidence>>

(* done is assigned, not accumulated: what another writer found out in the *)
(* meantime is dropped from this copy, and merged in again by its save.    *)
DeleteEntry(r) ==
  /\ At(r, "delete")
  /\ LET t == worker[r].target
         f == Rec(r).res[t.attempt]
     IN  \/ /\ DeleteIsProof(t)
            /\ Delete(t.attempt, t.uid)
            /\ EntryReturns(r, t.attempt, MarkDone(f))
         \/ /\ Delete(t.attempt, t.uid) \/ LostDelete(t.attempt)
            /\ EntryReturns(r, t.attempt, MarkPending(f))
  /\ UNCHANGED <<storeVars, ownerVars, evidence>>

FinalSaved(r) ==
  /\ At(r, "each") /\ worker[r].todo = {}
  /\ SaveBy(r, Rec(r))
  /\ IF RecordComplete(Saved(Rec(r)))
     THEN Goes(r, "ack", Saved(Rec(r)))
     ELSE worker' = [worker EXCEPT ![r] = IdleWorker]
  /\ UNCHANGED <<apiVars, ownerVars, evidence>>

(* A live owner has to observe the completed facts first. *)
RemoveRecord(r) ==
  /\ At(r, "ack")
  /\ Rec(r).reason = "executor-terminated" \/ ExecutorTerminated
  /\ RemoveBy(r)
  /\ worker' = [worker EXCEPT ![r] = IdleWorker]
  /\ UNCHANGED <<apiVars, ownerVars, evidence>>

ReconcileStep(r) ==
  \/ List(r) \/ JudgeClosed(r) \/ JudgeTerminated(r) \/ TakeOver(r) \/ GiveUp(r)
  \/ \E a \in Attempts : \/ SkipEntry(r, a) \/ EntryGone(r, a) \/ EntryDying(r, a)
                         \/ EntryFailed(r, a) \/ EntryCondemned(r, a)
  \/ NoteStored(r) \/ NoteFailed(r) \/ DeleteEntry(r)
  \/ FinalSaved(r) \/ RemoveRecord(r)

-----------------------------------------------------------------------------
Next ==
  \/ TaskNext /\ UNCHANGED recoveryVars
  \/ OwnerCrash \/ TerminationShown \/ EvidenceLost
  \/ \E r \in Reconcilers : ReconcileStep(r)

Spec == Init /\ [][Next]_vars
=============================================================================
