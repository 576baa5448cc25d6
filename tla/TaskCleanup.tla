---------------------------- MODULE TaskCleanup ----------------------------
(***************************************************************************)
(* The cleaner of one task: stopCleanup, cleanUntilDone, cleanOnce,        *)
(* cleanResourceContext (src/engine/cleanup.go) and finish                 *)
(* (src/engine/recovery_store.go), running next to Setup.                  *)
(***************************************************************************)
EXTENDS TaskSetup

-----------------------------------------------------------------------------
(* cleanResourceContext, as far as the owner's cleaner and the recovery    *)
(* of a dead owner's record (LifecycleRecovery) share it: what it decides  *)
(* from the facts f it was given about attempt a.                          *)

(* A Secret of known UID is deleted without being read first. *)
DeletesUnread(a, f) == Kind[a] = "secrets" /\ f.uid # NoUID /\ ~f.unknown

(* Wrong: labels and create attempt are not compared. *)
OwnedWrong(a, f) == Exists(a) /\ f.uid \in {NoUID, object[a].uid}

(* The object that was read is the one attempt a created: its labels carry *)
(* this task, attempt and pool, and its UID is the recorded one if any.    *)
Owned(a, f) == OwnExists(a) /\ f.uid \in {NoUID, object[a].uid}

(* Wrong: a create whose outcome is unknown is taken as never made. *)
GoneIsProofWrong(a, f) == ~(Kind[a] = "pods" /\ f.uid # NoUID /\ ~f.delReq)

(* Wrong: a Pod that vanished by itself is taken as stopped. *)
VanishedIsProofWrong(a, f) == ~f.unknown

(* NotFound proves an attempt settled unless its create may still commit,  *)
(* or it is a Pod nobody here asked to stop.                               *)
GoneIsProof(a, f) ==
  /\ ~f.unknown
  /\ ~(Kind[a] = "pods" /\ f.uid # NoUID /\ ~f.delReq)

Reads(a, f)        == ~DeletesUnread(a, f)
ReadsNothing(a, f) == Reads(a, f) /\ ~Exists(a)
ReadsDying(a, f)   == Reads(a, f) /\ Owned(a, f) /\ object[a].deleting
MayDelete(a, f)    == DeletesUnread(a, f) \/ (Owned(a, f) /\ ~object[a].deleting)

(* The UID the DELETE carries: the recorded one, or the one just read. *)
DeleteUID(a, f) == IF DeletesUnread(a, f) THEN f.uid ELSE object[a].uid

TargetOf(a, f) == [attempt |-> a, uid |-> DeleteUID(a, f), unread |-> DeletesUnread(a, f)]

(* The answer of the DELETE proves removal only when nothing was read      *)
(* before it: otherwise a later pass has to see the object gone.           *)
DeleteIsProof(t) == t.unread /\ ~Exists(t.attempt)

Rank(a) == CASE Kind[a] = "pods" -> 1 [] Kind[a] = "secrets" -> 2 [] OTHER -> 3

(* The order of cleanOnce's and reconcileRecord's two nested loops. *)
First(todoSet, a) ==
  /\ a \in todoSet
  /\ \A b \in todoSet : Rank(a) < Rank(b) \/ (Rank(a) = Rank(b) /\ a <= b)

-----------------------------------------------------------------------------
CleanAt(pc) == ownerUp /\ cleanPc = pc

CleanGoes(pc) == cleanPc' = pc /\ UNCHANGED <<view, todo, target, complete>>

(* The pass is over; its local variables with it. *)
PassEnds(pc) ==
  cleanPc' = pc /\ view' = NoResources /\ todo' = {} /\ target' = NoTarget /\ complete' = FALSE

Cancel ==
  /\ ownerUp /\ ~cancelled
  /\ cancelled' = TRUE
  /\ UNCHANGED <<apiVars, storeVars, ownerUp, closed, setupDone, recordRequired,
                 res, saveVars, setupVars, cleanVars>>

(* Destroy: when the task is cancelled, Setup failed, or the steps are over. *)
StopCleanup ==
  /\ ownerUp /\ ~closed
  /\ cancelled \/ setupPc = "returned"
  /\ closed' = TRUE
  /\ CleanGoes("begin")
  /\ UNCHANGED <<apiVars, storeVars, ownerUp, cancelled, setupDone, recordRequired,
                 res, saveVars, setupVars>>

(* cleanOnce first tries to save that the task is closed. *)
HandoffBegin ==
  /\ CleanAt("begin") /\ Durable
  /\ TakeSave("clean")
  /\ CleanGoes("beginSave")
  /\ UNCHANGED <<apiVars, storeVars, ownerUp, stateVars, res, setupVars>>

(* Wrong: nothing is deleted before the closed task could be saved. *)
HandoffSavedWrong ==
  /\ CleanAt("beginSave")
  /\ \/ SyncAnswered("ok") /\ CleanGoes("scan")
     \/ SyncAnswered("error") /\ CleanGoes("begin")
  /\ UNCHANGED <<apiVars, ownerUp, stateVars, setupVars>>

HandoffSaved ==
  /\ CleanAt("beginSave")
  /\ \E answer \in {"ok", "error"} : SyncAnswered(answer)
  /\ CleanGoes("scan")
  /\ UNCHANGED <<apiVars, ownerUp, stateVars, setupVars>>

(* Wrong: one at a time in the order of creation, the next when it is done. *)
ScanWrong ==
  /\ \/ CleanAt("scan")
     \/ CleanAt("begin") /\ ~Durable
  /\ cleanPc' = "pick"
  /\ view' = res
  /\ todo' = {a \in Attempts : /\ res[a].listed /\ ~res[a].done
                               /\ \A b \in 1 .. a - 1 : res[b].listed => res[b].done}
  /\ complete' = (setupDone /\ \A a \in Attempts : res[a].listed => res[a].done \/ a \in todo')
  /\ UNCHANGED <<apiVars, storeVars, ownerUp, stateVars, res, saveVars, setupVars, target>>

Scan ==
  /\ \/ CleanAt("scan")
     \/ CleanAt("begin") /\ ~Durable
  /\ cleanPc' = "pick"
  /\ view' = res
  /\ todo' = {a \in Attempts : res[a].listed /\ ~res[a].done}
  /\ complete' = setupDone
  /\ UNCHANGED <<apiVars, storeVars, ownerUp, stateVars, res, saveVars, setupVars, target>>

(* One entry of view is dealt with; done is what cleanResourceContext said. *)
Visited(a, done) ==
  /\ todo' = todo \ {a}
  /\ complete' = (complete /\ done)
  /\ UNCHANGED view

SkipNamespace(a) ==
  /\ CleanAt("pick") /\ First(todo, a)
  /\ Kind[a] = "namespaces" /\ ~complete
  /\ Visited(a, FALSE)
  /\ UNCHANGED <<apiVars, storeVars, ownerUp, stateVars, res, saveVars, setupVars, cleanPc, target>>

Visits(a) ==
  /\ CleanAt("pick") /\ First(todo, a)
  /\ Kind[a] = "namespaces" => complete

ReadGone(a) ==
  /\ Visits(a)
  /\ ReadsNothing(a, view[a])
  /\ Visited(a, GoneIsProof(a, view[a]))
  /\ res' = IF GoneIsProof(a, view[a]) THEN [res EXCEPT ![a] = MarkDone(@)] ELSE res
  /\ UNCHANGED <<apiVars, storeVars, ownerUp, stateVars, saveVars, setupVars, cleanPc, target>>

ReadDying(a) ==
  /\ Visits(a)
  /\ ReadsDying(a, view[a])
  /\ res' = [res EXCEPT ![a] = Learn(@, object[a].uid)]
  /\ Visited(a, FALSE)
  /\ UNCHANGED <<apiVars, storeVars, ownerUp, stateVars, saveVars, setupVars, cleanPc, target>>

(* The GET failed, or the object is not this attempt's: retained. *)
ReadFailed(a) ==
  /\ Visits(a)
  /\ Reads(a, view[a])
  /\ Visited(a, FALSE)
  /\ UNCHANGED <<apiVars, storeVars, ownerUp, stateVars, res, saveVars, setupVars, cleanPc, target>>

BeforeDelete(a) ==
  /\ Visits(a)
  /\ MayDelete(a, view[a])
  /\ res' = [res EXCEPT ![a] = Condemn(@, DeleteUID(a, view[a]))]
  /\ target' = TargetOf(a, view[a])
  /\ cleanPc' = IF Durable THEN "note" ELSE "delete"
  /\ UNCHANGED <<apiVars, storeVars, ownerUp, stateVars, saveVars, setupVars, view, todo, complete>>

NoteBegin ==
  /\ CleanAt("note")
  /\ TakeSave("clean")
  /\ CleanGoes("noteSave")
  /\ UNCHANGED <<apiVars, storeVars, ownerUp, stateVars, res, setupVars>>

NoteSaved ==
  /\ CleanAt("noteSave")
  /\ \E answer \in {"ok", "error"} : SyncAnswered(answer)
  /\ CleanGoes("delete")
  /\ UNCHANGED <<apiVars, ownerUp, stateVars, setupVars>>

Deleted(done) ==
  /\ res' = IF done THEN [res EXCEPT ![target.attempt] = MarkDone(@)] ELSE res
  /\ Visited(target.attempt, done)
  /\ cleanPc' = "pick" /\ target' = NoTarget
  /\ UNCHANGED <<storeVars, ownerUp, stateVars, saveVars, setupVars>>

DeleteProves ==
  /\ CleanAt("delete")
  /\ DeleteIsProof(target)
  /\ Delete(target.attempt, target.uid)
  /\ Deleted(TRUE)

DeleteSent ==
  /\ CleanAt("delete")
  /\ Delete(target.attempt, target.uid)
  /\ Deleted(FALSE)

DeleteLost ==
  /\ CleanAt("delete")
  /\ LostDelete(target.attempt)
  /\ Deleted(FALSE)

(* Wrong: an incomplete pass is not followed by another. *)
PassUnsavedWrong ==
  /\ CleanAt("pick") /\ todo = {} /\ ~Durable
  /\ \/ complete /\ PassEnds("done")
     \/ ~complete /\ PassEnds("off")
  /\ UNCHANGED <<apiVars, storeVars, ownerUp, stateVars, res, saveVars, setupVars>>

(* The end of the pass without a record: closing c.done, or another pass. *)
PassUnsaved ==
  /\ CleanAt("pick") /\ todo = {} /\ ~Durable
  /\ \/ complete /\ PassEnds("done")
     \/ ~complete /\ PassEnds("begin")
  /\ UNCHANGED <<apiVars, storeVars, ownerUp, stateVars, res, saveVars, setupVars>>

FlushBegin ==
  /\ CleanAt("pick") /\ todo = {} /\ Durable
  /\ TakeSave("clean")
  /\ CleanGoes("flushSave")
  /\ UNCHANGED <<apiVars, storeVars, ownerUp, stateVars, res, setupVars>>

FlushSaved ==
  /\ CleanAt("flushSave")
  /\ \E answer \in {"ok", "error", "notfound"} :
       /\ SyncAnswered(answer)
       /\ \/ complete /\ answer # "error" /\ PassEnds("finish")
          \/ (~complete \/ answer = "error") /\ PassEnds("begin")
  /\ UNCHANGED <<apiVars, ownerUp, stateVars, setupVars>>

FinishBegin ==
  /\ CleanAt("finish")
  /\ TakeSave("clean")
  /\ CleanGoes("finishSave")
  /\ UNCHANGED <<apiVars, storeVars, ownerUp, stateVars, res, setupVars>>

(* finish keeps persistMu between its save and its remove. *)
FinishSaved ==
  /\ CleanAt("finishSave")
  /\ SaveBy(Owner, snap)
  /\ snap' = Saved(snap)
  /\ CleanGoes("remove")
  /\ UNCHANGED <<apiVars, ownerUp, stateVars, res, persist, setupVars>>

FinishUnsaved ==
  /\ CleanAt("finishSave")
  /\ \/ Missing /\ UNCHANGED storeVars /\ CleanGoes("done")
     \/ (SaveBy(Owner, snap) \/ UNCHANGED storeVars) /\ CleanGoes("begin")
  /\ ReleaseSave
  /\ UNCHANGED <<apiVars, ownerUp, stateVars, res, setupVars>>

FinishRemoved ==
  /\ CleanAt("remove")
  /\ RecordComplete(snap)
  /\ \/ RemoveBy(Owner) /\ CleanGoes("done")
     \/ RemoveBy(Owner) /\ CleanGoes("begin")
     \/ Missing /\ UNCHANGED storeVars /\ CleanGoes("done")
  /\ ReleaseSave
  /\ UNCHANGED <<apiVars, ownerUp, stateVars, res, setupVars>>

(* Wrong: a failed remove ends the task. *)
FinishNotRemovedWrong ==
  /\ CleanAt("remove")
  /\ CleanGoes("done")
  /\ ReleaseSave
  /\ UNCHANGED <<apiVars, storeVars, ownerUp, stateVars, res, setupVars>>

(* Wrong: this return does not release the mutex. *)
FinishLockedWrong ==
  /\ CleanAt("remove")
  /\ CleanGoes("begin")
  /\ UNCHANGED <<apiVars, storeVars, ownerUp, stateVars, res, saveVars, setupVars>>

(* A conflict, an error, or a record that is still pending. *)
FinishNotRemoved ==
  /\ CleanAt("remove")
  /\ CleanGoes("begin")
  /\ ReleaseSave
  /\ UNCHANGED <<apiVars, storeVars, ownerUp, stateVars, res, setupVars>>

CleanerStep ==
  \/ HandoffBegin \/ HandoffSaved \/ Scan
  \/ \E a \in Attempts : \/ SkipNamespace(a) \/ ReadGone(a) \/ ReadDying(a)
                         \/ ReadFailed(a) \/ BeforeDelete(a)
  \/ NoteBegin \/ NoteSaved \/ DeleteProves \/ DeleteSent \/ DeleteLost
  \/ PassUnsaved \/ FlushBegin \/ FlushSaved
  \/ FinishBegin \/ FinishSaved \/ FinishUnsaved \/ FinishRemoved \/ FinishNotRemoved

-----------------------------------------------------------------------------
(* The API server, for the task's objects and for its record. *)

ApiStep == ApiNext /\ UNCHANGED <<storeVars, ownerVars>>

RecordCommit ==
  /\ cm = "inflight" /\ cm' = "stored"
  /\ UNCHANGED <<apiVars, record, holders, ownerVars>>

RecordRefuse ==
  /\ cm = "inflight" /\ cm' = "refused"
  /\ UNCHANGED <<apiVars, record, holders, ownerVars>>

World == ApiStep \/ RecordCommit \/ RecordRefuse

TaskNext == Cancel \/ StopCleanup \/ SetupStep \/ CleanerStep \/ World

TaskSpec == TaskInit /\ [][TaskNext]_taskVars
=============================================================================
