------------------------- MODULE LifecycleInvariant -------------------------
(***************************************************************************)
(* The inductive invariant behind the safety properties of LifecycleSafety.*)
(* Facts about an attempt exist in many copies: c.resources, the cleaner's *)
(* view, the snapshot being saved, the stored record, and the record each  *)
(* recovery loop works on.  The idea of the invariant is that every copy   *)
(* is sound, however stale: whatever it claims is true for good, because   *)
(* what it can claim are stable facts about the API server.                *)
(***************************************************************************)
EXTENDS LifecycleSafety

(* No create is sent any more: Setup gave up, returned, or died. *)
Over == setupPc \in {"failed", "returned"}

(* Attempt a has no effect now and never will have again. *)
Settled(a) ==
  \/ request[a] = "refused"
  \/ request[a] = "committed" /\ ~OwnExists(a)
  \/ request[a] = "none" /\ Over

(* What done rests on: no object was ever made, or the UID is known, and   *)
(* for a Pod somebody wanted it deleted.                                   *)
Grounded(a, f) ==
  IF f.uid = NoUID THEN request[a] # "committed" ELSE Kind[a] = "pods" => f.delReq

(* The facts about attempt a that are true, and will stay so. *)
Truths(a) ==
  {f \in Facts :
     IF f.listed
     THEN /\ f.uid # NoUID => f.uid = a /\ request[a] = "committed"
          /\ DecodesFacts(f)
          /\ f.done => Settled(a) /\ Grounded(a, f)
     ELSE f = Unlisted}

Truthful == {facts \in Resources : \A a \in Attempts : facts[a] \in Truths(a)}

(* The records that hold true facts only, list no attempt a living owner   *)
(* does not, and say closed only if the task is stopped and Setup over.    *)
Accurate ==
  {rec \in Records :
     /\ rec.res \in Truthful
     /\ ownerUp => \A a \in Attempts : rec.res[a].listed => res[a].listed
     /\ rec.closed => setupPc = "returned" /\ (closed \/ ~ownerUp)}

(* The object a DELETE is aimed at was created by the attempt it is for. *)
Aimed(t, facts) ==
  /\ t.attempt \in Attempts /\ t.uid = t.attempt
  /\ LET f == facts[t.attempt] IN f.listed /\ ~f.unknown /\ f.uid = t.attempt /\ f.delReq

(* What the local variables of a recovery loop may be. *)
Scans ==
  {w \in Workers :
     /\ w.rec \in Accurate
     /\ \A a \in w.todo : w.rec.res[a].listed
     /\ w.pc \in {"idle", "judge", "save"} => w.todo = {}
     /\ w.pc \in {"note", "delete"} => Aimed(w.target, w.rec.res)
     /\ w.pc \notin {"idle", "judge"} => w.rec.closed
     /\ w.pc = "ack" => RecordComplete(w.rec)}

CopiesAccurate ==
  /\ res \in Truthful /\ view \in Truthful
  /\ record \in Accurate /\ snap \in Accurate
  /\ worker \in [Reconcilers -> Scans]

(* An object under an attempt's own UID was put there by its own create. *)
OwnWasCreated == \A a \in Attempts : OwnExists(a) => request[a] = "committed"

(* Somebody else's object is not on its way out by our doing. *)
ForeignAlive == \A a \in Attempts : object[a].uid = Foreign => ~object[a].deleting

BeforeSend == {"idle", "checks", "init", "initWait", "create", "intent", "intentSave", "send"}

(* The creates are sent in order, each at most once. *)
SentInOrder ==
  ownerUp => \A a \in Attempts :
    a > next \/ (a = next /\ setupPc \in BeforeSend) => request[a] = "none"

(* The owner's list has every attempt it has sent or is about to send. *)
OwnerLists ==
  ownerUp => \A a \in Attempts :
    \/ request[a] # "none"
    \/ a = next /\ setupPc \in {"intent", "intentSave", "send", "wait"}
    => res[a].listed

(* A finding of the cleaner is a finding about what it copied: what view   *)
(* knows, c.resources knows.                                               *)
ViewIsOld ==
  /\ \A a \in Attempts : view[a].listed =>
       res[a].listed /\ (res[a].unknown => view[a].unknown) /\ (view[a].delReq => res[a].delReq)
  /\ \A a \in todo : view[a].listed /\ ~view[a].done
  /\ ~closed => view = NoResources /\ todo = {}

CleanerAims == cleanPc \in {"note", "noteSave", "delete"} => Aimed(target, res)

InCreate == setupPc \in {"intent", "intentSave", "send", "wait", "outcome", "outcomeSave"}

(* The pcs of a cleaner that has no record to save. *)
NoRecordPcs == {"off", "begin", "scan", "pick", "delete", "done"}

(* Nothing can be added to the owner's list: the gate is closed and Setup  *)
(* is not inside create.                                                   *)
Gate == closed /\ ~InCreate

CleanerCovers ==
  /\ complete => Gate /\ \A a \in Attempts : res[a].listed => res[a].done \/ a \in todo
  /\ cleanPc \in {"finish", "finishSave", "remove", "done"} =>
       Gate /\ \A a \in Attempts : res[a].listed => res[a].done
  /\ cleanPc # "off" => closed /\ ownerUp
  /\ cleanPc = "flushSave" => todo = {}
  /\ complete => cleanPc \in {"pick", "note", "noteSave", "delete", "flushSave"}

(* persistMu excludes the other goroutine from a save under way. *)
SaveMutex ==
  /\ setupPc \in {"intentSave", "outcomeSave"} => persist = "setup"
  /\ cleanPc \in {"beginSave", "noteSave", "flushSave", "finishSave", "remove"} => persist = "clean"

(* With recovery, whatever is live is listed in the stored record, and so  *)
(* is what Setup is about to send.                                         *)
RecordLeads ==
  Recovery =>
    /\ \A a \in Attempts : Live(a) => cm = "stored" /\ record.res[a].listed
    /\ setupPc = "intentSave" => snap.res[next].listed
    /\ setupPc \in {"send", "wait"} => record.res[next].listed
    /\ InCreate \/ setupPc \in {"create", "succeeded"} => recordRequired /\ cm = "stored"

RecordKept ==
  /\ setupPc \in {"idle", "checks", "init"} => ~recordRequired /\ cm = "none" /\ cleanPc \in NoRecordPcs
  /\ setupPc = "initWait" => recordRequired
  /\ setupPc \in {"init", "initWait"} => Recovery
  /\ cm # "stored" => record = EmptyRecord /\ holders = {}
  /\ ~Recovery => ~recordRequired /\ cm = "none" /\ cleanPc \in NoRecordPcs

OwnerEnds ==
  /\ setupDone => setupPc \in {"idle", "returned"}
  /\ evidence = "shown" => ~ownerUp
  /\ ~ownerUp => setupPc = "returned" /\ cleanPc = "off"

(* Whoever may remove the record knows exactly what it says. *)
HoldersKnow ==
  /\ cleanPc = "remove" /\ Owner \in holders => record = snap
  /\ \A r \in Reconcilers : worker[r].pc = "ack" /\ r \in holders => record = worker[r].rec

IInv ==
  /\ TypeOK /\ CopiesAccurate /\ OwnWasCreated /\ ForeignAlive /\ SentInOrder /\ OwnerLists
  /\ ViewIsOld /\ CleanerAims /\ CleanerCovers /\ SaveMutex /\ RecordLeads /\ RecordKept
  /\ OwnerEnds /\ HoldersKnow /\ LiveTaskKept

-----------------------------------------------------------------------------
(* Why a namespace goes last: whoever condemned it knew that nothing can   *)
(* come into it any more, and that stays so.                               *)
Barren ==
  /\ Gate \/ ~ownerUp
  /\ \A b \in Attempts : Kind[b] # "namespaces" => ~Live(b)

NamespaceAimed(t) == t.attempt \in Attempts /\ Kind[t.attempt] = "namespaces"

(* A loop that is past its judgement lists what the stored record lists.   *)
Covers(w) == record.closed /\ \A a \in Attempts : record.res[a].listed => w.rec.res[a].listed

NamespaceInv ==
  /\ \A a \in deletesSent : Kind[a] = "namespaces" => Barren
  /\ cleanPc \in {"note", "noteSave", "delete"} /\ NamespaceAimed(target) => Barren
  /\ \A r \in Reconcilers :
       /\ worker[r].pc \in {"note", "delete"} /\ NamespaceAimed(worker[r].target) => Barren
       /\ worker[r].pc # "idle" => cm \in {"stored", "removed"}
       /\ worker[r].pc \in {"each", "note", "delete"} /\ cm = "stored" => Covers(worker[r])

-----------------------------------------------------------------------------
(* Why no save is refused: what a closed record lacks nobody lists.  Facts *)
(* of one attempt never disagree, since all of them are true.              *)
Within(p, q) == \A a \in Attempts : p[a].listed => q[a].listed

MergeInv ==
  /\ ownerUp /\ cm = "stored" /\ record.closed => Within(res, record.res)
  /\ ownerUp /\ snap.closed => Within(res, snap.res)
  /\ ~ownerUp => persist = "free"
  /\ \A r \in Reconcilers : worker[r].pc # "idle" /\ cm = "stored" =>
       /\ Within(worker[r].rec.res, record.res)
       /\ ownerUp /\ worker[r].rec.closed => record.closed

(* Why a record that outlives its cleaner is empty: it reached the store   *)
(* after the cleaner had looked, and no loop may take it over.             *)
LeftoverInv ==
  /\ ownerUp /\ ~recordRequired => cm \in {"none", "refused"}
  /\ cleanPc = "done" /\ cm = "stored" =>
       /\ record = EmptyRecord
       /\ \A r \in Reconcilers :
            worker[r].pc = "idle" \/ (worker[r].pc = "judge" /\ ~worker[r].rec.closed)
=============================================================================
