----------------------------- MODULE TaskSetup -----------------------------
(***************************************************************************)
(* One task inside the runner process that owns it: its state, the durable *)
(* record it saves to (src/engine/recovery_store.go), and the goroutine    *)
(* that runs Setup and create (src/engine/engine_impl.go, cleanup.go).     *)
(* TaskCleanup adds the goroutine that cleans up.                          *)
(*                                                                         *)
(* The two goroutines share c (mutex c.mu: every step below is one         *)
(* critical section, or one answer of the API server and the critical      *)
(* section after it) and the right to save (mutex c.persistMu, held from   *)
(* the snapshot to the answer).                                            *)
(***************************************************************************)
EXTENDS ApiServer

CONSTANT Recovery       \* k.recovery # nil

ASSUME RecoveryAssumption == Recovery \in BOOLEAN

VARIABLES
  \* the record's ConfigMap
  cm,              \* none, inflight, refused, stored, removed
  record,          \* its decoded contents
  holders,         \* the writers that saw its current resourceVersion
  \* cleanupState, the volatile memory of the owner process
  ownerUp,         \* the process is running
  cancelled,       \* the task's context is cancelled
  closed,          \* c.closed; c.stop is closed with it
  setupDone,       \* c.setupDone
  recordRequired,  \* c.recordRequired
  res,             \* c.resources
  persist,         \* the goroutine that holds c.persistMu
  snap,            \* the record that goroutine is saving
  \* the goroutine in Setup
  setupPc,
  next,            \* the create attempt it is at
  createErr,       \* create's err, returned after the outcome is saved
  \* the goroutine in cleanUntilDone
  cleanPc,
  view,            \* cleanOnce's copy of c.resources
  todo,            \* entries of view this pass still visits
  target,          \* the entry to delete, by which UID, and if it went unread
  complete         \* cleanOnce's complete

storeVars == <<cm, record, holders>>
stateVars == <<cancelled, closed, setupDone, recordRequired>>
saveVars  == <<persist, snap>>
setupVars == <<setupPc, next, createErr>>
cleanVars == <<cleanPc, view, todo, target, complete>>
ownerVars == <<ownerUp, stateVars, res, saveVars, setupVars, cleanVars>>
taskVars  == <<apiVars, storeVars, ownerVars>>

Owner == "owner"
NoTarget == [attempt |-> 0, uid |-> NoUID, unread |-> FALSE]
Targets == [attempt : 0 .. N, uid : UIDs, unread : BOOLEAN]

SetupPcs == {"idle", "checks", "init", "initWait", "create", "intent", "intentSave",
             "send", "wait", "outcome", "outcomeSave", "failed", "succeeded", "returned"}
CleanPcs == {"off", "begin", "beginSave", "scan", "pick", "note", "noteSave", "delete",
             "flushSave", "finish", "finishSave", "remove", "done"}

TaskTypeOK ==
  /\ ApiTypeOK
  /\ cm \in {"none", "inflight", "refused", "stored", "removed"}
  /\ record \in Records
  /\ ownerUp \in BOOLEAN /\ cancelled \in BOOLEAN /\ closed \in BOOLEAN
  /\ setupDone \in BOOLEAN /\ recordRequired \in BOOLEAN
  /\ res \in Resources
  /\ persist \in {"free", "setup", "clean"}
  /\ snap \in Records
  /\ setupPc \in SetupPcs /\ next \in Attempts /\ createErr \in {"nil", "error"}
  /\ cleanPc \in CleanPcs /\ view \in Resources /\ todo \in SUBSET Attempts
  /\ target \in Targets /\ complete \in BOOLEAN

SetupIdle ==
  /\ setupPc = "idle" /\ next = 1 /\ createErr = "nil"

CleanerOff ==
  /\ cleanPc = "off" /\ view = NoResources /\ todo = {}
  /\ target = NoTarget /\ complete = FALSE

TaskInit ==
  /\ ApiInit
  /\ cm = "none" /\ record = EmptyRecord /\ holders = {}
  /\ ownerUp = TRUE /\ cancelled = FALSE /\ closed = FALSE
  /\ setupDone = TRUE /\ recordRequired = FALSE
  /\ res = NoResources
  /\ persist = "free" /\ snap = EmptyRecord
  /\ SetupIdle
  /\ CleanerOff

-----------------------------------------------------------------------------
(* The durable record *)

(* Wrong: closed is saved before Setup has returned. *)
SnapshotWrong ==
  [closed |-> closed, reason |-> IF closed THEN "task-finished" ELSE "", res |-> res]

Snapshot ==
  [closed |-> closed /\ setupDone,
   reason |-> IF closed /\ setupDone THEN "task-finished" ELSE "",
   res    |-> res]

(* save: read, merge, and update if nobody updated in between.  An update  *)
(* that changes nothing keeps the resourceVersion.                         *)
Saved(rec) == MergeRecord(record, rec)

CanSave(rec) == cm = "stored" /\ Decodes(record) /\ Mergeable(record, rec)

SaveBy(writer, rec) ==
  /\ CanSave(rec)
  /\ record' = Saved(rec)
  /\ holders' = (IF record' = record THEN holders ELSE {}) \cup {writer}
  /\ UNCHANGED cm

Missing == cm # "stored"

(* remove: DELETE with the UID and resourceVersion the last save returned. *)
RemoveBy(writer) ==
  /\ cm = "stored" /\ writer \in holders
  /\ cm' = "removed" /\ record' = EmptyRecord /\ holders' = {}

(* Wrong: the mutex is not waited for. *)
TakeSaveWrong(goroutine) ==
  /\ persist' = goroutine
  /\ snap' = Snapshot

TakeSave(goroutine) ==
  /\ persist = "free"
  /\ persist' = goroutine
  /\ snap' = Snapshot

ReleaseSave ==
  /\ persist' = "free"
  /\ snap' = EmptyRecord

(* The answer to sync's save.  An error leaves it open whether the update  *)
(* took effect; only an "ok" merges the stored facts back into c.          *)
SaveAnswered(answer) ==
  \/ /\ answer = "ok"
     /\ SaveBy(Owner, snap)
     /\ res' = MergeResources(res, Saved(snap).res)
  \/ /\ answer = "error"
     /\ SaveBy(Owner, snap) \/ UNCHANGED storeVars
     /\ UNCHANGED res
  \/ /\ answer = "notfound"
     /\ Missing
     /\ UNCHANGED <<storeVars, res>>

SyncAnswered(answer) == SaveAnswered(answer) /\ ReleaseSave

(* sync and finish return at once when no record was ever required. *)
Durable == Recovery /\ recordRequired

-----------------------------------------------------------------------------
(* Setup and create *)

SetupAt(pc) == ownerUp /\ setupPc = pc

SetupGoes(pc) == setupPc' = pc /\ UNCHANGED <<next, createErr>>

(* execution.Setup in execer.go returns before the engine's Setup. *)
SetupSkipped ==
  /\ SetupAt("idle") /\ cancelled
  /\ SetupGoes("returned")
  /\ UNCHANGED <<apiVars, storeVars, ownerUp, stateVars, res, saveVars, cleanVars>>

SetupStart ==
  /\ SetupAt("idle")
  /\ setupDone' = FALSE
  /\ SetupGoes("checks")
  /\ UNCHANGED <<apiVars, storeVars, ownerUp, cancelled, closed, recordRequired,
                 res, saveVars, cleanVars>>

(* The management-namespace test, the test of setupCtx and checkTask: with *)
(* recovery a cancelled task gets no record.                               *)
ChecksPassed ==
  /\ SetupAt("checks")
  /\ Recovery => ~cancelled
  /\ SetupGoes(IF Recovery THEN "init" ELSE "create")
  /\ UNCHANGED <<apiVars, storeVars, ownerUp, stateVars, res, saveVars, cleanVars>>

ChecksFailed ==
  /\ SetupAt("checks") /\ Recovery
  /\ SetupGoes("failed")
  /\ UNCHANGED <<apiVars, storeVars, ownerUp, stateVars, res, saveVars, cleanVars>>

(* initialize posts the snapshot of a task that has created nothing yet. *)
InitializeSend ==
  /\ SetupAt("init")
  /\ recordRequired' = TRUE
  /\ cm' = "inflight"
  /\ SetupGoes("initWait")
  /\ UNCHANGED <<apiVars, record, holders, ownerUp, cancelled, closed, setupDone,
                 res, saveVars, cleanVars>>

InitializeOk ==
  /\ SetupAt("initWait") /\ cm = "stored"
  /\ SetupGoes("create")
  /\ UNCHANGED <<apiVars, storeVars, ownerUp, stateVars, res, saveVars, cleanVars>>

InitializeRejected ==
  /\ SetupAt("initWait") /\ cm = "refused"
  /\ recordRequired' = FALSE
  /\ SetupGoes("failed")
  /\ UNCHANGED <<apiVars, storeVars, ownerUp, cancelled, closed, setupDone,
                 res, saveVars, cleanVars>>

InitializeLost ==
  /\ SetupAt("initWait")
  /\ SetupGoes("failed")
  /\ UNCHANGED <<apiVars, storeVars, ownerUp, stateVars, res, saveVars, cleanVars>>

CreateBlocked ==
  /\ SetupAt("create") /\ (cancelled \/ closed)
  /\ SetupGoes("failed")
  /\ UNCHANGED <<apiVars, storeVars, ownerUp, stateVars, res, saveVars, cleanVars>>

CreateIntent ==
  /\ SetupAt("create") /\ ~cancelled /\ ~closed
  /\ res' = [res EXCEPT ![next] = Intent]
  /\ SetupGoes(IF Durable THEN "intent" ELSE "send")
  /\ UNCHANGED <<apiVars, storeVars, ownerUp, stateVars, saveVars, cleanVars>>

IntentBegin ==
  /\ SetupAt("intent")
  /\ TakeSave("setup")
  /\ SetupGoes("intentSave")
  /\ UNCHANGED <<apiVars, storeVars, ownerUp, stateVars, res, cleanVars>>

IntentSaved ==
  /\ SetupAt("intentSave")
  /\ SyncAnswered("ok")
  /\ SetupGoes("send")
  /\ UNCHANGED <<apiVars, ownerUp, stateVars, cleanVars>>

(* Wrong: the error of the first sync is ignored. *)
IntentUnsavedWrong ==
  /\ SetupAt("intentSave")
  /\ UNCHANGED <<storeVars, res>>
  /\ ReleaseSave
  /\ SetupGoes("send")
  /\ UNCHANGED <<apiVars, ownerUp, stateVars, cleanVars>>

(* No request was sent, even if the intent was stored after all. *)
IntentUnsaved ==
  /\ SetupAt("intentSave")
  /\ \/ SaveBy(Owner, snap)
     \/ UNCHANGED storeVars
  /\ ReleaseSave
  /\ res' = [res EXCEPT ![next] = Discard(@)]
  /\ SetupGoes("failed")
  /\ UNCHANGED <<apiVars, ownerUp, stateVars, cleanVars>>

CreateSend ==
  /\ SetupAt("send")
  /\ SendPost(next)
  /\ SetupGoes("wait")
  /\ UNCHANGED <<storeVars, ownerUp, stateVars, res, saveVars, cleanVars>>

AfterOutcome(err) ==
  \/ err # "nil" /\ setupPc' = "failed" /\ UNCHANGED next
  \/ err = "nil" /\ next = N /\ setupPc' = "succeeded" /\ UNCHANGED next
  \/ err = "nil" /\ next # N /\ setupPc' = "create" /\ next' = next + 1

CreateReturns(err) ==
  /\ \/ Durable /\ setupPc' = "outcome" /\ createErr' = err /\ UNCHANGED next
     \/ ~Durable /\ AfterOutcome(err) /\ UNCHANGED createErr
  /\ UNCHANGED <<apiVars, storeVars, ownerUp, stateVars, saveVars, cleanVars>>

(* The cancelled context stops the client before it sends. *)
CreateUnsent ==
  /\ SetupAt("send") /\ (cancelled \/ closed)
  /\ UNCHANGED res
  /\ CreateReturns("error")

CreateOk ==
  /\ SetupAt("wait") /\ request[next] = "committed"
  /\ res' = [res EXCEPT ![next] = Learn(@, next)]
  /\ CreateReturns("nil")

CreateRejected ==
  /\ SetupAt("wait") /\ request[next] = "refused"
  /\ res' = [res EXCEPT ![next] = Discard(@)]
  /\ CreateReturns("error")

(* Timeout, cancellation, a lost answer, or an error that does not prove   *)
(* the request was refused: the outcome stays unknown.                     *)
CreateLost ==
  /\ SetupAt("wait")
  /\ UNCHANGED res
  /\ CreateReturns("error")

OutcomeBegin ==
  /\ SetupAt("outcome")
  /\ TakeSave("setup")
  /\ SetupGoes("outcomeSave")
  /\ UNCHANGED <<apiVars, storeVars, ownerUp, stateVars, res, cleanVars>>

OutcomeSaved ==
  /\ SetupAt("outcomeSave")
  /\ \E answer \in {"ok", "error"} :
       /\ SyncAnswered(answer)
       /\ AfterOutcome(IF answer = "ok" THEN createErr ELSE answer)
  /\ createErr' = "nil"
  /\ UNCHANGED <<apiVars, ownerUp, stateVars, cleanVars>>

(* The deferred function of Setup; on an error stopCleanup follows. *)
SetupReturn ==
  /\ ownerUp /\ setupPc \in {"failed", "succeeded"}
  /\ setupDone' = TRUE
  /\ SetupGoes("returned")
  /\ UNCHANGED <<apiVars, storeVars, ownerUp, cancelled, closed, recordRequired,
                 res, saveVars, cleanVars>>

SetupStep ==
  \/ SetupSkipped \/ SetupStart \/ ChecksPassed \/ ChecksFailed
  \/ InitializeSend \/ InitializeOk \/ InitializeRejected \/ InitializeLost
  \/ CreateBlocked \/ CreateIntent \/ IntentBegin \/ IntentSaved \/ IntentUnsaved
  \/ CreateSend \/ CreateUnsent \/ CreateOk \/ CreateRejected \/ CreateLost
  \/ OutcomeBegin \/ OutcomeSaved \/ SetupReturn
=============================================================================
