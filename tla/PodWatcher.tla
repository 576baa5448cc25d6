----------------------------- MODULE PodWatcher -----------------------------
(***************************************************************************)
(* src/engine/podwatcher: one goroutine per task keeps the state of every  *)
(* step from what the watch and a periodic GET report of the Pod's         *)
(* containers, and answers those who wait for a step to start or to end.   *)
(* A waiter's channel is read as soon as it is handed over, so that an     *)
(* answer never blocks the goroutine.                                      *)
(***************************************************************************)
EXTENDS Launcher, Functions

CONSTANT Period     \* of the periodic GET; 0 is none

ASSUME PeriodAssumption == Period \in Nat

VARIABLES
  watcher,      \* the goroutine: none, started, closing (pw.stop is closed), done
  errDone,      \* pw.errDone
  watch,        \* the goroutine in Watch: none, watching, then its result
  polled,       \* the Pod that PeriodicCheck offers: a sequence of none or one
  seen,         \* updateContainers: the statuses it has yet to look at
  stepState,    \* of every registered step
  exitCode,     \* c.exitCode
  failing,      \* c.failedAt is set
  wait          \* each step's two calls of waitForEvent

watcherVars == <<watcher, errDone, watch, polled, seen, stepState, exitCode, failing, wait>>

StepStates == {"unregistered", "waiting", "running", "finished", "placeholderFailed", "failed"}

(* The order of the constants in container.go. *)
Order(state) ==
  CASE state = "unregistered" -> 0 [] state = "waiting" -> 1 [] state = "running" -> 2
    [] state = "finished" -> 3 [] state = "placeholderFailed" -> 4 [] state = "failed" -> 5

Waits == {"running", "finished"}

(* What waitForEvent returns: nil or an exit code, FailedContainerError,   *)
(* OtherContainerError, PodTerminatedError, UnknownContainerError, or the  *)
(* error the watch ended with.                                             *)
Errors == {"failed", "other", "gone", "unknown", "error"}

Results == {"nil", "exit1", "exit2"} \cup Errors

WatcherTypeOK ==
  /\ watcher \in {"none", "started", "closing", "done"}
  /\ errDone \in {"nil", "error"}
  /\ watch \in {"none", "watching", "nil", "error"}
  /\ polled \in Seq(Pods) /\ Len(polled) <= 1
  /\ DOMAIN seen \subseteq Steps /\ Range(seen) \subseteq Statuses
  /\ stepState \in [Steps -> StepStates]
  /\ exitCode \in [Steps -> Codes \cup {"nil"}]
  /\ failing \in [Steps -> BOOLEAN]
  /\ wait \in [Steps -> [Waits -> {"none", "asking", "listed"} \cup Results]]

WatcherInit ==
  /\ watcher = "none" /\ errDone = "nil" /\ watch = "none"
  /\ polled = <<>> /\ seen = <<>>
  /\ stepState = [s \in Steps |-> "unregistered"]
  /\ exitCode = [s \in Steps |-> "nil"]
  /\ failing = [s \in Steps |-> FALSE]
  /\ wait = [s \in Steps |-> [w \in Waits |-> "none"]]

elsewhere == <<stopVars, launcherVars>>

-----------------------------------------------------------------------------
(* Run's LoadOrStore and Start, under c.mu of a task that is not closed. *)
WatcherStarts ==
  /\ watcher' = IF watcher = "none" THEN "started" ELSE watcher
  /\ watch' = IF watcher = "none" THEN "watching" ELSE watch
  /\ UNCHANGED <<errDone, polled, seen, stepState, exitCode, failing, wait>>

(* KubernetesWatcher *)

(* The event Deleted, or an error of the watch, ends Watch. *)
WatchEnds ==
  /\ watch = "watching"
  /\ \/ podGone /\ watch' = "nil"
     \/ watch' = "error"
  /\ UNCHANGED <<podVars, elsewhere, watcher, errDone, polled, seen, stepState, exitCode, failing, wait>>

Poll ==
  /\ Period # 0 /\ watcher = "started" /\ polled = <<>> /\ ~podGone
  /\ polled' = <<status>>
  /\ UNCHANGED <<podVars, elsewhere, watcher, errDone, watch, seen, stepState, exitCode, failing, wait>>

-----------------------------------------------------------------------------
(* The goroutine's select *)

Selecting == watcher = "started" /\ seen = <<>>

(* An event carries the Pod as it is; events may be missed, or come twice. *)
EventArrives ==
  /\ Selecting /\ watch = "watching"
  /\ seen' = status
  /\ UNCHANGED <<podVars, elsewhere, watcher, errDone, watch, polled, stepState, exitCode, failing, wait>>

(* What the GET returned may be older than the last event. *)
PollArrives ==
  /\ Selecting /\ polled # <<>>
  /\ seen' = Head(polled)
  /\ polled' = <<>>
  /\ UNCHANGED <<podVars, elsewhere, watcher, errDone, watch, stepState, exitCode, failing, wait>>

(* AddContainer's containerRegCh. *)
Register(s) ==
  /\ Selecting
  /\ stepState' = [stepState EXCEPT ![s] = "waiting"]
  /\ exitCode' = [exitCode EXCEPT ![s] = "nil"]
  /\ failing' = [failing EXCEPT ![s] = FALSE]
  /\ UNCHANGED <<watcher, errDone, watch, polled, seen, wait>>

(* _tryResolveWaitClient *)
Resolves(s, w, state) == Order(state) >= Order(w)

Resolution(w, code) == IF w = "finished" THEN code ELSE "nil"

(* Wrong: every client is put on the list. *)
ClientArrivesWrong(s, w) ==
  /\ Selecting /\ wait[s][w] = "asking"
  /\ wait' = [wait EXCEPT ![s][w] = IF stepState[s] = "unregistered" THEN "unknown" ELSE "listed"]
  /\ UNCHANGED <<podVars, elsewhere, watcher, errDone, watch, polled, seen, stepState, exitCode, failing>>

ClientArrives(s, w) ==
  /\ Selecting /\ wait[s][w] = "asking"
  /\ wait' = [wait EXCEPT ![s][w] =
       IF stepState[s] = "unregistered" THEN "unknown"
       ELSE IF Resolves(s, w, stepState[s]) THEN Resolution(w, exitCode[s])
       ELSE "listed"]
  /\ UNCHANGED <<podVars, elsewhere, watcher, errDone, watch, polled, seen, stepState, exitCode, failing>>

(* Wrong: the context is not looked at. *)
WatcherClosesWrong ==
  /\ Selecting /\ watch # "watching"
  /\ errDone' = watch /\ watcher' = "closing"
  /\ UNCHANGED <<podVars, elsewhere, watch, polled, seen, stepState, exitCode, failing, wait>>

(* The loop ends with the context or with the watch. *)
WatcherCloses ==
  /\ Selecting
  /\ \/ stopped /\ errDone' = "error"
     \/ watch # "watching" /\ errDone' = watch
  /\ watcher' = "closing"
  /\ UNCHANGED <<podVars, elsewhere, watch, polled, seen, stepState, exitCode, failing, wait>>

(* waitForEvent and notifyClientsPodTerminated give the same answer. *)
TerminationError == IF errDone # "nil" THEN errDone ELSE "gone"

(* Wrong: nobody is told of an end without an error. *)
WatcherDoneWrong ==
  /\ watcher = "closing" /\ watcher' = "done"
  /\ wait' = [s \in Steps |-> [w \in Waits |->
       IF wait[s][w] = "listed" /\ errDone # "nil" THEN errDone ELSE wait[s][w]]]
  /\ UNCHANGED <<podVars, elsewhere, errDone, watch, polled, seen, stepState, exitCode, failing>>

(* notifyClientsPodTerminated *)
WatcherDone ==
  /\ watcher = "closing" /\ watcher' = "done"
  /\ wait' = [s \in Steps |-> [w \in Waits |->
       IF wait[s][w] = "listed" THEN TerminationError ELSE wait[s][w]]]
  /\ UNCHANGED <<podVars, elsewhere, errDone, watch, polled, seen, stepState, exitCode, failing>>

(* waitForEvent's other case: pw.stop is closed. *)
WaitStops(s, w) ==
  /\ wait[s][w] = "asking" /\ watcher \in {"closing", "done"}
  /\ wait' = [wait EXCEPT ![s][w] = TerminationError]
  /\ UNCHANGED <<podVars, elsewhere, watcher, errDone, watch, polled, seen, stepState, exitCode, failing>>

-----------------------------------------------------------------------------
(* updateContainers, for one container *)

(* notifyClientsContainerChange *)
Notified(s, state, code) ==
  wait' = [wait EXCEPT ![s] = [w \in Waits |->
    IF @[w] = "listed" /\ Resolves(s, w, state) THEN Resolution(w, code) ELSE @[w]]]

(* Wrong: everybody is told the container's own error. *)
NotifiedErrorWrong(s) ==
  wait' = [t \in Steps |-> [w \in Waits |-> IF wait[t][w] = "listed" THEN "failed" ELSE wait[t][w]]]

(* notifyClientsError with a FailedContainerError: everybody is told. *)
NotifiedError(s) ==
  wait' = [t \in Steps |-> [w \in Waits |->
    IF wait[t][w] # "listed" THEN wait[t][w] ELSE IF t = s THEN "failed" ELSE "other"]]

NotifyClients(s, state, code) ==
  CASE Order(state) <= Order("waiting")      -> UNCHANGED wait
    [] state \in {"running", "finished"}     -> Notified(s, state, code)
    [] state \in {"placeholderFailed", "failed"} -> NotifiedError(s)

(* The step gets this state and code, and its waiters are told. *)
Becomes(s, state, code) ==
  /\ stepState' = [stepState EXCEPT ![s] = state]
  /\ exitCode' = [exitCode EXCEPT ![s] = code]
  /\ NotifyClients(s, state, code)

Ignored == UNCHANGED <<stepState, exitCode, wait>>

(* Wrong: off by one. *)
EndedWrong(s) == Order(stepState[s]) > Order("finished")

Ended(s) == Order(stepState[s]) >= Order("finished")

(* A placeholder that waits or runs, before any restart. *)
StillPlaceholder(cs) == cs.image = "placeholder" /\ cs.state # "terminated" /\ ~cs.restarted

(* Wrong: any failure is waited out. *)
RecoveringWrong(cs) == cs.code \in {"exit1", "exit2"}

(* ExitCode = 2, Reason = "Error": Kubernetes may be about to recover. *)
Recovering(cs) == cs.code = "exit2"

LookAt(s) ==
  /\ watcher = "started" /\ s \in DOMAIN seen
  /\ seen' = Restrict(seen, DOMAIN seen \ {s})
  /\ UNCHANGED <<podVars, elsewhere, watcher, errDone, watch, polled>>

EndedSeen(s) ==
  /\ LookAt(s) /\ Ended(s)
  /\ NotifyClients(s, stepState[s], exitCode[s])
  /\ UNCHANGED <<stepState, exitCode, failing>>

NothingSeen(s) ==
  /\ LookAt(s)
  /\ \/ stepState[s] = "unregistered"
     \/ ~Ended(s) /\ (StillPlaceholder(seen[s]) \/ (Recovering(seen[s]) /\ ~seen[s].restarted))
  /\ Ignored /\ UNCHANGED failing

Open(s) ==
  /\ stepState[s] # "unregistered" /\ ~Ended(s)
  /\ ~StillPlaceholder(seen[s])

FailingSeen(s) == LookAt(s) /\ Open(s) /\ Recovering(seen[s]) /\ seen[s].restarted

(* The first time, and within the minute after that, recovery is waited    *)
(* for; after the minute the container has failed.                         *)
RecoveryAwaited(s) ==
  /\ FailingSeen(s)
  /\ failing' = [failing EXCEPT ![s] = TRUE]
  /\ Ignored

RecoveryGivenUp(s) ==
  /\ FailingSeen(s) /\ failing[s]
  /\ Becomes(s, "failed", seen[s].code)
  /\ UNCHANGED failing

SeenState(cs) ==
  CASE cs.state = "terminated" -> IF cs.image = "placeholder" THEN "placeholderFailed" ELSE "finished"
    [] cs.state = "running" /\ cs.image = "own" -> "running"
    [] OTHER -> "waiting"

(* The same state is ignored if the reason, which is not modelled, is the  *)
(* same too.                                                               *)
StateSeen(s) ==
  /\ LookAt(s) /\ Open(s) /\ ~Recovering(seen[s])
  /\ failing' = [failing EXCEPT ![s] = FALSE]
  /\ \/ SeenState(seen[s]) = stepState[s] /\ Ignored
     \/ Becomes(s, SeenState(seen[s]), seen[s].code)

WatcherStep ==
  \/ WatchEnds \/ Poll \/ EventArrives \/ PollArrives \/ WatcherCloses \/ WatcherDone
  \/ \E s \in Steps : \/ EndedSeen(s) \/ NothingSeen(s) \/ StateSeen(s)
                      \/ RecoveryAwaited(s) \/ RecoveryGivenUp(s)
                      \/ \E w \in Waits : ClientArrives(s, w) \/ WaitStops(s, w)
=============================================================================
