--------------------------- MODULE StepExecution ---------------------------
(***************************************************************************)
(* src/engine/engine_impl.go, Run: one call per step, from the registration*)
(* of its container to the exit code that runner-go reports.  The calls of *)
(* several steps run side by side and share the launcher and the watcher   *)
(* of their Pod.  Setup is over; Stop is stopCleanup, which TaskCleanup    *)
(* models for the resources of the task.                                   *)
(***************************************************************************)
EXTENDS PodWatcher

VARIABLES
  run,        \* each step's call: where it is
  outcome     \* what it returned: an exit code or an error

vars == <<podVars, stopVars, launcherVars, watcherVars, run, outcome>>

ExitCodes == Codes \cup {"nil"}

Outcomes == ExitCodes \cup LaunchAnswers \cup Errors \cup {"timeout"}

TypeOK ==
  /\ PodTypeOK /\ LauncherTypeOK /\ WatcherTypeOK
  /\ run \in [Steps -> {"idle", "adding", "starting", "launching", "waiting", "logs", "ending", "returned"}]
  /\ outcome \in [Steps -> {"none"} \cup Outcomes]

Init ==
  /\ PodInit /\ LauncherInit /\ WatcherInit
  /\ run = [s \in Steps |-> "idle"]
  /\ outcome = [s \in Steps |-> "none"]

At(s, pc) == run[s] = pc

GoesTo(s, pc) == run' = [run EXCEPT ![s] = pc] /\ UNCHANGED outcome

Returns(s, result) ==
  /\ run' = [run EXCEPT ![s] = "returned"]
  /\ outcome' = [outcome EXCEPT ![s] = result]

(* A wait is a call of waitForEvent in a goroutine of its own, which       *)
(* outlives Run if Run does not stay for the answer.                       *)
StartsWait(s, w) ==
  /\ wait' = [wait EXCEPT ![s][w] = "asking"]
  /\ UNCHANGED <<watcher, errDone, watch, polled, seen, stepState, exitCode, failing>>

RunBegins(s) ==
  /\ At(s, "idle")
  /\ IF stopped THEN Returns(s, "stopped") /\ UNCHANGED watcherVars
     ELSE GoesTo(s, "adding") /\ WatcherStarts
  /\ UNCHANGED <<podVars, stopVars, launcherVars>>

ContainerAdded(s) ==
  /\ At(s, "adding") /\ Register(s)
  /\ GoesTo(s, "starting")
  /\ UNCHANGED <<podVars, stopVars, launcherVars>>

AddRefused(s) ==
  /\ At(s, "adding") /\ watcher \in {"closing", "done"}
  /\ Returns(s, "gone")
  /\ UNCHANGED <<podVars, stopVars, launcherVars, watcherVars>>

StartContainer(s) ==
  /\ At(s, "starting") /\ LaunchOffered(s)
  /\ GoesTo(s, "launching")
  /\ UNCHANGED <<podVars, stopVars, watcherVars>>

LaunchReturns(s) ==
  /\ At(s, "launching") /\ launch[s] \in LaunchAnswers
  /\ IF launch[s] = "nil" THEN GoesTo(s, "waiting") /\ StartsWait(s, "running")
     ELSE Returns(s, launch[s]) /\ UNCHANGED watcherVars
  /\ UNCHANGED <<podVars, stopVars, launcherVars>>

StartSeen(s) ==
  /\ At(s, "waiting") /\ wait[s]["running"] \in Results
  /\ IF wait[s]["running"] = "nil" THEN GoesTo(s, "logs")
     ELSE Returns(s, wait[s]["running"])
  /\ UNCHANGED <<podVars, stopVars, launcherVars, watcherVars>>

StartTimesOut(s) ==
  /\ At(s, "waiting") /\ Returns(s, "timeout")
  /\ UNCHANGED <<podVars, stopVars, launcherVars, watcherVars>>

(* fetchLogs returns when the stream of the container's log ends.          *)
LogsEnd(s) ==
  /\ At(s, "logs") /\ GoesTo(s, "ending") /\ StartsWait(s, "finished")
  /\ UNCHANGED <<podVars, stopVars, launcherVars>>

LogsFail(s) ==
  /\ At(s, "logs") /\ Returns(s, "error")
  /\ UNCHANGED <<podVars, stopVars, launcherVars, watcherVars>>

EndSeen(s) ==
  /\ At(s, "ending") /\ wait[s]["finished"] \in Results
  /\ Returns(s, wait[s]["finished"])
  /\ UNCHANGED <<podVars, stopVars, launcherVars, watcherVars>>

(* Wrong: the log is read to its end. *)
InterruptedWrong(s) ==
  /\ \/ At(s, "launching") /\ launch[s] # "offered"
     \/ run[s] \in {"waiting", "ending"}
  /\ \/ RunCanceled /\ Returns(s, "canceled")
     \/ stopped /\ Returns(s, "stopped")
  /\ UNCHANGED <<podVars, stopVars, launcherVars, watcherVars>>

(* Wrong: a context that is done is taken for a stopped task. *)
StoppedWrong(s) ==
  /\ \/ At(s, "launching") /\ launch[s] # "offered"
     \/ run[s] \in {"waiting", "logs", "ending"}
  /\ RunCanceled /\ Returns(s, "stopped")
  /\ UNCHANGED <<podVars, stopVars, launcherVars, watcherVars>>

(* Each of Run's selects: ctx is done, or c.stop is closed.  The first is  *)
(* reached only when Launch has returned.                                  *)
Interrupted(s) ==
  /\ \/ At(s, "launching") /\ launch[s] # "offered"
     \/ run[s] \in {"waiting", "logs", "ending"}
  /\ \/ RunCanceled /\ Returns(s, "canceled")
     \/ stopped /\ Returns(s, "stopped")
  /\ UNCHANGED <<podVars, stopVars, launcherVars, watcherVars>>

RunStep(s) ==
  \/ RunBegins(s) \/ ContainerAdded(s) \/ AddRefused(s) \/ StartContainer(s) \/ LaunchReturns(s)
  \/ StartSeen(s) \/ StartTimesOut(s) \/ LogsEnd(s) \/ LogsFail(s) \/ EndSeen(s) \/ Interrupted(s)

(* The runner's context is cancelled. *)
Cancel ==
  /\ ~cancelled /\ cancelled' = TRUE
  /\ UNCHANGED <<podVars, stopped, launcherVars, watcherVars, run, outcome>>

(* stopCleanup *)
Stop ==
  /\ ~stopped /\ stopped' = TRUE
  /\ UNCHANGED <<podVars, cancelled, launcherVars, watcherVars, run, outcome>>

Kubelet == KubeletNext /\ UNCHANGED <<stopVars, launcherVars, watcherVars, run, outcome>>

Launches == LauncherStep /\ UNCHANGED <<watcherVars, run, outcome>>

Watches == WatcherStep /\ UNCHANGED <<run, outcome>>

Next == Kubelet \/ Launches \/ Watches \/ Cancel \/ Stop \/ \E s \in Steps : RunStep(s)

Spec == Init /\ [][Next]_vars
=============================================================================
