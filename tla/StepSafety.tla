----------------------------- MODULE StepSafety -----------------------------
(***************************************************************************)
(* What the execution of steps promises: properties of StepExecution.      *)
(***************************************************************************)
EXTENDS StepExecution

(* StepExecution as one step's StepContract sees it. *)
LaunchOf(s) ==
  CASE launch[s] = "none" -> "unasked"
    [] launch[s] \in {"offered", "queued"} -> "asked"
    [] launch[s] = "nil" -> "started"
    [] OTHER -> "refused"

VerdictOf(s) ==
  IF stepState[s] \in {"unregistered", "waiting", "running"} THEN "open" ELSE stepState[s]

ContainerFailed(s) == stepState[s] \in {"placeholderFailed", "failed"}

OthersFailed(s) == {t \in Steps \ {s} : ContainerFailed(t)}

Contract(s) == INSTANCE StepContract WITH
  image   <- image[s],
  ends    <- ended[s],
  launch  <- LaunchOf(s),
  answers <- answers[s],
  verdict <- VerdictOf(s),
  code    <- IF VerdictOf(s) = "open" THEN "nil" ELSE exitCode[s],
  others  <- OthersFailed(s),
  result  <- IF outcome[s] \in {"none", "failed", "other"} \cup ExitCodes THEN outcome[s] ELSE "error"

(* Run keeps its contract for every step, side by side with the others: the*)
(* launch is answered once and truly (launcher.go), the watcher decides a  *)
(* step's end once and by an end that came, whatever older snapshot of the *)
(* Pod the periodic check brings in later (updateContainers, "zombie"), and*)
(* the exit code reported is that decision, not another step's or a guess, *)
(* and no step is blamed for the failure of another (notifyClientsError).  *)
(* (\A s \in Steps : Contract(s)!Spec, in the form TLC takes.)             *)
ImplementsContract ==
  /\ \A s \in Steps : Contract(s)!Init
  /\ [][\A s \in Steps : [Contract(s)!Next]_(Contract(s)!contractVars)]_vars

(* Nobody stays on the list of wait clients whose event has come: a client *)
(* that asks after the event, or while updateContainers is under way, is   *)
(* answered too (the select's clientCh case, notifyClients).               *)
NoWaiterOverdue ==
  \A s \in Steps, w \in Waits : wait[s][w] = "listed" => ~Resolves(s, w, stepState[s])

(* A goroutine that is over has answered everyone on its list, so that no  *)
(* waiter of the watcher (notifyClientsPodTerminated) and no launch of the *)
(* launcher (the deferred function) outlives it.                           *)
NoWaiterLost ==
  /\ watcher = "done" => \A s \in Steps, w \in Waits : wait[s][w] # "listed"
  /\ launcher = "stopped" => \A s \in Steps : launch[s] # "queued"

(* Run never names a wrong reason: a stopped task, the end of the context, *)
(* the step's own container, another step's, or the end of the watch, each *)
(* is reported only when it is so, whichever of the answers and ends that  *)
(* race in its selects and in waitForEvent came first.                     *)
OutcomeExplained ==
  \A s \in Steps :
    /\ outcome[s] = "stopped" => stopped
    /\ outcome[s] = "canceled" => RunCanceled
    /\ outcome[s] = "failed" => ContainerFailed(s)
    /\ outcome[s] = "other" => \E t \in Steps \ {s} : ContainerFailed(t)
    /\ outcome[s] = "gone" => watcher \in {"closing", "done"}

(* podwatcher/errors.go on FailedContainerError: "returned as an error     *)
(* when placeholder container terminates abnormally".  Violated: a wait    *)
(* that is asked for after the placeholder has terminated is answered as   *)
(* if the step had run, and Run reports the placeholder's exit code.       *)
PlaceholderFailureIsAnError ==
  \A s \in Steps : outcome[s] \in ExitCodes => stepState[s] # "placeholderFailed"
=============================================================================
