------------------------------ MODULE Launcher ------------------------------
(***************************************************************************)
(* src/engine/launcher/launcher.go: one goroutine per task collects the    *)
(* launches of several steps for a moment and gives all their containers   *)
(* their images in one update of the Pod.  Every launch has a channel      *)
(* chErr for one answer.  Stop is not called anywhere; the goroutine ends  *)
(* with c.ctx, that is, when the task is stopped.                          *)
(***************************************************************************)
EXTENDS PodContainers

VARIABLES
  stopped,       \* stopCleanup has run: c.stop is closed, c.ctx cancelled
  cancelled,     \* the context of the steps is cancelled
  launcher,      \* the goroutine: none, select, updating, answering, closing, stopped
  requests,      \* l.requests
  batch,         \* the requests startContainers works on
  updateErr,     \* its err
  launch,        \* each step's Launch: where it is, then the answer on chErr
  answers        \* history: how often chErr was sent to

launcherVars == <<launcher, requests, batch, updateErr, launch, answers>>
stopVars     == <<stopped, cancelled>>

LaunchAnswers == {"nil", "notfound", "error", "canceled", "stopped"}

LaunchPcs == {"none", "offered", "queued"} \cup LaunchAnswers

LauncherTypeOK ==
  /\ stopped \in BOOLEAN /\ cancelled \in BOOLEAN
  /\ launcher \in {"none", "select", "updating", "answering", "closing", "stopped"}
  /\ requests \in SUBSET Steps /\ batch \in SUBSET Steps
  /\ updateErr \in {"nil", "error"}
  /\ launch \in [Steps -> LaunchPcs]
  /\ answers \in [Steps -> 0 .. 2]

LauncherInit ==
  /\ stopped = FALSE /\ cancelled = FALSE
  /\ launcher = "none" /\ requests = {} /\ batch = {} /\ updateErr = "nil"
  /\ launch = [s \in Steps |-> "none"]
  /\ answers = [s \in Steps |-> 0]

(* runCtx, which Run derives from both, is done. *)
RunCanceled == cancelled \/ stopped

(* startContainer: under c.mu it meets the closed task or starts the        *)
(* goroutine with the first launch; then it is in Launch.                  *)
LaunchOffered(s) ==
  /\ launch' = [launch EXCEPT ![s] = IF stopped THEN "stopped" ELSE "offered"]
  /\ launcher' = IF launcher = "none" /\ ~stopped THEN "select" ELSE launcher
  /\ answers' = [answers EXCEPT ![s] = IF stopped THEN @ + 1 ELSE @]
  /\ UNCHANGED <<requests, batch, updateErr>>

(* A send on chErr, which has room for one: a second would block for good. *)
Answer(s, err) ==
  /\ answers[s] < 2
  /\ launch' = [launch EXCEPT ![s] = err]
  /\ answers' = [answers EXCEPT ![s] = @ + 1]

(* Launch's select. *)
LaunchAccepted(s) ==
  /\ launch[s] = "offered" /\ launcher = "select"
  /\ launch' = [launch EXCEPT ![s] = "queued"]
  /\ requests' = requests \cup {s}
  /\ UNCHANGED <<podVars, stopVars, launcher, batch, updateErr, answers>>

LaunchCanceled(s) ==
  /\ launch[s] = "offered" /\ (RunCanceled \/ launcher = "stopped")
  /\ Answer(s, "canceled")
  /\ UNCHANGED <<podVars, stopVars, launcher, requests, batch, updateErr>>

(* The timer, armed by the first request and again by every other. *)
TimerFires ==
  /\ launcher = "select" /\ requests # {}
  /\ launcher' = "updating" /\ batch' = requests
  /\ UNCHANGED <<podVars, stopVars, requests, updateErr, launch, answers>>

(* startContainers: after any number of conflicts the update succeeds, or  *)
(* it fails, in which case it may have taken effect.                       *)
UpdateSucceeds ==
  /\ launcher = "updating"
  /\ UpdateImages(batch)
  /\ launcher' = "answering" /\ updateErr' = "nil"
  /\ UNCHANGED <<stopVars, requests, batch, launch, answers>>

UpdateFails ==
  /\ launcher = "updating"
  /\ UpdateImages(batch) \/ UNCHANGED podVars
  /\ launcher' = "answering" /\ updateErr' = "error"
  /\ UNCHANGED <<stopVars, requests, batch, launch, answers>>

(* Wrong: a container that was not found is not told apart. *)
AnswerRequestWrong(s) ==
  /\ launcher = "answering" /\ s \in batch
  /\ Answer(s, updateErr)
  /\ batch' = batch \ {s}
  /\ UNCHANGED <<podVars, stopVars, launcher, requests, updateErr>>

AnswerRequest(s) ==
  /\ launcher = "answering" /\ s \in batch
  /\ Answer(s, IF updateErr # "nil" THEN updateErr
               ELSE IF image[s] = "none" THEN "notfound" ELSE "nil")
  /\ batch' = batch \ {s}
  /\ UNCHANGED <<podVars, stopVars, launcher, requests, updateErr>>

BatchAnswered ==
  /\ launcher = "answering" /\ batch = {}
  /\ launcher' = "select" /\ requests' = {} /\ updateErr' = "nil"
  /\ UNCHANGED <<podVars, stopVars, batch, launch, answers>>

(* The goroutine ends; the deferred function answers what is left. *)
LauncherCloses ==
  /\ launcher = "select" /\ stopped
  /\ launcher' = "closing"
  /\ UNCHANGED <<podVars, stopVars, requests, batch, updateErr, launch, answers>>

CancelRequest(s) ==
  /\ launcher = "closing" /\ s \in requests
  /\ Answer(s, "canceled")
  /\ requests' = requests \ {s}
  /\ UNCHANGED <<podVars, stopVars, launcher, batch, updateErr>>

LauncherStops ==
  /\ launcher = "closing" /\ requests = {}
  /\ launcher' = "stopped"
  /\ UNCHANGED <<podVars, stopVars, requests, batch, updateErr, launch, answers>>

LauncherStep ==
  \/ \E s \in Steps : LaunchAccepted(s) \/ LaunchCanceled(s) \/ AnswerRequest(s) \/ CancelRequest(s)
  \/ TimerFires \/ UpdateSucceeds \/ UpdateFails \/ BatchAnswered
  \/ LauncherCloses \/ LauncherStops
=============================================================================
