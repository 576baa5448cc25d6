---------------------------- MODULE StepLiveness ----------------------------
(***************************************************************************)
(* What must happen to the steps of a task, and the fairness it needs: the *)
(* goroutines run, a select with several ready cases takes each of them in *)
(* the end (Go chooses at random), the periodic check goes on, and the log *)
(* of a container that has ended has an end.  Nothing is assumed of the    *)
(* kubelet, the API server's watch, cancellation or the start timeout.     *)
(***************************************************************************)
EXTENDS StepSafety

(* What the watcher's select has ready is taken in the end.  All but       *)
(* PollArrives happen at most once to a step, so that fairness to any of   *)
(* them is fairness to each.                                               *)
SelectFairness ==
  /\ SF_vars(PollArrives /\ UNCHANGED <<run, outcome>>)
  /\ SF_vars(\/ WatcherCloses /\ UNCHANGED <<run, outcome>>
             \/ \E s \in Steps :
                  \/ ContainerAdded(s)
                  \/ RecoveryGivenUp(s) /\ UNCHANGED <<run, outcome>>
                  \/ \E w \in Waits : ClientArrives(s, w) /\ UNCHANGED <<run, outcome>>)

(* updateContainers goes through its list. *)
Look(s) == EndedSeen(s) \/ NothingSeen(s) \/ StateSeen(s) \/ RecoveryAwaited(s)

LauncherGoesOn ==
  \/ LauncherCloses \/ TimerFires \/ UpdateSucceeds \/ UpdateFails \/ BatchAnswered \/ LauncherStops
  \/ \E s \in Steps : LaunchAccepted(s) \/ LaunchCanceled(s) \/ AnswerRequest(s) \/ CancelRequest(s)

(* Run need not begin, time out or fail to read the log. *)
RunGoesOn(s) ==
  \/ AddRefused(s) \/ StartContainer(s) \/ LaunchReturns(s) \/ StartSeen(s) \/ EndSeen(s) \/ Interrupted(s)
  \/ (status[s].state = "terminated" \/ podGone) /\ LogsEnd(s)

FairSpec ==
  /\ Spec /\ SelectFairness
  /\ WF_vars(LauncherGoesOn /\ UNCHANGED <<watcherVars, run, outcome>>)
  /\ WF_vars(WatcherDone /\ UNCHANGED <<run, outcome>>)
  /\ WF_vars(Poll /\ UNCHANGED <<run, outcome>>)
  /\ WF_vars(podGone /\ WatchEnds /\ UNCHANGED <<run, outcome>>)
  /\ \A s \in Steps :
       /\ WF_vars(Look(s) /\ UNCHANGED <<run, outcome>>)
       /\ WF_vars((\E w \in Waits : WaitStops(s, w)) /\ UNCHANGED <<run, outcome>>)
       /\ WF_vars(RunGoesOn(s))

(* Once a task is stopped every Run of it returns, wherever it is.         *)
StoppedRunsEnd ==
  \A s \in Steps : stopped ~> run[s] \in {"idle", "returned"}

(* The goroutines of a stopped task end too, and so do all waits: none of  *)
(* them is leaked.                                                         *)
StoppedGoroutinesEnd ==
  stopped ~> /\ watcher \in {"none", "done"} /\ launcher \in {"none", "stopped"}
             /\ \A s \in Steps, w \in Waits : wait[s][w] \notin {"asking", "listed"}

(* Run returns after the end of its container, be it the step's own or the *)
(* placeholder, even if the watch misses every event of it, except for the *)
(* exit code that updateContainers takes for a hiccup of Kubernetes.       *)
EndedStepsReturn ==
  \A s \in Steps :
    (/\ run[s] \in {"waiting", "logs", "ending"}
     /\ [](status[s].state = "terminated" /\ (status[s].code = "exit2" => status[s].restarted)))
    ~> run[s] = "returned"

(* podwatcher/watcher.go on WaitContainerTerminated: "waits until a        *)
(* container in the pod is terminated".  Violated: an own container that   *)
(* ends with code 2 and was never restarted is ignored for good.           *)
TerminationIsSeen ==
  \A s \in Steps :
    (run[s] = "ending" /\ [](status[s].image = "own" /\ status[s].state = "terminated"))
    ~> run[s] = "returned"
=============================================================================
