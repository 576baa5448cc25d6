--------------------------- MODULE StepInvariant ---------------------------
(***************************************************************************)
(* Why the properties of StepSafety hold: the parts of an inductive        *)
(* invariant of StepExecution.                                             *)
(***************************************************************************)
EXTENDS StepSafety

(* What was queued is on the list that is being worked through, and an     *)
(* update that succeeded has reached every container there is.             *)
LaunchInv ==
  /\ \A s \in Steps :
       /\ answers[s] = IF launch[s] \in LaunchAnswers THEN 1 ELSE 0
       /\ launch[s] = "nil" => image[s] = "own"
       /\ launch[s] = "stopped" => stopped
       /\ launch[s] = "canceled" => RunCanceled
       /\ launch[s] = "queued" <=> s \in (IF launcher = "answering" THEN batch ELSE requests)
  /\ launcher = "updating" => batch = requests
  /\ launcher = "answering" /\ updateErr = "nil" => \A s \in batch : image[s] # "placeholder"
  /\ launcher = "stopped" => requests = {}
  /\ launcher \in {"closing", "stopped"} => stopped

(* A call asks for its launch before it waits, and returns once.           *)
RunInv ==
  \A s \in Steps :
    /\ run[s] \in {"idle", "adding"} => stepState[s] = "unregistered"
    /\ run[s] \in {"idle", "adding", "starting"} => launch[s] = "none"
    /\ run[s] \in {"waiting", "logs", "ending"} => launch[s] = "nil"
    /\ run[s] = "returned" <=> outcome[s] # "none"

(* Only what has ended has a code, and the ends that a snapshot of the Pod *)
(* shows, however old it is, did come.                                     *)
Came(s, cs) ==
  /\ cs.code # "nil" => cs.state = "terminated"
  /\ cs.state = "terminated" => <<cs.image, cs.code>> \in ended[s]

SnapshotsInv ==
  /\ \A s \in Steps : Came(s, status[s])
  /\ \A s \in DOMAIN seen : Came(s, seen[s])
  /\ \A i \in DOMAIN polled, s \in Steps : Came(s, polled[i][s])

(* The watch begins with the watcher.  An answer stays true: a code is that*)
(* of the decided step.                                                    *)
WaitInv ==
  /\ watcher # "none" => watch # "none"
  /\ \A s \in Steps :
       /\ wait[s]["running"] \notin {"exit1", "exit2"}
       /\ wait[s]["finished"] \in Results \ Errors => Ended(s) /\ wait[s]["finished"] = exitCode[s]
       /\ \A w \in Waits :
            /\ wait[s][w] = "failed" => ContainerFailed(s)
            /\ wait[s][w] = "other" => \E t \in Steps \ {s} : ContainerFailed(t)
            /\ wait[s][w] = "gone" => watcher \in {"closing", "done"}

StepInv ==
  /\ TypeOK /\ LaunchInv /\ RunInv /\ SnapshotsInv /\ WaitInv
  /\ NoWaiterOverdue /\ NoWaiterLost /\ OutcomeExplained

(* What the watcher has settled stays settled. *)
Final ==
  /\ \A s \in Steps :
       /\ Ended(s) => stepState'[s] = stepState[s] /\ exitCode'[s] = exitCode[s]
       /\ stepState[s] = "unregistered" => stepState'[s] = "unregistered"
  /\ watcher \in {"closing", "done"} => watcher' \in {"closing", "done"}

(* The part of the invariant that the watcher's steps can disturb. *)
WatchInv == WatcherTypeOK /\ SnapshotsInv /\ WaitInv /\ NoWaiterOverdue /\ NoWaiterLost
=============================================================================
