------------------------- MODULE StepContractProofs -------------------------
(***************************************************************************)
(* Run keeps its contract (StepContract) for any number of steps that run  *)
(* side by side, and nobody who waits is forgotten or told something wrong.*)
(***************************************************************************)
EXTENDS StepInvariant, TLAPS

USE CodesAssumption, PeriodAssumption

-----------------------------------------------------------------------------
(* The order of states. *)

LEMMA ResolvesIs ==
  ASSUME NEW s \in Steps, NEW state \in StepStates
  PROVE  /\ Resolves(s, "running", state) <=> state \notin {"unregistered", "waiting"}
         /\ Resolves(s, "finished", state) <=> state \in {"finished", "placeholderFailed", "failed"}
         /\ Order(state) <= Order("waiting") <=> state \in {"unregistered", "waiting"}
BY DEF Resolves, Order, StepStates

LEMMA EndedIs ==
  ASSUME TypeOK, NEW s \in Steps
  PROVE  Ended(s) <=> stepState[s] \in {"finished", "placeholderFailed", "failed"}
<1>1. stepState[s] \in StepStates
  BY DEF TypeOK, WatcherTypeOK
<1> QED BY <1>1 DEF Ended, Order, StepStates

-----------------------------------------------------------------------------
LEMMA InitStep == Init => StepInv
<1> SUFFICES ASSUME Init PROVE StepInv
  OBVIOUS
<1> USE DEF Init, PodInit, LauncherInit, WatcherInit
<1>1. TypeOK
  <2>1. PodTypeOK
    BY DEF PodTypeOK, Pods, Statuses, Images
  <2>2. LauncherTypeOK
    <3>1. launch \in [Steps -> LaunchPcs] /\ answers \in [Steps -> 0 .. 2]
      BY DEF LaunchPcs
    <3>2. requests \in SUBSET Steps /\ batch \in SUBSET Steps
      OBVIOUS
    <3> QED BY <3>1, <3>2 DEF LauncherTypeOK
  <2>3. WatcherTypeOK
    BY DEF WatcherTypeOK, StepStates, Range
  <2> QED BY <2>1, <2>2, <2>3 DEF TypeOK
<1>2. LaunchInv
  BY DEF LaunchInv, LaunchAnswers
<1>3. RunInv
  BY DEF RunInv
<1>4. SnapshotsInv
  BY DEF SnapshotsInv, Came
<1>5. WaitInv /\ NoWaiterOverdue /\ NoWaiterLost
  BY DEF WaitInv, NoWaiterOverdue, NoWaiterLost, Results, Errors, Waits
<1>6. OutcomeExplained
  BY DEF OutcomeExplained, ContainerFailed
<1> QED BY <1>1, <1>2, <1>3, <1>4, <1>5, <1>6 DEF StepInv

-----------------------------------------------------------------------------
(* The containers. *)

LEMMA KubeletSnapshots ==
  ASSUME StepInv, KubeletNext
  PROVE  /\ PodTypeOK' /\ image' = image
         /\ \A s \in Steps : ended[s] \subseteq ended'[s]
         /\ \A s \in Steps : Came(s, status[s])'
<1> USE DEF StepInv, TypeOK, PodTypeOK, SnapshotsInv
<1>1. ASSUME NEW s \in Steps, NEW new \in Statuses, Becoming(s, new), UNCHANGED ended,
             new.code # "nil" => new.state = "terminated",
             new.state # "terminated"
      PROVE  /\ PodTypeOK' /\ image' = image
             /\ \A t \in Steps : ended[t] \subseteq ended'[t]
             /\ \A t \in Steps : Came(t, status[t])'
  BY <1>1 DEF Becoming, Pods, Came
<1>2. ASSUME NEW s \in Steps, NEW new \in Statuses, EndsWith(s, new), new.state = "terminated"
      PROVE  /\ PodTypeOK' /\ image' = image
             /\ \A t \in Steps : ended[t] \subseteq ended'[t]
             /\ \A t \in Steps : Came(t, status[t])'
  <2>1. <<new.image, new.code>> \in Images \X (Codes \cup {"nil"})
    BY DEF Statuses
  <2> QED BY <1>2, <2>1 DEF EndsWith, Becoming, Pods, Came
<1>3. ASSUME NEW s \in Steps, ContainerStarts(s)
      PROVE  /\ PodTypeOK' /\ image' = image
             /\ \A t \in Steps : ended[t] \subseteq ended'[t]
             /\ \A t \in Steps : Came(t, status[t])'
  <2> DEFINE new == [status[s] EXCEPT !.state = "running"]
  <2>1. status[s] \in Statuses /\ status[s].code = "nil"
    BY <1>3 DEF ContainerStarts, Pods, Came
  <2>2. new \in Statuses /\ new.state = "running" /\ new.code = "nil"
    BY <2>1 DEF Statuses
  <2> QED BY <1>1, <1>3, <2>2 DEF ContainerStarts
<1>4. ASSUME NEW s \in Steps, ContainerReplaced(s)
      PROVE  /\ PodTypeOK' /\ image' = image
             /\ \A t \in Steps : ended[t] \subseteq ended'[t]
             /\ \A t \in Steps : Came(t, status[t])'
  <2> DEFINE new == [image |-> "own", state |-> "waiting", code |-> "nil",
                     restarted |-> status[s].state # "waiting"]
  <2>1. new \in Statuses /\ new.state = "waiting" /\ new.code = "nil"
    BY DEF Statuses, Images
  <2> QED BY <1>1, <1>4, <2>1 DEF ContainerReplaced
<1>5. ASSUME NEW s \in Steps, ContainerEnds(s)
      PROVE  /\ PodTypeOK' /\ image' = image
             /\ \A t \in Steps : ended[t] \subseteq ended'[t]
             /\ \A t \in Steps : Came(t, status[t])'
  <2>1. PICK code \in Codes : EndsWith(s, [status[s] EXCEPT !.state = "terminated", !.code = code])
    BY <1>5 DEF ContainerEnds
  <2> DEFINE new == [status[s] EXCEPT !.state = "terminated", !.code = code]
  <2>2. status[s] \in Statuses
    BY DEF Pods
  <2>3. new \in Statuses /\ new.state = "terminated"
    BY <2>2 DEF Statuses
  <2> QED BY <1>2, <2>1, <2>3
<1>6. ASSUME NEW s \in Steps, ContainerReverts(s)
      PROVE  /\ PodTypeOK' /\ image' = image
             /\ \A t \in Steps : ended[t] \subseteq ended'[t]
             /\ \A t \in Steps : Came(t, status[t])'
  <2>1. PICK code \in Codes :
          EndsWith(s, [image |-> "placeholder", state |-> "terminated", code |-> code, restarted |-> TRUE])
    BY <1>6 DEF ContainerReverts
  <2> DEFINE new == [image |-> "placeholder", state |-> "terminated", code |-> code, restarted |-> TRUE]
  <2>2. new \in Statuses /\ new.state = "terminated"
    BY DEF Statuses, Images
  <2> QED BY <1>2, <2>1, <2>2
<1>7. CASE PodDeleted
  BY <1>7 DEF PodDeleted, Came
<1> QED BY <1>3, <1>4, <1>5, <1>6, <1>7 DEF KubeletNext

(* What was seen of the Pod stays true when more has come. *)
LEMMA SnapshotsKept ==
  ASSUME SnapshotsInv, UNCHANGED <<seen, polled>>,
         \A s \in Steps : ended[s] \subseteq ended'[s],
         \A s \in Steps : Came(s, status[s])',
         DOMAIN seen \subseteq Steps
  PROVE  SnapshotsInv'
BY DEF SnapshotsInv, Came

LEMMA KubeletKeeps ==
  ASSUME StepInv, Kubelet
  PROVE  StepInv'
<1> USE DEF StepInv, Kubelet, stopVars, launcherVars, watcherVars
<1>1. /\ PodTypeOK' /\ image' = image
      /\ \A s \in Steps : ended[s] \subseteq ended'[s]
      /\ \A s \in Steps : Came(s, status[s])'
  BY KubeletSnapshots
<1>2. TypeOK'
  BY <1>1 DEF TypeOK, LauncherTypeOK, WatcherTypeOK
<1>3. LaunchInv'
  BY <1>1 DEF LaunchInv, RunCanceled
<1>4. RunInv'
  BY DEF RunInv
<1>5. SnapshotsInv'
  BY <1>1, SnapshotsKept DEF TypeOK, WatcherTypeOK
<1>6. WaitInv' /\ NoWaiterOverdue' /\ NoWaiterLost' /\ OutcomeExplained'
  BY DEF WaitInv, Ended, ContainerFailed, NoWaiterOverdue, Resolves, NoWaiterLost, OutcomeExplained, RunCanceled
<1> QED BY <1>2, <1>3, <1>4, <1>5, <1>6

-----------------------------------------------------------------------------
(* The launcher. *)

LEMMA AnswerLaunches ==
  ASSUME StepInv, NEW s \in Steps, NEW err \in LaunchAnswers, Answer(s, err), launch[s] \in {"offered", "queued"}
  PROVE  /\ launch' \in [Steps -> LaunchPcs] /\ answers' \in [Steps -> 0 .. 2]
         /\ launch'[s] = err /\ answers'[s] = 1
         /\ \A t \in Steps \ {s} : launch'[t] = launch[t] /\ answers'[t] = answers[t]
BY DEF StepInv, TypeOK, LauncherTypeOK, LaunchInv, Answer, LaunchPcs, LaunchAnswers

LEMMA LauncherInvKept ==
  ASSUME StepInv, LauncherStep
  PROVE  /\ PodTypeOK' /\ LauncherTypeOK' /\ LaunchInv'
         /\ UNCHANGED <<status, ended, podGone, stopVars>>
         /\ \A s \in Steps : launch[s] \in {"none", "nil"} => launch'[s] = launch[s]
<1> DEFINE Kept == /\ PodTypeOK' /\ LauncherTypeOK' /\ LaunchInv'
                   /\ UNCHANGED <<status, ended, podGone, stopVars>>
                   /\ \A s \in Steps : launch[s] \in {"none", "nil"} => launch'[s] = launch[s]
<1> USE DEF StepInv, TypeOK, PodTypeOK, LauncherTypeOK, LaunchInv, podVars, stopVars, LaunchPcs, LaunchAnswers, RunCanceled
<1>1. ASSUME NEW s \in Steps, LaunchAccepted(s) PROVE Kept
  BY <1>1 DEF LaunchAccepted
<1>2. ASSUME NEW s \in Steps, LaunchCanceled(s) PROVE Kept
  BY <1>2, AnswerLaunches DEF LaunchCanceled
<1>3. ASSUME NEW s \in Steps, AnswerRequest(s) PROVE Kept
  <2> DEFINE err == IF updateErr # "nil" THEN updateErr ELSE IF image[s] = "none" THEN "notfound" ELSE "nil"
  <2>1. err \in LaunchAnswers /\ (err = "nil" => image[s] = "own") /\ err \notin {"stopped", "canceled"}
    BY <1>3 DEF AnswerRequest, Images
  <2>2. launch[s] = "queued" /\ Answer(s, err)
    BY <1>3 DEF AnswerRequest
  <2> HIDE DEF err
  <2> QED BY <1>3, <2>1, <2>2, AnswerLaunches DEF AnswerRequest
<1>4. ASSUME NEW s \in Steps, CancelRequest(s) PROVE Kept
  BY <1>4, AnswerLaunches DEF CancelRequest
<1>5. CASE TimerFires
  BY <1>5 DEF TimerFires
<1>6. ASSUME UpdateImages(batch), launcher = "updating"
      PROVE  /\ PodTypeOK' /\ UNCHANGED <<status, ended, podGone>>
             /\ \A s \in batch : image'[s] # "placeholder"
             /\ \A s \in Steps : image[s] = "own" => image'[s] = "own"
  BY <1>6 DEF UpdateImages, Images
<1>7. CASE UpdateSucceeds
  BY <1>6, <1>7 DEF UpdateSucceeds
<1>8. CASE UpdateFails
  BY <1>6, <1>8 DEF UpdateFails
<1>9. CASE BatchAnswered
  BY <1>9 DEF BatchAnswered
<1>10. CASE LauncherCloses \/ LauncherStops
  BY <1>10 DEF LauncherCloses, LauncherStops
<1> QED BY <1>1, <1>2, <1>3, <1>4, <1>5, <1>7, <1>8, <1>9, <1>10 DEF LauncherStep

LEMMA LauncherKeeps ==
  ASSUME StepInv, Launches
  PROVE  StepInv'
<1> USE DEF StepInv, Launches, stopVars, watcherVars
<1>1. /\ PodTypeOK' /\ LauncherTypeOK' /\ LaunchInv'
      /\ UNCHANGED <<status, ended, podGone, stopVars>>
      /\ \A s \in Steps : launch[s] \in {"none", "nil"} => launch'[s] = launch[s]
  BY LauncherInvKept
<1>2. TypeOK'
  BY <1>1 DEF TypeOK, WatcherTypeOK
<1>3. RunInv'
  BY <1>1 DEF RunInv
<1>4. SnapshotsInv'
  BY <1>1 DEF SnapshotsInv, Came
<1>5. WaitInv' /\ NoWaiterOverdue' /\ OutcomeExplained'
  BY <1>1 DEF WaitInv, Ended, ContainerFailed, NoWaiterOverdue, Resolves, OutcomeExplained, RunCanceled
<1>6. NoWaiterLost'
  BY <1>1 DEF NoWaiterLost, LaunchInv
<1> QED BY <1>1, <1>2, <1>3, <1>4, <1>5, <1>6

-----------------------------------------------------------------------------
(* The watcher: what updateContainers makes of one step. *)

(* Whoever is told is told what the step has come to. *)
LEMMA Told ==
  ASSUME TypeOK, NEW s \in Steps, NEW state \in StepStates, NEW code \in Codes \cup {"nil"},
         NotifyClients(s, state, code)
  PROVE  /\ wait' \in [Steps -> [Waits -> {"none", "asking", "listed"} \cup Results]]
         /\ \A t \in Steps, w \in Waits :
              \/ wait'[t][w] = wait[t][w] /\ (t = s /\ Resolves(s, w, state) => wait[t][w] # "listed")
              \/ t = s /\ state = "running" /\ w = "running" /\ wait'[t][w] = "nil"
              \/ t = s /\ state = "finished" /\ wait'[t][w] = IF w = "finished" THEN code ELSE "nil"
              \/ /\ state \in {"placeholderFailed", "failed"}
                 /\ wait'[t][w] = IF t = s THEN "failed" ELSE "other"
<1> USE DEF TypeOK, WatcherTypeOK, Results, Errors, Waits
<1>1. CASE state \in {"unregistered", "waiting"}
  <2>1. UNCHANGED wait
    BY <1>1, ResolvesIs DEF NotifyClients
  <2> QED BY <1>1, <2>1, ResolvesIs
<1>2. CASE state \in {"running", "finished"}
  <2>1. Notified(s, state, code)
    BY <1>2, ResolvesIs DEF NotifyClients
  <2> QED BY <1>2, <2>1, ResolvesIs DEF Notified, Resolution
<1>3. CASE state \in {"placeholderFailed", "failed"}
  <2>1. NotifiedError(s)
    BY <1>3, ResolvesIs DEF NotifyClients
  <2> QED BY <1>3, <2>1 DEF NotifiedError
<1> QED BY <1>1, <1>2, <1>3 DEF StepStates

LEMMA LookSnapshots ==
  ASSUME StepInv, NEW s \in Steps, LookAt(s)
  PROVE  /\ SnapshotsInv' /\ DOMAIN seen' \subseteq Steps /\ Range(seen') \subseteq Statuses
         /\ seen[s] \in Statuses /\ Came(s, seen[s])
<1> USE DEF StepInv, TypeOK, WatcherTypeOK, LookAt, podVars
<1>1. s \in DOMAIN seen /\ seen' = [t \in DOMAIN seen \ {s} |-> seen[t]]
  BY DEF Restrict
<1>2. \A t \in DOMAIN seen : seen[t] \in Statuses
  BY DEF Range
<1>3. Range(seen') \subseteq Statuses
  <2>1. \A t \in DOMAIN seen' : seen'[t] \in Statuses
    BY <1>1, <1>2
  <2> QED BY <2>1 DEF Range
<1> QED BY <1>1, <1>2, <1>3 DEF SnapshotsInv, Came

LEMMA LookKeeps ==
  ASSUME StepInv, NEW s \in Steps, LookAt(s),
         NEW state \in StepStates \ {"unregistered"}, NEW code \in Codes \cup {"nil"},
         stepState' = [stepState EXCEPT ![s] = state],
         exitCode' = [exitCode EXCEPT ![s] = code],
         NotifyClients(s, state, code),
         Ended(s) => state = stepState[s] /\ code = exitCode[s],
         stepState[s] # "unregistered",
         failing' \in [Steps -> BOOLEAN]
  PROVE  WatchInv' /\ Final
<1> USE DEF StepInv, TypeOK, WatcherTypeOK
<1>1. /\ SnapshotsInv' /\ DOMAIN seen' \subseteq Steps /\ Range(seen') \subseteq Statuses
  BY LookSnapshots
<1>2. /\ watcher = "started" /\ watcher' = watcher
      /\ UNCHANGED <<podVars, elsewhere, errDone, watch, polled>>
  BY DEF LookAt
<1>3. /\ wait' \in [Steps -> [Waits -> {"none", "asking", "listed"} \cup Results]]
      /\ \A t \in Steps, w \in Waits :
           \/ wait'[t][w] = wait[t][w] /\ (t = s /\ Resolves(s, w, state) => wait[t][w] # "listed")
           \/ t = s /\ state = "running" /\ w = "running" /\ wait'[t][w] = "nil"
           \/ t = s /\ state = "finished" /\ wait'[t][w] = IF w = "finished" THEN code ELSE "nil"
           \/ /\ state \in {"placeholderFailed", "failed"}
              /\ wait'[t][w] = IF t = s THEN "failed" ELSE "other"
  BY Told
<1>4. WatcherTypeOK'
  BY <1>1, <1>2, <1>3
<1>5. Final
  BY <1>2 DEF Final
<1>6. \A t \in Steps : Ended(t) <=> stepState[t] \in {"finished", "placeholderFailed", "failed"}
  BY EndedIs
<1>7. \A t \in Steps : Ended(t)' <=> stepState'[t] \in {"finished", "placeholderFailed", "failed"}
  BY <1>4 DEF Ended, Order, StepStates
<1>8. WaitInv'
  <2> SUFFICES ASSUME NEW t \in Steps
               PROVE  /\ wait'[t]["running"] \notin {"exit1", "exit2"}
                      /\ wait'[t]["finished"] \in Results \ Errors => Ended(t)' /\ wait'[t]["finished"] = exitCode'[t]
                      /\ \A w \in Waits :
                           /\ wait'[t][w] = "failed" => ContainerFailed(t)'
                           /\ wait'[t][w] = "other" => \E u \in Steps \ {t} : ContainerFailed(u)'
                           /\ wait'[t][w] = "gone" => watcher' \in {"closing", "done"}
    BY <1>2 DEF WaitInv
  <2>1. "running" \in Waits /\ "finished" \in Waits
    BY DEF Waits
  <2>2. wait'[t]["running"] \notin {"exit1", "exit2"}
    <3>1. wait[t]["running"] \notin {"exit1", "exit2"}
      BY DEF WaitInv
    <3>2. \/ wait'[t]["running"] = wait[t]["running"]
          \/ wait'[t]["running"] \in {"nil", "failed", "other"}
      BY <1>3, <2>1
    <3> QED BY <3>1, <3>2
  <2>3. wait'[t]["finished"] \in Results \ Errors => Ended(t)' /\ wait'[t]["finished"] = exitCode'[t]
    BY <1>3, <1>5, <1>6, <1>7, <2>1 DEF WaitInv, Final, Results, Errors
  <2>4. \A u \in Steps : ContainerFailed(u) => ContainerFailed(u)'
    BY <1>5, <1>6 DEF Final, ContainerFailed
  <2>5. state \in {"placeholderFailed", "failed"} => ContainerFailed(s)'
    BY DEF ContainerFailed
  <2>6. \A w \in Waits :
           /\ wait'[t][w] = "failed" => ContainerFailed(t)'
           /\ wait'[t][w] = "other" => \E u \in Steps \ {t} : ContainerFailed(u)'
           /\ wait'[t][w] = "gone" => watcher' \in {"closing", "done"}
    <3> SUFFICES ASSUME NEW w \in Waits
                 PROVE  /\ wait'[t][w] = "failed" => ContainerFailed(t)'
                        /\ wait'[t][w] = "other" => \E u \in Steps \ {t} : ContainerFailed(u)'
                        /\ wait'[t][w] = "gone" => watcher' \in {"closing", "done"}
      OBVIOUS
    <3>1. \/ wait'[t][w] = wait[t][w]
          \/ wait'[t][w] \in {"nil", code}
          \/ ContainerFailed(s)' /\ wait'[t][w] = IF t = s THEN "failed" ELSE "other"
      BY <1>3, <2>5
    <3>2. /\ wait[t][w] = "failed" => ContainerFailed(t)
          /\ wait[t][w] = "other" => \E u \in Steps \ {t} : ContainerFailed(u)
          /\ wait[t][w] = "gone" => watcher \in {"closing", "done"}
      BY DEF WaitInv
    <3>3. code \notin {"failed", "other", "gone"}
      OBVIOUS
    <3> QED BY <1>2, <2>4, <3>1, <3>2, <3>3
  <2> QED BY <2>2, <2>3, <2>6
<1>9. NoWaiterOverdue'
  <2> SUFFICES ASSUME NEW t \in Steps, NEW w \in Waits, wait'[t][w] = "listed"
               PROVE  ~Resolves(t, w, stepState'[t])
    BY DEF NoWaiterOverdue, Resolves
  <2>1. wait[t][w] = "listed" /\ (t = s => ~Resolves(s, w, state))
    <3>1. \/ wait'[t][w] = wait[t][w] /\ (t = s /\ Resolves(s, w, state) => wait[t][w] # "listed")
          \/ t = s /\ state = "running" /\ w = "running" /\ wait'[t][w] = "nil"
          \/ t = s /\ state = "finished" /\ wait'[t][w] = IF w = "finished" THEN code ELSE "nil"
          \/ /\ state \in {"placeholderFailed", "failed"}
             /\ wait'[t][w] = IF t = s THEN "failed" ELSE "other"
      BY <1>3
    <3>2. code # "listed"
      OBVIOUS
    <3>3. wait'[t][w] = wait[t][w]
      BY <3>1, <3>2
    <3> QED BY <3>1, <3>3
  <2>2. CASE t = s BY <2>1, <2>2
  <2>3. CASE t # s BY <2>1, <2>3 DEF NoWaiterOverdue
  <2> QED BY <2>2, <2>3
<1>10. NoWaiterLost'
  BY <1>2 DEF NoWaiterLost, elsewhere, launcherVars
<1> QED BY <1>1, <1>4, <1>5, <1>8, <1>9, <1>10 DEF WatchInv

LEMMA EndedSeenKeeps ==
  ASSUME StepInv, NEW s \in Steps, EndedSeen(s)
  PROVE  WatchInv' /\ Final
<1> USE DEF StepInv, TypeOK, WatcherTypeOK
<1>1. stepState[s] \in StepStates \ {"unregistered"} /\ exitCode[s] \in Codes \cup {"nil"}
  BY EndedIs DEF EndedSeen
<1>2. /\ stepState' = [stepState EXCEPT ![s] = stepState[s]]
      /\ exitCode' = [exitCode EXCEPT ![s] = exitCode[s]]
  BY DEF EndedSeen
<1> QED BY <1>1, <1>2, LookKeeps DEF EndedSeen

LEMMA RecoveryGivenUpKeeps ==
  ASSUME StepInv, NEW s \in Steps, RecoveryGivenUp(s)
  PROVE  WatchInv' /\ Final
<1> USE DEF StepInv, TypeOK, WatcherTypeOK
<1>1. LookAt(s) /\ Open(s) /\ Becomes(s, "failed", seen[s].code) /\ failing' = failing
  BY DEF RecoveryGivenUp, FailingSeen
<1>2. seen[s].code \in Codes \cup {"nil"}
  BY <1>1, LookSnapshots DEF Statuses
<1> QED BY <1>1, <1>2, LookKeeps DEF Open, Becomes, StepStates

(* A look that changes nothing but failedAt. *)
LEMMA IgnoredKeeps ==
  ASSUME StepInv, NEW s \in Steps, LookAt(s), Ignored, failing' \in [Steps -> BOOLEAN]
  PROVE  WatchInv' /\ Final
<1> USE DEF StepInv, TypeOK, WatcherTypeOK, LookAt, Ignored
<1>1. WatcherTypeOK' /\ SnapshotsInv'
  BY LookSnapshots
<1>2. WaitInv' /\ NoWaiterOverdue' /\ NoWaiterLost' /\ Final
  BY DEF WaitInv, NoWaiterOverdue, NoWaiterLost, Final, Ended, Resolves, ContainerFailed, elsewhere, launcherVars
<1> QED BY <1>1, <1>2 DEF WatchInv

LEMMA StateSeenKeeps ==
  ASSUME StepInv, NEW s \in Steps, StateSeen(s)
  PROVE  WatchInv' /\ Final
<1> USE DEF StepInv, TypeOK, WatcherTypeOK
<1>1. LookAt(s) /\ Open(s) /\ failing' \in [Steps -> BOOLEAN]
  BY DEF StateSeen
<1>2. CASE Ignored
  BY <1>1, <1>2, IgnoredKeeps
<1>3. CASE Becomes(s, SeenState(seen[s]), seen[s].code)
  <2>1. seen[s] \in Statuses
    BY <1>1, LookSnapshots
  <2>2. seen[s].code \in Codes \cup {"nil"} /\ SeenState(seen[s]) \in StepStates \ {"unregistered"}
    BY <2>1 DEF Statuses, SeenState, StepStates
  <2> QED BY <1>1, <1>3, <2>2, LookKeeps DEF Open, Becomes
<1> QED BY <1>2, <1>3 DEF StateSeen

-----------------------------------------------------------------------------
(* The watcher's other steps. *)

(* Steps that bring the Pod to the goroutine, or end it. *)
LEMMA InputKeeps ==
  ASSUME StepInv, WatchEnds \/ Poll \/ EventArrives \/ PollArrives \/ WatcherCloses
  PROVE  WatchInv' /\ Final
<1> USE DEF StepInv, TypeOK, WatcherTypeOK
<1>1. /\ UNCHANGED <<stepState, exitCode, wait, podVars, launcherVars>>
      /\ watcher' = watcher \/ (watcher = "started" /\ watcher' = "closing")
      /\ watch' = watch \/ watch' \in {"nil", "error"}
  <2>1. CASE WatchEnds    BY <2>1 DEF WatchEnds, elsewhere
  <2>2. CASE Poll         BY <2>2 DEF Poll, elsewhere
  <2>3. CASE EventArrives BY <2>3 DEF EventArrives, elsewhere
  <2>4. CASE PollArrives  BY <2>4 DEF PollArrives, elsewhere
  <2>5. CASE WatcherCloses BY <2>5 DEF WatcherCloses, Selecting, elsewhere
  <2> QED BY <2>1, <2>2, <2>3, <2>4, <2>5
<1>2. WaitInv' /\ NoWaiterOverdue' /\ NoWaiterLost' /\ Final
  BY <1>1 DEF WaitInv, NoWaiterOverdue, NoWaiterLost, Final, Ended, Resolves, ContainerFailed, launcherVars
<1>3. status \in Pods /\ \A i \in DOMAIN polled : polled[i] \in Pods
  BY DEF PodTypeOK
<1>4. \A p \in Pods : DOMAIN p = Steps /\ Range(p) \subseteq Statuses
  BY DEF Pods, Range
<1>5. CASE WatchEnds \/ WatcherCloses
  <2>1. /\ UNCHANGED <<polled, seen, failing>>
        /\ watcher' \in {"none", "started", "closing", "done"}
        /\ errDone' \in {"nil", "error"} /\ watch' \in {"none", "watching", "nil", "error"}
    <3>1. CASE WatchEnds BY <3>1 DEF WatchEnds
    <3>2. CASE WatcherCloses BY <3>2 DEF WatcherCloses, Selecting, WaitInv
    <3> QED BY <1>5, <3>1, <3>2
  <2>2. WatcherTypeOK'
    BY <1>1, <2>1
  <2>3. SnapshotsInv'
    BY <1>1, <2>1 DEF SnapshotsInv, Came, podVars
  <2> QED BY <1>2, <2>2, <2>3 DEF WatchInv
<1>6. CASE Poll
  <2>1. polled' = <<status>> /\ UNCHANGED <<watcher, errDone, watch, seen, failing>>
    BY <1>6 DEF Poll
  <2>2. polled' \in Seq(Pods) /\ Len(polled') <= 1 /\ DOMAIN polled' = {1} /\ polled'[1] = status
    BY <2>1, <1>3
  <2>3. WatcherTypeOK'
    BY <1>1, <2>1, <2>2
  <2>4. SnapshotsInv'
    <3>1. ended' = ended /\ status' = status /\ seen' = seen
      BY <1>1, <2>1 DEF podVars
    <3>2. \A s \in Steps : Came(s, polled'[1][s])
      BY <2>2 DEF SnapshotsInv
    <3>3. \A i \in DOMAIN polled', s \in Steps : Came(s, polled'[i][s])
      BY <2>2, <3>2
    <3>4. \A s \in Steps : Came(s, status[s])
      BY DEF SnapshotsInv
    <3>5. \A s \in DOMAIN seen : Came(s, seen[s])
      BY DEF SnapshotsInv
    <3> QED BY <3>1, <3>3, <3>4, <3>5 DEF SnapshotsInv, Came
  <2> QED BY <1>2, <2>3, <2>4 DEF WatchInv
<1>7. CASE EventArrives
  <2>1. seen' = status /\ UNCHANGED <<watcher, errDone, watch, polled, failing>>
    BY <1>7 DEF EventArrives
  <2>2. WatcherTypeOK'
    BY <1>1, <1>3, <1>4, <2>1
  <2>3. SnapshotsInv'
    BY <1>1, <1>3, <1>4, <2>1 DEF SnapshotsInv, Came, podVars
  <2> QED BY <1>2, <2>2, <2>3 DEF WatchInv
<1>8. CASE PollArrives
  <2>1. seen' = Head(polled) /\ polled' = <<>> /\ UNCHANGED <<watcher, errDone, watch, failing>>
    BY <1>8 DEF PollArrives
  <2>2. 1 \in DOMAIN polled /\ Head(polled) = polled[1]
    BY <1>8 DEF PollArrives
  <2>3. WatcherTypeOK'
    BY <1>1, <1>3, <1>4, <2>1, <2>2
  <2>4. SnapshotsInv'
    <3>1. \A s \in Steps : Came(s, polled[1][s])
      BY <2>2 DEF SnapshotsInv
    <3>2. DOMAIN seen' = Steps /\ DOMAIN polled' = {}
      BY <1>3, <1>4, <2>1, <2>2
    <3> QED BY <1>1, <2>1, <2>2, <3>1, <3>2 DEF SnapshotsInv, Came, podVars
  <2> QED BY <1>2, <2>3, <2>4 DEF WatchInv
<1> QED BY <1>5, <1>6, <1>7, <1>8

LEMMA AnswersKeep ==
  ASSUME StepInv, WatcherDone \/ \E s \in Steps, w \in Waits : ClientArrives(s, w) \/ WaitStops(s, w)
  PROVE  WatchInv' /\ Final
<1> USE DEF StepInv, TypeOK, WatcherTypeOK, Results, Errors
<1>1. /\ UNCHANGED <<stepState, exitCode, podVars, launcherVars, seen, polled, errDone, watch, failing>>
      /\ watcher' = watcher \/ (watcher = "closing" /\ watcher' = "done")
  <2>1. CASE WatcherDone BY <2>1 DEF WatcherDone, elsewhere
  <2>2. ASSUME NEW s \in Steps, NEW w \in Waits, ClientArrives(s, w)
        PROVE  UNCHANGED <<stepState, exitCode, podVars, launcherVars, seen, polled, errDone, watch, failing, watcher>>
    BY <2>2 DEF ClientArrives, elsewhere
  <2>3. ASSUME NEW s \in Steps, NEW w \in Waits, WaitStops(s, w)
        PROVE  UNCHANGED <<stepState, exitCode, podVars, launcherVars, seen, polled, errDone, watch, failing, watcher>>
    BY <2>3 DEF WaitStops, elsewhere
  <2> QED BY <2>1, <2>2, <2>3
<1>2. SnapshotsInv' /\ Final
  BY <1>1 DEF SnapshotsInv, Came, podVars, Final
<1>3. TerminationError \in {"error", "gone"}
  BY DEF TerminationError
<1>4. CASE WatcherDone
  <2>1. /\ watcher' = "done"
        /\ wait' = [s \in Steps |-> [w \in Waits |->
             IF wait[s][w] = "listed" THEN TerminationError ELSE wait[s][w]]]
    BY <1>4 DEF WatcherDone
  <2>2. WatcherTypeOK' /\ NoWaiterOverdue'
    BY <1>1, <1>3, <2>1 DEF NoWaiterOverdue, Resolves
  <2>3. WaitInv'
    BY <1>1, <1>3, <2>1 DEF WaitInv, Ended, ContainerFailed, Waits
  <2>4. NoWaiterLost'
    BY <1>1, <1>3, <2>1 DEF NoWaiterLost, launcherVars
  <2> QED BY <1>2, <2>2, <2>3, <2>4 DEF WatchInv
<1>5. ASSUME NEW s \in Steps, NEW w \in Waits, NEW answer \in {"listed"} \cup Results,
             wait' = [wait EXCEPT ![s][w] = answer], watcher' = watcher,
             answer = "listed" => watcher = "started" /\ ~Resolves(s, w, stepState[s]),
             answer \in {"exit1", "exit2"} => w = "finished",
             answer \in Results \ Errors /\ w = "finished" => Ended(s) /\ answer = exitCode[s],
             answer \notin {"failed", "other"},
             answer = "gone" => watcher \in {"closing", "done"}
      PROVE  WatchInv'
  <2>1. /\ wait' \in [Steps -> [Waits -> {"none", "asking", "listed"} \cup Results]]
        /\ \A t \in Steps, v \in Waits :
             wait'[t][v] = IF t = s /\ v = w THEN answer ELSE wait[t][v]
    BY <1>5
  <2>2. WatcherTypeOK'
    BY <1>1, <1>5, <2>1
  <2>3. NoWaiterOverdue' /\ NoWaiterLost'
    BY <1>1, <1>5, <2>1 DEF NoWaiterOverdue, NoWaiterLost, Resolves, launcherVars
  <2>4. WaitInv'
    BY <1>1, <1>5, <2>1 DEF WaitInv, Ended, ContainerFailed, Waits
  <2> QED BY <1>2, <2>2, <2>3, <2>4 DEF WatchInv
<1>6. ASSUME NEW s \in Steps, NEW w \in Waits, ClientArrives(s, w) PROVE WatchInv'
  <2> DEFINE answer == IF stepState[s] = "unregistered" THEN "unknown"
                       ELSE IF Resolves(s, w, stepState[s]) THEN Resolution(w, exitCode[s]) ELSE "listed"
  <2>1. wait' = [wait EXCEPT ![s][w] = answer] /\ watcher' = watcher /\ watcher = "started"
    BY <1>6 DEF ClientArrives, Selecting
  <2>2. exitCode[s] \in {"nil", "exit1", "exit2"} /\ stepState[s] \in StepStates
    OBVIOUS
  <2>3. answer \in {"listed"} \cup Results /\ answer \notin {"failed", "other", "gone"}
    BY <2>2 DEF Resolution
  <2>4. answer \in {"exit1", "exit2"} => w = "finished"
    BY DEF Resolution
  <2>5. answer \in Results \ Errors /\ w = "finished" => Ended(s) /\ answer = exitCode[s]
    BY <2>2, ResolvesIs, EndedIs DEF Resolution
  <2>6. answer = "listed" => ~Resolves(s, w, stepState[s])
    BY <2>2 DEF Resolution
  <2> HIDE DEF answer
  <2> QED BY <1>5, <2>1, <2>3, <2>4, <2>5, <2>6
<1>7. ASSUME NEW s \in Steps, NEW w \in Waits, WaitStops(s, w) PROVE WatchInv'
  <2>1. /\ wait' = [wait EXCEPT ![s][w] = TerminationError] /\ watcher' = watcher
        /\ watcher \in {"closing", "done"}
    BY <1>7 DEF WaitStops
  <2> QED BY <1>3, <1>5, <2>1
<1> QED BY <1>2, <1>4, <1>6, <1>7

LEMMA WatcherKeeps ==
  ASSUME StepInv, Watches
  PROVE  StepInv'
<1> USE DEF StepInv, Watches
<1>1. WatchInv' /\ Final
  <2>1. ASSUME NEW s \in Steps, NothingSeen(s) \/ RecoveryAwaited(s) PROVE WatchInv' /\ Final
    <3>1. LookAt(s) /\ Ignored /\ failing' \in [Steps -> BOOLEAN]
      BY <2>1 DEF NothingSeen, RecoveryAwaited, FailingSeen, TypeOK, WatcherTypeOK
    <3> QED BY <3>1, IgnoredKeeps
  <2> QED BY <2>1, InputKeeps, AnswersKeep, EndedSeenKeeps, StateSeenKeeps, RecoveryGivenUpKeeps DEF WatcherStep
<1>2. UNCHANGED <<podVars, stopVars, launcherVars, run, outcome>>
  BY DEF WatcherStep, WatchEnds, Poll, EventArrives, PollArrives, WatcherCloses, WatcherDone, EndedSeen,
         NothingSeen, StateSeen, RecoveryAwaited, RecoveryGivenUp, FailingSeen, ClientArrives, WaitStops,
         LookAt, elsewhere
<1>3. TypeOK'
  BY <1>1, <1>2 DEF TypeOK, WatchInv, PodTypeOK, LauncherTypeOK, podVars, stopVars, launcherVars
<1>4. LaunchInv'
  BY <1>2 DEF LaunchInv, RunCanceled, podVars, stopVars, launcherVars
<1>5. RunInv'
  BY <1>1, <1>2 DEF RunInv, Final, launcherVars
<1>6. OutcomeExplained'
  <2>1. \A s \in Steps : stepState[s] \in {"placeholderFailed", "failed"} => stepState'[s] = stepState[s]
    BY <1>1, EndedIs DEF Final
  <2> QED BY <1>1, <1>2, <2>1 DEF OutcomeExplained, ContainerFailed, RunCanceled, Final, stopVars
<1> QED BY <1>1, <1>3, <1>4, <1>5, <1>6 DEF WatchInv

-----------------------------------------------------------------------------
(* The calls of Run. *)

LEMMA ReturnsKeeps ==
  ASSUME StepInv, NEW s \in Steps, NEW result \in Outcomes, Returns(s, result),
         run[s] # "returned",
         UNCHANGED <<podVars, stopVars, launcherVars, watcherVars>>,
         result = "stopped" => stopped,
         result = "canceled" => RunCanceled,
         result = "failed" => ContainerFailed(s),
         result = "other" => \E t \in Steps \ {s} : ContainerFailed(t),
         result = "gone" => watcher \in {"closing", "done"}
  PROVE  StepInv'
<1> USE DEF StepInv, podVars, stopVars, launcherVars, watcherVars
<1>1. /\ run' = [run EXCEPT ![s] = "returned"]
      /\ outcome' = [outcome EXCEPT ![s] = result]
  BY DEF Returns
<1>2. result # "none"
  BY CodesAssumption DEF Outcomes, ExitCodes, LaunchAnswers, Errors
<1>3. TypeOK'
  BY <1>1 DEF TypeOK, PodTypeOK, LauncherTypeOK, WatcherTypeOK
<1>4. RunInv'
  BY <1>1, <1>2 DEF RunInv, TypeOK
<1>5. OutcomeExplained'
  BY <1>1 DEF OutcomeExplained, ContainerFailed, TypeOK, RunCanceled
<1>6. LaunchInv' /\ SnapshotsInv' /\ WaitInv' /\ NoWaiterOverdue' /\ NoWaiterLost'
  BY DEF LaunchInv, SnapshotsInv, Came, WaitInv, Ended, ContainerFailed, NoWaiterOverdue, Resolves, NoWaiterLost,
         RunCanceled
<1> QED BY <1>3, <1>4, <1>5, <1>6

(* A call that moves on, and may start the watcher or one of its waits. *)
LEMMA GoesKeeps ==
  ASSUME StepInv, NEW s \in Steps, NEW pc \in {"adding", "waiting", "logs", "ending"}, GoesTo(s, pc),
         run[s] # "returned",
         UNCHANGED <<podVars, stopVars, launcherVars>>,
         UNCHANGED watcherVars \/ WatcherStarts \/ \E w \in Waits : StartsWait(s, w),
         IF pc = "adding" THEN run[s] = "idle" ELSE launch[s] = "nil"
  PROVE  StepInv'
<1> USE DEF StepInv, podVars, stopVars, launcherVars
<1>1. run' = [run EXCEPT ![s] = pc] /\ outcome' = outcome
  BY DEF GoesTo
<1>2. /\ UNCHANGED <<errDone, polled, seen, stepState, exitCode, failing>>
      /\ UNCHANGED <<watcher, watch>> \/ (watcher = "none" /\ watcher' = "started" /\ watch' = "watching")
      /\ wait' \in [Steps -> [Waits -> {"none", "asking", "listed"} \cup Results]]
      /\ \A t \in Steps, w \in Waits : wait'[t][w] = wait[t][w] \/ wait'[t][w] = "asking"
  <2> USE DEF TypeOK, WatcherTypeOK
  <2>1. CASE UNCHANGED watcherVars BY <2>1 DEF watcherVars
  <2>2. CASE WatcherStarts BY <2>2 DEF WatcherStarts
  <2>3. ASSUME NEW w \in Waits, StartsWait(s, w)
        PROVE  /\ UNCHANGED <<errDone, polled, seen, stepState, exitCode, failing, watcher, watch>>
               /\ wait' \in [Steps -> [Waits -> {"none", "asking", "listed"} \cup Results]]
               /\ \A t \in Steps, v \in Waits : wait'[t][v] = wait[t][v] \/ wait'[t][v] = "asking"
    BY <2>3 DEF StartsWait
  <2> QED BY <2>1, <2>2, <2>3
<1>3. TypeOK'
  <2>1. WatcherTypeOK'
    BY <1>2 DEF TypeOK, WatcherTypeOK
  <2>2. run' \in [Steps -> {"idle", "adding", "starting", "launching", "waiting", "logs", "ending", "returned"}]
    BY <1>1 DEF TypeOK
  <2> QED BY <1>1, <2>1, <2>2 DEF TypeOK, PodTypeOK, LauncherTypeOK
<1>4. RunInv'
  BY <1>1, <1>2 DEF RunInv, TypeOK
<1>5. OutcomeExplained'
  BY <1>1, <1>2 DEF OutcomeExplained, ContainerFailed, RunCanceled
<1>6. SnapshotsInv'
  BY <1>2 DEF SnapshotsInv, Came
<1>7. WaitInv'
  <2>1. "running" \in Waits /\ "finished" \in Waits /\ "asking" \notin Results
    BY DEF Waits, Results, Errors
  <2> QED BY <1>2, <2>1 DEF WaitInv, Ended, ContainerFailed
<1>8. NoWaiterOverdue' /\ NoWaiterLost'
  BY <1>2 DEF NoWaiterOverdue, Resolves, NoWaiterLost
<1>9. LaunchInv'
  BY DEF LaunchInv, RunCanceled
<1> QED BY <1>3, <1>4, <1>5, <1>6, <1>7, <1>8, <1>9

LEMMA AddedKeeps ==
  ASSUME StepInv, NEW s \in Steps, ContainerAdded(s)
  PROVE  StepInv'
<1> USE DEF StepInv, ContainerAdded, At, GoesTo, podVars, stopVars, launcherVars
<1>1. /\ stepState' = [stepState EXCEPT ![s] = "waiting"]
      /\ exitCode' = [exitCode EXCEPT ![s] = "nil"]
      /\ failing' = [failing EXCEPT ![s] = FALSE]
      /\ UNCHANGED <<watcher, errDone, watch, polled, seen, wait>>
      /\ run' = [run EXCEPT ![s] = "starting"] /\ outcome' = outcome
  BY DEF Register
<1>2. stepState[s] = "unregistered" /\ launch[s] = "none" /\ run[s] = "adding"
  BY DEF RunInv
<1>3. TypeOK'
  BY <1>1 DEF TypeOK, PodTypeOK, LauncherTypeOK, WatcherTypeOK, StepStates
<1>4. RunInv'
  BY <1>1, <1>2 DEF RunInv, TypeOK
<1>5. \A t \in Steps : Ended(t) => Ended(t)' /\ exitCode'[t] = exitCode[t]
  <2>1. ~Ended(s)
    BY <1>2, EndedIs
  <2>2. \A t \in Steps \ {s} : stepState'[t] = stepState[t] /\ exitCode'[t] = exitCode[t]
    BY <1>1 DEF TypeOK, WatcherTypeOK
  <2> QED BY <2>1, <2>2 DEF Ended
<1>6. \A t \in Steps : ContainerFailed(t) => ContainerFailed(t)'
  BY <1>1, <1>2 DEF ContainerFailed, TypeOK, WatcherTypeOK
<1>7. WaitInv'
  BY <1>1, <1>5, <1>6 DEF WaitInv
<1>8. OutcomeExplained'
  BY <1>1, <1>6 DEF OutcomeExplained, RunCanceled, ContainerFailed
<1>9. NoWaiterOverdue'
  <2>1. \A w \in Waits : ~Resolves(s, w, "waiting")
    BY ResolvesIs DEF Waits, StepStates
  <2> QED BY <1>1, <2>1 DEF NoWaiterOverdue, Resolves, TypeOK, WatcherTypeOK
<1>10. SnapshotsInv' /\ NoWaiterLost' /\ LaunchInv'
  BY <1>1 DEF SnapshotsInv, Came, NoWaiterLost, LaunchInv, RunCanceled
<1> QED BY <1>3, <1>4, <1>7, <1>8, <1>9, <1>10

LEMMA StartContainerKeeps ==
  ASSUME StepInv, NEW s \in Steps, StartContainer(s)
  PROVE  StepInv'
<1> USE DEF StepInv, StartContainer, LaunchOffered, At, GoesTo, podVars, stopVars, watcherVars
<1>1. launch[s] = "none" /\ answers[s] = 0 /\ run[s] = "starting"
  BY DEF RunInv, LaunchInv, LaunchAnswers
<1>2. /\ run' = [run EXCEPT ![s] = "launching"] /\ outcome' = outcome
      /\ launch' = [launch EXCEPT ![s] = IF stopped THEN "stopped" ELSE "offered"]
      /\ answers' = [answers EXCEPT ![s] = IF stopped THEN 1 ELSE 0]
      /\ launcher' = launcher \/ (launcher = "none" /\ launcher' = "select")
  BY <1>1 DEF TypeOK, LauncherTypeOK
<1>3. LauncherTypeOK'
  BY <1>2 DEF TypeOK, LauncherTypeOK, LaunchPcs, LaunchAnswers
<1>4. TypeOK'
  BY <1>2, <1>3 DEF TypeOK, PodTypeOK, WatcherTypeOK
<1>5. RunInv'
  BY <1>1, <1>2 DEF RunInv, TypeOK, LauncherTypeOK
<1>6. LaunchInv'
  BY <1>1, <1>2 DEF LaunchInv, LaunchAnswers, RunCanceled, TypeOK, LauncherTypeOK
<1>7. NoWaiterLost'
  BY <1>2 DEF NoWaiterLost, TypeOK, LauncherTypeOK
<1>8. OutcomeExplained' /\ SnapshotsInv' /\ WaitInv' /\ NoWaiterOverdue'
  BY <1>2 DEF OutcomeExplained, RunCanceled, SnapshotsInv, Came, WaitInv, Ended, ContainerFailed, NoWaiterOverdue, Resolves
<1> QED BY <1>4, <1>5, <1>6, <1>7, <1>8

LEMMA RunKeeps ==
  ASSUME StepInv, NEW s \in Steps, RunStep(s)
  PROVE  StepInv'
<1> USE DEF StepInv, At, Outcomes
<1>1. CASE RunBegins(s)
  <2>1. CASE stopped /\ Returns(s, "stopped") /\ UNCHANGED watcherVars
    BY <1>1, <2>1, ReturnsKeeps DEF RunBegins, LaunchAnswers
  <2>2. CASE GoesTo(s, "adding") /\ WatcherStarts
    BY <1>1, <2>2, GoesKeeps DEF RunBegins
  <2> QED BY <1>1, <2>1, <2>2 DEF RunBegins
<1>2. CASE AddRefused(s)
  BY <1>2, ReturnsKeeps DEF AddRefused, Errors
<1>3. CASE LaunchReturns(s)
  <2>1. "running" \in Waits
    BY DEF Waits
  <2>2. CASE launch[s] = "nil"
    BY <1>3, <2>1, <2>2, GoesKeeps DEF LaunchReturns
  <2>3. CASE launch[s] # "nil"
    BY <1>3, <2>3, ReturnsKeeps DEF LaunchReturns, LaunchInv, LaunchAnswers
  <2> QED BY <2>2, <2>3
<1>4. ASSUME NEW w \in Waits, wait[s][w] \in Results, run[s] # "returned", Returns(s, wait[s][w]),
             UNCHANGED <<podVars, stopVars, launcherVars, watcherVars>>,
             wait[s][w] \in Outcomes
      PROVE  StepInv'
  <2>1. wait[s][w] \notin {"stopped", "canceled"}
    BY <1>4 DEF Results, Errors
  <2> QED BY <1>4, <2>1, ReturnsKeeps DEF WaitInv
<1>5. CASE StartSeen(s)
  <2>1. "running" \in Waits
    BY DEF Waits
  <2>2. CASE wait[s]["running"] = "nil"
    BY <1>5, <2>2, GoesKeeps DEF StartSeen, RunInv
  <2>3. CASE wait[s]["running"] # "nil"
    <3>1. wait[s]["running"] \in Outcomes
      BY <1>5, <2>3 DEF StartSeen, Results, WaitInv
    <3> QED BY <1>4, <1>5, <2>1, <2>3, <3>1 DEF StartSeen
  <2> QED BY <2>2, <2>3
<1>6. CASE EndSeen(s)
  <2>1. "finished" \in Waits
    BY DEF Waits
  <2>2. wait[s]["finished"] \in Outcomes
    BY <1>6 DEF EndSeen, ExitCodes, WaitInv, TypeOK, WatcherTypeOK
  <2> QED BY <1>4, <1>6, <2>1, <2>2 DEF EndSeen
<1>7. CASE StartTimesOut(s)
  BY <1>7, ReturnsKeeps DEF StartTimesOut
<1>8. CASE LogsEnd(s)
  <2>1. "finished" \in Waits
    BY DEF Waits
  <2> QED BY <1>8, <2>1, GoesKeeps DEF LogsEnd, RunInv
<1>9. CASE LogsFail(s)
  BY <1>9, ReturnsKeeps DEF LogsFail, Errors
<1>10. CASE Interrupted(s)
  <2>1. run[s] # "returned" /\ UNCHANGED <<podVars, stopVars, launcherVars, watcherVars>>
    BY <1>10 DEF Interrupted
  <2>2. "canceled" \in Outcomes /\ "stopped" \in Outcomes
    BY DEF LaunchAnswers
  <2>3. CASE RunCanceled /\ Returns(s, "canceled")
    BY <2>1, <2>2, <2>3, ReturnsKeeps
  <2>4. CASE stopped /\ Returns(s, "stopped")
    BY <2>1, <2>2, <2>4, ReturnsKeeps
  <2> QED BY <1>10, <2>3, <2>4 DEF Interrupted
<1> QED BY <1>1, <1>2, <1>3, <1>5, <1>6, <1>7, <1>8, <1>9, <1>10, AddedKeeps, StartContainerKeeps DEF RunStep

-----------------------------------------------------------------------------
LEMMA StopKeeps ==
  ASSUME StepInv, Cancel \/ Stop
  PROVE  StepInv'
<1>1. /\ UNCHANGED <<podVars, launcherVars, watcherVars, run, outcome>>
      /\ stopped' \in BOOLEAN /\ cancelled' \in BOOLEAN
      /\ stopped => stopped'
      /\ cancelled => cancelled'
  BY DEF Cancel, Stop, StepInv, TypeOK, LauncherTypeOK
<1> USE <1>1 DEF StepInv, podVars, launcherVars, watcherVars
<1>2. TypeOK'
  BY DEF TypeOK, PodTypeOK, LauncherTypeOK, WatcherTypeOK
<1>3. RunCanceled => RunCanceled'
  BY <1>1 DEF RunCanceled
<1>5. LaunchInv'
  BY <1>3 DEF LaunchInv
<1>6. RunInv'
  BY DEF RunInv
<1>7. OutcomeExplained'
  BY <1>3 DEF OutcomeExplained, ContainerFailed
<1>4. SnapshotsInv' /\ WaitInv' /\ NoWaiterOverdue' /\ NoWaiterLost'
  BY DEF SnapshotsInv, Came, WaitInv, Ended, ContainerFailed, NoWaiterOverdue, Resolves, NoWaiterLost
<1> QED BY <1>2, <1>4, <1>5, <1>6, <1>7

LEMMA StepsKeep == StepInv /\ [Next]_vars => StepInv'
<1> SUFFICES ASSUME StepInv, [Next]_vars PROVE StepInv'
  OBVIOUS
<1>1. CASE UNCHANGED vars
  BY <1>1 DEF vars, podVars, stopVars, launcherVars, watcherVars, StepInv, TypeOK, PodTypeOK, LauncherTypeOK,
              WatcherTypeOK, LaunchInv, RunInv, SnapshotsInv, Came, WaitInv, Ended, ContainerFailed,
              NoWaiterOverdue, Resolves, NoWaiterLost, OutcomeExplained, RunCanceled
<1> QED BY <1>1, KubeletKeeps, LauncherKeeps, WatcherKeeps, StopKeeps, RunKeeps DEF Next

(* StepInv is an invariant. *)
LEMMA StepInvariance == Spec => []StepInv
BY InitStep, StepsKeep, PTL DEF Spec

-----------------------------------------------------------------------------
(* The contract: what the actions do to one step, as its contract sees it. *)

ContractStep(s) == [Contract(s)!Next]_(Contract(s)!contractVars)

(* Nothing happens to the step, whatever befalls the others. *)
LEMMA ContractUnmoved ==
  ASSUME NEW s \in Steps,
         image'[s] = image[s], ended'[s] = ended[s], answers'[s] = answers[s],
         LaunchOf(s)' = LaunchOf(s), VerdictOf(s)' = VerdictOf(s),
         VerdictOf(s) # "open" => exitCode'[s] = exitCode[s],
         outcome'[s] = outcome[s],
         \A t \in Steps \ {s} : ContainerFailed(t) => ContainerFailed(t)'
  PROVE  ContractStep(s)
<1>1. OthersFailed(s) \subseteq OthersFailed(s)'
  BY DEF OthersFailed
<1>2. Contract(s)!World
  BY <1>1 DEF Contract!World
<1> QED BY <1>2 DEF ContractStep, Contract!Next

LEMMA WorldMoves ==
  ASSUME NEW s \in Steps,
         image'[s] = image[s] \/ (image[s] = "placeholder" /\ image'[s] = "own"),
         ended[s] \subseteq ended'[s],
         UNCHANGED <<launch, answers, stepState, exitCode, outcome>>
  PROVE  ContractStep(s)
<1>1. Contract(s)!World
  BY DEF Contract!World, LaunchOf, VerdictOf, OthersFailed, ContainerFailed
<1> QED BY <1>1 DEF ContractStep, Contract!Next

LEMMA LaunchMoves ==
  ASSUME StepInv, NEW s \in Steps, launch[s] \in {"none", "offered", "queued"},
         UNCHANGED <<image, ended, stepState, exitCode, outcome>>,
         launch'[s] \in LaunchPcs \ {"none"},
         launch'[s] \in {"offered", "queued"} => answers'[s] = answers[s],
         launch'[s] \in LaunchAnswers => answers'[s] = answers[s] + 1,
         launch'[s] = "nil" => image[s] = "own" /\ launch[s] # "none"
  PROVE  ContractStep(s)
<1>1. answers[s] = 0
  BY DEF StepInv, LaunchInv, LaunchAnswers
<1> USE DEF LaunchOf, VerdictOf, LaunchPcs, LaunchAnswers, OthersFailed, ContainerFailed
<1>2. CASE launch[s] = "none" /\ launch'[s] \in {"offered", "queued"}
  BY <1>2 DEF ContractStep, Contract!Next, Contract!Ask
<1>3. CASE launch[s] # "none" /\ launch'[s] \in {"offered", "queued"}
  BY <1>3, ContractUnmoved
<1>4. CASE launch'[s] \in LaunchAnswers
  BY <1>1, <1>4 DEF ContractStep, Contract!Next, Contract!AnswerLaunch
<1> QED BY <1>2, <1>3, <1>4

LEMMA VerdictMoves ==
  ASSUME StepInv, NEW s \in Steps, ~Ended(s), NEW cs \in Statuses, Came(s, cs),
         UNCHANGED <<image, ended, launch, answers, outcome>>,
         \A t \in Steps \ {s} : stepState'[t] = stepState[t],
         stepState'[s] \in StepStates, exitCode'[s] = cs.code,
         stepState'[s] \in {"finished", "placeholderFailed", "failed"} => cs.state = "terminated",
         stepState'[s] = "finished" => cs.image = "own",
         stepState'[s] = "placeholderFailed" => cs.image = "placeholder"
  PROVE  ContractStep(s)
<1> USE DEF LaunchOf
<1>1. stepState[s] \in {"unregistered", "waiting", "running"}
  BY EndedIs DEF StepInv, TypeOK, WatcherTypeOK, StepStates
<1>2. CASE stepState'[s] \in {"unregistered", "waiting", "running"}
  BY <1>1, <1>2, ContractUnmoved DEF VerdictOf, ContainerFailed
<1>3. CASE stepState'[s] \in {"finished", "placeholderFailed", "failed"}
  <2>1. <<cs.image, cs.code>> \in ended[s]
    BY <1>3 DEF Came
  <2>2. VerdictOf(s) = "open" /\ VerdictOf(s)' = stepState'[s]
    BY <1>1, <1>3 DEF VerdictOf
  <2>3. OthersFailed(s)' = OthersFailed(s)
    BY DEF OthersFailed, ContainerFailed
  <2>4. Contract(s)!Decide
    BY <1>3, <2>1, <2>2, <2>3 DEF Contract!Decide, Contract!Verdicts, Contract!Failures
  <2> QED BY <2>4 DEF ContractStep, Contract!Next
<1> QED BY <1>2, <1>3 DEF StepStates

LEMMA ResultMoves ==
  ASSUME StepInv, NEW s \in Steps, NEW result, Returns(s, result), run[s] # "returned",
         UNCHANGED <<image, ended, launch, answers, stepState, exitCode>>,
         result # "none",
         result \in ExitCodes => launch[s] = "nil" /\ Ended(s) /\ result = exitCode[s],
         result = "failed" => ContainerFailed(s),
         result = "other" => \E t \in Steps \ {s} : ContainerFailed(t)
  PROVE  ContractStep(s)
<1> USE DEF LaunchOf, VerdictOf, ContainerFailed
<1>1. outcome[s] = "none" /\ outcome'[s] = result /\ OthersFailed(s)' = OthersFailed(s)
  BY DEF StepInv, RunInv, Returns, TypeOK, OthersFailed, ContainerFailed
<1>2. CASE result \in ExitCodes
  <2>1. stepState[s] \in {"finished", "placeholderFailed", "failed"}
    BY <1>2, EndedIs DEF StepInv
  <2>2. Contract(s)!ReportCode
    BY <1>1, <1>2, <2>1 DEF Contract!ReportCode, Contract!Verdicts, Contract!Failures
  <2> QED BY <2>2 DEF ContractStep, Contract!Next
<1>3. CASE result \notin ExitCodes \cup {"failed", "other"}
  <2>1. Contract(s)!ReportError
    BY <1>1, <1>3 DEF Contract!ReportError
  <2> QED BY <2>1 DEF ContractStep, Contract!Next
<1>4. CASE result \in {"failed", "other"}
  <2>1. result = "failed" => VerdictOf(s) \in Contract(s)!Failures
    BY <1>4 DEF ContainerFailed, Contract!Failures
  <2>2. result = "other" => OthersFailed(s) # {}
    BY <1>4 DEF OthersFailed
  <2>3. Contract(s)!ReportFailure
    BY <1>1, <1>4, <2>1, <2>2 DEF Contract!ReportFailure
  <2> QED BY <2>3 DEF ContractStep, Contract!Next
<1> QED BY <1>2, <1>3, <1>4

-----------------------------------------------------------------------------
(* Every action moves every step's contract, or leaves it. *)

LEMMA LauncherInContract ==
  ASSUME StepInv, Launches, NEW s \in Steps
  PROVE  ContractStep(s)
<1> USE DEF StepInv, TypeOK, PodTypeOK, LauncherTypeOK, Launches, watcherVars, podVars, LaunchPcs, LaunchAnswers
<1>1. ASSUME NEW t \in Steps, LaunchAccepted(t) PROVE ContractStep(s)
  <2>1. launch'[t] = "queued" /\ \A u \in Steps \ {t} : launch'[u] = launch[u]
    BY <1>1 DEF LaunchAccepted
  <2>2. CASE s = t
    BY <1>1, <2>1, <2>2, LaunchMoves DEF LaunchAccepted
  <2>3. CASE s # t
    BY <1>1, <2>1, <2>3, ContractUnmoved DEF LaunchAccepted, LaunchOf, VerdictOf, ContainerFailed
  <2> QED BY <2>2, <2>3
<1>2. ASSUME NEW t \in Steps, NEW err \in LaunchAnswers, Answer(t, err), launch[t] \in {"offered", "queued"},
             UNCHANGED podVars, err = "nil" => image[t] = "own"
      PROVE  ContractStep(s)
  <2>1. /\ launch'[t] = err /\ answers'[t] = answers[t] + 1
        /\ \A u \in Steps \ {t} : launch'[u] = launch[u] /\ answers'[u] = answers[u]
    BY <1>2 DEF Answer
  <2>2. CASE s = t
    BY <1>2, <2>1, <2>2, LaunchMoves
  <2>3. CASE s # t
    BY <1>2, <2>1, <2>3, ContractUnmoved DEF LaunchOf, VerdictOf, ContainerFailed
  <2> QED BY <2>2, <2>3
<1>3. ASSUME NEW t \in Steps, LaunchCanceled(t) PROVE ContractStep(s)
  BY <1>2, <1>3 DEF LaunchCanceled
<1>4. ASSUME NEW t \in Steps, CancelRequest(t) PROVE ContractStep(s)
  <2>1. launch[t] = "queued"
    BY <1>4 DEF CancelRequest, LaunchInv
  <2> QED BY <1>2, <1>4, <2>1 DEF CancelRequest
<1>5. ASSUME NEW t \in Steps, AnswerRequest(t) PROVE ContractStep(s)
  <2> DEFINE err == IF updateErr # "nil" THEN updateErr ELSE IF image[t] = "none" THEN "notfound" ELSE "nil"
  <2>1. err \in LaunchAnswers /\ (err = "nil" => image[t] = "own")
    BY <1>5 DEF AnswerRequest, LaunchInv, Images
  <2>2. launch[t] = "queued" /\ Answer(t, err)
    BY <1>5 DEF AnswerRequest, LaunchInv
  <2> HIDE DEF err
  <2> QED BY <1>2, <1>5, <2>1, <2>2 DEF AnswerRequest
<1>6. CASE UNCHANGED <<status, ended, podGone, launch, answers>> /\ (UNCHANGED image \/ UpdateImages(batch))
  <2>1. image'[s] = image[s] \/ (image[s] = "placeholder" /\ image'[s] = "own")
    BY <1>6 DEF UpdateImages, Images
  <2> QED BY <1>6, <2>1, WorldMoves
<1>7. CASE \/ TimerFires \/ UpdateSucceeds \/ UpdateFails \/ BatchAnswered
           \/ LauncherCloses \/ LauncherStops
  BY <1>6, <1>7 DEF TimerFires, UpdateSucceeds, UpdateFails, UpdateImages, BatchAnswered, LauncherCloses, LauncherStops
<1> QED BY <1>1, <1>3, <1>4, <1>5, <1>7 DEF LauncherStep

LEMMA WatcherInContract ==
  ASSUME StepInv, Watches, NEW s \in Steps
  PROVE  ContractStep(s)
<1> USE DEF StepInv, TypeOK, WatcherTypeOK
<1>1. UNCHANGED <<image, ended, launch, answers, outcome>>
  BY DEF Watches, WatcherStep, WatchEnds, Poll, EventArrives, PollArrives, WatcherCloses, WatcherDone, EndedSeen,
         NothingSeen, StateSeen, RecoveryAwaited, RecoveryGivenUp, FailingSeen, ClientArrives, WaitStops,
         LookAt, elsewhere, podVars, launcherVars
<1>2. CASE UNCHANGED <<stepState, exitCode>>
  BY <1>1, <1>2, ContractUnmoved DEF LaunchOf, VerdictOf, ContainerFailed
<1>3. ASSUME NEW t \in Steps, NEW state \in StepStates, LookAt(t), Open(t), Becomes(t, state, seen[t].code),
             state \in {"finished", "placeholderFailed", "failed"} => seen[t].state = "terminated",
             state = "finished" => seen[t].image = "own",
             state = "placeholderFailed" => seen[t].image = "placeholder"
      PROVE  ContractStep(s)
  <2>1. seen[t] \in Statuses /\ Came(t, seen[t])
    BY <1>3, LookSnapshots
  <2>2. /\ stepState' = [stepState EXCEPT ![t] = state]
        /\ exitCode' = [exitCode EXCEPT ![t] = seen[t].code]
        /\ ~Ended(t)
    BY <1>3 DEF Becomes, Open
  <2>3. CASE s = t
    BY <1>1, <1>3, <2>1, <2>2, <2>3, VerdictMoves
  <2>4. CASE s # t
    <3>1. \A u \in Steps \ {s} : ContainerFailed(u) => ContainerFailed(u)'
      BY <2>2, EndedIs DEF ContainerFailed
    <3> QED BY <1>1, <2>2, <2>4, <3>1, ContractUnmoved DEF LaunchOf, VerdictOf
  <2> QED BY <2>3, <2>4
<1>4. ASSUME NEW t \in Steps, RecoveryGivenUp(t) PROVE ContractStep(s)
  <2>1. LookAt(t) /\ Open(t) /\ Becomes(t, "failed", seen[t].code) /\ seen[t].code = "exit2"
    BY <1>4 DEF RecoveryGivenUp, FailingSeen, Recovering
  <2>2. seen[t].state = "terminated"
    BY <2>1, LookSnapshots DEF Came
  <2> QED BY <1>3, <2>1, <2>2 DEF StepStates
<1>5. ASSUME NEW t \in Steps, StateSeen(t) PROVE ContractStep(s)
  <2>1. CASE Ignored
    BY <1>2, <2>1 DEF Ignored
  <2>2. CASE Becomes(t, SeenState(seen[t]), seen[t].code)
    <3>1. LookAt(t) /\ Open(t)
      BY <1>5 DEF StateSeen
    <3>2. seen[t] \in Statuses
      BY <3>1, LookSnapshots
    <3>3. /\ SeenState(seen[t]) \in StepStates
          /\ SeenState(seen[t]) \in {"finished", "placeholderFailed", "failed"} => seen[t].state = "terminated"
          /\ SeenState(seen[t]) = "finished" => seen[t].image = "own"
          /\ SeenState(seen[t]) = "placeholderFailed" => seen[t].image = "placeholder"
      BY <3>2 DEF SeenState, StepStates, Statuses, Images
    <3> QED BY <1>3, <2>2, <3>1, <3>3
  <2> QED BY <1>5, <2>1, <2>2 DEF StateSeen
<1>6. CASE WatchEnds \/ Poll \/ EventArrives \/ PollArrives \/ WatcherCloses \/ WatcherDone
  BY <1>2, <1>6 DEF WatchEnds, Poll, EventArrives, PollArrives, WatcherCloses, WatcherDone
<1>7. ASSUME NEW t \in Steps, EndedSeen(t) \/ NothingSeen(t) \/ RecoveryAwaited(t) PROVE ContractStep(s)
  BY <1>2, <1>7 DEF EndedSeen, NothingSeen, RecoveryAwaited, Ignored
<1>8. ASSUME NEW t \in Steps, NEW w \in Waits, ClientArrives(t, w) \/ WaitStops(t, w) PROVE ContractStep(s)
  BY <1>2, <1>8 DEF ClientArrives, WaitStops
<1> QED BY <1>4, <1>5, <1>6, <1>7, <1>8 DEF Watches, WatcherStep

LEMMA RunInContract ==
  ASSUME StepInv, NEW t \in Steps, RunStep(t), NEW s \in Steps
  PROVE  ContractStep(s)
<1> USE DEF StepInv, TypeOK, LauncherTypeOK, WatcherTypeOK, At
<1>1. ASSUME NEW result \in Outcomes, Returns(t, result), run[t] # "returned",
             UNCHANGED <<podVars, launcherVars, watcherVars>>,
             result \in ExitCodes => launch[t] = "nil" /\ Ended(t) /\ result = exitCode[t],
             result = "failed" => ContainerFailed(t),
             result = "other" => \E u \in Steps \ {t} : ContainerFailed(u)
      PROVE  ContractStep(s)
  <2>1. UNCHANGED <<image, ended, launch, answers, stepState, exitCode>>
    BY <1>1 DEF podVars, launcherVars, watcherVars
  <2>2. CASE s = t
    <3>1. result # "none"
      BY CodesAssumption DEF Outcomes, ExitCodes, LaunchAnswers, Errors
    <3> QED BY <1>1, <2>1, <2>2, <3>1, ResultMoves
  <2>3. CASE s # t
    <3>1. outcome'[s] = outcome[s]
      BY <1>1, <2>3 DEF Returns
    <3> QED BY <2>1, <3>1, ContractUnmoved DEF LaunchOf, VerdictOf, ContainerFailed
  <2> QED BY <2>2, <2>3
<1>2. ASSUME UNCHANGED <<podVars, launcherVars, stepState, exitCode, outcome>>
      PROVE  ContractStep(s)
  BY <1>2, ContractUnmoved DEF podVars, launcherVars, LaunchOf, VerdictOf, ContainerFailed
<1>3. ExitCodes \subseteq {"nil", "exit1", "exit2"}
  BY DEF ExitCodes
<1>4. ASSUME NEW result \in (LaunchAnswers \cup Errors \cup {"timeout"}) \ {"nil"}, Returns(t, result), run[t] # "returned",
             UNCHANGED <<podVars, launcherVars, watcherVars>>,
             result = "failed" => ContainerFailed(t),
             result = "other" => \E u \in Steps \ {t} : ContainerFailed(u)
      PROVE  ContractStep(s)
  <2>1. result \in Outcomes /\ result \notin ExitCodes
    BY <1>3 DEF Outcomes, LaunchAnswers, Errors
  <2> QED BY <1>1, <1>4, <2>1
<1>5. CASE RunBegins(t)
  BY <1>2, <1>4, <1>5 DEF RunBegins, GoesTo, WatcherStarts, LaunchAnswers
<1>6. CASE ContainerAdded(t)
  <2>1. /\ stepState' = [stepState EXCEPT ![t] = "waiting"]
        /\ exitCode' = [exitCode EXCEPT ![t] = "nil"]
        /\ UNCHANGED <<podVars, launcherVars, outcome>>
    BY <1>6 DEF ContainerAdded, Register, GoesTo
  <2>2. stepState[t] = "unregistered"
    BY <1>6 DEF ContainerAdded, RunInv
  <2> QED BY <2>1, <2>2, ContractUnmoved DEF podVars, launcherVars, LaunchOf, VerdictOf, ContainerFailed
<1>7. CASE AddRefused(t)
  BY <1>4, <1>7 DEF AddRefused, Errors
<1>8. CASE StartContainer(t)
  <2>1. /\ UNCHANGED <<podVars, watcherVars, outcome>>
        /\ launch' = [launch EXCEPT ![t] = IF stopped THEN "stopped" ELSE "offered"]
        /\ answers' = [answers EXCEPT ![t] = IF stopped THEN @ + 1 ELSE @]
    BY <1>8 DEF StartContainer, LaunchOffered, GoesTo
  <2>2. launch[t] = "none"
    BY <1>8 DEF StartContainer, RunInv
  <2>3. CASE s = t
    BY <2>1, <2>2, <2>3, LaunchMoves DEF podVars, watcherVars, LaunchPcs, LaunchAnswers
  <2>4. CASE s # t
    BY <2>1, <2>4, ContractUnmoved DEF podVars, watcherVars, LaunchOf, VerdictOf, ContainerFailed
  <2> QED BY <2>3, <2>4
<1>9. CASE LaunchReturns(t)
  <2>1. CASE launch[t] = "nil"
    BY <1>2, <1>9, <2>1 DEF LaunchReturns, GoesTo, StartsWait
  <2>2. CASE launch[t] # "nil"
    <3>1. launch[t] \in LaunchAnswers \ {"nil"} /\ launch[t] \notin {"failed", "other"}
      BY <1>9, <2>2 DEF LaunchReturns, LaunchAnswers
    <3> QED BY <1>4, <1>9, <2>2, <3>1 DEF LaunchReturns
  <2> QED BY <2>1, <2>2
<1>10. CASE StartSeen(t)
  <2>1. wait[t]["running"] \in Errors \cup {"nil"}
    BY <1>10 DEF StartSeen, Results, WaitInv
  <2>2. wait[t]["running"] \in Errors =>
          /\ wait[t]["running"] = "failed" => ContainerFailed(t)
          /\ wait[t]["running"] = "other" => \E u \in Steps \ {t} : ContainerFailed(u)
    BY DEF WaitInv, Waits
  <2>3. CASE wait[t]["running"] = "nil"
    BY <1>2, <1>10, <2>3 DEF StartSeen, GoesTo, watcherVars
  <2>4. CASE wait[t]["running"] # "nil"
    <3>1. wait[t]["running"] \in (LaunchAnswers \cup Errors \cup {"timeout"}) \ {"nil"}
      BY <2>1, <2>4
    <3> QED BY <1>4, <1>10, <2>1, <2>2, <2>4, <3>1 DEF StartSeen
  <2> QED BY <2>3, <2>4
<1>11. CASE StartTimesOut(t)
  BY <1>4, <1>11 DEF StartTimesOut, LaunchAnswers
<1>12. CASE LogsEnd(t)
  BY <1>2, <1>12 DEF LogsEnd, GoesTo, StartsWait
<1>13. CASE LogsFail(t)
  BY <1>4, <1>13 DEF LogsFail, Errors
<1>14. CASE EndSeen(t)
  <2>1. CASE wait[t]["finished"] \in Errors
    <3>1. wait[t]["finished"] # "nil"
      BY <2>1 DEF Errors
    <3>2. /\ wait[t]["finished"] = "failed" => ContainerFailed(t)
          /\ wait[t]["finished"] = "other" => \E u \in Steps \ {t} : ContainerFailed(u)
      BY DEF WaitInv, Waits
    <3> QED BY <1>4, <1>14, <2>1, <3>1, <3>2 DEF EndSeen
  <2>2. CASE wait[t]["finished"] \notin Errors
    <3>1. Ended(t) /\ wait[t]["finished"] = exitCode[t] /\ launch[t] = "nil"
      BY <1>14, <2>2 DEF EndSeen, WaitInv, RunInv
    <3>2. exitCode[t] \in Outcomes /\ exitCode[t] \notin {"failed", "other"}
      BY <1>3 DEF Outcomes, ExitCodes
    <3> QED BY <1>1, <1>14, <3>1, <3>2 DEF EndSeen
  <2> QED BY <2>1, <2>2
<1>15. CASE Interrupted(t)
  BY <1>4, <1>15 DEF Interrupted, LaunchAnswers
<1> QED BY <1>5, <1>6, <1>7, <1>8, <1>9, <1>10, <1>11, <1>12, <1>13, <1>14, <1>15 DEF RunStep

LEMMA StepsInContract ==
  ASSUME StepInv, [Next]_vars, NEW s \in Steps
  PROVE  ContractStep(s)
<1>1. CASE Kubelet
  <2>1. image' = image /\ \A t \in Steps : ended[t] \subseteq ended'[t]
    BY <1>1, KubeletSnapshots DEF Kubelet
  <2> QED BY <1>1, <2>1, WorldMoves DEF Kubelet, launcherVars, watcherVars
<1>2. CASE Cancel \/ Stop \/ UNCHANGED vars
  BY <1>2, ContractUnmoved DEF Cancel, Stop, vars, podVars, launcherVars, watcherVars, LaunchOf, VerdictOf, ContainerFailed
<1> QED BY <1>1, <1>2, LauncherInContract, WatcherInContract, RunInContract DEF Next

LEMMA InitInContract == Init => \A s \in Steps : Contract(s)!Init
<1> SUFFICES ASSUME Init, NEW s \in Steps PROVE Contract(s)!Init
  OBVIOUS
<1>1. LaunchOf(s) = "unasked" /\ VerdictOf(s) = "open"
  BY DEF Init, LauncherInit, WatcherInit, LaunchOf, VerdictOf
<1>2. OthersFailed(s) = {}
  BY DEF Init, WatcherInit, OthersFailed, ContainerFailed
<1> QED BY <1>1, <1>2 DEF Init, PodInit, LauncherInit, Contract!Init

-----------------------------------------------------------------------------
(* Run keeps its contract for every step, however many run side by side.   *)
THEOREM ContractIsImplemented == Spec => ImplementsContract
<1>1. StepInv /\ [Next]_vars => [\A s \in Steps : [Contract(s)!Next]_(Contract(s)!contractVars)]_vars
  BY StepsInContract DEF ContractStep
<1> QED BY <1>1, InitInContract, StepInvariance, PTL DEF Spec, ImplementsContract

(* No waiter outlives the watcher, and no launch the launcher, unanswered. *)
THEOREM NobodyIsForgotten == Spec => []NoWaiterLost
<1>1. StepInv => NoWaiterLost
  BY DEF StepInv
<1> QED BY <1>1, StepInvariance, PTL

(* Nobody stays listed for an event that has come. *)
THEOREM NobodyIsOverdue == Spec => []NoWaiterOverdue
<1>1. StepInv => NoWaiterOverdue
  BY DEF StepInv
<1> QED BY <1>1, StepInvariance, PTL

(* What Run returns is never blamed on the wrong one. *)
THEOREM OutcomesAreExplained == Spec => []OutcomeExplained
<1>1. StepInv => OutcomeExplained
  BY DEF StepInv
<1> QED BY <1>1, StepInvariance, PTL
=============================================================================
