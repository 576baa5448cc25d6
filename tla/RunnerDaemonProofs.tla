------------------------- MODULE RunnerDaemonProofs -------------------------
(***************************************************************************)
(* What the daemon promises the engine, for any number of processes,       *)
(* workers and stages: nothing is taken over from a process that still     *)
(* executes it, and a process that returns by itself has begun the cleanup *)
(* of whatever it executed.  This rests on the promise of RunnerIdentity   *)
(* that no process is declared dead while it runs, which comes first.      *)
(***************************************************************************)
EXTENDS RunnerDaemon, TLAPS

USE IdentityAssumption

-----------------------------------------------------------------------------
(* RunnerIdentity, for any number of containers, Pods and clock ticks. *)

LEMMA WholeSecondsLe ==
  ASSUME NEW t \in Nat
  PROVE  WholeSeconds(t) \in 0 .. t
BY DEF WholeSeconds

LEMMA TerminationType ==
  ASSUME IdentityTypeOK, NEW c \in Containers
  PROVE  Termination(c) \in Terminations
<1>1. finished[c] \in Times /\ finished[c] \in Nat
  BY DEF IdentityTypeOK, Times
<1>2. WholeSeconds(finished[c]) \in 0 .. finished[c]
  BY <1>1, WholeSecondsLe
<1>3. WholeSeconds(finished[c]) \in Times
  BY <1>1, <1>2 DEF Times
<1> QED BY <1>3 DEF Termination, Terminations, Containers

(* What the kubelet observes of the Pod's latest container is true. *)
LEMMA ObserveTrue ==
  ASSUME IdentityInv, Observe
  PROVE  /\ kubelet' \in Statuses /\ TrueStatus(kubelet')
         /\ UNCHANGED <<now, pod, deleting, processVars, status>>
<1>1. PICK c \in Containers, last \in {NoTermination} \cup {Termination(d) : d \in Containers} :
        /\ podOf[c] = pod
        /\ last.id # 0 => last.id < c /\ podOf[last.id] = pod
        /\ \/ kubelet' = [state |-> "running", id |-> c, terminated |-> NoTermination, last |-> last]
           \/ /\ process[c] = "ended"
              /\ kubelet' = [state |-> "terminated", id |-> c, terminated |-> Termination(c), last |-> last]
           \/ /\ process[c] = "ended"
              /\ kubelet' = [state |-> "waiting", id |-> c, terminated |-> NoTermination, last |-> Termination(c)]
        /\ UNCHANGED <<now, pod, deleting, processVars, status>>
  BY DEF Observe
<1>2. NoTermination \in Terminations /\ True(NoTermination)
  BY DEF NoTermination, Terminations, Times, True, Containers
<1>3. last \in Terminations /\ True(last)
  <2>1. CASE last = NoTermination BY <1>2, <2>1
  <2>2. ASSUME NEW d \in Containers, last = Termination(d) PROVE last \in Terminations /\ True(last)
    <3>1. last.id = d /\ d # 0 /\ last.at = WholeSeconds(finished[d])
      BY <2>2 DEF Termination, Containers
    <3>2. d < c /\ podOf[d] = podOf[c] /\ podOf[c] # 0
      BY <1>1, <3>1 DEF IdentityInv, IdentityTypeOK
    <3>3. process[d] = "ended"
      BY <3>2 DEF IdentityInv, StartedInOrder, Started
    <3> QED BY <2>2, <3>1, <3>3, TerminationType DEF True, IdentityInv
  <2> QED BY <2>1, <2>2
<1>4. Termination(c) \in Terminations /\ (process[c] = "ended" => True(Termination(c)))
  BY TerminationType DEF IdentityInv, True, Termination
<1>5. c \in 0 .. MaxContainers
  BY DEF Containers
<1> QED BY <1>1, <1>2, <1>3, <1>4, <1>5 DEF Statuses, TrueStatus

-----------------------------------------------------------------------------
LEMMA InitIdentity == IdentityInit => IdentityInv
<1> SUFFICES ASSUME IdentityInit PROVE IdentityInv
  OBVIOUS
<1> USE DEF IdentityInit
<1>1. NoStatus \in Statuses /\ NoStatus.id = 0 /\ NoStatus.terminated.id = 0 /\ NoStatus.last.id = 0
  BY DEF NoStatus, NoTermination, Statuses, Terminations, Times
<1>2. Nobody \in [pod : 0 .. MaxPods, id : 0 .. MaxContainers] /\ Nobody.id = 0 /\ 0 \in Times /\ 1 \in 1 .. MaxPods
  BY DEF Nobody, Times
<1>3. IdentityTypeOK
  <2>1. /\ now \in Times /\ pod \in 1 .. MaxPods /\ deleting \in BOOLEAN
        /\ kubelet \in Statuses /\ status \in Statuses
    BY <1>1, <1>2
  <2>2. /\ started \in [Containers -> Times] /\ finished \in [Containers -> Times]
        /\ owner \in [Containers -> [pod : 0 .. MaxPods, id : 0 .. MaxContainers]]
    BY <1>2
  <2>3. podOf \in [Containers -> 0 .. MaxPods]
    OBVIOUS
  <2> QED BY <2>1, <2>2, <2>3 DEF IdentityTypeOK
<1>4. StartedInOrder
  BY DEF StartedInOrder, Started
<1>5. OwnOrEarlier
  BY <1>2 DEF OwnOrEarlier
<1>6. StatusesTrue
  BY <1>1 DEF StatusesTrue, TrueStatus, True
<1> QED BY <1>3, <1>4, <1>5, <1>6 DEF IdentityInv

ProcessStep(c) == StartContainer(c) \/ End(c) \/ ReadClock(c) \/ Identify(c) \/ RefuseStart(c)

Same(c) ==
  /\ podOf'[c] = podOf[c] /\ process'[c] = process[c] /\ started'[c] = started[c]
  /\ finished'[c] = finished[c] /\ owner'[c] = owner[c]

(* What a step of process c does, entry by entry. *)
Moves(c) ==
  \/ /\ ~Started(c) /\ \A d \in Containers : d < c => Started(d)
     /\ \A d \in Containers : podOf[d] = pod => process[d] = "ended" /\ finished[d] < now
     /\ podOf'[c] = pod /\ process'[c] = "starting"
     /\ started'[c] = started[c] /\ finished'[c] = finished[c] /\ owner'[c] = owner[c]
  \/ /\ process[c] \notin {"none", "ended"}
     /\ process'[c] = "ended" /\ finished'[c] = now
     /\ podOf'[c] = podOf[c] /\ started'[c] = started[c] /\ owner'[c] = owner[c]
  \/ /\ process[c] = "starting" /\ process'[c] = "identifying" /\ started'[c] = now
     /\ podOf'[c] = podOf[c] /\ finished'[c] = finished[c] /\ owner'[c] = owner[c]
  \/ /\ process[c] = "identifying" /\ pod = podOf[c] /\ status.id # 0
     /\ process'[c] = "serving" /\ owner'[c] = [pod |-> pod, id |-> status.id]
     /\ podOf'[c] = podOf[c] /\ started'[c] = started[c] /\ finished'[c] = finished[c]
  \/ /\ process[c] = "identifying" /\ process'[c] = "refused"
     /\ podOf'[c] = podOf[c] /\ started'[c] = started[c] /\ finished'[c] = finished[c]
     /\ owner'[c] = owner[c]

LEMMA ProcessMoves ==
  ASSUME IdentityTypeOK, NEW c \in Containers, ProcessStep(c)
  PROVE  /\ Moves(c) /\ \A d \in Containers \ {c} : Same(d)
         /\ UNCHANGED <<now, pod, deleting, statusVars>>
<1> USE DEF IdentityTypeOK, Moves, Same
<1>1. CASE StartContainer(c) BY <1>1 DEF StartContainer
<1>2. CASE End(c) BY <1>2 DEF End
<1>3. CASE ReadClock(c) BY <1>3 DEF ReadClock
<1>4. CASE Identify(c) BY <1>4 DEF Identify
<1>5. CASE RefuseStart(c) BY <1>5 DEF RefuseStart
<1> QED BY <1>1, <1>2, <1>3, <1>4, <1>5 DEF ProcessStep

(* The other steps change neither processes nor their Pods. *)
LEMMA ClusterMoves ==
  ASSUME [IdentityNext]_identityVars
  PROVE  \/ \E c \in Containers : ProcessStep(c)
         \/ /\ UNCHANGED processVars
            /\ Tick \/ DeletePod \/ ReplacePod \/ Observe \/ Publish \/ UNCHANGED identityVars
BY DEF IdentityNext, ProcessStep, identityVars, Tick, DeletePod, ReplacePod, Observe, Publish

LEMMA IdentityTypes ==
  ASSUME IdentityInv, [IdentityNext]_identityVars
  PROVE  IdentityTypeOK'
<1> USE DEF IdentityInv, IdentityTypeOK
<1>1. ASSUME NEW c \in Containers, ProcessStep(c) PROVE IdentityTypeOK'
  <2> USE DEF statusVars
  <2>1. CASE StartContainer(c) BY <2>1 DEF StartContainer
  <2>2. CASE End(c) BY <2>2 DEF End
  <2>3. CASE ReadClock(c) BY <2>3 DEF ReadClock
  <2>4. CASE Identify(c)
    <3>1. [pod |-> pod, id |-> status.id] \in [pod : 0 .. MaxPods, id : 0 .. MaxContainers]
      BY DEF Statuses
    <3> QED BY <2>4, <3>1 DEF Identify
  <2>5. CASE RefuseStart(c) BY <2>5 DEF RefuseStart
  <2> QED BY <1>1, <2>1, <2>2, <2>3, <2>4, <2>5 DEF ProcessStep
<1> USE DEF processVars
<1>2. CASE Tick BY <1>2 DEF Tick, Times, statusVars
<1>3. CASE DeletePod BY <1>3 DEF DeletePod, statusVars
<1>4. CASE ReplacePod
  <2>1. NoStatus \in Statuses
    BY DEF NoStatus, NoTermination, Statuses, Terminations, Times
  <2>2. pod' \in 1 .. MaxPods /\ UNCHANGED <<now, processVars>>
    BY <1>4 DEF ReplacePod
  <2> QED BY <1>4, <2>1, <2>2 DEF ReplacePod
<1>5. CASE Observe BY <1>5, ObserveTrue
<1>6. CASE Publish BY <1>6 DEF Publish
<1>7. CASE UNCHANGED identityVars BY <1>7 DEF identityVars, statusVars
<1> QED BY <1>1, <1>2, <1>3, <1>4, <1>5, <1>6, <1>7, ClusterMoves

LEMMA ContainersAreNumbers == \A c \in Containers : c \in Nat \ {0}
BY DEF Containers

LEMMA OrderKept ==
  ASSUME IdentityInv, [IdentityNext]_identityVars
  PROVE  StartedInOrder'
<1>0. /\ StartedInOrder /\ now \in Nat /\ pod # 0
      /\ \A c \in Containers : c \in Nat /\ finished[c] \in Nat /\ started[c] \in Nat
  BY ContainersAreNumbers DEF IdentityInv, IdentityTypeOK, Times
<1>1. ASSUME NEW c \in Containers, ProcessStep(c) PROVE StartedInOrder'
  <2>1. /\ Moves(c) /\ \A d \in Containers \ {c} : Same(d)
        /\ UNCHANGED <<now, pod>>
    BY <1>1, ProcessMoves DEF IdentityInv
  <2> QED BY <1>0, <2>1 DEF Moves, Same, StartedInOrder, Started
<1>2. CASE UNCHANGED processVars /\ now' \in Nat /\ now <= now'
  BY <1>0, <1>2 DEF processVars, StartedInOrder, Started
<1>3. CASE UNCHANGED now /\ UNCHANGED processVars
  BY <1>0, <1>2, <1>3
<1>4. Tick => now' = now + 1
  BY DEF Tick
<1>5. DeletePod \/ ReplacePod \/ Observe \/ Publish \/ UNCHANGED identityVars => UNCHANGED now
  BY DEF DeletePod, ReplacePod, Observe, Publish, identityVars
<1> QED BY <1>0, <1>1, <1>2, <1>3, <1>4, <1>5, ClusterMoves

LEMMA OwnersKept ==
  ASSUME IdentityInv, [IdentityNext]_identityVars
  PROVE  OwnOrEarlier'
<1>0. /\ OwnOrEarlier /\ StartedInOrder /\ TrueStatus(status) /\ now \in Nat /\ pod # 0
      /\ \A c \in Containers : c \in Nat /\ finished[c] \in Nat /\ started[c] \in Nat
  BY ContainersAreNumbers DEF IdentityInv, IdentityTypeOK, Times, StatusesTrue
<1>1. ASSUME NEW c \in Containers, ProcessStep(c) PROVE OwnOrEarlier'
  <2>1. Moves(c) /\ \A d \in Containers \ {c} : Same(d)
    BY <1>1, ProcessMoves DEF IdentityInv
  <2> SUFFICES ASSUME NEW d \in Containers, owner'[d].id # 0
               PROVE  /\ process'[d] \in {"serving", "ended"}
                      /\ \/ owner'[d].id = d
                         \/ /\ owner'[d].id \in Containers
                            /\ process'[owner'[d].id] = "ended" /\ finished'[owner'[d].id] < started'[d]
    BY DEF OwnOrEarlier
  <2>2. CASE d # c \/ process[c] # "identifying"
    BY <1>0, <2>1, <2>2 DEF Moves, Same, OwnOrEarlier, StartedInOrder, Started
  <2>3. CASE d = c /\ process[c] = "identifying"
    <3>1. owner[c].id = 0
      BY <1>0, <2>3 DEF OwnOrEarlier
    <3>2. process'[c] = "serving" /\ pod = podOf[c] /\ owner'[c].id = status.id /\ started'[c] = started[c]
      BY <1>0, <2>1, <2>3, <3>1 DEF Moves
    <3>3. status.id \in Containers /\ podOf[status.id] = podOf[c] /\ Started(c) /\ Started(status.id)
      BY <1>0, <2>3, <3>2 DEF TrueStatus, Started
    <3>4. ~(c < status.id)
      BY <1>0, <2>3, <3>3 DEF StartedInOrder
    <3>5. status.id < c => process[status.id] = "ended" /\ finished[status.id] < started[c]
      BY <1>0, <2>3, <3>3 DEF StartedInOrder
    <3> QED BY <1>0, <2>1, <2>3, <3>2, <3>3, <3>4, <3>5 DEF Same
  <2> QED BY <2>2, <2>3
<1>2. CASE UNCHANGED processVars
  BY <1>0, <1>2 DEF processVars, OwnOrEarlier
<1> QED BY <1>1, <1>2, ClusterMoves

LEMMA StatusesKept ==
  ASSUME IdentityInv, [IdentityNext]_identityVars
  PROVE  StatusesTrue'
<1> USE DEF StatusesTrue
<1>0. /\ TrueStatus(kubelet) /\ TrueStatus(status) /\ StartedInOrder /\ pod # 0
  BY DEF IdentityInv, IdentityTypeOK
<1>1. ASSUME NEW c \in Containers, ProcessStep(c) PROVE StatusesTrue'
  <2>1. /\ Moves(c) /\ \A d \in Containers \ {c} : Same(d)
        /\ UNCHANGED <<now, pod, kubelet, status>>
    BY <1>1, ProcessMoves DEF IdentityInv, statusVars
  <2>2. \A d \in Containers : /\ process[d] = "ended" => process'[d] = "ended" /\ finished'[d] = finished[d]
                              /\ podOf[d] # 0 => podOf'[d] = podOf[d]
    BY <1>0, <2>1 DEF Moves, Same, StartedInOrder, Started
  <2> QED BY <1>0, <2>1, <2>2 DEF TrueStatus, True
<1>3. CASE UNCHANGED processVars /\ pod' = pod /\ kubelet' \in {kubelet, status} /\ status' \in {kubelet, status}
  BY <1>0, <1>3 DEF processVars, TrueStatus, True
<1>4. CASE Observe
  <2>1. TrueStatus(kubelet') /\ UNCHANGED <<pod, processVars, status>>
    BY <1>4, ObserveTrue
  <2> QED BY <1>0, <2>1 DEF processVars, TrueStatus, True
<1>5. CASE ReplacePod
  BY <1>5 DEF ReplacePod, NoStatus, NoTermination, TrueStatus, True
<1> QED BY <1>1, <1>3, <1>4, <1>5, ClusterMoves DEF Tick, DeletePod, Publish, identityVars, statusVars

LEMMA DeadHasEnded ==
  ASSUME IdentityInv, NEW c \in Containers, ExecutorTerminated(c)
  PROVE  process[c] = "ended"
<1>1. PICK t \in {status.terminated, status.last} :
        t.id # 0 /\ t.id = owner[c].id /\ t.at >= started[c]
  BY DEF ExecutorTerminated
<1>2. t.id \in Containers /\ process[t.id] = "ended" /\ t.at = WholeSeconds(finished[t.id])
  BY <1>1 DEF IdentityInv, StatusesTrue, TrueStatus, True
<1>3. finished[t.id] \in Nat /\ started[c] \in Nat
  BY <1>2 DEF IdentityInv, IdentityTypeOK, Times
<1>4. ~(finished[t.id] < started[c])
  BY <1>1, <1>2, <1>3, WholeSecondsLe
<1>5. t.id = c
  BY <1>1, <1>4 DEF IdentityInv, OwnOrEarlier
<1> QED BY <1>2, <1>5

LEMMA IdentityStep ==
  ASSUME IdentityInv, [IdentityNext]_identityVars
  PROVE  IdentityInv'
BY IdentityTypes, OrderKept, OwnersKept, StatusesKept DEF IdentityInv

(* executorTerminated never condemns a process that runs: the container it *)
(* claims is its own, or ended before the process read its clock, and      *)
(* rounding FinishedAt down cannot make that look later.                   *)
THEOREM AliveIsNotDead == IdentitySpec => []NeverDeclaredDeadAlive
<1>1. IdentityInv => NeverDeclaredDeadAlive
  BY DeadHasEnded DEF NeverDeclaredDeadAlive
<1>2. IdentityInv /\ [IdentityNext]_identityVars => IdentityInv'
  BY IdentityStep
<1> QED BY <1>1, <1>2, InitIdentity, PTL DEF IdentitySpec

-----------------------------------------------------------------------------
(* RunnerDaemon. *)

LEMMA InitRunner == RunnerInit => RunnerInv
<1> SUFFICES ASSUME RunnerInit PROVE RunnerInv
  OBVIOUS
<1> USE DEF RunnerInit
<1>1. IdentityInv
  BY InitIdentity
<1>2. DaemonTypeOK
  BY DEF DaemonTypeOK, Idle, Records
<1>3. StagesHeldOnce /\ GatesAttended /\ ExecutingIsKept
  BY DEF StagesHeldOnce, GatesAttended, ExecutingIsKept, Holds, Idle
<1> QED BY <1>1, <1>2, <1>3 DEF RunnerInv

-----------------------------------------------------------------------------
(* What a working step does to its worker, and which it is. *)
Working(c, w) == Task(c, w) \/ AcceptCommits(c, w) \/ Stop(c, w)

(* The processes: every step but Misconfigured is one of RunnerIdentity. *)
LEMMA WorkingStays ==
  ASSUME NEW c \in Containers, NEW w \in Workers, Working(c, w)
  PROVE  Stays
BY DEF Working, Task, Ask, Leave, Accept, AcceptCommits, AcceptRefused, AcceptGivenUp, AcceptReturns, SetupBegins,
       SetupOk, SetupFails, Stop, StepsEnd, ExecReturns

LEMMA SettlesStays ==
  ASSUME NEW s \in Stages, Settles(s)
  PROVE  Stays /\ UNCHANGED worker
BY DEF Settles, LateCommit, RecordSettles, HandOff, CleanedUp, TakeOver, Stays

LEMMA DaemonIdentity ==
  ASSUME [RunnerNext]_runnerVars
  PROVE  [IdentityNext]_identityVars \/ \E c \in Containers : Misconfigured(c)
<1> USE DEF IdentityNext
<1>1. CASE UNCHANGED runnerVars BY <1>1 DEF runnerVars
<1>2. CASE Cluster BY <1>2 DEF Cluster
<1>3. ASSUME NEW c \in Containers, Killed(c) \/ Signal(c) \/ Daemon(c)
      PROVE  [IdentityNext]_identityVars \/ Misconfigured(c)
  BY <1>3 DEF Killed, Exit, Signal, Daemon, Enable, ReturnRefused, PingOk, ReturnUnpinged, Return
<1>4. ASSUME NEW c \in Containers, NEW w \in Workers, Working(c, w) PROVE [IdentityNext]_identityVars
  BY <1>4, WorkingStays DEF Stays
<1>5. ASSUME NEW s \in Stages, Settles(s) PROVE [IdentityNext]_identityVars
  BY <1>5, SettlesStays DEF Stays
<1> QED BY <1>1, <1>2, <1>3, <1>4, <1>5 DEF RunnerNext, Working

LEMMA MisconfiguredKeeps ==
  ASSUME IdentityInv, NEW c \in Containers, Misconfigured(c)
  PROVE  IdentityInv'
<1> USE DEF IdentityInv, IdentityTypeOK, Misconfigured
<1>1. IdentityTypeOK'
  BY DEF statusVars
<1>2. \A d \in Containers : process'[d] = IF d = c THEN "refused" ELSE process[d]
  OBVIOUS
<1>3. process[c] = "starting" /\ UNCHANGED <<now, pod, podOf, started, finished, owner, kubelet, status>>
  BY DEF statusVars
<1>4. StartedInOrder'
  BY <1>2, <1>3 DEF StartedInOrder, Started
<1>5. OwnOrEarlier'
  BY <1>2, <1>3 DEF OwnOrEarlier
<1>6. StatusesTrue'
  BY <1>2, <1>3 DEF StatusesTrue, TrueStatus, True
<1> QED BY <1>1, <1>4, <1>5, <1>6

LEMMA IdentityKept ==
  ASSUME IdentityInv, [RunnerNext]_runnerVars
  PROVE  IdentityInv'
BY DaemonIdentity, IdentityStep, MisconfiguredKeeps

-----------------------------------------------------------------------------
(* What a step does to the workers.  Quiet: nothing. *)
Quiet ==
  /\ UNCHANGED <<worker, accepted, late, record, gate>>
  /\ signalled' \in [Containers -> BOOLEAN] /\ polling' \in [Containers -> BOOLEAN]
  /\ \A d \in Containers : /\ process[d] \in {"serving", "ended"} => process'[d] = process[d]
                           /\ polling[d] => polling'[d]

LEMMA QuietSteps ==
  ASSUME RunnerInv, NEW c \in Containers, Cluster \/ Signal(c) \/ Misconfigured(c) \/ Enable(c) \/ PingOk(c)
  PROVE  Quiet
<1> USE DEF RunnerInv, IdentityInv, IdentityTypeOK, DaemonTypeOK, Quiet
<1>1. CASE Cluster
  <2>1. UNCHANGED daemonVars
    BY <1>1 DEF Cluster
  <2>2. CASE \E d \in Containers : StartContainer(d)
    <3>1. PICK d \in Containers : StartContainer(d) BY <2>2
    <3>2. process[d] = "none"
      BY <3>1 DEF StartContainer, Started, StartedInOrder
    <3> QED BY <2>1, <3>1, <3>2 DEF StartContainer, daemonVars
  <2>3. CASE UNCHANGED process
    BY <2>1, <2>3 DEF daemonVars
  <2> QED BY <1>1, <2>2, <2>3 DEF Cluster, Tick, DeletePod, ReplacePod, Observe, Publish, processVars
<1>2. CASE Signal(c) BY <1>2 DEF Signal, identityVars, processVars
<1>3. CASE Misconfigured(c) BY <1>3 DEF Misconfigured, daemonVars
<1>4. CASE Enable(c) BY <1>4 DEF Enable, ReadClock, Identify, RefuseStart, daemonVars
<1>5. CASE PingOk(c) BY <1>5 DEF PingOk, identityVars, processVars
<1> QED BY <1>1, <1>2, <1>3, <1>4, <1>5

LEMMA RunnerSteps ==
  ASSUME RunnerInv, [RunnerNext]_runnerVars
  PROVE  \/ Quiet \/ \E c \in Containers : Exit(c)
         \/ \E c \in Containers, w \in Workers : Working(c, w)
         \/ \E s \in Stages : Settles(s)
<1>1. CASE UNCHANGED runnerVars
  BY <1>1 DEF runnerVars, daemonVars, identityVars, processVars, Quiet, RunnerInv, DaemonTypeOK
<1>2. CASE Cluster
  <2>1. 1 \in Containers BY DEF Containers, IdentityAssumption
  <2> QED BY <1>2, <2>1, QuietSteps
<1>3. ASSUME NEW c \in Containers, Killed(c) \/ Signal(c) \/ Daemon(c)
      PROVE  Quiet \/ Exit(c)
  BY <1>3, QuietSteps DEF Killed, Daemon, ReturnRefused, ReturnUnpinged, Return
<1> QED BY <1>1, <1>2, <1>3 DEF RunnerNext, Working

(* A process that ends: its workers rest, and its gates are gone. *)
LEMMA ExitMoves ==
  ASSUME RunnerInv, NEW c \in Containers, Exit(c)
  PROVE  /\ \A d \in Containers \ {c} : /\ process'[d] = process[d] /\ polling'[d] = polling[d]
                                        /\ worker'[d] = worker[d]
         /\ process'[c] = "ended" /\ \A v \in Workers : worker'[c][v].at = "idle"
         /\ \A s \in Stages : gate'[s] = IF record[s].of = c THEN "none" ELSE gate[s]
         /\ UNCHANGED <<accepted, record>>
BY DEF Exit, End, Idle, RunnerInv, IdentityInv, IdentityTypeOK, DaemonTypeOK

(* A working step is one of a process that serves, and moves one worker:   *)
(* away from its stage, to a stage it does not hold yet, to one it is the  *)
(* first to hold, or on with the stage it holds.                           *)
Moved(c, w) ==
  /\ Serving(c) /\ polling[c] /\ UNCHANGED <<process, polling, signalled>>
  /\ \A d \in Containers, v \in Workers : d # c \/ v # w => worker'[d][v] = worker[d][v]

Lets(c, w) == worker'[c][w].at \in {"idle", "gone"} /\ worker'[c][w].stage = NoStage /\ UNCHANGED accepted

Seeks(c, w) == worker'[c][w].at \in {"given", "asking"} /\ worker'[c][w].stage \in Stages /\ UNCHANGED accepted

Gains(c, w) ==
  /\ worker'[c][w].at = "granted" /\ worker'[c][w].stage \in Stages \ accepted
  /\ accepted' = accepted \cup {worker'[c][w].stage}

Keeps(c, w) ==
  /\ Holds(c, w) /\ worker'[c][w].at \in {"accepted", "setup", "executing", "destroying"}
  /\ worker'[c][w].stage = worker[c][w].stage /\ UNCHANGED accepted

LEMMA WorkingMoves ==
  ASSUME RunnerInv, NEW c \in Containers, NEW w \in Workers, Working(c, w)
  PROVE  Moved(c, w) /\ (Lets(c, w) \/ Seeks(c, w) \/ Gains(c, w) \/ Keeps(c, w))
<1> USE DEF RunnerInv, DaemonTypeOK, StagesHeldOnce, Moved, Lets, Seeks, Gains, Keeps, Holds
<1> USE DEF At, Goes, GoesOn, Rests, Idle, Stays, identityVars, processVars
<1>1. CASE Ask(c, w) BY <1>1 DEF Ask
<1>2. CASE Leave(c, w) BY <1>2 DEF Leave
<1>3. CASE Accept(c, w) BY <1>3 DEF Accept
<1>4. CASE AcceptCommits(c, w) BY <1>4 DEF AcceptCommits
<1>5. CASE AcceptRefused(c, w) BY <1>5 DEF AcceptRefused
<1>6. CASE AcceptGivenUp(c, w) BY <1>6 DEF AcceptGivenUp
<1>7. CASE AcceptReturns(c, w) BY <1>7 DEF AcceptReturns
<1>8. CASE SetupBegins(c, w) BY <1>8 DEF SetupBegins
<1>9. CASE SetupOk(c, w) BY <1>9 DEF SetupOk
<1>10. CASE SetupFails(c, w) BY <1>10 DEF SetupFails
<1>11. CASE Stop(c, w) BY <1>11 DEF Stop
<1>12. CASE StepsEnd(c, w) BY <1>12 DEF StepsEnd
<1>13. CASE ExecReturns(c, w) BY <1>13 DEF ExecReturns
<1> QED BY <1>1, <1>2, <1>3, <1>4, <1>5, <1>6, <1>7, <1>8, <1>9, <1>10, <1>11, <1>12, <1>13 DEF Working, Task

(* And what it does to the task of the stage: nothing, unless the task     *)
(* begins, is set up, is stopped, or its worker leaves it.                 *)
Busy(at) == at \in {"setup", "executing"}

Apart(c, w) == /\ ~Busy(worker[c][w].at) /\ ~Busy(worker'[c][w].at) /\ UNCHANGED <<record, gate>>

Begins(c, w) ==
  LET s == worker[c][w].stage
  IN  /\ Holds(c, w) /\ s \in Stages /\ ~Busy(worker[c][w].at)
      /\ worker'[c][w] = [at |-> "setup", stage |-> s]
      /\ record' = [record EXCEPT ![s] = [of |-> c, is |-> "posted"]]
      /\ gate' = [gate EXCEPT ![s] = "open"]

Proceeds(c, w) ==
  /\ worker[c][w].at = "setup" /\ worker'[c][w] = [at |-> "executing", stage |-> worker[c][w].stage]
  /\ record[worker[c][w].stage].is = "open" /\ UNCHANGED <<record, gate>>

Halts(c, w) ==
  LET s == worker[c][w].stage
  IN  /\ Holds(c, w) /\ s \in Stages /\ Busy(worker[c][w].at) /\ UNCHANGED record
      /\ worker'[c][w] = worker[c][w] \/ ~Busy(worker'[c][w].at)
      /\ \/ gate' = [gate EXCEPT ![s] = "closed"]
         \/ gate[s] # "open" /\ UNCHANGED gate

LEMMA WorkingTasks ==
  ASSUME RunnerInv, NEW c \in Containers, NEW w \in Workers, Working(c, w)
  PROVE  Apart(c, w) \/ Begins(c, w) \/ Proceeds(c, w) \/ Halts(c, w)
<1> USE DEF RunnerInv, DaemonTypeOK, StagesHeldOnce, Apart, Begins, Proceeds, Halts, Busy, Holds
<1> USE DEF At, Goes, GoesOn, Rests, Idle
<1>1. CASE Ask(c, w) BY <1>1 DEF Ask
<1>2. CASE Leave(c, w) BY <1>2 DEF Leave
<1>3. CASE Accept(c, w) BY <1>3 DEF Accept
<1>4. CASE AcceptCommits(c, w) BY <1>4 DEF AcceptCommits
<1>5. CASE AcceptRefused(c, w) BY <1>5 DEF AcceptRefused
<1>6. CASE AcceptGivenUp(c, w) BY <1>6 DEF AcceptGivenUp
<1>7. CASE AcceptReturns(c, w) BY <1>7 DEF AcceptReturns
<1>8. CASE SetupBegins(c, w) BY <1>8 DEF SetupBegins
<1>9. CASE SetupOk(c, w) BY <1>9 DEF SetupOk
<1>10. CASE SetupFails(c, w) BY <1>10 DEF SetupFails
<1>11. CASE Stop(c, w) BY <1>11 DEF Stop
<1>12. CASE StepsEnd(c, w) BY <1>12 DEF StepsEnd
<1>13. CASE ExecReturns(c, w) BY <1>13 DEF ExecReturns
<1> QED BY <1>1, <1>2, <1>3, <1>4, <1>5, <1>6, <1>7, <1>8, <1>9, <1>10, <1>11, <1>12, <1>13 DEF Working, Task

-----------------------------------------------------------------------------
LEMMA WorkingTypes ==
  ASSUME RunnerInv, NEW c \in Containers, NEW w \in Workers, Working(c, w)
  PROVE  DaemonTypeOK'
<1> DEFINE Place == [at : {"idle", "given", "asking", "granted", "accepted", "setup", "executing",
                            "destroying", "gone"}, stage : Stages \cup {NoStage}]
<1>1. worker' \in [Containers -> [Workers -> Place]]
  <2>1. worker \in [Containers -> [Workers -> Place]] /\ worker[c][w].stage \in Stages \cup {NoStage}
    BY DEF RunnerInv, DaemonTypeOK
  <2>2. UNCHANGED worker \/ \E p \in Place : worker' = [worker EXCEPT ![c][w] = p]
    <3> USE <2>1 DEF At, Goes, GoesOn, Rests, Idle
    <3>1. CASE Ask(c, w) BY <3>1 DEF Ask
    <3>2. CASE Leave(c, w) BY <3>2 DEF Leave
    <3>3. CASE Accept(c, w) BY <3>3 DEF Accept
    <3>4. CASE AcceptCommits(c, w) BY <3>4 DEF AcceptCommits
    <3>5. CASE AcceptRefused(c, w) BY <3>5 DEF AcceptRefused
    <3>6. CASE AcceptGivenUp(c, w) BY <3>6 DEF AcceptGivenUp
    <3>7. CASE AcceptReturns(c, w) BY <3>7 DEF AcceptReturns
    <3>8. CASE SetupBegins(c, w) BY <3>8 DEF SetupBegins
    <3>9. CASE SetupOk(c, w) BY <3>9 DEF SetupOk
    <3>10. CASE SetupFails(c, w) BY <3>10 DEF SetupFails
    <3>11. CASE Stop(c, w) BY <3>11 DEF Stop
    <3>12. CASE StepsEnd(c, w) BY <3>12 DEF StepsEnd
    <3>13. CASE ExecReturns(c, w) BY <3>13 DEF ExecReturns
    <3> QED BY <3>1, <3>2, <3>3, <3>4, <3>5, <3>6, <3>7, <3>8, <3>9, <3>10, <3>11, <3>12, <3>13
            DEF Working, Task
  <2> HIDE DEF Place
  <2> QED BY <2>1, <2>2
<1>2. signalled' \in [Containers -> BOOLEAN] /\ polling' \in [Containers -> BOOLEAN]
  BY WorkingStays DEF Stays, RunnerInv, DaemonTypeOK
<1>3. record' \in [Stages -> Records] /\ gate' \in [Stages -> {"none", "open", "closed", "cleaned"}]
  <2>1. c \in 0 .. MaxContainers /\ record \in [Stages -> Records]
        /\ gate \in [Stages -> {"none", "open", "closed", "cleaned"}]
    BY DEF Containers, RunnerInv, DaemonTypeOK
  <2>2. CASE Apart(c, w) BY <2>1, <2>2 DEF Apart
  <2>3. CASE Begins(c, w)
    <3>1. [of |-> c, is |-> "posted"] \in Records
      BY <2>1 DEF Records
    <3> QED BY <2>1, <2>3, <3>1 DEF Begins
  <2>4. CASE Proceeds(c, w) BY <2>1, <2>4 DEF Proceeds
  <2>5. CASE Halts(c, w) BY <2>1, <2>5 DEF Halts
  <2> QED BY <2>2, <2>3, <2>4, <2>5, WorkingTasks
<1>4. accepted' \subseteq Stages
  BY WorkingMoves DEF Lets, Seeks, Gains, Keeps, RunnerInv, DaemonTypeOK
<1>5. late' \subseteq Stages
  <2> USE DEF RunnerInv, DaemonTypeOK, StagesHeldOnce, At
  <2>1. CASE AcceptCommits(c, w) BY <2>1 DEF AcceptCommits
  <2>2. CASE AcceptGivenUp(c, w) BY <2>2 DEF AcceptGivenUp
  <2>3. CASE UNCHANGED late BY <2>3
  <2> QED BY <2>1, <2>2, <2>3 DEF Working, Task, Ask, Leave, Accept, AcceptRefused, AcceptReturns, SetupBegins,
                                  SetupOk, SetupFails, Stop, StepsEnd, ExecReturns
<1> QED BY <1>1, <1>2, <1>3, <1>4, <1>5 DEF DaemonTypeOK

LEMMA DaemonTypes ==
  ASSUME RunnerInv, [RunnerNext]_runnerVars
  PROVE  DaemonTypeOK'
<1> USE DEF RunnerInv, DaemonTypeOK
<1>1. CASE Quiet BY <1>1 DEF Quiet
<1>2. ASSUME NEW c \in Containers, Exit(c) PROVE DaemonTypeOK'
  <2>1. StagesAt(c, "asking") \ accepted \subseteq Stages
    BY DEF StagesAt, StagesHeldOnce
  <2>2. gate' \in [Stages -> {"none", "open", "closed", "cleaned"}]
    BY <1>2 DEF Exit
  <2> QED BY <1>2, <2>1, <2>2 DEF Exit, Idle
<1>3. ASSUME NEW s \in Stages, Settles(s) PROVE DaemonTypeOK'
  <2> USE DEF Records
  <2>1. CASE LateCommit(s) BY <2>1 DEF LateCommit
  <2>2. CASE RecordSettles(s) BY <2>2 DEF RecordSettles
  <2>3. CASE HandOff(s) BY <2>3 DEF HandOff
  <2>4. CASE CleanedUp(s) BY <2>4 DEF CleanedUp
  <2>5. CASE TakeOver(s)
    <3>1. record' = [record EXCEPT ![s].is = "orphan"] \/ record' = [record EXCEPT ![s].is = "removed"]
      BY <2>5 DEF TakeOver
    <3>2. record' \in [Stages -> Records]
      <4>1. CASE record' = [record EXCEPT ![s].is = "orphan"] BY <4>1
      <4>2. CASE record' = [record EXCEPT ![s].is = "removed"] BY <4>2
      <4> QED BY <3>1, <4>1, <4>2
    <3>3. UNCHANGED <<signalled, polling, worker, accepted, late, gate>>
      BY <2>5 DEF TakeOver
    <3> QED BY <3>2, <3>3
  <2> QED BY <1>3, <2>1, <2>2, <2>3, <2>4, <2>5 DEF Settles
<1> QED BY <1>1, <1>2, <1>3, WorkingTypes, RunnerSteps

-----------------------------------------------------------------------------
LEMMA StagesKept ==
  ASSUME RunnerInv, [RunnerNext]_runnerVars
  PROVE  StagesHeldOnce'
<1> USE DEF RunnerInv, StagesHeldOnce, Holds, Serving
<1>1. CASE Quiet BY <1>1 DEF Quiet
<1>2. ASSUME NEW c \in Containers, Exit(c) PROVE StagesHeldOnce'
  BY <1>2, ExitMoves
<1>3. ASSUME NEW c \in Containers, NEW w \in Workers, Working(c, w) PROVE StagesHeldOnce'
  <2>1. Moved(c, w) /\ (Lets(c, w) \/ Seeks(c, w) \/ Gains(c, w) \/ Keeps(c, w))
    BY <1>3, WorkingMoves
  <2>2. /\ accepted \subseteq accepted'
        /\ worker'[c][w].at \in {"given", "asking"} => worker'[c][w].stage \in Stages
        /\ Holds(c, w)' => /\ worker'[c][w].stage \in accepted'
                           /\ \/ Holds(c, w) /\ worker'[c][w].stage = worker[c][w].stage
                              \/ worker'[c][w].stage \notin accepted
    BY <2>1 DEF Lets, Seeks, Gains, Keeps
  <2>3. \A d \in Containers, v \in Workers : d # c \/ v # w => worker'[d][v] = worker[d][v]
    BY <2>1 DEF Moved
  <2>4. ASSUME NEW d \in Containers, NEW v \in Workers
        PROVE  /\ worker'[d][v].at # "idle" => Serving(d)' /\ polling'[d]
               /\ worker'[d][v].at \in {"given", "asking"} => worker'[d][v].stage \in Stages
               /\ Holds(d, v)' => worker'[d][v].stage \in accepted'
    <3>1. CASE d = c /\ v = w BY <2>1, <2>2, <3>1 DEF Moved
    <3>2. CASE d # c \/ v # w BY <2>1, <2>2, <2>3, <3>2 DEF Moved
    <3> QED BY <3>1, <3>2
  <2>5. ASSUME NEW d \in Containers, NEW v \in Workers, NEW e \in Containers, NEW x \in Workers,
               Holds(d, v)', Holds(e, x)', worker'[e][x].stage = worker'[d][v].stage
        PROVE  e = d /\ x = v
    <3>1. CASE (d # c \/ v # w) /\ (e # c \/ x # w) BY <2>3, <2>5, <3>1
    <3>2. CASE d = c /\ v = w /\ (e # c \/ x # w) BY <2>2, <2>3, <2>5, <3>2
    <3>3. CASE e = c /\ x = w /\ (d # c \/ v # w) BY <2>2, <2>3, <2>5, <3>3
    <3> QED BY <3>1, <3>2, <3>3
  <2> QED BY <2>4, <2>5
<1>4. ASSUME NEW s \in Stages, Settles(s) PROVE StagesHeldOnce'
  <2>1. accepted \subseteq accepted'
    BY <1>4 DEF Settles, LateCommit, RecordSettles, HandOff, CleanedUp, TakeOver
  <2> QED BY <1>4, <2>1, SettlesStays DEF Stays, identityVars, processVars
<1> QED BY <1>1, <1>2, <1>3, <1>4, RunnerSteps

(* Nobody else has a stage that a worker holds. *)
LEMMA OthersElsewhere ==
  ASSUME RunnerInv, NEW c \in Containers, NEW w \in Workers, Holds(c, w),
         NEW d \in Containers, NEW v \in Workers, Holds(d, v), d # c \/ v # w
  PROVE  worker[d][v].stage # worker[c][w].stage
BY DEF RunnerInv, StagesHeldOnce

(* GatesAttended, one half at a time. *)
Attended ==
  \A c \in Containers, w \in Workers : Busy(worker[c][w].at) =>
    worker[c][w].stage \in Stages /\ record[worker[c][w].stage].of = c

GateOf(s) ==
  gate[s] # "none" =>
    \E c \in Containers : /\ record[s].of = c /\ Serving(c)
                          /\ gate[s] = "open" =>
                               \E w \in Workers : Busy(worker[c][w].at) /\ worker[c][w].stage = s

LEMMA GatesSplit ==
  RunnerInv => Attended /\ \A s \in Stages : GateOf(s)
BY DEF RunnerInv, DaemonTypeOK, StagesHeldOnce, Holds, GatesAttended, Attended, GateOf, Busy

LEMMA GatesKept ==
  ASSUME RunnerInv, [RunnerNext]_runnerVars
  PROVE  GatesAttended'
<1>0. Attended /\ \A s \in Stages : GateOf(s)
  BY GatesSplit
<1> SUFFICES Attended' /\ \A s \in Stages : GateOf(s)'
  BY DEF GatesAttended, Attended, GateOf, Busy
<1>1. CASE Quiet BY <1>0, <1>1 DEF Quiet, Attended, GateOf, Serving
<1>2. ASSUME NEW c \in Containers, Exit(c) PROVE Attended' /\ \A s \in Stages : GateOf(s)'
  <2>1. /\ \A d \in Containers \ {c} : process'[d] = process[d] /\ worker'[d] = worker[d]
        /\ \A v \in Workers : ~Busy(worker'[c][v].at)
        /\ \A s \in Stages : gate'[s] = IF record[s].of = c THEN "none" ELSE gate[s]
        /\ UNCHANGED record
    BY <1>2, ExitMoves DEF Busy
  <2>2. Attended'
    BY <1>0, <2>1 DEF Attended
  <2>3. ASSUME NEW s \in Stages PROVE GateOf(s)'
    BY <1>0, <2>1 DEF GateOf, Serving
  <2> QED BY <2>2, <2>3
<1>3. ASSUME NEW c \in Containers, NEW w \in Workers, Working(c, w)
      PROVE  Attended' /\ \A s \in Stages : GateOf(s)'
  <2>1. UNCHANGED process /\ Serving(c)
        /\ \A d \in Containers, v \in Workers : d # c \/ v # w => worker'[d][v] = worker[d][v]
    BY <1>3, WorkingMoves DEF Moved
  <2>2. CASE Apart(c, w)
    BY <1>0, <2>1, <2>2 DEF Apart, Attended, GateOf, Serving
  <2>3. CASE Proceeds(c, w)
    <3>1. \A d \in Containers, v \in Workers :
            /\ Busy(worker[d][v].at) <=> Busy(worker'[d][v].at)
            /\ Busy(worker[d][v].at) => worker[d][v].stage = worker'[d][v].stage
      BY <2>1, <2>3 DEF Proceeds, Busy
    <3>2. UNCHANGED <<record, gate>>
      BY <2>3 DEF Proceeds
    <3>3. Attended'
      BY <1>0, <3>1, <3>2 DEF Attended, Busy
    <3>4. ASSUME NEW s \in Stages PROVE GateOf(s)'
      BY <1>0, <2>1, <3>1, <3>2 DEF GateOf, Serving, Busy
    <3> QED BY <3>3, <3>4
  <2>4. CASE Begins(c, w)
    <3>0. PICK s \in Stages : s = worker[c][w].stage
      BY <2>4 DEF Begins
    <3>1. \A d \in Containers, v \in Workers : Busy(worker[d][v].at) =>
            worker[d][v].stage # s /\ worker'[d][v] = worker[d][v]
      BY <2>1, <2>4, <3>0, OthersElsewhere DEF Begins, Busy, Holds
    <3>2. /\ worker'[c][w].at = "setup" /\ worker'[c][w].stage = s
          /\ record'[s].of = c
          /\ \A z \in Stages \ {s} : record'[z] = record[z] /\ gate'[z] = gate[z]
      BY <2>4, <3>0 DEF Begins, RunnerInv, DaemonTypeOK
    <3>3. Attended'
      BY <1>0, <2>1, <3>1, <3>2 DEF Attended, Busy
    <3>4. GateOf(s)'
      BY <2>1, <3>2 DEF GateOf, Serving, Busy
    <3>5. ASSUME NEW z \in Stages \ {s} PROVE GateOf(z)'
      <4>1. \A d \in Containers, v \in Workers : Busy(worker[d][v].at) => worker'[d][v] = worker[d][v]
        BY <3>1
      <4>2. record'[z] = record[z] /\ gate'[z] = gate[z] /\ GateOf(z)
        BY <1>0, <3>2
      <4> QED BY <2>1, <4>1, <4>2 DEF GateOf, Serving
    <3> QED BY <3>3, <3>4, <3>5
  <2>5. CASE Halts(c, w)
    <3> DEFINE s == worker[c][w].stage
    <3>1. record[s].of = c /\ Serving(c) /\ UNCHANGED record
      BY <1>0, <2>1, <2>5 DEF Halts, Attended
    <3>2. \A d \in Containers, v \in Workers : Busy(worker'[d][v].at) => worker'[d][v] = worker[d][v]
      BY <2>1, <2>5 DEF Halts
    <3>3. \A z \in Stages : \/ z = s /\ gate'[z] # "open"
                            \/ z # s /\ gate'[z] = gate[z]
      BY <2>5 DEF Halts, RunnerInv, DaemonTypeOK
    <3>4. \A z \in Stages \ {s}, d \in Containers, v \in Workers :
            worker[d][v].stage = z => worker'[d][v] = worker[d][v]
      BY <2>1
    <3>5. Attended'
      BY <1>0, <3>1, <3>2 DEF Attended
    <3>6. ASSUME NEW z \in Stages PROVE GateOf(z)'
      BY <1>0, <2>1, <3>1, <3>3, <3>4 DEF GateOf, Serving
    <3> QED BY <3>5, <3>6
  <2> QED BY <1>3, <2>2, <2>3, <2>4, <2>5, WorkingTasks
<1>4. ASSUME NEW s \in Stages, Settles(s) PROVE Attended' /\ \A z \in Stages : GateOf(z)'
  <2>1. UNCHANGED <<process, worker>>
    BY <1>4, SettlesStays DEF Stays, identityVars, processVars
  <2>2. \A z \in Stages : record'[z].of = record[z].of
    <3> USE DEF RunnerInv, DaemonTypeOK, Records
    <3>1. CASE RecordSettles(s) BY <3>1 DEF RecordSettles
    <3>2. CASE HandOff(s) BY <3>2 DEF HandOff
    <3>3. CASE CleanedUp(s) BY <3>3 DEF CleanedUp
    <3>4. CASE TakeOver(s)
      <4>1. record' = [record EXCEPT ![s].is = "orphan"] \/ record' = [record EXCEPT ![s].is = "removed"]
        BY <3>4 DEF TakeOver
      <4> QED BY <4>1
    <3> QED BY <1>4, <3>1, <3>2, <3>3, <3>4 DEF Settles, LateCommit
  <2>3. \A z \in Stages : gate'[z] = gate[z] \/ (gate[z] = "closed" /\ gate'[z] = "cleaned")
    BY <1>4 DEF Settles, LateCommit, RecordSettles, HandOff, CleanedUp, Cleans, TakeOver, RunnerInv, DaemonTypeOK
  <2> QED BY <1>0, <2>1, <2>2, <2>3 DEF Attended, GateOf, Serving
<1> QED BY <1>1, <1>2, <1>3, <1>4, RunnerSteps

-----------------------------------------------------------------------------
(* ExecutingIsKept, worker by worker. *)
Kept(c, w) ==
  worker[c][w].at = "executing" =>
    LET s == worker[c][w].stage
    IN  /\ record[s].of = c /\ record[s].is # "orphan"
        /\ gate[s] = "open" => record[s].is = "open"

LEMMA ExecutingKept ==
  ASSUME RunnerInv, [RunnerNext]_runnerVars
  PROVE  ExecutingIsKept'
<1>0. /\ DaemonTypeOK /\ Attended
      /\ \A c \in Containers, w \in Workers :
           Kept(c, w) /\ (worker[c][w].at = "executing" => worker[c][w].stage \in Stages /\ Serving(c))
  BY GatesSplit DEF RunnerInv, ExecutingIsKept, Kept, StagesHeldOnce, Holds, DaemonTypeOK
<1> SUFFICES ASSUME NEW d \in Containers, NEW v \in Workers, worker'[d][v].at = "executing" PROVE Kept(d, v)'
  BY DEF ExecutingIsKept, Kept
<1>1. CASE Quiet BY <1>0, <1>1 DEF Quiet, Kept
<1>2. ASSUME NEW c \in Containers, Exit(c) PROVE Kept(d, v)'
  <2>1. worker'[d][v] = worker[d][v] /\ UNCHANGED record
    BY <1>2, ExitMoves
  <2>2. \A s \in Stages : gate'[s] \in {"none", gate[s]}
    BY <1>2, ExitMoves
  <2> QED BY <1>0, <2>1, <2>2 DEF Kept
<1>3. ASSUME NEW c \in Containers, NEW w \in Workers, Working(c, w) PROVE Kept(d, v)'
  <2>1. d # c \/ v # w => worker'[d][v] = worker[d][v]
    BY <1>3, WorkingMoves DEF Moved
  <2>2. CASE Apart(c, w) BY <1>0, <2>1, <2>2 DEF Apart, Kept, Busy
  <2>3. CASE Proceeds(c, w) BY <1>0, <2>1, <2>3 DEF Proceeds, Kept, Attended, Busy
  <2>4. CASE Begins(c, w)
    <3>1. worker'[d][v] = worker[d][v] /\ worker[d][v].stage # worker[c][w].stage
      BY <2>1, <2>4, OthersElsewhere DEF Begins, Holds
    <3>2. record'[worker[d][v].stage] = record[worker[d][v].stage] /\ gate'[worker[d][v].stage] = gate[worker[d][v].stage]
      BY <1>0, <2>4, <3>1 DEF Begins, DaemonTypeOK
    <3> QED BY <1>0, <3>1, <3>2 DEF Kept
  <2>5. CASE Halts(c, w)
    <3>1. worker'[d][v] = worker[d][v] /\ UNCHANGED record
      BY <2>1, <2>5 DEF Halts, Busy
    <3>2. \A s \in Stages : gate'[s] \in {"closed", gate[s]}
      BY <1>0, <2>5 DEF Halts, DaemonTypeOK
    <3> QED BY <1>0, <3>1, <3>2 DEF Kept
  <2> QED BY <1>3, <2>2, <2>3, <2>4, <2>5, WorkingTasks
<1>4. ASSUME NEW s \in Stages, Settles(s) PROVE Kept(d, v)'
  <2>1. UNCHANGED worker
    BY <1>4, SettlesStays
  <2>2. PICK z \in Stages : z = worker[d][v].stage /\ record[z].of = d /\ record[z].is # "orphan"
                           /\ (gate[z] = "open" => record[z].is = "open") /\ process[d] = "serving"
    BY <1>0, <2>1 DEF Kept, Serving
  <2> SUFFICES record'[z].of = d /\ record'[z].is # "orphan" /\ (gate'[z] = "open" => record'[z].is = "open")
    BY <2>1, <2>2 DEF Kept
  <2> USE <1>0, <2>2 DEF DaemonTypeOK, Records
  <2>3. CASE LateCommit(s) BY <2>3 DEF LateCommit
  <2>4. CASE RecordSettles(s) BY <2>4 DEF RecordSettles
  <2>5. CASE HandOff(s) BY <2>5 DEF HandOff, Cleans
  <2>6. CASE CleanedUp(s)
    <3>1. gate'[s] # "open" /\ (z # s => gate'[z] = gate[z])
      BY <2>6 DEF CleanedUp
    <3>2. UNCHANGED record \/ record' = [record EXCEPT ![s].is = "removed"]
      BY <2>6 DEF CleanedUp
    <3> QED BY <3>1, <3>2
  <2>7. CASE TakeOver(s)
    <3>1. CASE z # s BY <2>7, <3>1 DEF TakeOver
    <3>2. CASE z = s
      <4>1. ExecutorTerminated(record[s].of)
        BY <2>7, <3>2 DEF TakeOver
      <4>2. process[record[s].of] = "ended"
        BY <3>2, <4>1, DeadHasEnded DEF RunnerInv
      <4> QED BY <3>2, <4>2
    <3> QED BY <3>1, <3>2
  <2> QED BY <1>4, <2>3, <2>4, <2>5, <2>6, <2>7 DEF Settles
<1> QED BY <1>1, <1>2, <1>3, <1>4, RunnerSteps

-----------------------------------------------------------------------------
LEMMA RunnerInvariance == RunnerSpec => []RunnerInv
<1>1. RunnerInv /\ [RunnerNext]_runnerVars => RunnerInv'
  BY IdentityKept, DaemonTypes, StagesKept, GatesKept, ExecutingKept DEF RunnerInv
<1> QED BY <1>1, InitRunner, PTL DEF RunnerSpec

(* However many runners share a pool, none of them finds the process       *)
(* terminated that still executes a task (executorTerminated), and until   *)
(* the task is stopped its record says whose it is.                        *)
THEOREM ExecutingIsKeptAlways == RunnerSpec => []ExecutingIsKept
<1>1. RunnerInv => ExecutingIsKept
  BY DEF RunnerInv
<1> QED BY <1>1, RunnerInvariance, PTL

(* The daemon is as careful about who is dead as RunnerIdentity alone: its *)
(* workers, signals and returns end a process only as the kubelet sees it. *)
THEOREM AliveIsNotDeadInPool == RunnerSpec => []NeverDeclaredDeadAlive
<1>1. RunnerInv => NeverDeclaredDeadAlive
  BY DeadHasEnded DEF RunnerInv, NeverDeclaredDeadAlive
<1> QED BY <1>1, RunnerInvariance, PTL

(* A process returns by itself only when each task it began is stopped:    *)
(* one whose gate is open still has its worker, in Setup or executing,     *)
(* which is then neither gone nor one of a process that never polled.  An  *)
(* accept request that the Drone server acts on after the signal begins    *)
(* none.                                                                   *)
THEOREM ReturnStopsTasksAlways == RunnerSpec => ReturnStopsTasks
<1>1. RunnerInv =>
        \A c \in Containers : Serving(c) /\ (ReturnUnpinged(c) \/ Return(c)) =>
          \A s \in Stages : record[s].of = c => gate[s] # "open"
  <2> SUFFICES ASSUME RunnerInv, NEW c \in Containers, Serving(c), ReturnUnpinged(c) \/ Return(c),
                      NEW s \in Stages, record[s].of = c, gate[s] = "open"
               PROVE  FALSE
    OBVIOUS
  <2>1. PICK w \in Workers : worker[c][w].at \in {"setup", "executing"}
    BY DEF RunnerInv, GatesAttended
  <2>2. polling[c]
    BY <2>1 DEF RunnerInv, StagesHeldOnce
  <2> QED BY <2>1, <2>2 DEF ReturnUnpinged, Return
<1> QED BY <1>1, RunnerInvariance, PTL DEF ReturnStopsTasks

=============================================================================
