--------------------------- MODULE RunnerIdentity ---------------------------
(***************************************************************************)
(* Who may be declared dead: how a runner process learns which container   *)
(* it is (newRecovery), and what other runners accept as proof that it has *)
(* terminated (executorTerminated), both in src/engine/recovery.go.        *)
(*                                                                         *)
(* A Pod's name outlives the Pod, a Pod outlives its containers, and what  *)
(* the API server shows of both is late: a new process may still be shown  *)
(* its predecessor's container as the running one.  FinishedAt is kept in  *)
(* whole seconds only, SessionStarted in nanoseconds.                      *)
(***************************************************************************)
EXTENDS Integers

CONSTANTS
  MaxContainers,  \* bound: runner containers ever started under the Pod's name
  MaxPods,        \* bound: Pods that ever have that name
  MaxNow,         \* bound: the clock
  Second          \* clock ticks per second

ASSUME IdentityAssumption ==
  MaxContainers \in Nat \ {0} /\ MaxPods \in Nat \ {0} /\ MaxNow \in Nat /\ Second \in Nat \ {0}

Containers == 1 .. MaxContainers
Times      == 0 .. MaxNow

VARIABLES
  now,
  pod,        \* UID of the Pod that has the name now
  deleting,   \* its deletionTimestamp is set
  podOf,      \* the Pod of each container, 0 before the container exists
  process,    \* the runner process in each container
  started,    \* its sessionStarted
  finished,   \* when it ended
  owner,      \* the executorIdentity it works under: Pod UID and container ID
  kubelet,    \* the container status the kubelet is about to publish
  status      \* the container status the API server has

processVars  == <<podOf, process, started, finished, owner>>
statusVars   == <<kubelet, status>>
identityVars == <<now, pod, deleting, processVars, statusVars>>

NoTermination == [id |-> 0, at |-> 0]
Terminations  == [id : 0 .. MaxContainers, at : Times]

Statuses ==
  [state : {"waiting", "running", "terminated"}, id : 0 .. MaxContainers,
   terminated : Terminations, last : Terminations]

NoStatus == [state |-> "waiting", id |-> 0, terminated |-> NoTermination, last |-> NoTermination]

Nobody == [pod |-> 0, id |-> 0]

IdentityTypeOK ==
  /\ now \in Times /\ pod \in 1 .. MaxPods /\ deleting \in BOOLEAN
  /\ podOf \in [Containers -> 0 .. MaxPods]
  /\ process \in [Containers -> {"none", "starting", "identifying", "serving", "refused", "ended"}]
  /\ started \in [Containers -> Times] /\ finished \in [Containers -> Times]
  /\ owner \in [Containers -> [pod : 0 .. MaxPods, id : 0 .. MaxContainers]]
  /\ kubelet \in Statuses /\ status \in Statuses

IdentityInit ==
  /\ now = 0 /\ pod = 1 /\ deleting = FALSE
  /\ podOf = [c \in Containers |-> 0]
  /\ process = [c \in Containers |-> "none"]
  /\ started = [c \in Containers |-> 0] /\ finished = [c \in Containers |-> 0]
  /\ owner = [c \in Containers |-> Nobody]
  /\ kubelet = NoStatus /\ status = NoStatus

-----------------------------------------------------------------------------
(* The cluster: not part of the repository *)

Tick ==
  /\ now < MaxNow /\ now' = now + 1
  /\ UNCHANGED <<pod, deleting, processVars, statusVars>>

(* The kubelet starts a container of the Pod once the one before it has    *)
(* ended, and at a later time.                                             *)
Started(c) == podOf[c] # 0

StartContainer(c) ==
  /\ ~Started(c) /\ \A d \in Containers : d < c => Started(d)
  /\ \A d \in Containers : podOf[d] = pod => process[d] = "ended" /\ finished[d] < now
  /\ podOf' = [podOf EXCEPT ![c] = pod]
  /\ process' = [process EXCEPT ![c] = "starting"]
  /\ UNCHANGED <<now, pod, deleting, started, finished, owner, statusVars>>

End(c) ==
  /\ process[c] \notin {"none", "ended"}
  /\ process' = [process EXCEPT ![c] = "ended"]
  /\ finished' = [finished EXCEPT ![c] = now]
  /\ UNCHANGED <<now, pod, deleting, podOf, started, owner, statusVars>>

DeletePod ==
  /\ deleting' = TRUE
  /\ UNCHANGED <<now, pod, processVars, statusVars>>

(* A new Pod takes the name.  After a forced deletion the processes of the *)
(* old one may go on.                                                      *)
ReplacePod ==
  /\ deleting /\ pod < MaxPods
  /\ pod' = pod + 1 /\ deleting' = FALSE
  /\ kubelet' = NoStatus /\ status' = NoStatus
  /\ UNCHANGED <<now, processVars>>

WholeSeconds(t) == t - (t % Second)

Termination(c) == [id |-> c, at |-> WholeSeconds(finished[c])]

(* The kubelet looks at the latest container, c: it runs, it has ended, or *)
(* it has ended and waits for its restart.  d is the one before it, if any.*)
Observe ==
  \E c \in Containers, last \in {NoTermination} \cup {Termination(d) : d \in Containers} :
    /\ podOf[c] = pod /\ \A e \in Containers : podOf[e] = pod => e <= c
    /\ last.id # 0 => last.id < c /\ podOf[last.id] = pod
    /\ \/ /\ process[c] # "ended"
          /\ kubelet' = [state |-> "running", id |-> c, terminated |-> NoTermination, last |-> last]
       \/ /\ process[c] = "ended"
          /\ kubelet' = [state |-> "terminated", id |-> c, terminated |-> Termination(c), last |-> last]
       \/ /\ process[c] = "ended"
          /\ kubelet' = [state |-> "waiting", id |-> c, terminated |-> NoTermination, last |-> Termination(c)]
    /\ UNCHANGED <<now, pod, deleting, processVars, status>>

Publish ==
  /\ status' = kubelet
  /\ UNCHANGED <<now, pod, deleting, processVars, kubelet>>

-----------------------------------------------------------------------------
(* newRecovery *)

ReadClock(c) ==
  /\ process[c] = "starting"
  /\ process' = [process EXCEPT ![c] = "identifying"]
  /\ started' = [started EXCEPT ![c] = now]
  /\ UNCHANGED <<now, pod, deleting, podOf, finished, owner, statusVars>>

(* The first status with a running container names it; the process cannot  *)
(* tell whether that is still its predecessor.                             *)
Identify(c) ==
  /\ process[c] = "identifying"
  /\ pod = podOf[c] /\ ~deleting
  /\ status.state = "running" /\ status.id # 0
  /\ owner' = [owner EXCEPT ![c] = [pod |-> pod, id |-> status.id]]
  /\ process' = [process EXCEPT ![c] = "serving"]
  /\ UNCHANGED <<now, pod, deleting, podOf, started, finished, statusVars>>

(* Another Pod has the name, the Pod is being deleted, or 30 seconds went  *)
(* by without a running container: no recovery, no tasks.                  *)
RefuseStart(c) ==
  /\ process[c] = "identifying"
  /\ process' = [process EXCEPT ![c] = "refused"]
  /\ UNCHANGED <<now, pod, deleting, podOf, started, finished, owner, statusVars>>

-----------------------------------------------------------------------------
(* executorTerminated *)

(* Wrong: the container ID alone is taken as proof. *)
ExecutorTerminatedWrong(c) ==
  /\ pod = owner[c].pod
  /\ \E t \in {status.terminated, status.last} : t.id # 0 /\ t.id = owner[c].id

(* What any runner concludes about the identity process c works under. *)
ExecutorTerminated(c) ==
  /\ pod = owner[c].pod
  /\ \E t \in {status.terminated, status.last} :
       t.id # 0 /\ t.id = owner[c].id /\ t.at >= started[c]

-----------------------------------------------------------------------------
IdentityNext ==
  \/ Tick \/ DeletePod \/ ReplacePod \/ Observe \/ Publish
  \/ \E c \in Containers : StartContainer(c) \/ End(c) \/ ReadClock(c) \/ Identify(c) \/ RefuseStart(c)

IdentitySpec == IdentityInit /\ [][IdentityNext]_identityVars

-----------------------------------------------------------------------------
(* No process is declared dead while it runs, not even one that took its   *)
(* predecessor's container for its own (executorTerminated): tasks of a    *)
(* living runner are never taken over.                                     *)
NeverDeclaredDeadAlive ==
  \A c \in Containers : ExecutorTerminated(c) => process[c] = "ended"

-----------------------------------------------------------------------------
(* Why that holds: the parts of an inductive invariant.  Containers are    *)
(* started in the order of their numbers, and a container of a Pod only    *)
(* after the ones before it have ended.                                    *)
StartedInOrder ==
  /\ \A c \in Containers : process[c] = "none" <=> podOf[c] = 0
  /\ \A c, d \in Containers : d < c /\ Started(c) => Started(d)
  /\ \A c, d \in Containers : d < c /\ Started(c) /\ podOf[d] = podOf[c] =>
       /\ process[d] = "ended"
       /\ process[c] = "starting" => finished[d] < now
       /\ process[c] = "identifying" => finished[d] < started[c]

(* A process that took another container for its own took one that had     *)
(* ended before it read the clock.                                         *)
OwnOrEarlier ==
  \A c \in Containers : owner[c].id # 0 =>
    /\ process[c] \in {"serving", "ended"}
    /\ \/ owner[c].id = c
       \/ /\ owner[c].id \in Containers
          /\ process[owner[c].id] = "ended" /\ finished[owner[c].id] < started[c]

True(t) ==
  t.id # 0 => t.id \in Containers /\ process[t.id] = "ended" /\ t.at = WholeSeconds(finished[t.id])

(* Whatever the kubelet tells happened to a container of this Pod. *)
TrueStatus(s) ==
  /\ True(s.terminated) /\ True(s.last)
  /\ s.id # 0 => s.id \in Containers /\ podOf[s.id] = pod

StatusesTrue == TrueStatus(kubelet) /\ TrueStatus(status)

IdentityInv == IdentityTypeOK /\ StartedInOrder /\ OwnOrEarlier /\ StatusesTrue
=============================================================================
