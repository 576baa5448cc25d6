--------------------------- MODULE PodContainers ---------------------------
(***************************************************************************)
(* The containers of one task's Pod, as the kubelet reports them to the    *)
(* code under src/engine; not part of the repository.  Every step has a    *)
(* container, which is created with a placeholder image and gets the       *)
(* step's own image when it is launched.                                   *)
(*                                                                         *)
(* An exit code is the error the watcher turns it into: "nil" is code 0,   *)
(* "exit1" stands for any other code, and "exit2" for code 2, which the    *)
(* watcher tells apart.  The reason of a code other than 0 is "Error".     *)
(***************************************************************************)
EXTENDS Sequences, FiniteSets, Naturals

CONSTANTS
  Steps,       \* the steps of the task, which are their container IDs
  Codes        \* the exit codes containers end with in this instance

ASSUME CodesAssumption == Codes \subseteq {"nil", "exit1", "exit2"}

VARIABLES
  image,       \* the image of each step's container in the Pod's spec, or none
  status,      \* the container statuses the API server has
  ended,       \* history: images and codes the container of a step ended with
  podGone      \* the Pod is deleted

podVars == <<image, status, ended, podGone>>

Images   == {"placeholder", "own"}
Statuses == [image : Images, state : {"waiting", "running", "terminated"},
             code : Codes \cup {"nil"}, restarted : BOOLEAN]

Pods == [Steps -> Statuses]

PodTypeOK ==
  /\ image \in [Steps -> Images \cup {"none"}]
  /\ status \in Pods
  /\ ended \in [Steps -> SUBSET (Images \X (Codes \cup {"nil"}))]
  /\ podGone \in BOOLEAN

(* Whether the Pod has a container for every step is found out at launch. *)
PodInit ==
  /\ image \in [Steps -> {"placeholder", "none"}]
  /\ status = [s \in Steps |->
       [image |-> "placeholder", state |-> "waiting", code |-> "nil", restarted |-> FALSE]]
  /\ ended = [s \in Steps |-> {}]
  /\ podGone = FALSE

Becoming(s, new) ==
  /\ ~podGone /\ image[s] # "none"
  /\ status' = [status EXCEPT ![s] = new]
  /\ UNCHANGED <<image, podGone>>

EndsWith(s, new) ==
  /\ Becoming(s, new)
  /\ ended' = [ended EXCEPT ![s] = @ \cup {<<new.image, new.code>>}]

(* The container starts with the image it was made with. *)
ContainerStarts(s) ==
  /\ status[s].state = "waiting"
  /\ Becoming(s, [status[s] EXCEPT !.state = "running"])
  /\ UNCHANGED ended

(* The container is made again with the image now in the Pod's spec; that  *)
(* is a restart unless the one before it never ran.  Bound: a container is *)
(* restarted at most once.                                                 *)
ContainerReplaced(s) ==
  /\ image[s] = "own" /\ status[s].image = "placeholder" /\ ~status[s].restarted
  /\ Becoming(s, [image |-> "own", state |-> "waiting", code |-> "nil",
                   restarted |-> status[s].state # "waiting"])
  /\ UNCHANGED ended

(* The container ends, with any image: the kubelet stops the placeholder   *)
(* to replace it, a node evicts the Pod, a step is done.                   *)
ContainerEnds(s) ==
  /\ status[s].state = "running"
  /\ \E code \in Codes : EndsWith(s, [status[s] EXCEPT !.state = "terminated", !.code = code])

(* The step's image cannot be started: the status shows the terminated     *)
(* placeholder again.                                                      *)
ContainerReverts(s) ==
  /\ status[s].image = "own" /\ status[s].state = "waiting" /\ status[s].restarted
  /\ \E code \in Codes :
       EndsWith(s, [image |-> "placeholder", state |-> "terminated", code |-> code, restarted |-> TRUE])

PodDeleted ==
  /\ ~podGone /\ podGone' = TRUE
  /\ UNCHANGED <<image, status, ended>>

KubeletNext ==
  \/ \E s \in Steps : ContainerStarts(s) \/ ContainerReplaced(s) \/ ContainerEnds(s) \/ ContainerReverts(s)
  \/ PodDeleted

(* An update of the Pod that gives these steps' containers their image. *)
UpdateImages(launched) ==
  /\ ~podGone
  /\ image' = [s \in Steps |-> IF s \in launched /\ image[s] # "none" THEN "own" ELSE image[s]]
  /\ UNCHANGED <<status, ended, podGone>>
=============================================================================
