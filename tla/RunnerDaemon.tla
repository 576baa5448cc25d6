---------------------------- MODULE RunnerDaemon ----------------------------
(***************************************************************************)
(* src/command/daemon/daemon.go, in every process RunnerIdentity starts:   *)
(* recovery is enabled before anything else, then the daemon pings, polls  *)
(* with Workers and, on a signal, waits for them.  Poller, runner and      *)
(* Drone server are external (runner-go): a worker asks for a stage,       *)
(* accepts it, and executes it (Execution, the lifecycle of its task)      *)
(* under the daemon's context.  Recovery is always configured here.        *)
(***************************************************************************)
EXTENDS RunnerIdentity

CONSTANTS Workers, Stages, NoStage

VARIABLES
  signalled,  \* the context of each process is done
  polling,    \* it has reached the Drone server
  worker,     \* what each worker of each process is at, and its stage
  accepted,   \* the Drone server's: the stages somebody has accepted
  late,       \* stages whose accept request was given up and may still commit
  record,     \* of a stage's task: whose task it is, and how far the record is
  gate        \* of a stage's task: the in-memory gate of stopCleanup

daemonVars == <<signalled, polling, worker, accepted, late, record, gate>>
runnerVars == <<identityVars, daemonVars>>

Idle == [at |-> "idle", stage |-> NoStage]

RunnerInit ==
  /\ IdentityInit
  /\ signalled = [c \in Containers |-> FALSE] /\ polling = [c \in Containers |-> FALSE]
  /\ worker = [c \in Containers |-> [w \in Workers |-> Idle]]
  /\ accepted = {} /\ late = {}
  /\ record = [s \in Stages |-> [of |-> 0, is |-> "none"]]
  /\ gate = [s \in Stages |-> "none"]

Alive(c)   == process[c] \notin {"none", "ended"}
Serving(c) == process[c] = "serving"

StagesAt(c, where) == {worker[c][w].stage : w \in {v \in Workers : worker[c][v].at = where}}

(* A process that returns, or is killed, takes its workers and its gates   *)
(* with it; a request to the Drone server may still arrive.                *)
Exit(c) ==
  /\ End(c) /\ worker' = [worker EXCEPT ![c] = [w \in Workers |-> Idle]]
  /\ signalled' = [signalled EXCEPT ![c] = FALSE] /\ polling' = [polling EXCEPT ![c] = FALSE]
  /\ late' = late \cup (StagesAt(c, "asking") \ accepted)
  /\ gate' = [s \in Stages |-> IF record[s].of = c THEN "none" ELSE gate[s]]
  /\ UNCHANGED <<accepted, record>>

Killed(c) == Exit(c)

Signal(c) ==
  /\ Alive(c) /\ ~signalled[c] /\ signalled' = [signalled EXCEPT ![c] = TRUE]
  /\ UNCHANGED <<identityVars, polling, worker, accepted, late, record, gate>>

-----------------------------------------------------------------------------
(* daemonCommand.run *)

(* Not in the cluster, or not the container's first process. *)
Misconfigured(c) ==
  /\ process[c] = "starting" /\ process' = [process EXCEPT ![c] = "refused"]
  /\ UNCHANGED <<now, pod, deleting, podOf, started, finished, owner, statusVars, daemonVars>>

(* EnableRecovery; its requests fail once the context is done. *)
Enable(c) ==
  /\ ReadClock(c) \/ (~signalled[c] /\ Identify(c)) \/ RefuseStart(c)
  /\ UNCHANGED daemonVars

ReturnRefused(c) == process[c] = "refused" /\ Exit(c)

PingOk(c) ==
  /\ Serving(c) /\ ~polling[c] /\ ~signalled[c] /\ polling' = [polling EXCEPT ![c] = TRUE]
  /\ UNCHANGED <<identityVars, signalled, worker, accepted, late, record, gate>>

ReturnUnpinged(c) == Serving(c) /\ ~polling[c] /\ signalled[c] /\ Exit(c)

(* Wrong: the workers are not waited for. *)
ReturnWrong(c) == Serving(c) /\ polling[c] /\ signalled[c] /\ Exit(c)

(* g.Wait: the dashboard's server and the poller are through. *)
Return(c) ==
  /\ Serving(c) /\ polling[c] /\ signalled[c] /\ \A w \in Workers : worker[c][w].at = "gone"
  /\ Exit(c)

-----------------------------------------------------------------------------
(* A worker of the poller *)

At(c, w, where) == Serving(c) /\ polling[c] /\ worker[c][w].at = where

Goes(c, w, where, s) == worker' = [worker EXCEPT ![c][w] = [at |-> where, stage |-> s]]

Rests(c, w) == worker' = [worker EXCEPT ![c][w] = Idle]

GoesOn(c, w, from, to) == At(c, w, from) /\ Goes(c, w, to, worker[c][w].stage)

Stays == UNCHANGED <<identityVars, signalled, polling>>

(* It asks for a stage until the context is done; an answer without a      *)
(* stage, an error or the end of the context make it ask again.            *)
Ask(c, w) ==
  /\ At(c, w, "idle") /\ ~signalled[c]
  /\ \E s \in Stages \ accepted : Goes(c, w, "given", s)
  /\ Stays /\ UNCHANGED <<accepted, late, record, gate>>

Leave(c, w) ==
  /\ At(c, w, "idle") /\ signalled[c] /\ Goes(c, w, "gone", NoStage)
  /\ Stays /\ UNCHANGED <<accepted, late, record, gate>>

(* Dispatch: the runner sends its accept request, unless its context is    *)
(* done.                                                                   *)
Accept(c, w) ==
  /\ \/ ~signalled[c] /\ GoesOn(c, w, "given", "asking")
     \/ signalled[c] /\ At(c, w, "given") /\ Rests(c, w)
  /\ Stays /\ UNCHANGED <<accepted, late, record, gate>>

(* The server: the first one to accept a stage has it. *)
AcceptCommits(c, w) ==
  /\ GoesOn(c, w, "asking", "granted") /\ worker[c][w].stage \notin accepted
  /\ accepted' = accepted \cup {worker[c][w].stage} /\ late' = late \ {worker[c][w].stage}
  /\ Stays /\ UNCHANGED <<record, gate>>

AcceptRefused(c, w) ==
  /\ At(c, w, "asking") /\ worker[c][w].stage \in accepted /\ Rests(c, w)
  /\ Stays /\ UNCHANGED <<accepted, late, record, gate>>

(* The request fails, or its context is done; the server may act on it yet.*)
AcceptGivenUp(c, w) ==
  /\ At(c, w, "asking") /\ Rests(c, w) /\ late' = late \cup ({worker[c][w].stage} \ accepted)
  /\ Stays /\ UNCHANGED <<accepted, record, gate>>

LateCommit(s) ==
  /\ s \in late /\ accepted' = accepted \cup {s} /\ late' = late \ {s}
  /\ UNCHANGED <<identityVars, signalled, polling, worker, record, gate>>

(* The answer may come after the signal, or be lost. *)
AcceptReturns(c, w) ==
  /\ GoesOn(c, w, "granted", "accepted") \/ (At(c, w, "granted") /\ Rests(c, w))
  /\ Stays /\ UNCHANGED <<accepted, late, record, gate>>

-----------------------------------------------------------------------------
(* Exec, as far as it decides how the task's record is left behind *)

(* Setup looks at the context and then creates the record, under a context *)
(* of its own.  Or the stage ends before that.                             *)
SetupBegins(c, w) ==
  LET s == worker[c][w].stage
  IN  /\ \/ /\ ~signalled[c] /\ GoesOn(c, w, "accepted", "setup")
            /\ record' = [record EXCEPT ![s] = [of |-> c, is |-> "posted"]]
            /\ gate' = [gate EXCEPT ![s] = "open"]
         \/ At(c, w, "accepted") /\ Rests(c, w) /\ UNCHANGED <<record, gate>>
      /\ Stays /\ UNCHANGED <<accepted, late>>

(* The request for the record commits, also when nobody waits any more, or *)
(* is refused, or was never sent.                                          *)
RecordSettles(s) ==
  /\ record[s].is = "posted" /\ \E r \in {"open", "none"} : record' = [record EXCEPT ![s].is = r]
  /\ UNCHANGED <<identityVars, signalled, polling, worker, accepted, late, gate>>

SetupOk(c, w) ==
  /\ GoesOn(c, w, "setup", "executing") /\ record[worker[c][w].stage].is = "open"
  /\ Stays /\ UNCHANGED <<accepted, late, record, gate>>

(* The record, an object or their answer did not come: Setup stops the     *)
(* task before it returns.                                                 *)
SetupFails(c, w) ==
  /\ GoesOn(c, w, "setup", "destroying")
  /\ gate' = [gate EXCEPT ![worker[c][w].stage] = "closed"]
  /\ Stays /\ UNCHANGED <<accepted, late, record>>

(* The task has ended or is cancelled, also while Setup is under way:      *)
(* stopCleanup closes the gate, and starts the cleaner.                    *)
Stop(c, w) ==
  /\ At(c, w, "setup") \/ At(c, w, "executing")
  /\ gate[worker[c][w].stage] = "open" /\ gate' = [gate EXCEPT ![worker[c][w].stage] = "closed"]
  /\ Stays /\ UNCHANGED <<worker, accepted, late, record>>

(* The steps of a stopped task end (StoppedRunsEnd): Destroy. *)
StepsEnd(c, w) ==
  /\ GoesOn(c, w, "executing", "destroying") /\ gate[worker[c][w].stage] # "open"
  /\ Stays /\ UNCHANGED <<accepted, late, record, gate>>

(* Wrong: Destroy waits until everything is cleaned up. *)
ExecReturnsWrong(c, w) ==
  /\ At(c, w, "destroying") /\ gate[worker[c][w].stage] = "cleaned" /\ Rests(c, w)
  /\ Stays /\ UNCHANGED <<accepted, late, record, gate>>

(* Destroy and the last reports: after 60 seconds with or without success. *)
ExecReturns(c, w) ==
  /\ At(c, w, "destroying") /\ Rests(c, w)
  /\ Stays /\ UNCHANGED <<accepted, late, record, gate>>

-----------------------------------------------------------------------------
(* The cleaner of a task whose Setup is over, as TaskCleanup has it in full*)
Cleans(s) == gate[s] = "closed" /\ \A c \in Containers : s \notin StagesAt(c, "setup")

(* A save of the closed task arrives, sooner or later or never. *)
HandOff(s) ==
  /\ Cleans(s) /\ record[s].is = "open" /\ record' = [record EXCEPT ![s].is = "handed"]
  /\ UNCHANGED <<identityVars, signalled, polling, worker, accepted, late, gate>>

(* A complete pass removes the record, if there is one yet. *)
CleanedUp(s) ==
  /\ Cleans(s) /\ gate' = [gate EXCEPT ![s] = "cleaned"]
  /\ \/ record[s].is = "handed" /\ record' = [record EXCEPT ![s].is = "removed"]
     \/ record[s].is \in {"none", "posted"} /\ UNCHANGED record
  /\ UNCHANGED <<identityVars, signalled, polling, worker, accepted, late>>

(* Another one of the pool finds the record's process terminated, and      *)
(* settles the record.                                                     *)
TakeOver(s) ==
  /\ \/ /\ record[s].is \in {"open", "handed"} /\ ExecutorTerminated(record[s].of)
        /\ record' = [record EXCEPT ![s].is = "orphan"]
     \/ record[s].is = "orphan" /\ record' = [record EXCEPT ![s].is = "removed"]
  /\ UNCHANGED <<identityVars, signalled, polling, worker, accepted, late, gate>>

-----------------------------------------------------------------------------
Cluster ==
  /\ Tick \/ DeletePod \/ ReplacePod \/ Observe \/ Publish \/ \E c \in Containers : StartContainer(c)
  /\ UNCHANGED daemonVars

Daemon(c) ==
  Misconfigured(c) \/ Enable(c) \/ ReturnRefused(c) \/ PingOk(c) \/ ReturnUnpinged(c) \/ Return(c)

Task(c, w) ==
  \/ Ask(c, w) \/ Leave(c, w)
  \/ Accept(c, w) \/ AcceptRefused(c, w) \/ AcceptGivenUp(c, w) \/ AcceptReturns(c, w)
  \/ SetupBegins(c, w) \/ SetupOk(c, w) \/ SetupFails(c, w) \/ StepsEnd(c, w) \/ ExecReturns(c, w)

Settles(s) == LateCommit(s) \/ RecordSettles(s) \/ HandOff(s) \/ CleanedUp(s) \/ TakeOver(s)

RunnerNext ==
  \/ Cluster
  \/ \E c \in Containers :
       \/ Killed(c) \/ Signal(c) \/ Daemon(c)
       \/ \E w \in Workers : Task(c, w) \/ AcceptCommits(c, w) \/ Stop(c, w)
  \/ \E s \in Stages : Settles(s)

RunnerSpec == RunnerInit /\ [][RunnerNext]_runnerVars

(* Goroutines go on; every request is answered or ends with its context or *)
(* its timeout.  A task may run for ever, but not a cancelled one          *)
(* (CancellationCleansUp, StoppedRunsEnd), and Destroy has a timer.        *)
(* Nothing is assumed of the cleaner.                                      *)
FairRunnerSpec ==
  /\ RunnerSpec
  /\ \A c \in Containers :
       /\ WF_runnerVars(Daemon(c) \/ \E w \in Workers : Task(c, w))
       /\ WF_runnerVars(signalled[c] /\ \E w \in Workers : Stop(c, w))

-----------------------------------------------------------------------------
(* A process that returns by itself leaves no task whose cleanup has not   *)
(* begun, also not one that the Drone server gave it after the signal (run,*)
(* g.Wait).  Its record may still be open, when the cleaner could not save *)
(* it within the minute that Destroy waits.                                *)
ReturnStopsTasks ==
  [][\A c \in Containers :
       Serving(c) /\ (ReturnUnpinged(c) \/ Return(c)) =>
         \A s \in Stages : record[s].of = c => gate[s] # "open"]_runnerVars

(* A task is taken over from the process that executes it only when that   *)
(* is gone, however many runners the pool has and whatever container the   *)
(* process took for its own (Identify, executorTerminated, TakeOver); and  *)
(* until it is stopped its record says so.                                 *)
ExecutingIsKept ==
  \A c \in Containers, w \in Workers : worker[c][w].at = "executing" =>
    LET s == worker[c][w].stage
    IN  /\ record[s].of = c /\ record[s].is # "orphan"
        /\ gate[s] = "open" => record[s].is = "open"

(* After the signal the daemon ends, whatever its workers were at. *)
SignalEnds ==
  \A c \in Containers : signalled[c] ~> process[c] = "ended"

-----------------------------------------------------------------------------
(* Why these hold: the parts of an inductive invariant. *)
Records == [of : 0 .. MaxContainers, is : {"none", "posted", "open", "handed", "orphan", "removed"}]

DaemonTypeOK ==
  /\ signalled \in [Containers -> BOOLEAN] /\ polling \in [Containers -> BOOLEAN]
  /\ worker \in [Containers -> [Workers ->
       [at : {"idle", "given", "asking", "granted", "accepted", "setup", "executing", "destroying", "gone"},
        stage : Stages \cup {NoStage}]]]
  /\ accepted \subseteq Stages /\ late \subseteq Stages
  /\ record \in [Stages -> Records]
  /\ gate \in [Stages -> {"none", "open", "closed", "cleaned"}]

Holds(c, w) == worker[c][w].at \in {"granted", "accepted", "setup", "executing", "destroying"}

(* Only the workers of a polling process are busy, and the Drone server    *)
(* gives a stage to one of them.                                           *)
StagesHeldOnce ==
  \A c \in Containers, w \in Workers :
    /\ worker[c][w].at # "idle" => Serving(c) /\ polling[c]
    /\ worker[c][w].at \in {"given", "asking"} => worker[c][w].stage \in Stages
    /\ Holds(c, w) =>
         /\ worker[c][w].stage \in accepted
         /\ \A d \in Containers, v \in Workers :
              Holds(d, v) /\ worker[d][v].stage = worker[c][w].stage => d = c /\ v = w

(* A task has its gate as long as its process lives, and a worker until    *)
(* somebody stops it.                                                      *)
GatesAttended ==
  /\ \A c \in Containers, w \in Workers :
       worker[c][w].at \in {"setup", "executing"} => record[worker[c][w].stage].of = c
  /\ \A s \in Stages : gate[s] # "none" =>
       \E c \in Containers :
         /\ record[s].of = c /\ Serving(c)
         /\ gate[s] = "open" => \E w \in Workers :
              worker[c][w].at \in {"setup", "executing"} /\ worker[c][w].stage = s

RunnerInv ==
  IdentityInv /\ DaemonTypeOK /\ StagesHeldOnce /\ GatesAttended /\ ExecutingIsKept
=============================================================================
