# drone-runner-kube in TLA+

This directory holds a TLA+ verification project for drone-runner-kube: models of
its core, the TLC configurations that check them on small instances, and proofs,
checked by TLAPS, that the main safety properties hold for every instance.

drone-runner-kube polls a Drone server for stages and runs each stage as one Pod.
A runner that crashes, a lost answer or a slow API server must not leave Pods,
Secrets or namespaces behind, and must never delete what belongs to a live task or to
somebody else. That is what most of this project is about.

## 1. The system

| Component | Source | State it keeps | Operations | What makes it correct |
|---|---|---|---|---|
| Task lifecycle | `engine/engine_impl.go` (Setup, Destroy), `engine/cleanup.go` | `cleanupState`: the list of create attempts, `closed`, `setupDone`, `recordRequired`, two mutexes, two channels | Setup, create, stopCleanup, cleanUntilDone, cleanOnce, cleanResourceContext | every create is known before it is sent; nothing is forgotten that exists or may still appear; only own objects are deleted; the namespace goes last; the cleaner ends |
| Durable record | `engine/recovery_store.go` | one ConfigMap per task | initialize, decode, mergeRecord, save, sync, finish, remove | whatever exists is in it, it can be read, its facts only grow, it is removed only when settled |
| Recovery loop | `engine/recovery.go` | the records of a pool, one lease | run, reconcile, reconcileRecord, executorTerminated | a record is taken over only when its owner is dead; several loops and a live owner may work at once |
| Runner identity | `engine/recovery.go` (newRecovery, executorTerminated) | which container and session a process is | newRecovery, executorTerminated | no process is declared dead while it runs |
| Step execution | `engine/engine_impl.go` (Run, startContainer, fetchLogs), `cancellable_copy.go` | per step, local | Run | a step ends with its container's exit code, or an error; never hangs after a stop |
| Pod watcher | `engine/podwatcher/` | step states, wait clients | Start, AddContainer, Wait... | no waiter is lost, a finished step stays finished |
| Launcher | `engine/launcher/launcher.go` | aggregated launch requests | Start, Launch, Stop, startContainers | every launch is answered once, truthfully |
| Execer | `engine/execer.go` | pending steps of an execution | Exec, Setup, Run, Destroy, ReportStage, ReportStep | cleanup starts exactly once, when the last step is over or the task is cancelled |
| Linter | `engine/linter/`, `engine/resource/parser.go` (lint) | none | Lint, lint | no pipeline passes that the compiler or the conversion would get wrong: cycles, gaps, reserved names, ambiguous volumes, limits in two places |
| Compiler | `engine/compiler/` | none | Compile | every step runs after what it needs, the steps share out what the stage requests, each gets the volumes and secrets it names |
| Policies | `engine/policy/` | none | Match, Apply | the first policy that matches overrides the Spec, and the Spec stays consistent |
| Conversion | `engine/convert.go` | none | toPod, toSecret, ... | the objects refer to each other by names that exist, in the namespace that cleanup knows |
| Daemon | `command/daemon/daemon.go` | the context that the signal ends, runner-go's workers | run | recovery before anything else; a daemon that returns has begun the cleanup of all its tasks, also of those it was given around the signal; what it leaves open is known by its termination; the daemon ends |
| Spec, YAML types, replacer, configuration, command line, helpers | `engine/spec.go`, `resource/`, `replacer/`, `command/`, `internal/` | none | parsing, text | - |

How they interact: runner-go's executor calls `Execer`, which calls the engine.
`Setup` runs in one goroutine; `Destroy` may come at any time from another and starts
the cleaner goroutine through `stopCleanup`. Both save to the ConfigMap record through
`recovery.sync`. Every runner process of a pool runs a recovery loop; the one that
holds the lease (or, for a while, two of them) scans the records, closes those of dead
owners and deletes what they list.


For one step, `Run` asks the `Launcher` to put the step's own image into its
container (all containers of a Pod start with a placeholder image), waits at the
`PodWatcher` until the container runs, copies the log, and waits at the `PodWatcher` for
its exit code. One launcher and one watcher goroutine serve all steps of a Pod; the
watcher learns of the Pod from a watch and from a `GET` every twenty seconds.

### What is hard here

`PROJECT.json` lists every hazard at its line. In short:

* **Lost and late answers.** A create, an update or a delete whose answer is lost may
  have taken effect, or may take effect later.
* **Crashes.** The owner of a task dies between any two steps, also between saving what
  it is about to do and doing it; a recovery loop is cut off anywhere.
* **Stale copies.** The facts about one attempt live in `c.resources`, in the cleaner's
  copy of it, in the snapshot being saved, in the ConfigMap and in each recovery
  loop's copy. All of them are written back.
* **Who is dead.** The only evidence is a container status in a Pod that may have been
  replaced, restarted, or not refreshed yet, with times in whole seconds.
* **Waiting for an event that is over.** A step asks for a state that has come before,
  while the watcher goes through a Pod, or while it ends.
* **Ends.** A stopped task has to end while every select races with every answer, and a
  signalled daemon while its workers are anywhere between asking for a stage and its last report.
* **Names.** Linter, compiler, policies, `Setup` and the conversion each look at one part of a
  pipeline; volumes, secrets and namespaces meet by name only at the end, where an unknown name is
  silently left out.

## 2. The modules

```
 DurableLedger (abstract)                       PodContainers (kubelet, external)
      ^ refines                                   |
 CleanupRecord -> ApiServer -> TaskSetup       Launcher -> PodWatcher -> StepExecution
                                 |                                         |
                            TaskCleanup        StepContract (abstract) <- StepSafety
                                 |                               refines   |     |
                          LifecycleRecovery                    StepLiveness   StepInvariant
                            |                                    |               |
                    LifecycleSafety                       MCStepExecution  StepContractProofs
                      |           |
        LifecycleLiveness  LifecycleInvariant -> LifecycleSteps -> LifecycleProofs
               |              |                     -> LifecycleTheorems -> LifecycleCleanupProofs
            MCLifecycle  <----+

 RunnerIdentity -> RunnerDaemon -> MCRunnerDaemon, RunnerDaemonProofs

 Linter, Policy, Compiler -> TaskSpec -> Conversion -> Execution
    -> TaskSpecProperties -> ExecutionProperties -> MCExecution
                                |    -> ExecutionInvariant -> ExecutionProofs -> TaskSpecProofs
                                | refines
                           StageContract (abstract)
```

### The lifecycle of a task

| Module | Models | State and where it is in the code |
|---|---|---|
| `CleanupRecord` | what is known of an attempt and how two versions are merged: `resource`, `recoveryRecord`, `decode`, `mergeRecord`, `resourcesComplete` | `Facts`: `listed` (in the list), `uid`, `unknown`, `delReq`, `done`; a record is the facts of all attempts, `closed` and the reason |
| `ApiServer` (external) | the Kubernetes API for one object per attempt and the ConfigMap | `object[a]`: uid and deletionTimestamp; `request[a]`: the POST (none, in flight, committed, refused); `cm`, `record`; `holders`: who read the current resourceVersion; `deletesSent`: for which attempts a DELETE was issued |
| `TaskSetup` | `Setup`, `create`, `initialize`, `Destroy`'s cancel | `setupPc` is the program counter, `next` the attempt it is at; `res`, `closed`, `setupDone`, `recordRequired` are the fields of `cleanupState`; `persist` is `persistMu`, `snap` the record being saved under it |
| `TaskCleanup` | `stopCleanup`, `cleanUntilDone`, `cleanOnce`, `cleanResourceContext`, `finish`, `remove` | `cleanPc`; `view` is `cleanOnce`'s copy of the list, `todo` what it still has to visit, `target` the object it is at, `complete` as in the code |
| `LifecycleRecovery` | `reconcile`, `reconcileRecord`, the crash of the owner; composes all of the above | `worker[r]`: the local variables of one recovery loop; `ownerUp`; `evidence`: what `executorTerminated` can prove |
| `LifecycleSafety`, `LifecycleLiveness` | the properties, the refinement mapping and the fairness | |
| `DurableLedger` | the abstract specification of a durable record | `ledger`, `listed`, `settled`, `live` |

The actions carry the names of what they stand for: `Setup` goes `SetupStart`, ...,
`IntentSaved`, `CreateSend`, ..., one action per request or critical section; a
request is one action for "done, answered", one for "not done" and one for "done,
not answered" where the code can tell these apart. Everything between two requests or
lock operations is one action, because nobody else can see it.

`Commit` and `Refuse` settle a create that is in flight after its caller has given up.
`Finalize` is Kubernetes removing an object with a deletionTimestamp; `Vanish` removes an
object nobody asked to delete (only for `Vanishing` attempts), and `TakeOver` gives a free
name to somebody else (`Contested` attempts).

### The runner: identity and daemon

`RunnerIdentity` models the containers of Pods of one name, the status the API
server shows of them (it may lag behind), and processes that pick an identity with
`newRecovery` and are judged by `executorTerminated`. Time is counted in ticks, `Second`
ticks to a second: `FinishedAt` is truncated to seconds, `SessionStarted` is not.

`RunnerDaemon` puts `daemonCommand.run` into each of these processes: `Enable` (the steps of
`EnableRecovery`), `PingOk`, the poller's `worker[c][w]`, `Return` after `g.Wait`, and the ways to end.
A worker asks for a stage and is given one; `Dispatch` sends its accept request (`Accept`) under the
daemon's context, the Drone server commits it for the first who asks (`AcceptCommits`), and the answer comes,
is lost, or is given up while the request may still commit (`AcceptReturns`, `AcceptGivenUp`, `LateCommit`): all of it also
after the signal. Then come `SetupBegins`, `SetupOk` or `SetupFails`, `Stop`, `StepsEnd` and `ExecReturns`.

Two variables stand for what the lifecycle models in detail. `gate[s]` is the task in the process's memory: `open`
once Setup begins, `closed` by `stopCleanup`, `cleaned` by a pass that was complete, and gone with the process.
`record[s]` is the ConfigMap: whose it is, and whether its create is still in flight, it is open, its owner has
saved it as closed, another runner has taken it over, or it is gone. The two are tied to each other only as the code ties them: the record
is created by a request that may commit late (`RecordSettles`); the closed task is saved by the cleaner with
best effort and only when Setup is over (`HandOff`, for which no fairness is assumed); `ExecReturns` waits for none of it,
because `Destroy` gives up after 60 s. Several processes run side by side, so that one may take over from
another (`TakeOver`), and each may be killed or signalled anywhere.

### The steps of a task

| Module | Models | State and where it is in the code |
|---|---|---|
| `PodContainers` (external) | the kubelet and the Pod object | `status[s]`: state, exit code, image and whether it was restarted; `image[s]`: the image in the Pod spec; `podGone` |
| `Launcher` | `launcher.go`: `Launch`, `Start`'s loop, `startContainers` | `launcher` is where its goroutine is; `launch[s]` the state of one `Launch` call; the list and the batch being updated; `answers[s]` counts sends to the caller |
| `PodWatcher` | `watcher.go`: the select, `updateContainers`, `notifyClients`, `_tryResolveWaitClient`, `PeriodicCheck` | `watcher`; `stepState[s]`, `exitCode[s]`, `failedAt` as in `containerInfo`; `wait[s][w]`: one call of `WaitContainerStart` or `WaitContainerTerminated`; the snapshot being looked at |
| `StepExecution` | `Run`, `startContainer`, `fetchLogs`; composes all of the above | `run[s]`: where `Run` is; `outcome[s]`: what it returned |
| `StepContract` | the abstract specification: what `Run` owes for one step, without goroutines, waiters and snapshots | `launch`, `verdict`, `code`, `result`, the ends that really came, and the `others` that failed |
| `StepSafety`, `StepLiveness` | the properties, the refinement mapping and the fairness | |
| `StepInvariant`, `StepContractProofs` | the inductive invariant and the proofs | |

The watcher goes through a Pod one container at a time (`seen`), as `updateContainers` does, so
that everything other goroutines do comes between; its own select waits until it is through. Failures are told apart as
the code does: an exit code of a step (`nil`, `exit1`, `exit2`), `failed` and `other`
(`FailedContainerError` and `PodTerminatedError` with a failed step),
`gone`, `stopped`, `canceled`, `timeout`, and so on.

### The execution of a pipeline

| Module | Models | State and where it is in the code |
|---|---|---|
| `Linter` | every check of `Lint`, and the parser's | none: a predicate on pipelines |
| `Policy` | `Match`, and `Apply` for namespaces and resources | none |
| `Compiler` | of `Compile` the steps with their dependencies, run policies and memory | none: operators from a pipeline to the steps of a Spec |
| `TaskSpec` | of `Compile` the namespaces, volumes, mounts and secrets, after the policy | none |
| `Conversion` | `convert.go` and `Setup`'s list of objects: what is created, in which order and namespace, and what refers to what | none |
| `Execution` | `execer.go`: `Exec`, the wrapped `Setup`, `Run`, `Destroy`, `ReportStep`, `ReportStage`, and `stop`, `watch`, `finishStep`; around it runner-go's executor (external) | `pending` as in the code; `cleanup` is the goroutine of `stop`, `watches` those of `watch`; `phase` and `vertex[n]` say where the executor is with the stage and with each step, `status[n]` is `pipeline.State` |
| `StageContract` | the abstract specification: what `Exec` owes for a stage, without the account, watches, reports and the scheduling | `place`: whether a step waits, runs, is over or in the background; `stopped`, `cleanup`, `returned` |
| `TaskSpecProperties`, `ExecutionProperties` | the properties, the refinement mapping and the fairness | |
| `ExecutionInvariant`, `ExecutionProofs` | the inductive invariant and the theorems about the execution | |
| `TaskSpecProofs` | the theorems about what is compiled and created | |

A pipeline is the record of what these operators look at, with the runner's configuration and the
registry's and secret store's contents in `setting`. It goes through `LintStage`, `CompileStage`, `ExecBegins`, `SetupOk`; then each step
goes from `waiting` through `queued` (it waits for runner-go's semaphore), its first report,
`running` and the log upload to its last report. `Execer` sees the calls only, so everything that
runner-go does between two of them is one action.

### What is abstracted

* Names, labels, identity fields, `LastError`, messages and logs. Every attempt has
  a name of its own; whether an object is the task's own is its UID. The access
  checks (`checkAccess`, `checkTask`) are one nondeterministic refusal.
* Time, except in `RunnerIdentity` and the ages (`Period`) of the watcher. A timeout may
  come at any moment.
* The lease. It limits duplicate work only, as `recovery.go:151` says; the model lets any
  number of loops run at once, which covers every lease.
* An update that times out and commits later is modelled as committed or not at the time
  of the error. The update carries the resourceVersion: a later commit is an update
  by somebody whom the holder has not yet read, which the model has anyway.
* A DELETE that lands after its caller gave up is not a step of its own; a DELETE that
  is not answered either took effect or did not.
* `mergeRecord` changes its argument before it finds an error; `NoRefusedMerge` shows that
  it finds none.
* Refusals the code does not take as final (429, 500, a 404 for a missing namespace) are
  `CreateLost`. The cascade of a namespace deletion is not modelled: the children
  are deleted first.
* The 60 seconds that `Destroy` waits for the cleaner only decide about a message in the lifecycle. What
  follows for the daemon, that it may return while the cleaner has not saved or removed anything yet, is in
  `RunnerDaemon`.
* A watch event carries the Pod as it is now; events may be missed or repeated, and the
  watch may fail at any time. The periodic `GET` may be answered with an older Pod
  than the events that come before its answer is looked at. The conflict retries of
  one launch are one update.
* A container is restarted at most once. Placeholders may end at any time.
* runner-go is not part of the repository. What `Execution` says of it is how the v1.12
  executor calls `Execer`: steps by a dependency graph, in parallel; nothing new after an error; code
  78 ends the pipeline early; a detached step counts as done once it is started. Its semaphore is a
  step that stays `queued`, for which no fairness is assumed. A stage begins with all steps pending.
* `DependsOn` is a set, and memory is counted in units of which `Chunk` make 4 Mi. CPU is
  divided by the same code in units of one.
* Names drawn at random (`random()`) are distinct members of small sets; what the operators of `Linter`
  and `Conversion` tell apart by name (volumes, secrets, namespaces) keeps its names. Environment
  variables, scripts, labels, tolerations and quantities are left out: they are copied field by field.
* The daemon's dashboard server ends with its context like the poller. Recovery is configured; without
  it `Enable` does nothing and no record is read.

## 3. What the runs show

Two workers finish each run in about three minutes or less.

| Run | Instance | Question |
|---|---|---|
| `owner` | namespace, Secret, Pod; no recovery; the Secret's name contested, the Pod may vanish | Does the cleaner alone forget nothing, leave foreign objects alone, and end? Is the Pod deleted even when no request about the Secret or the namespace succeeds? |
| `recovery` | one Pod, record, owner, two recovery loops, contested and vanishing | What holds of the record and the objects with three concurrent writers? Does the record implement `DurableLedger`? |
| `recovery_namespace` | namespace and Pod, one loop | Order when both owner and loop clean up; the inductive invariant |
| `liveness` | one Pod, one loop | Does a stopped task end, is its Pod deleted even when no save succeeds, is an orphan settled? |
| `runner` | two container starts in up to two Pods, clock up to 2, 2 ticks per second, one worker each, one stage | Is a living process ever taken for dead, or a task taken over that it executes? Has a daemon that returns stopped all it began, and does a signalled one end? |
| `step` | one step, exit code 1, all failures, `Period` 20 | Is nobody left waiting? Does `Run` keep `StepContract`? Is a step reported stopped, cancelled, gone or failed only when that is so? |
| `step_pair` | two steps, symmetric, `Undisturbed` | Does each step keep its contract, which tells its own failure from the other's, when they share batches and failures? |
| `step_live` | one step, exit codes 1 and 2, `Expected` | Do stopped and finished steps return, do the goroutines end? |
| `execution` | three steps; pipelines that differ in graph, policies, resources, namespaces, volumes, secrets and faults; everything may block | Do steps run in order, are none dropped, does cleanup begin when it should and only then, do the requests add up? Do the objects of the task fit together? Does `Execer` keep `StageContract`? |
| `pod_stop`, `late_failure`, `exit_two` | one each | Disagreements, see section 6 |

**The properties.** Lifecycle: `NothingForgotten` (a task is forgotten only when none
of its objects exists or can appear), `DurableIntent` (whatever exists or may appear is
in the stored record, unfinished), `NamespaceLast`, `ForeignUntouched`, `LiveTaskKept`
(a task that is neither stopped nor orphaned loses nothing), `RecordReadable`,
`NoRefusedMerge`, `FactsOnlyGrow`, `ClosedGate`, `VanishedPodRetained`,
`LeftoverRecordIsEmpty`, `ImplementsLedger`; eventually `StoppedTaskEnds`, `OrphanEnds`,
`StoppedPodEnds`. Runner: `NeverDeclaredDeadAlive`, `ExecutingIsKept`,
`ReturnStopsTasks`; eventually `SignalEnds`. Steps: `ImplementsContract`, `NoWaiterOverdue`, `NoWaiterLost`,
`OutcomeExplained`; eventually `StoppedRunsEnd`, `StoppedGoroutinesEnd`, `EndedStepsReturn`. Execution:
`DependenciesFirst`, `NoStepDropped`, `ImplementsStage`, `RequestsAddUp`, `NamespaceIsOwn`,
`VolumesAsDeclared`, `SecretsArrive`; eventually `CleanupNotBlocked`, `CancellationCleansUp`,
`ExecReturns`. The comment above each says which code it is about. Each property has a mutation of the
code in `PROJECT.json` that breaks it.

`ImplementsContract` says `\A s \in Steps : Contract(s)!Spec`. It is written as the conjunction of the
initial states and of `[][\A s \in Steps : [Contract(s)!Next]_...]_vars`, because TLC takes a temporal
property that quantifies over an instance only in that form. The types of the modules are part of the
invariants that the proofs rest on, and no run lists them on their own, but for `IInv`.

**Why the bounds are enough.** The number of attempts: each is independent but for the
order of creates, the order of deletion (namespace after the others) and the record they
share. One Pod is enough for all that concerns one attempt and its record; two with a
namespace for the order; three let a Secret or the namespace fail for good while the Pod is deleted. Two loops and
the owner are three writers, one more than is needed for a writer to be overtaken between
read and write by one that is itself stale. Besides, the safety properties of the
lifecycle, of the runner, of the steps and of the execution are proved for all values (section 5). Runner: a process
can be confused with its predecessor in the Pod or with one in another Pod of the name; two starts
in two Pods have either, and one of the two is the other's runner that takes over. The
workers of two processes race for one stage; several workers of a process and more stages are left to the proofs. Steps: two steps are a batch of two, two batches of one,
and a failure of the other. `Period` only matters relative to the one minute that the watcher
gives a container with exit code 2: 20 s is the code's value, and 0 in `step_pair`, whose
steps do not use that code. Execution: two steps with any dependencies, with and without a clone
step and with one that is called `clone`, have every shape of graph the compiler treats
differently (serial, completed with clone, freed of clone); a step with one beside it and one after it,
with every run policy, and with each failure mode (the one beside it detached or not), has every way in which
one step's end meets another's report. The memory values are on both sides of one and two chunks per
step, of the minimum and of every limit, with negative amounts and pipelines without steps among them. What the objects refer to by name is decided by two volumes, two secrets in any order
and a namespace in each of the four places that may set one (YAML, configuration, and the first and a
later policy), with names that collide with the runner's own among them.

**Constraints.** `Undisturbed` (in `step_pair` and `exit_two`) cuts off states after a stop,
a cancellation or the end of the watch, which `step` and `step_live` explore; `Expected` (in
`step_live`) cuts off failures of the environment that only make steps return sooner. Both
constrain environment actions only: no behaviour in which a fair action stays possible
is cut so that the property would hold for lack of it. `OneOfAKind` (in `execution`) lets pipelines
that differ only in memory, volumes, secrets or namespaces stop after `Compile`: they run alike.

**Deadlock** is not checked: a task that is over, and a runner that is dead, really stop.
That nothing stops too early is what the liveness properties say.

## 4. Fairness

`LifecycleLiveness`: goroutines run on (WF). The API server settles requests in flight and
finishes deletions it has accepted (WF). A request that is repeated forever succeeds sometime
(SF per attempt and kind of request). Of the owner's requests the specification assumes that only for
those about Pods, which is all that `StoppedPodEnds` needs; for the others it is the premise `RestServed` of
`StoppedTaskEnds`: `cleanUntilDone` repeats with a delay for as long as
the process lives, and without that no cleanup could ever end. A waiter for `persistMu` gets
it (SF): a Go mutex goes into starvation mode after a millisecond. A recovery loop
works on a copy that is lost when the scan is cut off, so that success now and then is not
enough; for it faults are assumed to stop (`<>[][~Faulty(r)]`). Crashes, evidence, vanishing
and taking over are never forced.

`StepLiveness`: goroutines run on (WF), the ticker ticks, the log of an ended container ends
(WF). A select with several ready cases chooses at random in Go; so a case that is ready again
and again is taken (SF). Nothing is assumed of the kubelet, watch events, cancellation, the
start timeout or the launcher's API calls beyond their returning.

`ExecutionProperties`: goroutines run on (WF), the engine's `Setup` and `Destroy` return (a task is
cancelled or its cleanup gives up waiting after 60 s), and `Run` returns once the task is stopped, which
`StoppedRunsEnd` shows. Nothing is assumed of reports, uploads, containers and runner-go's semaphore:
that they may block for good is why `Execer` exists.

`FairRunnerSpec`: a daemon's goroutines run on (WF): its requests to the Drone server are answered or end
with their context, and `Destroy` stops waiting after 60 s. A task may be executed for ever, but after
the signal it is cancelled, and a cancelled task stops (`CancellationCleansUp`). Nothing is assumed
of the cleaner, of the cluster, of signals, of the end of an uncancelled task, and of other runners.

## 5. What is proved

TLAPS checks these theorems. Those about the lifecycle hold for any number of attempts `N`, any `Kind`
that fits `KindAssumption`, any sets `Vanishing` and `Contested`, with and without recovery, and any
set of recovery loops; those about the runner for any number of processes, Pods, clock values, workers
and stages; those about steps for any set of steps, any of the three kinds of exit code and any `Period`; those about
the execution for any set of pipelines of any length, with any policies and configuration.

| Theorem | Property |
|---|---|
| `LifecycleProofs!Invariance` | `IInv`, the inductive invariant |
| `LifecycleTheorems!TypeCorrect` | `TypeOK` of `LifecycleRecovery` |
| `... NothingIsForgotten`, `IntentIsDurable`, `LiveTaskIsKept`, `RecordIsReadable`, `VanishedPodIsRetained` | the invariants `NothingForgotten`, `DurableIntent`, `LiveTaskKept`, `RecordReadable`, `VanishedPodRetained` |
| `... ClosedGateHolds`, `ForeignIsUntouched`, `FactsAreKept` | the action properties `ClosedGate`, `ForeignUntouched`, `FactsOnlyGrow` |
| `... LedgerIsImplemented` | with recovery, `ImplementsLedger`: the refinement |
| `LifecycleCleanupProofs!NamespaceGoesLast`, `NoMergeIsRefused`, `LeftoverIsEmpty` | `NamespaceLast`, `NoRefusedMerge`, `LeftoverRecordIsEmpty` |
| `RunnerDaemonProofs!AliveIsNotDead`, `AliveIsNotDeadInPool` | `NeverDeclaredDeadAlive`, of `RunnerIdentity` and of the daemons |
| `... ExecutingIsKeptAlways`, `ReturnStopsTasksAlways` | `ExecutingIsKept`, `ReturnStopsTasks` |
| `StepContractProofs!ContractIsImplemented` | `ImplementsContract`: the refinement, for each of any number of steps |
| `... NobodyIsForgotten`, `NobodyIsOverdue`, `OutcomesAreExplained` | `NoWaiterLost`, `NoWaiterOverdue`, `OutcomeExplained` |
| `ExecutionProofs!ExecutionIsInvariant`, `ExecutionTypeCorrect` | `ExecutionInv`, `TypeOK` of `Execution` |
| `... DependenciesComeFirst`, `NoStepIsDropped` | `DependenciesFirst`, `NoStepDropped` |
| `... StageIsImplemented` | `ImplementsStage`: the refinement, for any pipeline |
| `... NothingRunsAfterStop` | `NoRunAfterStop`, the part of it that is about steps still to run |
| `TaskSpecProofs!RequestsAddUpAlways` | `RequestsAddUp`, for any number of steps and any amounts |
| `... VolumesAsDeclaredAlways`, `SecretsArriveAlways`, `NamespaceIsTheTasks` | `VolumesAsDeclared`, `SecretsArrive`, `NamespaceIsOwn` |

**The argument for the lifecycle.** None of the properties is inductive: what a stale copy may
write into the store matters long before it is written. `IInv` (`LifecycleInvariant`) rests on
one observation: *every copy of the facts is sound, however stale*. `Truths(a)` is the set of
facts about attempt `a` that hold now; what they claim (this UID was created by us; it is gone
for good; Setup can add nothing more) can never become false again. So `Accurate` holds of
the stored record, of the snapshot, of the cleaner's view and of each loop's copy, and
`mergeRecord` maps accurate records to accurate records. The rest of `IInv` says who may
do what: creates are sent in order and each once (`SentInOrder`); the cleaner believes it is
complete only when the gate is closed and all it listed is done or still on its list
(`CleanerCovers`); whatever is live is listed in the store, unfinished (`RecordLeads`); whoever
may remove the record has read exactly what it says (`HoldersKnow`); no one deletes while
the owner lives and the task is not stopped (`LiveTaskKept`).

`LifecycleSteps` proves the type part per action and the lemmas about merging, truths and stability, `LifecycleProofs` one lemma for each action and each group of conjuncts,
and the theorem. `LifecycleTheorems` derives the properties, the action properties with
one lemma per writer of the record, and the refinement step by step. `LifecycleCleanupProofs` strengthens
`IInv` by what it does not say: who aims at the namespace has everything else behind it
(`NamespaceInv`), a closed record lacks no attempt that any copy in circulation lists (`MergeInv`), and a
record which outlives its cleaner holds nothing (`LeftoverInv`).

**The argument for identity.** A process may take its predecessor's container for its own, when the
API server still shows that one as running. But the predecessor ended before the process read
the clock (`OwnOrEarlier`), and truncation only makes its `FinishedAt` earlier, so
`executorTerminated` does not accept it; and a termination of the process's own container that it
accepts is one the kubelet saw (`StatusesTrue`). This rests on one assumption about the cluster:
a container is restarted at a strictly later tick than its predecessor ended, and the
clocks that are compared agree.

**The argument for the daemon.** Every step of a daemon but `Misconfigured` is one of `RunnerIdentity`, so
that `IdentityInv` carries over. Besides, only a polling process has busy workers and the Drone server
gives a stage to one of them (`StagesHeldOnce`); and a task has its gate only while its process lives, with a worker
in Setup or at its steps as long as the gate is open (`GatesAttended`). A process may return only when its workers are gone,
and so has no open gate; and whom `executorTerminated` condemns has ended, so that it executes nothing.
What a daemon that returns may leave is a record whose cleaner has not saved or finished it yet. It names a process that
has ended, and so is one that the others of the pool may take over (`reconcileRecord`, within the limits of section 6).

**The argument for steps.** `StepInv` (`StepInvariant`) adds four things to the properties. What is
queued at the launcher is on the list it is working through, and an update that succeeded has reached
every container there is (`LaunchInv`): so an answer to a launch is true whenever it is sent. A call waits only
after its launch was answered with success (`RunInv`). Every snapshot of the Pod, however late the watcher
looks at it, shows only ends that came (`SnapshotsInv`): so a decision rests on one of them. And an
answer that a waiter has not read yet stays true, because what is decided is never decided anew
(`WaitInv`): so the exit code reported is the one decided on. Each action is then a step of the contract of
the one step it concerns, and a stutter for all others. (TLC finds no state of the instances of
`step` and `step_pair` that violates `StepInv`.)

**The argument for the execution.** Two facts about a compiled pipeline are proved first, for any number of
steps: the compiler gives a step only dependencies on steps above it (`DependenciesAbove`), and each step
the pipeline puts before another (`Above`) is a dependency of it or put before one of its dependencies
(`AboveIsReached`), whether the dependencies are the YAML's or those of `configureSerial`. Both rest on what the
linter refuses: a name used twice, a dependency on a step that is not above. `ExecutionInv`
(`ExecutionInvariant`) then says of the executor that a step which has left its place has everything
before it done (`OrderInv`: one edge at a time, the step enqueued takes over what holds of its
dependencies), and of `Execer` that a started step is one that runs (`StartInv`) and that a step which may still
run is in `pending`, so that `cleanup` has not begun (`CleanupInv`, unless the steps were cancelled);
names of no step are never scheduled (`IdleInv`). That no step is dropped follows at the end of the stage: of the steps not done the topmost
would have all its dependencies done, and be ready. (TLC finds no state of the instance of
`execution` that violates `ExecutionInv`.)

`StageContract` is implemented by the same invariant: whatever calls `stop` first does so when the steps were
cancelled, when no step is on its way, or when the step it settles is the only one left in `pending`, and a step
that runs is in `pending`; so no other one runs. Each action then is one of the contract (a step begins, goes to
the background or is settled; cleanup begins or ends; the stage is stopped or over), or changes nothing of it.

**The argument for what is compiled.** Loops over a pipeline's steps, volumes and secrets are recursive functions
in the model. What they compute is proved by the least element of the set of positions at which a claim
fails (`Induction`); that such a function exists at all, by the same means (`LoopIs`).
*Memory*: `divideIntEqually` gives each step the whole chunks that all can have and one more to each of the first
ones, as many as the rest has (`PartsAre`), so that the sum is at least the request and less than a
chunk above it (`SharesAddUp`); limits and the minimum follow from the order in which
`Compile` applies them (`LimitIs`, `RequestIs`). *Volumes*: the list has the runner's own volumes and the declared
ones that have a kind (`SpecVolumesAre`); each name in it is that of one kind of volume, because
the linter refuses the reserved names and names of global volumes are drawn (`NamesAreApart`); so the
first volume of a name (`LookupIs`) is of the kind that is meant. *Secrets*: while the secrets of a step are
taken, each is in the step's list once and that list is part of `Spec.Secrets` (`TakeSecretsIs`); the latter only grows,
and the login data for the clone is in it before the first step gets it (`SpecSecretsAre`).

**Assumptions** are those of the modules and no others: `NAssumption`, `KindAssumption`,
`BoundsAssumption`, `RecoveryAssumption`, `ReconcilersAssumption`, `IdentityAssumption`,
`CodesAssumption`, `PeriodAssumption`, `ChunkAssumption` and `PipelinesAssumption`. The last one says what
the fields of a pipeline are (sequences, flags, whole numbers of either sign), that the steps of an
admitted pipeline have names from `Names`, and one thing about `random()`: there are finitely many global volumes, and
what it draws for one is neither a name of the runner's own volumes nor of a volume the YAML declares (20 random
lower-case letters and digits after `drone-`). TLC evaluates them in the runs.

**Only model-checked:** the liveness properties, because the prover has no ENABLED and so no fairness:
`StoppedTaskEnds`, `OrphanEnds`, `StoppedPodEnds`, `SignalEnds`, `StoppedRunsEnd`, `StoppedGoroutinesEnd`,
`EndedStepsReturn`, `CleanupNotBlocked`, `CancellationCleansUp`, `ExecReturns`. Every safety property,
action property and refinement that a passing run checks is a theorem.

## 6. Findings

* `pod_stop`. The wish to delete is saved before the DELETE is sent. If the process ends in
  between and the Pod vanishes by itself, the next pass takes it as finished.
  `docs/cleanup-recovery.md:98` says that a Pod which vanished before its deletion was issued
  keeps the diagnosis. `VanishedPodRetained` is the weaker promise that holds.
* `late_failure`. `FailedContainerError` reaches the clients that wait at that moment. A client
  that asks later is answered by comparing states, where `placeholderFailed` counts as
  beyond `finished`: `Run` reports the placeholder's exit code as that of the step.
* `exit_two`. A step whose own program ends with code 2 is taken for a hiccup of Kubernetes, and
  since its container never restarts, `Run` waits until the task is stopped. `EndedStepsReturn` is
  the promise that holds without that case. (When a container with code 2 has been
  restarted, the watcher waits a minute and then reports `FailedContainerError`.)

One disagreement that no run shows. A policy with a fixed namespace, over a generated one
(`drone-` in YAML or configuration), moves the Pod but leaves the Spec's own namespace set
(`policy.go:58-68`): `Setup` creates that namespace, nothing is put into it, and cleanup deletes
it. `NamespaceIsOwn` says what holds: that it is the task's own, whatever the Pod's is.

Two limits that are no disagreement. A process that lived for less than a second, or that found
only its predecessor's container ID, can never be proved dead; its record is retained. And after exit
code 78, or after an error of a report, runner-go leaves steps out without a call to `Execer`: they stay
in `pending`, and if a report or an upload of another step blocks at that time, cleanup waits for
it (until `ReportStage`). `CleanupNotBlocked` therefore excepts code 78; for an error the report
that failed is the last call for its step, and steps that wait for it keep the premise false.

## 7. What is not modelled

* Of components that are modelled otherwise: the fields that `Compile`, `Apply` and `convert.go` copy
  one by one without looking at others (environment, scripts, images, labels, annotations, tolerations,
  node selectors, security context, DNS, quantities); `match.Func` (which repository and event a rule
  admits: an input here); `Launcher.Stop` and `WaitPodDeleted`, which nothing in the engine calls; the lease
  of the recovery loops, because any number of loops may run at once here; the content of logs.
* Without state or decisions that a model could tell apart: YAML types and their parsing, the resource
  lookup, the dump of a Spec, the secret replacer (text), the daemon's configuration (environment
  variables into a struct), helpers, mocks and the validation fixture.
* `command/exec.go` and `command/compile.go` run the same compiler and engine for one local pipeline
  without recovery and without a Drone server: flags, files and output around operations modelled here.

What could come next: the lease, if it is ever relied upon for more than saving
work; the recovery of `RunnerDaemon` with the records of `LifecycleRecovery` instead of their outline.
