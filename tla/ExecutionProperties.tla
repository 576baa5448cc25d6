------------------------ MODULE ExecutionProperties ------------------------
(***************************************************************************)
(* What linter, compiler and Execer together promise of the execution of a *)
(* pipeline, and the fairness the liveness properties need: goroutines go  *)
(* on; the engine's Setup and Destroy return, and its Run does once the    *)
(* task is stopped (StepLiveness).  Nothing is assumed of reports, uploads *)
(* and containers: they may block for good.                                *)
(***************************************************************************)
EXTENDS TaskSpecProperties

Entered(n) == vertex[n] \in {"running", "upload", "finishReport", "earlyReport", "daemonRuns", "daemonEnded"}

(* The steps a pipeline says must be over, or in the background, before    *)
(* its step n runs: those it depends on, clone, and, if it names no        *)
(* dependency anywhere, all above it.                                      *)
Above(n) ==
  LET all == SourceSteps(pipeline)
  IN  {m \in StepNames :
         \E i \in DOMAIN all :
           /\ all[i].name = n
           /\ \/ m \in all[i].deps \/ (m = "clone" /\ pipeline.clone)
              \/ /\ \A j \in DOMAIN all : all[j].deps = {}
                 /\ \E j \in 1 .. i - 1 : all[j].name = m}

(* A step runs only after everything the pipeline puts before it: linter,  *)
(* dependency graph and scheduling agree (checkDeps, configureSerial,      *)
(* configureCloneDeps, removeCloneDeps).                                   *)
DependenciesFirst ==
  \A n \in StepNames : Entered(n) => \A m \in Above(n) : vertex[m] \in Done

(* No step of an admitted pipeline is left behind by the scheduling: its   *)
(* graph has no cycle and no missing name (checkSteps).                    *)
NoStepDropped ==
  [][phase = "steps" /\ phase' # "steps" => dagErr \/ \A n \in StepNames : vertex[n] \in Done]_vars

(* Cleanup does not pull the Pod away from under a step that is to run: a  *)
(* step whose end matters enters Run after stop only if the steps were     *)
(* cancelled (finishStep, ReportStep, Exec's pending).                     *)
NoRunAfterStop ==
  [][\A n \in StepNames :
       vertex[n] # "running" /\ vertex'[n] = "running" => cleanup = "none" \/ StepsCanceled]_vars

(* What of a step's way through the executor matters to Execer. *)
Place(n) ==
  IF vertex[n] \in Detached THEN "background"
  ELSE IF vertex[n] = "running" THEN "running"
  ELSE IF vertex[n] \in {"waiting", "queued", "start", "startReport", "ready"} THEN "waiting" ELSE "over"

Contract ==
  INSTANCE StageContract
  WITH Steps <- Names, place <- [n \in Names |-> Place(n)], stopped <- StepsCanceled,
       returned <- phase = "returned"

(* Execer with its account, its watches and the executor around it keeps   *)
(* the contract of a stage: whichever of its callers is first, Destroy is  *)
(* called once and not too early, and Exec waits for it (stop, finishStep, *)
(* ReportStage, ReportStep, Destroy).                                      *)
ImplementsStage == Contract!Spec

(* The sum of a sequence. *)
Total(f) ==
  LET upTo[k \in 0 .. Len(f)] == IF k = 0 THEN 0 ELSE upTo[k - 1] + f[k]
  IN  upTo[Len(f)]

(* The memory the steps ask for adds up to what the stage asks for, less   *)
(* than a chunk more, evenly; minimum and limits override it, and no step  *)
(* asks for more than it is limited to, nor is limited to more than its    *)
(* own limit or the one of the stage (divideIntEqually, Compile).          *)
RequestsAddUp ==
  phase = "compiled" =>
    LET total == StageRequest(pipeline)
        parts == [i \in DOMAIN spec |-> spec[i].request]
        own   == [i \in DOMAIN spec |-> CreateSteps(pipeline)[i].limit]
    IN  /\ \A i \in DOMAIN spec :
             LET limits == {l \in {own[i], Applied(pipeline).limit, pipeline.setting.limit} : l > 0}
             IN  /\ spec[i].limit > 0 => parts[i] <= spec[i].limit
                 /\ own[i] > 0 => spec[i].limit <= own[i]
                 /\ StageLimit(pipeline) > 0 => spec[i].limit <= StageLimit(pipeline)
                 /\ (spec[i].limit = 0) <=> (limits = {})
                 /\ spec[i].limit = 0 => parts[i] >= pipeline.setting.least
        /\ spec # <<>> /\ (\A i \in DOMAIN spec : spec[i].limit = 0) =>
             /\ Total(parts) >= total
             /\ pipeline.setting.least <= 0 => Total(parts) < total + Chunk
             /\ \A i, j \in DOMAIN spec : parts[i] - parts[j] <= Chunk

-----------------------------------------------------------------------------
FairSpec ==
  /\ Spec
  /\ WF_vars(CleanupEnds) /\ WF_vars(SetupOk \/ SetupFails)
  /\ WF_vars(LintStage \/ CompileStage \/ ExecBegins \/ StepsEnd \/ DestroyReturns)
  /\ \A w \in {"task", "steps"} : WF_vars(WatchEnds(w))
  /\ \A n \in Names :
       /\ WF_vars(Enqueue(n) \/ BeginCanceled(n) \/ ReportBegins(n) \/ RunBegins(n))
       /\ WF_vars(cleanup # "none" /\ RunEnds(n))

(* Nothing of a step is left but reports and uploads. *)
Over(n) == vertex[n] \in {"skipReport", "upload", "finishReport", "earlyReport", "done"}

(* Once all steps that matter are over cleanup begins, although reports    *)
(* and uploads may never end (execer.go: cleanup is independent of         *)
(* "runner-go's blocking reports and log uploads").  Steps left out after  *)
(* code 78 are the exception: nothing tells Execer of them, so that a      *)
(* blocked report of another step keeps the Pod until it is through.       *)
CleanupNotBlocked ==
  (phase = "steps" /\ {n \in StepNames : Tracked(n)} # {} /\ \A n \in StepNames : Tracked(n) => Over(n))
    ~> cleanup # "none" \/ early

(* Cancelling the task, or the steps by fail-fast, starts the cleanup,     *)
(* whatever blocks meanwhile.                                              *)
CancellationCleansUp ==
  (StepsCanceled /\ phase \in {"setup", "steps"}) ~> cleanup # "none"

(* Once the last report is through Exec returns: the engine's Destroy has  *)
(* been called, whoever called stop first, and is waited for; the          *)
(* goroutines of Exec end with it (Destroy, finished).                     *)
ExecReturns ==
  phase = "destroy" ~> phase = "returned" /\ \A w \in {"task", "steps"} : watches[w] # "on"
=============================================================================
