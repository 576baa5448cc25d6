------------------------------ MODULE Execution ------------------------------
(***************************************************************************)
(* src/engine/execer.go: how the execution of a stage is tied to its       *)
(* cleanup.  runner-go's executor (external) schedules the compiled steps, *)
(* reports and uploads, any of which may block for good; Execer wraps what *)
(* it calls and starts the engine's Destroy when the last step that can    *)
(* run is over, or the task is cancelled, without waiting for reports.     *)
(***************************************************************************)
EXTENDS Conversion

CONSTANTS
  Names,      \* of steps; "clone" is the clone step's
  Pipelines   \* the pipelines a stage may have

IsSequence(s) == s \in Seq({s[i] : i \in DOMAIN s})

(* The YAML and the environment may give any number for an amount of       *)
(* memory; what random() draws for a global volume is no other's name.     *)
ASSUME PipelinesAssumption ==
  \A p \in Pipelines :
    /\ p.clone \in BOOLEAN /\ p.setting.debug \in BOOLEAN /\ p.setting.netrc \in BOOLEAN
    /\ \A part \in {p.services, p.steps, p.volumes, p.setting.policies} : IsSequence(part)
    /\ \A step \in Range(SourceSteps(p)) : step.limit \in Int /\ IsSequence(step.secrets)
    /\ {p.request, p.setting.request, p.setting.limit, p.setting.least} \subseteq Int
    /\ \A rule \in Range(p.setting.policies) : {rule.request, rule.limit} \subseteq Int
    /\ IsFiniteSet(p.setting.hosts)
    /\ p.setting.hosts \cap ({"_workspace", "_status", "_addons"} \cup {v.name : v \in Range(p.volumes)}) = {}
    /\ ParserLint(p) /\ Lint(p) => \A i \in DOMAIN CreateSteps(p) : CreateSteps(p)[i].name \in Names

VARIABLES
  pipeline,
  phase,      \* of the stage: read, linted, rejected, compiled, setup, steps, report, destroy,
              \* returned
  spec,       \* the steps of the Spec; the rest of it, which stays as it is, is TaskSpec's
  status,     \* pipeline.State: the status of each step
  vertex,     \* where the executor is with each step
  early,      \* a step has ended with code 78: the pending ones are skipped
  dagErr,     \* an error of a step stops the scheduling
  cancelled,  \* ctx, the task's context, is done
  failFast,   \* the context runner-go derives for the steps is cancelled
  pending,    \* execution.pending
  cleanup,    \* the goroutine of stop: none, running, done
  watches     \* the goroutines of watch: on the task's and on the steps' context

executorVars == <<status, vertex, early, dagErr, failFast>>
execerVars   == <<pending, cleanup, watches>>
vars == <<pipeline, phase, spec, cancelled, executorVars, execerVars>>

StepNames == {spec[i].name : i \in DOMAIN spec}
StepAt(n) == spec[CHOOSE i \in DOMAIN spec : spec[i].name = n]

(* Whether Exec keeps account of a step. *)
Tracked(n) == n \in StepNames /\ ~StepAt(n).detach /\ StepAt(n).policy # "never"

(* Where the executor is with a step: Detached steps count as done once    *)
(* their goroutine is started.                                             *)
Detached == {"daemon", "daemonRuns", "daemonEnded"}
Done     == {"done"} \cup Detached
Vertices == Done \cup {"waiting", "queued", "skip", "skipReport", "start", "startReport", "ready",
                       "running", "upload", "finishReport", "earlyReport"}

TypeOK ==
  /\ phase \in {"read", "linted", "rejected", "compiled", "setup", "steps", "report", "destroy", "returned"}
  /\ StepNames \subseteq Names
  /\ status \in [Names -> {"pending", "running", "passed", "failed", "skipped", "killed"}]
  /\ vertex \in [Names -> Vertices]
  /\ early \in BOOLEAN /\ dagErr \in BOOLEAN /\ cancelled \in BOOLEAN /\ failFast \in BOOLEAN
  /\ pending \subseteq {n \in Names : Tracked(n)}
  /\ cleanup \in {"none", "running", "done"}
  /\ watches \in [{"task", "steps"} -> {"none", "on", "ended"}]

Init ==
  /\ pipeline \in Pipelines /\ phase = "read" /\ spec = <<>>
  /\ status = [n \in Names |-> "pending"] /\ vertex = [n \in Names |-> "waiting"]
  /\ early = FALSE /\ dagErr = FALSE /\ cancelled = FALSE /\ failFast = FALSE
  /\ pending = {} /\ cleanup = "none"
  /\ watches = [w \in {"task", "steps"} |-> "none"]

-----------------------------------------------------------------------------
(* execution: stop, watch, finishStep *)

Stop(now) == cleanup' = IF now /\ cleanup = "none" THEN "running" ELSE cleanup

(* Wrong: any step's end stops the task. *)
FinishStepWrong(n) ==
  pending' = pending \ {n} /\ Stop(n \in pending)

FinishStep(n) ==
  pending' = pending \ {n} /\ Stop(n \in pending /\ pending = {n})

Unsettled == UNCHANGED <<pending, cleanup>>

(* The goroutine of stop is through with the engine's Destroy. *)
CleanupEnds ==
  /\ cleanup = "running" /\ cleanup' = "done"
  /\ UNCHANGED <<pipeline, phase, spec, cancelled, executorVars, pending, watches>>

StepsCanceled == cancelled \/ failFast

ContextDone(w) == IF w = "task" THEN cancelled ELSE StepsCanceled

(* Wrong: it waits for its context alone. *)
WatchEndsWrong(w) ==
  /\ watches[w] = "on" /\ ContextDone(w) /\ Stop(TRUE)
  /\ watches' = [watches EXCEPT ![w] = "ended"]
  /\ UNCHANGED <<pipeline, phase, spec, cancelled, executorVars, pending>>

WatchEnds(w) ==
  /\ watches[w] = "on"
  /\ \/ ContextDone(w) /\ Stop(TRUE)
     \/ phase = "returned" /\ Stop(FALSE)
  /\ watches' = [watches EXCEPT ![w] = "ended"]
  /\ UNCHANGED <<pipeline, phase, spec, cancelled, executorVars, pending>>

-----------------------------------------------------------------------------
(* From the pipeline to the steps *)

LintStage ==
  /\ phase = "read"
  /\ phase' = IF ParserLint(pipeline) /\ Lint(pipeline) THEN "linted" ELSE "rejected"
  /\ UNCHANGED <<pipeline, spec, cancelled, executorVars, execerVars>>

CompileStage ==
  /\ phase = "linted" /\ phase' = "compiled"
  /\ spec' = Compile(pipeline)
  /\ UNCHANGED <<pipeline, cancelled, executorVars, execerVars>>

Finished(n) == status[n] \in {"passed", "failed", "skipped", "killed"}

(* Exec *)
ExecBegins ==
  /\ phase = "compiled" /\ phase' = "setup"
  /\ pending' = {n \in StepNames : Tracked(n) /\ (StepAt(n).policy = "always" \/ ~Finished(n))}
  /\ watches' = [watches EXCEPT !["task"] = "on"]
  /\ UNCHANGED <<pipeline, spec, cancelled, executorVars, cleanup>>

(* executionEngine.Setup *)
SetupOk ==
  /\ phase = "setup" /\ ~SetupRefuses(pipeline) /\ phase' = "steps"
  /\ UNCHANGED <<pipeline, spec, cancelled, executorVars, execerVars>>

SetupCanceled ==
  /\ phase = "setup" /\ cancelled /\ phase' = "report" /\ Stop(TRUE)
  /\ UNCHANGED <<pipeline, spec, cancelled, executorVars, pending, watches>>

SetupFails ==
  /\ phase = "setup" /\ phase' = "report" /\ Stop(TRUE)
  /\ UNCHANGED <<pipeline, spec, cancelled, executorVars, pending, watches>>

Cancel ==
  /\ phase \notin {"read", "linted", "rejected", "returned"} /\ ~cancelled /\ cancelled' = TRUE
  /\ UNCHANGED <<pipeline, phase, spec, executorVars, execerVars>>

-----------------------------------------------------------------------------
(* One step in runner-go's executor *)

At(n, v) == n \in StepNames /\ vertex[n] = v

Goes(n, v) == vertex' = [vertex EXCEPT ![n] = v]

Stays == UNCHANGED <<pipeline, phase, spec, cancelled, watches>>

(* All it depends on is done; after an error nothing new is scheduled.     *)
Ready(n) == At(n, "waiting") /\ \A m \in StepAt(n).deps : m \in StepNames /\ vertex[m] \in Done

Enqueue(n) ==
  /\ phase = "steps" /\ Ready(n) /\ ~dagErr /\ Goes(n, "queued")
  /\ Stays /\ Unsettled /\ UNCHANGED <<status, early, dagErr, failFast>>

(* What is pending is skipped, what runs is killed. *)
Killed == [n \in Names |-> CASE status[n] = "pending" -> "skipped"
                             [] status[n] = "running" -> "killed"
                             [] OTHER -> status[n]]

BeginCanceled(n) ==
  /\ At(n, "queued") /\ StepsCanceled /\ Goes(n, "done") /\ status' = Killed
  /\ Stays /\ Unsettled /\ UNCHANGED <<early, dagErr, failFast>>

Failed == \E n \in StepNames : status[n] = "failed" /\ StepAt(n).failure # "ignore"

ConditionFails(n) ==
  \/ StepAt(n).policy = "failure" /\ ~Failed
  \/ StepAt(n).policy = "success" /\ Failed

(* The step is left out without a word.  After code 78 that is every step  *)
(* but one that always runs.                                               *)
BeginDropped(n) ==
  /\ At(n, "queued") /\ ~StepsCanceled
  /\ \/ StepAt(n).policy = "never" \/ early
     \/ StepAt(n).policy # "always" /\ Finished(n)
  /\ Goes(n, "done")
  /\ Stays /\ Unsettled /\ UNCHANGED <<status, early, dagErr, failFast>>

BeginSkipped(n) ==
  /\ At(n, "queued") /\ ~StepsCanceled /\ ConditionFails(n)
  /\ Goes(n, "skip") /\ status' = [status EXCEPT ![n] = "skipped"]
  /\ Stays /\ Unsettled /\ UNCHANGED <<early, dagErr, failFast>>

BeginStarted(n) ==
  /\ At(n, "queued") /\ ~StepsCanceled /\ ~ConditionFails(n)
  /\ StepAt(n).policy = "always" \/ (StepAt(n).policy # "never" /\ ~Finished(n))
  /\ Goes(n, "start")
  /\ status' = [status EXCEPT ![n] = IF @ = "pending" THEN "running" ELSE @]
  /\ Stays /\ Unsettled /\ UNCHANGED <<early, dagErr, failFast>>

(* Wrong: the step is settled when the report is through. *)
ReportBeginsWrong(n) ==
  /\ \/ At(n, "skip") /\ Goes(n, "skipReport")
     \/ At(n, "start") /\ Goes(n, "startReport")
  /\ Stays /\ Unsettled /\ UNCHANGED <<status, early, dagErr, failFast>>

(* executionReporter.ReportStep up to the report proper. *)
ReportBegins(n) ==
  /\ \/ At(n, "skip") /\ Goes(n, "skipReport")
     \/ At(n, "start") /\ Goes(n, "startReport")
  /\ IF Tracked(n) /\ StepAt(n).policy # "always" /\ Finished(n) THEN FinishStep(n) ELSE Unsettled
  /\ Stays /\ UNCHANGED <<status, early, dagErr, failFast>>

ReportOk(n) ==
  /\ \/ At(n, "skipReport") /\ Goes(n, "done")
     \/ At(n, "startReport") /\ Goes(n, IF StepAt(n).detach THEN "daemon" ELSE "ready")
  /\ Stays /\ Unsettled /\ UNCHANGED <<status, early, dagErr, failFast>>

ReportFails(n) ==
  /\ At(n, "skipReport") \/ At(n, "startReport")
  /\ Goes(n, "done") /\ dagErr' = TRUE /\ FinishStep(n)
  /\ Stays /\ UNCHANGED <<status, early, failFast>>

(* Wrong: the context of the steps is not watched. *)
RunBeginsWrong(n) ==
  /\ \/ At(n, "ready") /\ Goes(n, "running")
     \/ At(n, "daemon") /\ Goes(n, "daemonRuns")
  /\ UNCHANGED <<pipeline, phase, spec, cancelled, status, early, dagErr, failFast, execerVars>>

(* executionEngine.Run: the first one watches the context of the steps. *)
RunBegins(n) ==
  /\ \/ At(n, "ready") /\ Goes(n, "running")
     \/ At(n, "daemon") /\ Goes(n, "daemonRuns")
  /\ watches' = [watches EXCEPT !["steps"] = IF @ = "none" THEN "on" ELSE @]
  /\ UNCHANGED <<pipeline, phase, spec, cancelled, status, early, dagErr, failFast, pending, cleanup>>

(* The engine's Run has returned. *)
RunEnds(n) ==
  /\ \/ At(n, "running") /\ Goes(n, "upload")
     \/ At(n, "daemonRuns") /\ Goes(n, "daemonEnded")
  /\ FinishStep(n)
  /\ Stays /\ UNCHANGED <<status, early, dagErr, failFast>>

(* The log is uploaded; the step gets its status. *)
UploadEnds(n) ==
  /\ At(n, "upload")
  /\ IF StepsCanceled
     THEN Goes(n, "done") /\ status' = Killed
     ELSE \E result \in {"passed", "failed", "early"} :
            /\ Goes(n, IF result = "early" THEN "earlyReport" ELSE "finishReport")
            /\ status' = [status EXCEPT ![n] = IF result = "early" THEN "passed" ELSE result]
  /\ Stays /\ Unsettled /\ UNCHANGED <<early, dagErr, failFast>>

(* The last report of a step, with or without success.  FinishStep has     *)
(* been called when Run returned.                                          *)
FinishReported(n) ==
  /\ At(n, "finishReport") /\ Goes(n, "done")
  /\ dagErr' \in {dagErr, TRUE}
  /\ failFast' = (failFast \/ (StepAt(n).failure = "fast" /\ status[n] = "failed"))
  /\ Stays /\ Unsettled /\ UNCHANGED <<status, early>>

EarlyReported(n) ==
  /\ At(n, "earlyReport") /\ Goes(n, "done")
  /\ dagErr' \in {dagErr, TRUE} /\ early' = TRUE
  /\ status' = [m \in Names |-> IF status[m] = "pending" THEN "skipped" ELSE status[m]]
  /\ Stays /\ Unsettled /\ UNCHANGED failFast

-----------------------------------------------------------------------------
(* The end of the stage *)

(* No step is on its way, none can be scheduled: ReportStage. *)
StepsEnd ==
  /\ phase = "steps" /\ phase' = "report" /\ Stop(TRUE)
  /\ \A n \in StepNames : vertex[n] \in Done \cup {"waiting"} /\ (Ready(n) => dagErr)
  /\ UNCHANGED <<pipeline, spec, cancelled, executorVars, pending, watches>>

StageReported ==
  /\ phase = "report" /\ phase' = "destroy"
  /\ UNCHANGED <<pipeline, spec, cancelled, executorVars, execerVars>>

(* executionEngine.Destroy, whose own stop changes nothing here: the report*)
(* of the stage comes first and has stopped the session.  Exec returns and *)
(* closes finished.                                                        *)
DestroyReturns ==
  /\ phase = "destroy" /\ cleanup = "done" /\ phase' = "returned"
  /\ UNCHANGED <<pipeline, spec, cancelled, executorVars, execerVars>>

-----------------------------------------------------------------------------
Begins(n) == BeginCanceled(n) \/ BeginDropped(n) \/ BeginSkipped(n) \/ BeginStarted(n)

Reported(n) == ReportOk(n) \/ ReportFails(n) \/ UploadEnds(n) \/ FinishReported(n) \/ EarlyReported(n)

Next ==
  \/ LintStage \/ CompileStage \/ ExecBegins \/ SetupOk \/ SetupCanceled \/ SetupFails \/ Cancel
  \/ \E n \in Names :
       Enqueue(n) \/ Begins(n) \/ ReportBegins(n) \/ RunBegins(n) \/ RunEnds(n) \/ Reported(n)
  \/ \E w \in {"task", "steps"} : WatchEnds(w)
  \/ CleanupEnds \/ StepsEnd \/ StageReported \/ DestroyReturns

Spec == Init /\ [][Next]_vars
=============================================================================
