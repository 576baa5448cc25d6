------------------------- MODULE ExecutionInvariant -------------------------
(***************************************************************************)
(* Why the order of steps and the moment of cleanup are right: the parts   *)
(* of an inductive invariant of Execution.                                 *)
(***************************************************************************)
EXTENDS ExecutionProperties

Admitted == ParserLint(pipeline) /\ Lint(pipeline)

(* What runs is what was admitted, and nothing happens before Exec.        *)
AdmissionInv ==
  /\ pipeline \in Pipelines
  /\ phase \in {"read", "linted", "rejected"} => spec = <<>>
  /\ phase = "linted" => Admitted
  /\ phase \notin {"read", "linted", "rejected"} => Admitted /\ spec = Compile(pipeline)
  /\ phase \in {"read", "linted", "rejected", "compiled"} =>
       /\ pending = {} /\ cleanup = "none" /\ \A w \in {"task", "steps"} : watches[w] # "on"
       /\ \A n \in Names : status[n] = "pending" /\ vertex[n] = "waiting"

(* A step leaves its place only after all that the pipeline puts before    *)
(* it, and only while the stage is at its steps.                           *)
OrderInv ==
  /\ \A n \in StepNames : vertex[n] # "waiting" => \A m \in Above(n) : vertex[m] \in Done
  /\ phase # "steps" => \A n \in StepNames : vertex[n] \in Done \cup {"waiting"}

(* A step that has been started runs, unless the steps were cancelled; it  *)
(* is not one that never does, and it is waited for.                       *)
StartInv ==
  \A n \in StepNames :
    /\ vertex[n] \in {"start", "startReport", "ready", "running"} => StepAt(n).policy # "never"
    /\ vertex[n] = "start" => status[n] = "running" \/ StepAt(n).policy = "always" \/ StepsCanceled
    /\ vertex[n] \in {"ready", "running"} => ~StepAt(n).detach

(* Exec keeps account of every step that may still run, and cleanup waits  *)
(* for the last of them.                                                   *)
CleanupInv ==
  phase \in {"setup", "steps"} /\ ~StepsCanceled =>
    /\ cleanup # "none" => pending = {}
    /\ \A n \in StepNames :
         Tracked(n) /\ vertex[n] \in {"waiting", "queued", "start", "startReport", "ready", "running"}
           => n \in pending

(* The executor moves the steps of the Spec, and nothing else.             *)
IdleInv == \A n \in Names \ StepNames : vertex[n] = "waiting"

ExecutionInv == TypeOK /\ AdmissionInv /\ OrderInv /\ StartInv /\ CleanupInv /\ IdleInv
=============================================================================
