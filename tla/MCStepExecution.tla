-------------------------- MODULE MCStepExecution --------------------------
EXTENDS StepLiveness, TLC

Symmetry == Permutations(Steps)

(* Nothing but the containers makes a run fail; the task may be stopped. *)
Expected ==
  /\ ~cancelled /\ ~podGone /\ watch # "error" /\ updateErr = "nil"
  /\ \A s \in Steps : outcome[s] \notin {"timeout", "error"}

(* Nor is the task stopped. *)
Undisturbed == Expected /\ ~stopped
=============================================================================
