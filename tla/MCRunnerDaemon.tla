--------------------------- MODULE MCRunnerDaemon ---------------------------
(* A small instance of RunnerDaemon; runner.cfg gives the bounds. *)
EXTENDS RunnerDaemon
=============================================================================
