--------------------------- MODULE StageContract ---------------------------
(***************************************************************************)
(* What Exec owes whoever runs a stage, without the account it keeps, the  *)
(* contexts it watches, reports, uploads and the scheduling: each step is  *)
(* run at most once; Destroy is called once, never under a step that runs, *)
(* and no step begins after it, unless the steps were stopped; and Exec    *)
(* returns when Destroy has ended and all steps have.  Steps in the        *)
(* background are not waited for.  Execution implements it.                *)
(***************************************************************************)
CONSTANT Steps

VARIABLES
  place,      \* of each step: waiting, running, over, background
  stopped,    \* the stage was cancelled, or its steps after a failure
  cleanup,    \* none, running, done
  returned

stageVars == <<place, stopped, cleanup, returned>>

Init ==
  /\ place = [n \in Steps |-> "waiting"]
  /\ stopped = FALSE /\ cleanup = "none" /\ returned = FALSE

NoneRuns(places) == \A n \in Steps : places[n] # "running"

(* Cleanup may begin with this step. *)
MayClean ==
  \/ cleanup' = cleanup
  \/ cleanup = "none" /\ cleanup' = "running" /\ (stopped \/ NoneRuns(place'))

Move(n, from, to) == place[n] \in from /\ place' = [place EXCEPT ![n] = to]

StopSteps == stopped' = TRUE /\ UNCHANGED <<place, cleanup, returned>>

Run(n) ==
  /\ ~returned /\ (cleanup = "none" \/ stopped)
  /\ Move(n, {"waiting"}, "running")
  /\ UNCHANGED <<stopped, cleanup, returned>>

Background(n) ==
  /\ ~returned /\ Move(n, {"waiting"}, "background")
  /\ UNCHANGED <<stopped, cleanup, returned>>

(* A step's run returns, or the step is left out. *)
Settle(n) ==
  /\ ~returned /\ Move(n, {"waiting", "running"}, "over") /\ MayClean
  /\ UNCHANGED <<stopped, returned>>

Clean == MayClean /\ UNCHANGED <<place, stopped, returned>>

CleanupEnds ==
  /\ cleanup = "running" /\ cleanup' = "done"
  /\ UNCHANGED <<place, stopped, returned>>

Return ==
  /\ cleanup = "done" /\ NoneRuns(place) /\ returned' = TRUE
  /\ UNCHANGED <<place, stopped, cleanup>>

Next ==
  \/ StopSteps \/ Clean \/ CleanupEnds \/ Return
  \/ \E n \in Steps : Run(n) \/ Background(n) \/ Settle(n)

Spec == Init /\ [][Next]_stageVars
=============================================================================
