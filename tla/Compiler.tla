------------------------------ MODULE Compiler ------------------------------
(***************************************************************************)
(* src/engine/compiler/: the steps of the Spec Compile makes of a          *)
(* pipeline (Linter describes it), when and in which order they run and    *)
(* the memory they ask for.  TaskSpec has the rest of the Spec.            *)
(* Of the setting are used                                                 *)
(*   policies  (Policy)                                                    *)
(*   request   memory for the whole Pod, from the environment              *)
(*   limit     memory limit of a step, from the environment                *)
(*   least     MinRequests                                                 *)
(***************************************************************************)
EXTENDS Policy

CONSTANT Chunk  \* the units memory is divided in, 4 Mi

ASSUME ChunkAssumption == Chunk \in Nat \ {0}

-----------------------------------------------------------------------------
(* The steps of the Spec *)

RunPolicy(src) ==
  IF ~src.matches THEN "never"
  ELSE IF "failing" \notin src.status THEN "success"
  ELSE IF "passing" \in src.status THEN "always" ELSE "failure"

CloneStep == [name |-> "clone", deps |-> {}, policy |-> "always", failure |-> "fail",
              detach |-> FALSE, limit |-> 0]

CreateStep(src, detach) ==
  [name |-> src.name, deps |-> src.deps, policy |-> RunPolicy(src), failure |-> src.failure,
   detach |-> detach, limit |-> src.limit]

CreateSteps(p) ==
  (IF p.clone THEN <<CloneStep>> ELSE <<>>)
    \o [i \in DOMAIN p.services |-> CreateStep(p.services[i], TRUE)]
    \o [i \in DOMAIN p.steps |-> CreateStep(p.steps[i], p.steps[i].detach)]

IsGraph(steps) == \E i \in DOMAIN steps : steps[i].deps # {}

ConfigureSerial(steps) ==
  [i \in DOMAIN steps |-> IF i = 1 THEN steps[i] ELSE [steps[i] EXCEPT !.deps = {steps[i - 1].name}]]

(* Wrong: steps without dependencies start at once. *)
ConfigureCloneDepsWrong(steps) == steps

ConfigureCloneDeps(steps) ==
  [i \in DOMAIN steps |->
     IF steps[i].name # "clone" /\ steps[i].deps = {}
     THEN [steps[i] EXCEPT !.deps = {"clone"}] ELSE steps[i]]

RemoveCloneDeps(steps) ==
  IF \E i \in DOMAIN steps : steps[i].name = "clone" THEN steps
  ELSE [i \in DOMAIN steps |->
          IF steps[i].deps = {"clone"} THEN [steps[i] EXCEPT !.deps = {}] ELSE steps[i]]

ConfigureDeps(p, steps) ==
  IF ~IsGraph(steps) THEN ConfigureSerial(steps)
  ELSE IF p.clone THEN ConfigureCloneDeps(steps) ELSE RemoveCloneDeps(steps)

-----------------------------------------------------------------------------
(* Memory *)

Lesser(a, b)  == IF a < b THEN a ELSE b
Greater(a, b) == IF a > b THEN a ELSE b

FirstNonZero(values) ==
  IF \E i \in DOMAIN values : values[i] > 0
  THEN values[CHOOSE i \in DOMAIN values :
                values[i] > 0 /\ \A j \in 1 .. i - 1 : values[j] <= 0]
  ELSE 0

(* The policy's value, the YAML's and the environment's, in this order; a  *)
(* stage cannot have a limit of its own (CheckStageResources).             *)
StageRequest(p) == FirstNonZero(<<Applied(p).request, p.request, p.setting.request>>)
StageLimit(p)   == FirstNonZero(<<Applied(p).limit, p.setting.limit>>)

(* Wrong: what does not divide evenly is dropped. *)
DivideIntEquallyWrong(amount, count, units) ==
  [i \in 1 .. count |-> (amount \div (count * units)) * units]

(* Whole units for all, and one more each for the first ones until the     *)
(* remainder is used up.                                                   *)
DivideIntEqually(amount, count, units) ==
  [i \in 1 .. count |->
     (amount \div (count * units)) * units
       + (IF (i - 1) * units < amount % (count * units) THEN units ELSE 0)]

StepLimit(own, stage) ==
  IF stage > 0 /\ own > 0 THEN Lesser(own, stage) ELSE Greater(own, stage)

StepRequest(part, least, limit) ==
  IF limit > 0 THEN Lesser(Greater(part, least), limit) ELSE Greater(part, least)

(* Compile's last loop: each step's limit, and its part of the request. *)
Distribute(p, steps) ==
  LET parts == DivideIntEqually(StageRequest(p), Len(steps), Chunk)
      limit(i) == StepLimit(steps[i].limit, StageLimit(p))
  IN  [i \in DOMAIN steps |->
         [name |-> steps[i].name, deps |-> steps[i].deps, policy |-> steps[i].policy,
          failure |-> steps[i].failure, detach |-> steps[i].detach,
          limit |-> limit(i), request |-> StepRequest(parts[i], p.setting.least, limit(i))]]

Compile(p) == Distribute(p, ConfigureDeps(p, CreateSteps(p)))
=============================================================================
