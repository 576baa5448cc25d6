------------------------------- MODULE Linter -------------------------------
(***************************************************************************)
(* Which pipelines may run: parse (src/engine/resource/parser.go) looks at *)
(* the steps' names, Lint (src/engine/linter/linter.go) at everything      *)
(* else.                                                                   *)
(*                                                                         *)
(* A pipeline is a record of what the YAML says,                           *)
(*   clone      whether the clone step is enabled                          *)
(*   services   a sequence of source steps                                 *)
(*   steps      a sequence of source steps                                 *)
(*   namespace  "" if there is none                                        *)
(*   volumes    a sequence of names with the set of kinds given for each   *)
(*   stageLimit whether there is a limit for the whole stage               *)
(*   pulls      the names of pull secrets                                  *)
(*   request    memory for the whole Pod                                   *)
(* and setting, what the runner and the build bring to it:                 *)
(*   trusted    whether the repository is                                  *)
(*   barred     the namespaces whose rules do not name the repository      *)
(*   namespace, hosts, debug, cloneOnly, netrc, logins, registry,          *)
(*   policies, recovery, request, limit, least                             *)
(*              see the modules that use them                              *)
(* A source step is a record of                                            *)
(*   name, deps    (a set; the YAML has a list)                            *)
(*   matches       whether When.Match accepts this build                   *)
(*   status        which of failing and passing When.Status matches        *)
(*   failure, detach, limit                                                *)
(*   mounts        the names of the volumes it mounts                      *)
(*   secrets       the secrets of its variables, a sequence                *)
(*   faults        what else checkStep looks at, of "no image",            *)
(*                 "privileged", "run/drone" (a mount below it)            *)
(***************************************************************************)
EXTENDS Integers, Sequences

SourceSteps(p) == p.services \o p.steps

(* The parser's lint. *)
ParserLint(p) ==
  \A i \in DOMAIN p.steps :
    p.steps[i].name # "" /\ \A j \in 1 .. i - 1 : p.steps[j].name # p.steps[i].name

CheckStageResources(p) == ~p.stageLimit

(* names, when checkSteps comes to the i-th step. *)
NamesBefore(p, i) ==
  {n \in {"clone"} : p.clone} \cup {SourceSteps(p)[j].name : j \in 1 .. i - 1}

(* Wrong: any name of the pipeline will do. *)
CheckDepsWrong(p, i) ==
  SourceSteps(p)[i].deps \subseteq NamesBefore(p, Len(SourceSteps(p)) + 1)

(* A step may depend on steps above it only. *)
CheckDeps(p, i) == SourceSteps(p)[i].deps \subseteq NamesBefore(p, i)

Reserved == {"workspace", "_workspace", "_docker_socket", "_status"}

CheckStep(p, step) ==
  /\ step.mounts \cap Reserved = {}
  /\ step.faults \subseteq {x \in {"privileged"} : p.setting.trusted}

CheckSteps(p) ==
  \A i \in 1 .. Len(SourceSteps(p)) :
    /\ SourceSteps(p)[i].name \notin NamesBefore(p, i)
    /\ CheckStep(p, SourceSteps(p)[i])
    /\ CheckDeps(p, i)

TrustedKinds == {"memory", "host", "claim", "config", "secret"}

(* Wrong: the names reserved for mounts are enough. *)
CheckVolumesWrong(p) ==
  \A i \in DOMAIN p.volumes :
    /\ p.setting.trusted \/ p.volumes[i].kinds \cap TrustedKinds = {}
    /\ p.volumes[i].name \notin Reserved \cup {""}

CheckVolumes(p) ==
  \A i \in DOMAIN p.volumes :
    /\ p.setting.trusted \/ p.volumes[i].kinds \cap TrustedKinds = {}
    /\ p.volumes[i].name \notin Reserved \cup {"", "_addons"}

CheckNamespace(p) == p.namespace = "" \/ p.namespace \notin p.setting.barred

Lint(p) == CheckStageResources(p) /\ CheckSteps(p) /\ CheckVolumes(p) /\ CheckNamespace(p)
=============================================================================
