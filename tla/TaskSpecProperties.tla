------------------------- MODULE TaskSpecProperties -------------------------
(***************************************************************************)
(* What linter, compiler, policies and conversion together promise of the  *)
(* objects Setup creates for an admitted pipeline.                         *)
(***************************************************************************)
EXTENDS Execution

Compiled == phase = "compiled"

Objects == {SetupObjects(pipeline)[i] : i \in DOMAIN SetupObjects(pipeline)}

Pods == {o \in Objects : o.kind = "pods"}

(* Cleanup deletes the namespace Setup has created with everything in it,  *)
(* so that it must be one drawn for this task, never one that YAML, policy *)
(* or configuration name; and with recovery nothing of a task is created   *)
(* in the management namespace, where the records of all tasks are,        *)
(* whichever of the three put the Pod there (Compile, Apply, Setup).       *)
NamespaceIsOwn ==
  Compiled => \A o \in Objects :
                /\ o.kind = "namespaces" => o.name \in {"drone-1", "drone-2"}
                /\ pipeline.setting.recovery => o.namespace # "management"

(* A volume the YAML declares is what the steps that mount it get, and the *)
(* runner's own mounts get the runner's volumes, whatever names the YAML   *)
(* uses: the names that lookups by name would confuse are those the linter *)
(* keeps out (checkStep, checkVolumes, Compile, lookupVolumeID).           *)
VolumesAsDeclared ==
  Compiled =>
    LET volumes == SpecVolumes(pipeline)
        declared == {pipeline.volumes[j].name : j \in {j \in DOMAIN pipeline.volumes : pipeline.volumes[j].kinds # {}}}
        got(container, n) == volumes[container.mounts[n]].of
    IN  \A pod \in Pods :
          /\ \A i \in DOMAIN pod.containers :
               LET c == pod.containers[i]
               IN  /\ \A n \in declared \cap Sources(pipeline)[i].mounts :
                        /\ got(c, n) = "yaml"
                        /\ \A j \in 1 .. c.mounts[n] - 1 : volumes[j].name # n
                   /\ got(c, "_workspace") = "workspace" /\ got(c, "_status") = "status"
                   /\ \A h \in pipeline.setting.hosts : got(c, h) = "host"
                   /\ pipeline.setting.debug => got(c, "_addons") = "addons"
          /\ \A i \in DOMAIN pod.initContainers : got(pod.initContainers[i], "_addons") = "addons"

(* What a container's variables refer to is in the Secret of the same Spec *)
(* (the references are optional: a missing key would be an empty variable),*)
(* and the secrets of its step, which runner-go masks in the log unless    *)
(* they say otherwise, have each of them once, also one that another step  *)
(* had fetched before.                                                     *)
SecretsArrive ==
  Compiled =>
    \A pod \in Pods : \A part \in {pod.containers, pod.initContainers} : \A i \in DOMAIN part :
      LET masked == SpecSecrets(pipeline).steps[i]
      IN  /\ \E o \in Objects : o.kind = "secrets" /\ o.name = pod.name /\ o.namespace = pod.namespace
                                  /\ part[i].keys \subseteq o.keys
          /\ \A s \in part[i].keys : \E j \in DOMAIN masked : masked[j] = s
          /\ \A j, k \in DOMAIN masked : masked[j] = masked[k] => j = k
=============================================================================
