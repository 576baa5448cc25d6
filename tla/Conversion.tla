----------------------------- MODULE Conversion -----------------------------
(***************************************************************************)
(* src/engine/convert.go: what a Spec is in Kubernetes, and the objects    *)
(* Setup (src/engine/engine_impl.go) creates of it, in their order.        *)
(* setting.recovery tells whether there is a management namespace.         *)
(***************************************************************************)
EXTENDS TaskSpec

(* The first volume of a name. *)
LookupVolumeID(volumes, name) ==
  CHOOSE i \in DOMAIN volumes :
    volumes[i].name = name /\ \A j \in 1 .. i - 1 : volumes[j].name # name

(* A mount of an unknown volume is left out. *)
ToVolumeMounts(p, i) ==
  LET volumes == SpecVolumes(p)
      known   == {n \in StepMounts(p, i) : n \in {volumes[j].name : j \in DOMAIN volumes}}
  IN  [n \in known |-> LookupVolumeID(volumes, n)]

(* Each variable is an optional reference to a key of the task's Secret.   *)
ToEnv(p, i) == Range(StepSecrets(p, i))

ToContainer(p, i) == [mounts |-> ToVolumeMounts(p, i), keys |-> ToEnv(p, i)]

ToContainers(p) == [i \in DOMAIN Sources(p) |-> ToContainer(p, i)]

ToInitContainers(p) == [i \in DOMAIN AllSources(p) \ DOMAIN Sources(p) |-> ToContainer(p, i)]

(* The volumes of the Pod are those of the Spec, one by one.               *)
ToVolumes(p) == DOMAIN SpecVolumes(p)

ToImagePullSecrets(p) == {s \in {"pull secret"} : HasPullSecret(p)}

ToNamespace(p) == [kind |-> "namespaces", name |-> SpecNamespaces(p).own, namespace |-> ""]

ToDockerConfigSecret(p) ==
  [kind |-> "secrets", name |-> "pull secret", namespace |-> SpecNamespaces(p).pod,
   keys |-> {".dockerconfigjson"}]

ToSecret(p) ==
  [kind |-> "secrets", name |-> "task", namespace |-> SpecNamespaces(p).pod, keys |-> SpecSecrets(p).all]

ToPod(p) ==
  [kind |-> "pods", name |-> "task", namespace |-> SpecNamespaces(p).pod,
   volumes |-> ToVolumes(p), containers |-> ToContainers(p),
   initContainers |-> ToInitContainers(p), imagePullSecrets |-> ToImagePullSecrets(p)]

(* The management namespace is not for tasks. *)
SetupRefuses(p) ==
  p.setting.recovery /\ "management" \in {SpecNamespaces(p).own, SpecNamespaces(p).pod}

SetupObjects(p) ==
  IF SetupRefuses(p) THEN <<>>
  ELSE (IF SpecNamespaces(p).own # "" THEN <<ToNamespace(p)>> ELSE <<>>)
         \o (IF HasPullSecret(p) THEN <<ToDockerConfigSecret(p)>> ELSE <<>>)
         \o <<ToSecret(p), ToPod(p)>>
=============================================================================
