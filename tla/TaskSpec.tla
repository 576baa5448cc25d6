------------------------------ MODULE TaskSpec ------------------------------
(***************************************************************************)
(* src/engine/compiler/compiler.go: the rest of the Spec, its namespaces,  *)
(* volumes and secrets.  What random() returns is told apart by its use:   *)
(* the namespaces "drone-1" and "drone-2" of Compile and of Apply, the IDs *)
(* of volumes by their position, the global volumes' names by themselves.  *)
(* Of the setting are used                                                 *)
(*   namespace  the configured one                                         *)
(*   hosts      the names random() has given the global volumes            *)
(*   debug      Tmate is enabled, this is a debug build, not on Windows    *)
(*   netrc      the build brings login data for the clone                  *)
(*   cloneOnly  NetrcCloneOnly                                             *)
(*   registry   a registry plugin has credentials                          *)
(*   logins     the secrets that are found and hold registry credentials   *)
(***************************************************************************)
EXTENDS Compiler, SequencesExt

(* The Pod's namespace, and the one to create before and delete after it.  *)
CompiledNamespaces(p) ==
  LET given == IF p.namespace = "" THEN p.setting.namespace ELSE p.namespace
  IN  IF given = "drone-" THEN [pod |-> "drone-1", own |-> "drone-1"]
      ELSE [pod |-> given, own |-> ""]

SpecNamespaces(p) == ApplyNamespace(Applied(p), CompiledNamespaces(p))

-----------------------------------------------------------------------------
(* The source of each step of the Spec, the Internal one last.             *)
NoSource == [mounts |-> {}, secrets |-> <<>>]

Sources(p) == (IF p.clone THEN <<NoSource>> ELSE <<>>) \o SourceSteps(p)

AllSources(p) == Sources(p) \o (IF p.setting.debug THEN <<NoSource>> ELSE <<>>)

Volume(of, name) == [of |-> of, name |-> name]

WorkVolumes == <<Volume("workspace", "_workspace"), Volume("status", "_status")>>

AddonsVolumes(p) == IF p.setting.debug THEN <<Volume("addons", "_addons")>> ELSE <<>>

GlobalVolumes(p) ==
  LET hosts == SetToSeq(p.setting.hosts) IN [i \in DOMAIN hosts |-> Volume("host", hosts[i])]

(* A volume of the YAML without a kind is left out. *)
DeclaredVolumes(p) ==
  LET upTo[k \in 0 .. Len(p.volumes)] ==
        IF k = 0 THEN <<>>
        ELSE IF p.volumes[k].kinds = {} THEN upTo[k - 1]
        ELSE Append(upTo[k - 1], Volume("yaml", p.volumes[k].name))
  IN  upTo[Len(p.volumes)]

SpecVolumes(p) == WorkVolumes \o AddonsVolumes(p) \o GlobalVolumes(p) \o DeclaredVolumes(p)

(* The Internal step gets the addons only. *)
StepMounts(p, i) ==
  AllSources(p)[i].mounts
    \cup {n \in {"_addons"} : p.setting.debug}
    \cup (IF i <= Len(Sources(p)) THEN {"_workspace", "_status"} \cup p.setting.hosts ELSE {})

-----------------------------------------------------------------------------
(* packNetrcSecrets, setNetrcSecretsToStep *)

NetrcSecrets == <<"machine", "username", "password", "file">>

GetsNetrc(p, i) == p.setting.netrc /\ (i = 1 \/ ~p.setting.cloneOnly)

NetrcOf(p, i) == IF GetsNetrc(p, i) THEN NetrcSecrets ELSE <<>>

(* Step.Secrets: what the container's variables refer to. *)
StepSecrets(p, i) == AllSources(p)[i].secrets \o NetrcOf(p, i)

(* Wrong: what was fetched for a step above is not given to this one. *)
TakeSecretWrong(taken, s) ==
  [all |-> taken.all \cup {s}, step |-> IF s \in taken.all THEN taken.step ELSE Append(taken.step, s)]

(* One secret of a step: Spec.Secrets, and the step's SpecSecrets. *)
TakeSecret(taken, s) ==
  [all  |-> taken.all \cup {s},
   step |-> IF s \in taken.all /\ s \in Range(taken.step) THEN taken.step ELSE Append(taken.step, s)]

(* All secrets of a step, one after the other. *)
TakeSecrets(first, secrets) ==
  LET upTo[k \in 0 .. Len(secrets)] == IF k = 0 THEN first ELSE TakeSecret(upTo[k - 1], secrets[k])
  IN  upTo[Len(secrets)]

(* Spec.Secrets, and the SpecSecrets of each step, of which runner-go      *)
(* takes what to mask in the step's log.                                   *)
PackedSecrets(p) == [all |-> IF p.setting.netrc THEN Range(NetrcSecrets) ELSE {}, steps |-> <<>>]

FetchSecrets(p, fetched, i) ==
  LET taken == TakeSecrets([all |-> fetched.all, step |-> NetrcOf(p, i)], StepSecrets(p, i))
  IN  [all |-> taken.all, steps |-> Append(fetched.steps, taken.step)]

SpecSecrets(p) ==
  LET upTo[i \in 0 .. Len(AllSources(p))] ==
        IF i = 0 THEN PackedSecrets(p) ELSE FetchSecrets(p, upTo[i - 1], i)
  IN  upTo[Len(AllSources(p))]

HasPullSecret(p) == p.setting.registry \/ p.pulls \cap p.setting.logins # {}
=============================================================================
