------------------------------- MODULE Policy -------------------------------
(***************************************************************************)
(* src/engine/policy/: the policies of a runner give a task's Pod its      *)
(* namespace, resources, labels and more, over what the pipeline says.     *)
(* setting.policies is a sequence of records                               *)
(*   matches    whether the policy's conditions match this build           *)
(*   name       "default" marks the one to fall back to                    *)
(*   namespace, request, limit                                             *)
(*              "" and 0 leave the task's own value                        *)
(***************************************************************************)
EXTENDS Linter

NoPolicy == [matches |-> FALSE, name |-> "", namespace |-> "", request |-> 0, limit |-> 0]

FirstOf(policies, chosen) == policies[CHOOSE i \in chosen : \A j \in chosen : i <= j]

(* The first that matches, or else the first called default. *)
Match(policies) ==
  LET matching == {i \in DOMAIN policies : policies[i].matches}
      fallback == {i \in DOMAIN policies : policies[i].name = "default"}
  IN  CASE matching # {}                    -> FirstOf(policies, matching)
        [] matching = {} /\ fallback # {} -> FirstOf(policies, fallback)
        [] OTHER                            -> NoPolicy

Applied(p) == Match(p.setting.policies)

(* Apply, for the namespaces of the Spec: the Pod's and the one to create. *)
(* Wrong: a policy's namespace is one to create.                           *)
ApplyNamespaceWrong(policy, ns) ==
  CASE policy.namespace = "" -> ns
    [] policy.namespace = "drone-" -> [pod |-> "drone-2", own |-> "drone-2"]
    [] OTHER -> [pod |-> policy.namespace, own |-> policy.namespace]

ApplyNamespace(policy, ns) ==
  CASE policy.namespace = "" -> ns
    [] policy.namespace = "drone-" -> [pod |-> "drone-2", own |-> "drone-2"]
    [] OTHER -> [ns EXCEPT !.pod = policy.namespace]
=============================================================================
