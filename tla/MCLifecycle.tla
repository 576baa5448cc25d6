---------------------------- MODULE MCLifecycle ----------------------------
(* Small instances of LifecycleSafety and LifecycleLiveness. *)
EXTENDS LifecycleLiveness, LifecycleInvariant, Sequences

PodOnly == <<"pods">>
SecretPod == <<"secrets", "pods">>
NamespacePod == <<"namespaces", "pods">>
NamespaceSecretPod == <<"namespaces", "secrets", "pods">>
=============================================================================
