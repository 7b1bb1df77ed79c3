----------------------------- MODULE SafetyGate -----------------------------
(***************************************************************************)
(* The last-line safety gate of pkg/safety: a pure function of one object, *)
(* the behavior section of the driving policy and the deployment's         *)
(* configuration.  It answers with the refusal reason, "" meaning that the *)
(* deletion is allowed.                                                    *)
(*                                                                         *)
(* An object is abstracted to the attributes the gate reads:               *)
(*   name, ns, kind     "" is the empty string of the code                 *)
(*   label, annotation  value of the exclusion key: "absent", "true" or    *)
(*                      "other" (any other value)                          *)
(*   phase              status.phase, "absent" when the field is missing   *)
(***************************************************************************)

EXTENDS Naturals

protectedNamespaces ==
    {"kube-system", "kube-public", "kube-node-lease",
     "kube-flannel", "kube-registry", "metallb-system"}

hardProtectedKinds ==
    {"Namespace", "PersistentVolume", "PersistentVolumeClaim", "StorageClass",
     "CustomResourceDefinition", "ValidatingWebhookConfiguration",
     "MutatingWebhookConfiguration"}

workloadKinds == {"Pod", "Job", "CronJob"}

\* The built-in namespaces, the own one and the configured ones, blanks dropped.
NewGate(ownNamespace, configuredNamespaces, deletesDisabled) ==
    [protected       |-> protectedNamespaces \cup
                            (({ownNamespace} \cup configuredNamespaces) \ {""}),
     deletesDisabled |-> deletesDisabled]

excludedByLabelOrAnnotation(obj) ==
    obj.label = "true" \/ obj.annotation = "true"

\* The behavior section of a policy; batchSize 0 means unset.
Behavior ==
    [dryRun : BOOLEAN, allowWorkloadDeletion : BOOLEAN, batchSize : Nat]

RefusalReasons ==
    {"unknown", "deletes_disabled", "protected_namespace", "protected_kind",
     "excluded_label", "workload_managed", "active_workload"}

\* The rules in the code's order; the first that applies gives the reason.
EvaluateObject(gate, obj, behavior) ==
    IF obj.name = "" \/ obj.kind = ""
    THEN "unknown"
    ELSE IF gate.deletesDisabled
    THEN "deletes_disabled"
    ELSE IF obj.ns \in gate.protected
    THEN "protected_namespace"
    ELSE IF obj.kind \in hardProtectedKinds
    THEN "protected_kind"
    ELSE IF excludedByLabelOrAnnotation(obj)
    THEN "excluded_label"
    ELSE IF obj.kind \in workloadKinds /\ ~behavior.allowWorkloadDeletion
    THEN "workload_managed"
    ELSE IF obj.kind = "Pod" /\ obj.phase \notin {"Succeeded", "Failed"}
    THEN "active_workload"
    ELSE ""

Allowed(gate, obj, behavior) == EvaluateObject(gate, obj, behavior) = ""
=============================================================================
