----------------------------- MODULE Validation -----------------------------
(***************************************************************************)
(* What a policy spec has to look like: pkg/validation (ValidatePolicy,    *)
(* ParseGVR, PluralizeKind) and the policy-target law of pkg/safety.  All  *)
(* of it is pure.  An operator is TRUE where the code returns no error.    *)
(*                                                                         *)
(* Strings are abstracted to one representative of each class the code     *)
(* tells apart.  An apiVersion is the sequence of its "/"-separated parts: *)
(*   ""       no characters            "v1"    begins with v               *)
(*   "1"      digits only              "apps"  any other DNS-1123 name     *)
(*   "A_b"    not a DNS-1123 name      " v1"   has blanks around it        *)
(* A kind is a string whose lower case and ending the constants give, and  *)
(* " " is one with blanks around it.  "!" is what no Kubernetes grammar    *)
(* accepts, "9a" begins with a digit.  An optional value (a pointer of the *)
(* code) is <<>> for nil and <<x>> otherwise.                              *)
(***************************************************************************)
EXTENDS SafetyGate, Integers, Sequences, FiniteSets

CONSTANTS
    Lower,   \* kind -> strings.ToLower(kind)
    Ending   \* kind -> "sibilant" (s, x, z, ch, sh), "y" or "other"

IsDNS1123Subdomain(s) == s \in {"1", "v1", "apps"}

IsDNS1123Label(s) == s \notin {"", "!", "*"}

IsQualifiedName(s) == s \notin {"", "!"}

IsValidLabelValue(s) == s # "!"

(***************************************************************************)
(* The target                                                              *)
(***************************************************************************)

\* A lone "v" is no version, but it is a DNS-1123 name: the same class here.
isValidVersion(version) == version \in {"v1", "1"}

validateAPIVersion(apiVersion) ==
    /\ apiVersion # <<"">>
    /\ apiVersion[1] # " v1" /\ apiVersion[Len(apiVersion)] # " v1"
    /\ \/ Len(apiVersion) > 1
       \/ isValidVersion(apiVersion[1])
       \/ IsDNS1123Subdomain(apiVersion[1])

safetyProtectedKind(kind) ==
    kind \in {"Namespace", "PersistentVolume", "PersistentVolumeClaim",
              "StorageClass", "CustomResourceDefinition",
              "ValidatingWebhookConfiguration", "MutatingWebhookConfiguration"}

validateKind(kind) == kind \notin {"", " "} /\ ~safetyProtectedKind(kind)

\* validation.ProtectedNamespaces: half of what the gate has built in.
validatorNamespaces == {"kube-system", "kube-public", "kube-node-lease"}

validateNamespace(namespace) ==
    /\ namespace # ""
    /\ namespace = "*" \/ (namespace # "9a" /\ IsDNS1123Label(namespace))

hasSelector(target) ==
    /\ target.labelSelector # <<>>
    /\ \/ DOMAIN target.labelSelector[1].matchLabels # {}
       \/ target.labelSelector[1].matchExpressions # {}

\* Mutant: a selector that selects everything is enough.
validateNamespaceSafety_AnySelector(target) ==
    /\ target.namespace \notin validatorNamespaces
    /\ target.namespace = "*" => target.labelSelector # <<>>

validateNamespaceSafety(target) ==
    /\ target.namespace \notin validatorNamespaces
    /\ target.namespace = "*" => hasSelector(target)

validateMatchLabels(matchLabels) ==
    \A key \in DOMAIN matchLabels :
        IsQualifiedName(key) /\ IsValidLabelValue(matchLabels[key])

validateLabelExpression(expr) ==
    /\ IsQualifiedName(expr.key)
    /\ expr.operator \in {"In", "NotIn", "Exists", "DoesNotExist"}
    /\ expr.operator \in {"In", "NotIn"} => expr.values # {}
    /\ \A value \in expr.values : IsValidLabelValue(value)

validateMatchExpressions(expressions) ==
    \A expr \in expressions : validateLabelExpression(expr)

validateLabelSelector(selector) ==
    selector # <<>> =>
        /\ validateMatchLabels(selector[1].matchLabels)
        /\ validateMatchExpressions(selector[1].matchExpressions)

validateTargetResource(target) ==
    /\ validateAPIVersion(target.apiVersion)
    /\ validateKind(target.kind)
    /\ validateNamespace(target.namespace)
    /\ validateNamespaceSafety(target)
    /\ validateLabelSelector(target.labelSelector)

(***************************************************************************)
(* TTL, behavior, and the policy as a whole                                *)
(***************************************************************************)

Positive(optional) == optional # <<>> /\ optional[1] > 0

validateTTL(ttl) ==
    /\ \/ Positive(ttl.secondsAfterCreation)
       \/ ttl.fieldPath # ""
       \/ ttl.relativeTo # "" /\ Positive(ttl.secondsAfter)
    /\ ttl.fieldPath # "" =>
           \A value \in DOMAIN ttl.mappings : ttl.mappings[value] > 0

validateBehavior(behavior) ==
    /\ behavior.maxDeletionsPerSecond >= 0
    /\ behavior.batchSize >= 0
    /\ behavior.finalizer = ""
    /\ behavior.propagationPolicy \in {"", "Foreground", "Background", "Orphan"}
    /\ behavior.gracePeriodSeconds # <<>> => behavior.gracePeriodSeconds[1] >= 0

ValidatePolicy(spec) ==
    /\ validateTargetResource(spec.target)
    /\ validateTTL(spec.ttl)
    /\ validateBehavior(spec.behavior)

\* The gate's law about a target, with every protected namespace.
EvaluatePolicyTarget(gate, target) ==
    IF target.kind \in hardProtectedKinds THEN "protected_kind"
    ELSE IF target.namespace \in gate.protected THEN "protected_namespace"
    ELSE ""

(***************************************************************************)
(* Names of resources.  A plural is the lower-case kind with its suffix.   *)
(***************************************************************************)

ParseGVR(apiVersion, kind) ==
    /\ apiVersion # <<"">>
    /\ kind # ""
    /\ \/ Len(apiVersion) = 1 /\ apiVersion[1] = "v1"
       \/ Len(apiVersion) = 2 /\ apiVersion[1] # "" /\ apiVersion[2] # ""

PluralizeKind(kind) ==
    <<Lower[kind],
      CASE Ending[kind] = "sibilant" -> "es"
        [] Ending[kind] = "y"        -> "y->ies"
        [] OTHER                     -> "s">>
=============================================================================
