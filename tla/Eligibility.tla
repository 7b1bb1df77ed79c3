---------------------------- MODULE Eligibility ----------------------------
(***************************************************************************)
(* Which objects a policy selects and when they expire: selectors and      *)
(* conditions (pkg/controller/shared.go) and the TTL evaluator             *)
(* (internal/ttl).  All of it is a pure function of the spec, one object   *)
(* and the clock, in seconds.                                              *)
(*                                                                         *)
(* An object has, besides what the safety gate reads, its labels and       *)
(* annotations (functions from the keys that are there), created, and its  *)
(* fields: a function from paths to values <<"int", n>>, <<"str", s>>,     *)
(* <<"time", t>> (a string in RFC 3339) or <<"other">>.  A path stands for *)
(* the list parseFieldPath makes of it; EscapedPaths are the ones with an  *)
(* escaped dot, which the parser of pkg/controller splits into components  *)
(* that name nothing.                                                      *)
(***************************************************************************)
EXTENDS Validation

CONSTANTS
    MaxDuration,   \* seconds a time.Duration holds (2^63 ns)
    EscapedPaths   \* paths that hold a "\."

ASSUME DurationAssumption == MaxDuration \in Nat \ {0}

(***************************************************************************)
(* Reading an object                                                       *)
(***************************************************************************)

IsString(value) == value[1] \in {"str", "time"}

HasString(obj, path) == path \in DOMAIN obj.fields /\ IsString(obj.fields[path])

\* A time read as text: no other string of the model equals it.
NestedString(obj, path) ==
    IF obj.fields[path][1] = "time" THEN "rfc3339" ELSE obj.fields[path][2]

HasInt64(obj, path) ==
    path \in DOMAIN obj.fields /\ obj.fields[path][1] = "int"

\* The parser of pkg/controller knows no escape.
parseFieldPath(path) == IF path \in EscapedPaths THEN "nowhere" ELSE path

(***************************************************************************)
(* Selectors                                                               *)
(***************************************************************************)

Requirement(expr, labels) ==
    LET has == expr.key \in DOMAIN labels
    IN  CASE expr.operator = "In"     -> has /\ labels[expr.key] \in expr.values
          [] expr.operator = "NotIn"  -> ~has \/ labels[expr.key] \notin expr.values
          [] expr.operator = "Exists" -> has
          [] OTHER                    -> ~has

\* LabelSelectorAsSelector fails on what the validator rejects, and on values
\* given to Exists or DoesNotExist, which it accepts; then nothing matches.
SelectorMatches(selector, labels) ==
    /\ validateLabelSelector(<<selector>>)
    /\ \A expr \in selector.matchExpressions :
           expr.operator \in {"Exists", "DoesNotExist"} => expr.values = {}
    /\ \A key \in DOMAIN selector.matchLabels :
           key \in DOMAIN labels /\ labels[key] = selector.matchLabels[key]
    /\ \A expr \in selector.matchExpressions : Requirement(expr, labels)

matchesSelectors(obj, target) ==
    /\ target.namespace \in {"", "*", obj.ns}
    /\ target.labelSelector # <<>> =>
           SelectorMatches(target.labelSelector[1], obj.labels)
    /\ \A key \in DOMAIN target.fieldSelector :
           /\ HasString(obj, parseFieldPath(key))
           /\ NestedString(obj, parseFieldPath(key)) = target.fieldSelector[key]

(***************************************************************************)
(* Conditions                                                              *)
(***************************************************************************)

meetsPhaseConditions(obj, phases) == phases = {} \/ obj.phase \in phases

meetsLabelCondition(cond, labels) ==
    LET exists == cond.key \in DOMAIN labels
        equal  == exists /\ labels[cond.key] = cond.value
    IN  CASE cond.operator = "Exists"         -> exists
          [] cond.operator \in {"Equals", ""} -> equal
          [] cond.operator = "In"             -> equal /\ cond.value # ""
          [] cond.operator = "NotIn"          -> ~equal
          [] OTHER                            -> FALSE

meetsAnnotationConditions(obj, conds) ==
    \A cond \in conds : /\ cond.key \in DOMAIN obj.annotations
                        /\ obj.annotations[cond.key] = cond.value

matchesFieldOperator(value, cond) ==
    CASE cond.operator = "Equals"    -> value = cond.value
      [] cond.operator = "NotEquals" -> value # cond.value
      [] cond.operator = "In"        -> value \in cond.values
      [] cond.operator = "NotIn"     -> value \notin cond.values
      [] OTHER                       -> FALSE

meetsFieldConditions(obj, conds) ==
    \A cond \in conds :
        LET path == parseFieldPath(cond.fieldPath)
        IN  HasString(obj, path) /\ matchesFieldOperator(NestedString(obj, path), cond)

meetsConditions(obj, conditions) ==
    /\ meetsPhaseConditions(obj, conditions.phase)
    /\ \A cond \in conditions.hasLabels : meetsLabelCondition(cond, obj.labels)
    /\ meetsAnnotationConditions(obj, conditions.hasAnnotations)
    /\ meetsFieldConditions(obj, conditions.and)

(***************************************************************************)
(* Expiry.  A duration is an int64: the product with time.Second wraps.    *)
(***************************************************************************)

Duration(seconds) ==
    ((seconds + MaxDuration) % (2 * MaxDuration)) - MaxDuration

At(time) == [at |-> time, err |-> ""]

Failed(err) == [at |-> 0, err |-> err]

fixedTTLExpiration(obj, ttl) ==
    At(obj.created + Duration(ttl.secondsAfterCreation[1]))

mappedTTLForValue(ttl, value) ==
    IF value \in DOMAIN ttl.mappings THEN <<ttl.mappings[value]>> ELSE ttl.default

\* A string without mappings is an error, also where there is a default.
fieldTTLExpiration(obj, ttl) ==
    LET seconds ==
            IF HasInt64(obj, ttl.fieldPath) THEN <<obj.fields[ttl.fieldPath][2]>>
            ELSE IF ~HasString(obj, ttl.fieldPath) THEN ttl.default
            ELSE IF DOMAIN ttl.mappings = {} THEN <<>>
            ELSE mappedTTLForValue(ttl, NestedString(obj, ttl.fieldPath))
    IN  IF seconds = <<>> THEN Failed("unusable")
        ELSE At(obj.created + Duration(seconds[1]))

relativeTTLExpiration(obj, ttl, now) ==
    LET expiration == obj.fields[ttl.relativeTo][2] + Duration(ttl.secondsAfter[1])
    IN  IF ~HasString(obj, ttl.relativeTo) THEN Failed("unusable")
        ELSE IF obj.fields[ttl.relativeTo][1] # "time" THEN Failed("unusable")
        ELSE IF now > expiration THEN Failed("ErrRelativeTTLExpired")
        ELSE At(expiration)

\* The first mode that is configured decides, whatever it comes to.
CalculateExpirationTime(obj, ttl, now) ==
    IF ttl.secondsAfterCreation # <<>> THEN fixedTTLExpiration(obj, ttl)
    ELSE IF ttl.fieldPath # "" THEN fieldTTLExpiration(obj, ttl)
    ELSE IF ttl.relativeTo # "" /\ ttl.secondsAfter # <<>>
    THEN relativeTTLExpiration(obj, ttl, now)
    ELSE Failed("unusable")

\* Mutant: the error that means "expired" is taken for no TTL at all.
shouldDelete_NoRelative(obj, ttl, now) ==
    LET expiration == CalculateExpirationTime(obj, ttl, now)
    IN  expiration.err = "" /\ now > expiration.at

shouldDelete(obj, ttl, now) ==
    LET expiration == CalculateExpirationTime(obj, ttl, now)
    IN  \/ expiration.err = "ErrRelativeTTLExpired"
        \/ expiration.err = "" /\ now > expiration.at

\* shouldDelete of PolicyReconciler, which has the conditions inside.
reconcilerShouldDelete(obj, spec, now) ==
    /\ spec.conditions # <<>> => meetsConditions(obj, spec.conditions[1])
    /\ shouldDelete(obj, spec.ttl, now)
=============================================================================
