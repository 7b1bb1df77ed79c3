-------------------------- MODULE MCPolicyPipeline --------------------------
(***************************************************************************)
(* Instances of PolicyPipeline.  A scene varies one part of the spec and   *)
(* the attributes of the object that part looks at; the rest is plain.     *)
(***************************************************************************)
EXTENDS PolicyPipeline

MCKinds == {"", " ", "ConfigMap", "configmap", "Endpoints", "Pod", "NetworkPolicy",
            "PersistentVolumeClaim", "persistentvolumeclaim"}

MCLower ==
    [k \in MCKinds |->
        CASE k = "ConfigMap"             -> "configmap"
          [] k = "Endpoints"             -> "endpoints"
          [] k = "Pod"                   -> "pod"
          [] k = "NetworkPolicy"         -> "networkpolicy"
          [] k = "PersistentVolumeClaim" -> "persistentvolumeclaim"
          [] OTHER                       -> k]

MCEnding ==
    [k \in MCKinds |-> CASE k = "Endpoints" -> "sibilant"
                         [] k = "NetworkPolicy" -> "y"
                         [] OTHER -> "other"]

MCPlural ==
    [k \in {"ConfigMap", "Endpoints", "Pod", "NetworkPolicy", "PersistentVolumeClaim"} |->
        <<MCLower[k], CASE k = "Endpoints" -> ""
                        [] k = "NetworkPolicy" -> "y->ies"
                        [] OTHER -> "s">>]

MCGroupOf ==
    [k \in DOMAIN MCPlural |->
        IF k = "NetworkPolicy" THEN <<"apps", "v1">> ELSE <<"v1">>]

MCEscapedPaths == {"note\\.ttl"}

None == <<>>

(***************************************************************************)
(* The plain spec, object and start                                        *)
(***************************************************************************)

NoTTL == [secondsAfterCreation |-> None, fieldPath |-> "", mappings |-> <<>>,
          default |-> None, relativeTo |-> "", secondsAfter |-> None]

NoConditions == [phase |-> {}, hasLabels |-> {}, hasAnnotations |-> {}, and |-> {}]

BaseSpec ==
    [target     |-> [apiVersion |-> <<"v1">>, kind |-> "ConfigMap", namespace |-> "team",
                     labelSelector |-> None, fieldSelector |-> <<>>],
     ttl        |-> [NoTTL EXCEPT !.secondsAfterCreation = <<1>>],
     conditions |-> None,
     behavior   |-> NoBehavior,
     evaluationInterval |-> None]

BaseObject ==
    [name |-> "o", ns |-> "team", kind |-> "ConfigMap", label |-> "absent",
     annotation |-> "absent", phase |-> "absent", labels |-> <<>>,
     annotations |-> <<>>, fields |-> <<>>, created |-> 0]

Unset == [is |-> "unset", n |-> 0]

BaseStart ==
    [env   |-> [interval |-> Unset, batchSize |-> Unset, deleteEnabled |-> "",
                maxDeletionsPerSecond |-> Unset, maxConcurrentEvaluations |-> Unset,
                protectedNamespaces |-> {}, podNamespace |-> "cleaner"],
     flags |-> [f \in Numbers |-> None]]

Scene(specs, objects) ==
    [specs |-> specs, objects |-> objects, starts |-> {BaseStart}, mappers |-> {TRUE}]

key(k, v) == [x \in {k} |-> v]

(***************************************************************************)
(* Expiry: every mode, missing and mistyped fields, zero, negative and     *)
(* overflowing seconds, one mode shadowing another                         *)
(***************************************************************************)

Seconds == {-1, 0, 1, 2, 9}

TTLs ==
    {[NoTTL EXCEPT !.secondsAfterCreation = <<n>>] : n \in Seconds}
    \cup {[NoTTL EXCEPT !.fieldPath = "spec.ttl", !.default = d] : d \in {None, <<0>>, <<2>>}}
    \cup {[NoTTL EXCEPT !.fieldPath = "spec.ttl", !.mappings = key("high", n), !.default = d] :
              n \in {0, 1}, d \in {None, <<2>>}}
    \cup {[NoTTL EXCEPT !.fieldPath = "note\\.ttl"]}
    \cup {[NoTTL EXCEPT !.relativeTo = "status.at", !.secondsAfter = s] :
              s \in {None, <<0>>, <<1>>, <<9>>}}
    \cup {[NoTTL EXCEPT !.secondsAfterCreation = <<n>>, !.fieldPath = "spec.ttl",
                        !.default = <<2>>] : n \in {-1, 1}}
    \cup {NoTTL}

FieldObjects ==
    {[BaseObject EXCEPT !.fields = f] :
        f \in {<<>>, key("spec.ttl", <<"int", 2>>), key("spec.ttl", <<"int", 9>>),
               key("spec.ttl", <<"str", "high">>), key("spec.ttl", <<"str", "low">>),
               key("spec.ttl", <<"other">>), key("note\\.ttl", <<"int", 1>>),
               key("status.at", <<"time", 1>>), key("status.at", <<"str", "soon">>)}}

TTLScene == Scene({[BaseSpec EXCEPT !.ttl = t] : t \in TTLs}, FieldObjects)

(***************************************************************************)
(* Selection: selectors and conditions over two labels, an annotation, the *)
(* phase and a field                                                       *)
(***************************************************************************)

Selector(labels, exprs) == <<[matchLabels |-> labels, matchExpressions |-> exprs]>>

Expr(op, values) == [key |-> "app", operator |-> op, values |-> values]

Selectors ==
    {Selector(<<>>, {}), Selector(key("app", "a"), {}), Selector(key("!", "a"), {}),
     Selector(key("app", "!"), {}), Selector(key("app", "a"), {Expr("NotIn", {"a"})})}
    \cup {Selector(<<>>, {Expr(op, values)}) :
              op \in {"In", "NotIn", "Exists", "DoesNotExist", "Gt"}, values \in {{}, {"a"}}}

LabelConds ==
    {[key |-> "app", value |-> v, operator |-> op] :
        v \in {"", "a"}, op \in {"Exists", "Equals", "", "In", "NotIn", "Gt"}}

FieldConds ==
    {[fieldPath |-> p, operator |-> op, value |-> "a", values |-> {"a"}] :
        p \in {"spec.x"}, op \in {"Equals", "NotEquals", "In", "NotIn", "Exists"}}
    \cup {[fieldPath |-> "note\\.ttl", operator |-> "NotIn", value |-> "", values |-> {}]}

Conditions ==
    {[NoConditions EXCEPT !.hasLabels = {l}] : l \in LabelConds}
    \cup {[NoConditions EXCEPT !.and = {f}] : f \in FieldConds}
    \cup {[NoConditions EXCEPT !.phase = {"Succeeded", "Failed"}],
          [NoConditions EXCEPT !.hasAnnotations = {[key |-> "keep", value |-> "no"]}],
          [NoConditions EXCEPT !.phase = {"Failed"},
                               !.hasLabels = {[key |-> "app", value |-> "a", operator |-> ""]}]}

SelectObjects ==
    {[BaseObject EXCEPT !.labels = l] : l \in {<<>>, key("app", "a"), key("app", "b"), key("app", "")}}
    \cup {[BaseObject EXCEPT !.fields = key("spec.x", v)] :
              v \in {<<"str", "a">>, <<"str", "b">>, <<"int", 1>>, <<"time", 1>>}}
    \cup {[BaseObject EXCEPT !.phase = p, !.labels = key("app", "a")] : p \in {"Running", "Failed"}}
    \cup {[BaseObject EXCEPT !.annotations = key("keep", v)] : v \in {"no", "yes"}}

SelectScene ==
    Scene({[BaseSpec EXCEPT !.target.labelSelector = s] : s \in Selectors}
          \cup {[BaseSpec EXCEPT !.target.fieldSelector = key(p, "a")] :
                    p \in {"spec.x", "note\\.ttl"}}
          \cup {[BaseSpec EXCEPT !.conditions = <<c>>] : c \in Conditions},
          SelectObjects)

(***************************************************************************)
(* Scope: namespaces, kinds and apiVersions, well written and not          *)
(***************************************************************************)

ScopeSpecs ==
    {[BaseSpec EXCEPT !.target.namespace = ns, !.target.labelSelector = s] :
        ns \in {"", "*", "team"},
        s \in {None, Selector(<<>>, {}), Selector(key("app", "a"), {})}}
    \cup {[BaseSpec EXCEPT !.target.namespace = ns] :
              ns \in {"9a", "!", "kube-system", "metallb-system", "cleaner", "infra"}}
    \cup {[BaseSpec EXCEPT !.target.kind = k, !.target.namespace = "*",
                           !.target.labelSelector = Selector(key("app", "a"), {})] :
              k \in {"PersistentVolumeClaim", "persistentvolumeclaim", " ", ""}}
    \cup {[BaseSpec EXCEPT !.target.apiVersion = v] :
              v \in {<<"">>, <<" v1">>, <<"1">>, <<"apps">>, <<"A_b">>, <<"apps", "">>,
                     <<"", "v1">>, <<"apps", "v1", "v1">>}}

ScopeObjects ==
    {[BaseObject EXCEPT !.ns = ns, !.labels = key("app", "a")] :
        ns \in {"team", "kube-system", "metallb-system", "cleaner", "infra", "other"}}
    \cup {[BaseObject EXCEPT !.kind = "PersistentVolumeClaim", !.labels = key("app", "a")],
          BaseObject, [BaseObject EXCEPT !.label = "true"],
          [BaseObject EXCEPT !.annotation = "true"]}

Protects(namespaces, own) ==
    [BaseStart EXCEPT !.env.protectedNamespaces = namespaces, !.env.podNamespace = own]

ScopeScene ==
    [Scene(ScopeSpecs, ScopeObjects) EXCEPT !.starts = {Protects({"infra", " "}, "cleaner")}]

(***************************************************************************)
(* Protection: replicas and restarts that protect different namespaces     *)
(***************************************************************************)

ProtectScene ==
    [specs   |-> {[BaseSpec EXCEPT !.target.namespace = ns,
                                   !.target.labelSelector = Selector(key("app", "a"), {})] :
                     ns \in {"*", "team", "infra", "cleaner"}},
     objects |-> {[BaseObject EXCEPT !.ns = ns, !.labels = key("app", "a")] :
                     ns \in {"team", "infra", "cleaner"}},
     starts  |-> {Protects({"infra", " "}, ""), Protects({" team", ""}, "cleaner"), BaseStart},
     mappers |-> {TRUE}]

(***************************************************************************)
(* Behavior: defaults, rates and batches under every configuration         *)
(***************************************************************************)

Behaviors ==
    {NoBehavior,
     [NoBehavior EXCEPT !.dryRun = TRUE],
     [NoBehavior EXCEPT !.allowWorkloadDeletion = TRUE],
     [NoBehavior EXCEPT !.allowWorkloadDeletion = TRUE, !.batchSize = 2],
     [NoBehavior EXCEPT !.batchSize = -1],
     [NoBehavior EXCEPT !.maxDeletionsPerSecond = 5],
     [NoBehavior EXCEPT !.maxDeletionsPerSecond = -5],
     [NoBehavior EXCEPT !.finalizer = "f"],
     [NoBehavior EXCEPT !.propagationPolicy = "Orphan"],
     [NoBehavior EXCEPT !.propagationPolicy = "Later"],
     [NoBehavior EXCEPT !.gracePeriodSeconds = <<-1>>],
     [NoBehavior EXCEPT !.gracePeriodSeconds = <<0>>]}

Starts ==
    {[BaseStart EXCEPT !.env.batchSize = b] :
        b \in {Unset, [is |-> "malformed", n |-> 0]} \cup {[is |-> "int", n |-> n] : n \in {0, 3}}}
    \cup {[BaseStart EXCEPT !.env.batchSize = [is |-> "int", n |-> 3], !.flags.batchSize = <<0>>]}
    \cup {[BaseStart EXCEPT !.env.deleteEnabled = d] : d \in {"false", "True"}}
    \cup {[BaseStart EXCEPT !.env.interval = i] :
              i \in {[is |-> "int", n |-> -1], [is |-> "odd", n |-> 0]}}
    \cup {[BaseStart EXCEPT !.env.interval = [is |-> "int", n |-> 30],
                             !.flags.interval = <<5>>,
                             !.env.maxDeletionsPerSecond = [is |-> "int", n |-> 7],
                             !.env.maxConcurrentEvaluations = [is |-> "int", n |-> 2]],
          [BaseStart EXCEPT !.env.deleteEnabled = "true",
                            !.env.maxDeletionsPerSecond = [is |-> "int", n |-> -1],
                            !.flags.maxDeletionsPerSecond = <<0>>,
                            !.flags.maxConcurrentEvaluations = <<1>>]}

BehaviorScene ==
    [specs   |-> {[BaseSpec EXCEPT !.behavior = b] : b \in Behaviors}
                 \cup {[BaseSpec EXCEPT !.behavior = b, !.target.kind = "Pod"] :
                           b \in {x \in Behaviors : x.allowWorkloadDeletion \/ x = NoBehavior}}
                 \cup {[BaseSpec EXCEPT !.evaluationInterval = <<i>>] : i \in {-1, 0, 2}},
     objects |-> {BaseObject}
                 \cup {[BaseObject EXCEPT !.kind = "Pod", !.phase = p] : p \in {"Running", "Failed"}},
     starts  |-> Starts,
     mappers |-> {TRUE}]

(***************************************************************************)
(* Names: kinds whose plural the guess gets right or wrong, while the      *)
(* RESTMapper comes and goes                                               *)
(***************************************************************************)

NameScene ==
    [specs   |-> {[BaseSpec EXCEPT !.target.kind = k, !.target.apiVersion = v] :
                     k \in {"ConfigMap", "configmap", "Endpoints", "NetworkPolicy"},
                     v \in {<<"v1">>, <<"apps", "v1">>}},
     objects |-> {[BaseObject EXCEPT !.kind = k] : k \in {"ConfigMap", "Endpoints", "NetworkPolicy"}},
     starts  |-> {BaseStart},
     mappers |-> BOOLEAN]

MCScenes ==
    [ttl |-> TTLScene, select |-> SelectScene, scope |-> ScopeScene,
     protect |-> ProtectScene, behavior |-> BehaviorScene, names |-> NameScene]
=============================================================================
