--------------------------- MODULE PolicyPipeline ---------------------------
(***************************************************************************)
(* One policy on its way from the user's file to a deletion: the admission *)
(* webhooks (pkg/webhook), the runtime validation that backs them up, the  *)
(* discovery of the target, the decision on one object of that target, and *)
(* the name its deletion is sent to; and the configuration of the process  *)
(* that does it (pkg/config, the flags of cmd/zen-cleaner).                *)
(*                                                                         *)
(* The cluster around it moves: the webhook may be missing, the RESTMapper *)
(* may not know a kind (yet), the object changes, the clock runs and the   *)
(* process restarts with another environment.  A reconcile is one step     *)
(* here, on a synced informer: what happens inside a cycle is the subject  *)
(* of DeletionPath, what happens between cycles that of PolicyReconcile.   *)
(***************************************************************************)
EXTENDS Eligibility

CONSTANTS
    Scenes,   \* name -> what users write and run: specs, objects, starts, mappers
    Plural,   \* kind -> the name the API server serves it under
    GroupOf,  \* kind -> the apiVersion it is served at
    Kinds,    \* the kinds that specs and objects name
    MaxNow    \* bound: the clock stops here

(***************************************************************************)
(* What users can write, and a cluster can serve                           *)
(***************************************************************************)

\* BehaviorSpec.  A number may have any sign.
IsBehavior(behavior) ==
    /\ DOMAIN behavior =
           {"maxDeletionsPerSecond", "batchSize", "dryRun", "finalizer",
            "propagationPolicy", "gracePeriodSeconds", "allowWorkloadDeletion"}
    /\ {behavior.maxDeletionsPerSecond, behavior.batchSize} \subseteq Int
    /\ {behavior.dryRun, behavior.allowWorkloadDeletion} \subseteq BOOLEAN

\* ZenCleanerPolicySpec, less paused (see PolicyReconcile).
IsSpec(spec) ==
    /\ DOMAIN spec = {"target", "ttl", "conditions", "behavior", "evaluationInterval"}
    /\ spec.target.kind \in Kinds
    /\ IsBehavior(spec.behavior)
    /\ spec.evaluationInterval \in Seq(Int)

\* An object has a kind that is served.
IsObject(obj) == obj.kind \in DOMAIN Plural

\* The settings that are numbers, by the name they have everywhere.
Numbers == {"interval", "batchSize", "maxDeletionsPerSecond", "maxConcurrentEvaluations"}

IsStart(start) ==
    \A f \in Numbers : start.env[f].n \in Int /\ start.flags[f] \in Seq(Int)

ASSUME ScenesAssumption ==
    \A s \in DOMAIN Scenes :
        /\ \A spec \in Scenes[s].specs : IsSpec(spec)
        /\ \A obj \in Scenes[s].objects : IsObject(obj)
        /\ \A start \in Scenes[s].starts : IsStart(start)
        /\ Scenes[s].mappers \subseteq BOOLEAN

\* The ending of a kind is that of its lower case; kinds that are served
\* differ in more than case, under a version or a group and a version.
ASSUME NamesAssumption ==
    /\ DOMAIN Plural \subseteq Kinds
    /\ \A a, b \in Kinds : Lower[a] = Lower[b] => Ending[a] = Ending[b]
    /\ \A a, b \in DOMAIN Plural : Lower[a] = Lower[b] => a = b
    /\ \A k \in DOMAIN Plural : ParseGVR(GroupOf[k], k)

ASSUME ClockAssumption == MaxNow \in Nat

DefaultCleanupInterval == 60
DefaultBatchSize == 50
DefaultMaxDeletionsPerSecond == 10
DefaultMaxConcurrentEvaluations == 5

VARIABLES
    scene,    \* name of the scene, fixed
    config,   \* <<>> while the process is down, or <<its configuration>>
    policy,   \* <<>>, or <<what the API server stores and how it got there>>
    object,   \* <<>>, or <<the object>>
    now,      \* the clock
    mapper,   \* TRUE: the RESTMapper answers
    gvrCache, \* GVRResolver.cache: kind -> plural, <<>> if not there
    informers, \* the targets whose informers run
    limiter,  \* rate of the policy's limiter, 0 if there is none
    verdict,  \* of the last reconcile, "none" once anything it saw changed
    outcome   \* what the last deletion came to

vars == <<scene, config, policy, object, now, mapper, gvrCache, informers,
          limiter, verdict, outcome>>

memory == <<gvrCache, informers, limiter>>

Verdicts == {"none", "invalid", "refused", "kept", "planned", "done"}

Outcomes == {"none", "dryrun", "refused", "gone", "deleted"}

Init ==
    /\ scene \in DOMAIN Scenes
    /\ config = <<>>
    /\ policy = <<>>
    /\ object \in {<<o>> : o \in Scenes[scene].objects}
    /\ now = 0
    /\ mapper \in Scenes[scene].mappers
    /\ gvrCache = [k \in Kinds |-> <<>>]
    /\ informers = {}
    /\ limiter = 0
    /\ verdict = "none"
    /\ outcome = "none"

\* A cycle that has begun ends before anything it looked at changes.
Between == verdict # "planned"

Forget == verdict' = "none" /\ outcome' = "none"

(***************************************************************************)
(* Configuration.  A value of the environment is unset, malformed or int,  *)
(* the number n.  A duration may also be odd: it has a unit, which is all  *)
(* that is validated, but no number.                                       *)
(***************************************************************************)

OptionalInt(val, default) == IF val.is = "int" THEN val.n ELSE default

\* Mutant: a value that is set overrides the default, whatever it is.
EnvInt_Unchecked(val, default) == OptionalInt(val, default)

EnvInt(val, default) ==
    IF OptionalInt(val, 0) > 0 THEN OptionalInt(val, 0) ELSE default

\* A number is taken as it is, and an odd duration is left out.
OptionalDuration(val, default) == IF val.is = "int" THEN val.n ELSE default

\* A part of the list of namespaces, which may have a blank before it.
TrimSpace(ns) == IF ns = " " THEN "" ELSE IF ns = " team" THEN "team" ELSE ns

\* An unknown word leaves DeleteEnabled at its zero value: no deletions.
LoadFromEnv(env) ==
    [interval              |-> OptionalDuration(env.interval, DefaultCleanupInterval),
     maxDeletionsPerSecond |-> EnvInt(env.maxDeletionsPerSecond,
                                      DefaultMaxDeletionsPerSecond),
     batchSize             |-> EnvInt(env.batchSize, DefaultBatchSize),
     maxConcurrentEvaluations |-> EnvInt(env.maxConcurrentEvaluations,
                                         DefaultMaxConcurrentEvaluations),
     deleteEnabled         |-> env.deleteEnabled \in {"", "true"},
     protectedNamespaces   |-> {TrimSpace(ns) : ns \in env.protectedNamespaces} \ {""},
     ownNamespace          |-> env.podNamespace,
     env                   |-> env,
     flags                 |-> [f \in Numbers |-> <<>>]]

EnvIsValid(env) == \A f \in Numbers : env[f].is # "malformed"

Overridden(flag, value) == IF flag = <<>> THEN value ELSE flag[1]

applyFlagOverrides(cfg, flags) ==
    [cfg EXCEPT
        !.flags = flags,
        !.interval = Overridden(flags.interval, @),
        !.maxDeletionsPerSecond = Overridden(flags.maxDeletionsPerSecond, @),
        !.batchSize = Overridden(flags.batchSize, @),
        !.maxConcurrentEvaluations = Overridden(flags.maxConcurrentEvaluations, @)]

Configuration(start) == applyFlagOverrides(LoadFromEnv(start.env), start.flags)

Start(start) ==
    /\ config = <<>>
    /\ EnvIsValid(start.env)
    /\ config' = <<Configuration(start)>>
    /\ UNCHANGED <<scene, policy, object, now, mapper, memory, verdict, outcome>>

Crash ==
    /\ config # <<>>
    /\ config' = <<>>
    /\ gvrCache' = [k \in Kinds |-> <<>>]
    /\ informers' = {}
    /\ limiter' = 0
    /\ Forget
    /\ UNCHANGED <<scene, policy, object, now, mapper>>

\* SetRate, and NewRateLimiter, which takes the same number.
SetRate(maxPerSecond) ==
    IF maxPerSecond <= 0 THEN DefaultMaxDeletionsPerSecond ELSE maxPerSecond

\* Mutant: a limiter keeps the rate it was made with.
getOrCreateRateLimiter_Kept(behavior, rate) ==
    IF rate > 0 THEN rate
    ELSE SetRate(behavior.maxDeletionsPerSecond)

\* The rate of the limiter that is handed out; the one there gets a new rate.
getOrCreateRateLimiter(behavior, rate) ==
    SetRate(IF behavior.maxDeletionsPerSecond > 0
            THEN behavior.maxDeletionsPerSecond
            ELSE DefaultMaxDeletionsPerSecond)

resolveBatchSize(behavior, cfg) ==
    IF behavior.batchSize > 0 THEN behavior.batchSize ELSE cfg.batchSize

\* Mutant: an interval of the policy counts, whatever it is.
EffectiveEvaluationInterval_Unchecked(spec, cfg) ==
    IF spec.evaluationInterval # <<>> THEN spec.evaluationInterval[1]
    ELSE cfg.interval

EffectiveEvaluationInterval(spec, cfg) ==
    IF Positive(spec.evaluationInterval) THEN spec.evaluationInterval[1]
    ELSE cfg.interval

(***************************************************************************)
(* Admission.  Every replica serves the webhooks, with the configuration   *)
(* it has been started with.                                               *)
(***************************************************************************)

\* Mutant: dryRun is left out.
hasBehavior_NoDryRun(behavior) ==
    \/ behavior.maxDeletionsPerSecond # 0
    \/ behavior.batchSize # 0
    \/ behavior.finalizer # ""
    \/ behavior.propagationPolicy # ""
    \/ behavior.gracePeriodSeconds # <<>>

\* Every field but allowWorkloadDeletion.
hasBehavior(behavior) ==
    \/ behavior.maxDeletionsPerSecond # 0
    \/ behavior.batchSize # 0
    \/ behavior.dryRun
    \/ behavior.finalizer # ""
    \/ behavior.propagationPolicy # ""
    \/ behavior.gracePeriodSeconds # <<>>

NoBehavior ==
    [maxDeletionsPerSecond |-> 0, batchSize |-> 0, dryRun |-> FALSE,
     finalizer |-> "", propagationPolicy |-> "", gracePeriodSeconds |-> <<>>,
     allowWorkloadDeletion |-> FALSE]

WithDefaults(behavior) ==
    [behavior EXCEPT
        !.maxDeletionsPerSecond = IF @ = 0 THEN DefaultMaxDeletionsPerSecond ELSE @,
        !.batchSize             = IF @ = 0 THEN DefaultBatchSize ELSE @,
        !.propagationPolicy     = IF @ = "" THEN "Background" ELSE @]

\* Without a behavior the patch writes a whole one.
mutatePolicy(op, spec) ==
    IF op # "CREATE" THEN spec
    ELSE [spec EXCEPT !.behavior =
             WithDefaults(IF hasBehavior(@) THEN @ ELSE NoBehavior)]

\* The target gate of the webhooks: it does not know the emergency stop.
NewPolicyTargetGate(cfg) == NewGate(cfg.ownNamespace, cfg.protectedNamespaces, FALSE)

\* The gates of the replicas: this process, one that runs with it, or the next.
TargetGates ==
    {NewPolicyTargetGate(Configuration(start)) :
        start \in {s \in Scenes[scene].starts : EnvIsValid(s.env)}}

\* Mutant: an UPDATE is let through.
validatePolicy_OnCreate(gate, op, spec) ==
    op = "CREATE" =>
        ValidatePolicy(spec) /\ EvaluatePolicyTarget(gate, spec.target) = ""

validatePolicy(gate, op, spec) ==
    op \in {"CREATE", "UPDATE"} =>
        ValidatePolicy(spec) /\ EvaluatePolicyTarget(gate, spec.target) = ""

\* The CRD's schema, between the two webhooks.
SchemaAccepts(spec) ==
    spec.behavior.propagationPolicy \in {"", "Foreground", "Background", "Orphan"}

Stored(asked, spec, reviewed) ==
    <<[asked |-> asked, spec |-> spec, reviewed |-> reviewed]>>

Write(new) ==
    /\ Between
    /\ policy' = new
    /\ Forget
    /\ UNCHANGED <<scene, config, object, now, mapper, memory>>

\* A write that the webhooks of some replica see.  What they refuse, or cannot
\* be asked about (failurePolicy Fail), changes nothing.  The gate that
\* reviewed a policy is kept with it, for the properties.
Admit(spec, gate) ==
    LET op     == IF policy = <<>> THEN "CREATE" ELSE "UPDATE"
        stored == mutatePolicy(op, spec)
    IN  /\ SchemaAccepts(stored)
        /\ validatePolicy(gate, op, stored)
        /\ Write(Stored(spec, stored, <<gate>>))

\* A write while no webhook configuration is installed.
Bypass(spec) == SchemaAccepts(spec) /\ Write(Stored(spec, spec, <<>>))

\* handlePolicyDeletion takes the policy's limiter along; informers stay.
Remove ==
    /\ Between
    /\ policy # <<>>
    /\ policy' = <<>>
    /\ limiter' = 0
    /\ Forget
    /\ UNCHANGED <<scene, config, object, now, mapper, gvrCache, informers>>

(***************************************************************************)
(* Names                                                                   *)
(***************************************************************************)

\* The kind of the API server a kind stands for, in whatever case.
Folds(kind) == {k \in DOMAIN Plural : Lower[k] = Lower[kind]}

\* RESTMapping wants the kind exactly.
Mapped(kind) == mapper /\ kind \in DOMAIN Plural

ResolveGVR(kind) ==
    IF gvrCache[kind] # <<>> THEN gvrCache[kind][1]
    ELSE IF Mapped(kind) THEN Plural[kind]
    ELSE PluralizeKind(kind)

\* Mutant: a guess is cached as well.
Remembered_Guess(kind) ==
    [gvrCache EXCEPT ![kind] = <<ResolveGVR(kind)>>]

\* Mutant: nothing is cached.
Remembered_Never(kind) == gvrCache

\* The cache after ResolveGVR: only what the mapper confirmed is kept.
Remembered(kind) ==
    IF gvrCache[kind] = <<>> /\ Mapped(kind)
    THEN [gvrCache EXCEPT ![kind] = <<Plural[kind]>>]
    ELSE gvrCache

(***************************************************************************)
(* Reconcile                                                               *)
(***************************************************************************)

\* ValidateTargetCapability: a version, served, and the kind listed, in any
\* case.  (Outages and denials are in PolicyReconcile.)
Capable(target) ==
    /\ target.apiVersion[Len(target.apiVersion)] # ""
    /\ \E k \in Folds(target.kind) : GroupOf[k] = target.apiVersion

TargetKey(target) ==
    [apiVersion |-> target.apiVersion, kind |-> target.kind,
     namespace |-> target.namespace]

\* The gate of the running process.
safetyGate ==
    NewGate(config[1].ownNamespace, config[1].protectedNamespaces,
            ~config[1].deleteEnabled)

RuntimeValid(spec) ==
    ValidatePolicy(spec) /\ EvaluatePolicyTarget(safetyGate, spec.target) = ""

Running(spec) == TargetKey(spec.target) \in informers

\* The informer is there, or it can be made: a watch on a name that is not
\* served never syncs.
Observable(spec) ==
    \/ Running(spec)
    \/ /\ Capable(spec.target)
       /\ \E k \in Folds(spec.target.kind) :
              ResolveGVR(spec.target.kind) = Plural[k]

\* What the informer of a target holds: it watches one namespace, or all.
Holds(target, obj) ==
    /\ obj.kind \in Folds(target.kind)
    /\ target.namespace \in {"", "*"} \/ obj.ns = target.namespace

ListResources(obj, namespace) == namespace \in {"", "*", obj.ns}

\* The plan of the evaluation service.
evaluateResources(spec, obj) ==
    /\ ListResources(obj, spec.target.namespace)
    /\ matchesSelectors(obj, spec.target)
    /\ Allowed(safetyGate, obj, spec.behavior)
    /\ spec.conditions # <<>> => meetsConditions(obj, spec.conditions[1])
    /\ shouldDelete(obj, spec.ttl, now)

\* The plan of the direct path, which has no gate.
evaluatePolicyResourcesShared(spec, obj) ==
    /\ matchesSelectors(obj, spec.target)
    /\ reconcilerShouldDelete(obj, spec, now)

Reject(spec) ==
    /\ ~RuntimeValid(spec)
    /\ verdict' = "invalid"
    /\ UNCHANGED memory

\* There is no informer for the target, and none can be made.
Refuse(spec) ==
    /\ RuntimeValid(spec)
    /\ ~Observable(spec)
    /\ verdict' = "refused"
    /\ gvrCache' = IF Capable(spec.target) THEN Remembered(spec.target.kind)
                   ELSE gvrCache
    /\ UNCHANGED <<informers, limiter>>

\* The object is on the list.  direct: the informer was made at the second
\* try, after the evaluation service had been given up; only that path does
\* without ParseGVR.
Planned(spec, direct) ==
    /\ object # <<>>
    /\ Holds(spec.target, object[1])
    /\ IF direct
       THEN evaluatePolicyResourcesShared(spec, object[1])
       ELSE /\ ParseGVR(spec.target.apiVersion, spec.target.kind)
            /\ evaluateResources(spec, object[1])

Evaluate(spec, direct) ==
    /\ RuntimeValid(spec)
    /\ Observable(spec)
    /\ direct => ~Running(spec)
    /\ verdict' = IF Planned(spec, direct) THEN "planned" ELSE "kept"
    /\ informers' = informers \cup {TargetKey(spec.target)}
    /\ gvrCache' = IF Running(spec) THEN gvrCache ELSE Remembered(spec.target.kind)
    /\ limiter' = IF Planned(spec, direct)
                  THEN getOrCreateRateLimiter(spec.behavior, limiter)
                  ELSE limiter

Reconcile(direct) ==
    /\ config # <<>>
    /\ policy # <<>>
    /\ Between
    /\ outcome' = "none"
    /\ \/ Reject(policy[1].spec)
       \/ Refuse(policy[1].spec)
       \/ Evaluate(policy[1].spec, direct)
    /\ UNCHANGED <<scene, config, policy, object, now, mapper>>

(***************************************************************************)
(* Deletion                                                                *)
(***************************************************************************)

\* deleteResource: dry run, name, gate, live read.  A read under a name that
\* is not served is a 404, which means that the object is gone.
Outcome(spec, obj) ==
    IF spec.behavior.dryRun THEN "dryrun"
    ELSE IF ~Allowed(safetyGate, obj, spec.behavior) THEN "refused"
    ELSE IF ResolveGVR(obj.kind) # Plural[obj.kind] THEN "gone"
    ELSE "deleted"

\* Mutant: the object stays on the list.
Delete_Again ==
    /\ verdict = "planned"
    /\ outcome' = Outcome(policy[1].spec, object[1])
    /\ object' = IF outcome' = "deleted" THEN <<>> ELSE object
    /\ UNCHANGED <<scene, config, policy, now, mapper, memory, verdict>>

Delete ==
    LET spec == policy[1].spec
        obj  == object[1]
    IN  /\ verdict = "planned"
        /\ outcome' = Outcome(spec, obj)
        /\ object' = IF outcome' = "deleted" THEN <<>> ELSE object
        /\ gvrCache' = IF spec.behavior.dryRun THEN gvrCache ELSE Remembered(obj.kind)
        /\ verdict' = "done"
        /\ UNCHANGED <<scene, config, policy, now, mapper, informers, limiter>>

(***************************************************************************)
(* The cluster                                                             *)
(***************************************************************************)

\* The kind is discovered, or discovery fails; a cycle may be under way.
MapperChanges ==
    /\ mapper' \in Scenes[scene].mappers \ {mapper}
    /\ UNCHANGED <<scene, config, policy, object, now, memory, verdict, outcome>>

\* An object keeps its name, its namespace, its kind and its creation time.
Edit(obj) ==
    /\ Between
    /\ object # <<>>
    /\ \A f \in {"name", "ns", "kind", "created"} : obj[f] = object[1][f]
    /\ obj # object[1]
    /\ object' = <<obj>>
    /\ Forget
    /\ UNCHANGED <<scene, config, policy, now, mapper, memory>>

Tick ==
    /\ Between
    /\ now < MaxNow
    /\ now' = now + 1
    /\ Forget
    /\ UNCHANGED <<scene, config, policy, object, mapper, memory>>

Next ==
    \/ \E start \in Scenes[scene].starts : Start(start)
    \/ Crash
    \/ \E spec \in Scenes[scene].specs, gate \in TargetGates : Admit(spec, gate)
    \/ \E spec \in Scenes[scene].specs : Bypass(spec)
    \/ Remove
    \/ \E direct \in BOOLEAN : Reconcile(direct)
    \/ Delete
    \/ MapperChanges
    \/ \E obj \in Scenes[scene].objects : Edit(obj)
    \/ Tick

Spec == Init /\ [][Next]_vars

(***************************************************************************)
(* What a policy means, said without the code's order of tests             *)
(***************************************************************************)

\* The value of a key, <<>> if there is none.
Lookup(map, key) == IF key \in DOMAIN map THEN <<map[key]>> ELSE <<>>

Text(obj, path) ==
    IF path \in DOMAIN obj.fields /\ IsString(obj.fields[path])
    THEN <<NestedString(obj, path)>>
    ELSE <<>>

\* The namespace and every term of the selectors.
Selected(spec, obj) ==
    LET target == spec.target
        terms  == {sel \in {target.labelSelector} : sel # <<>>}
    IN  /\ Lower[obj.kind] = Lower[target.kind]
        /\ target.namespace # obj.ns => target.namespace = "*"
        /\ \A sel \in terms :
               /\ \A k \in DOMAIN sel[1].matchLabels :
                      Lookup(obj.labels, k) = <<sel[1].matchLabels[k]>>
               /\ \A e \in sel[1].matchExpressions :
                      LET got  == Lookup(obj.labels, e.key)
                          hits == \E v \in e.values : got = <<v>>
                      IN  /\ e.operator = "In" => hits
                          /\ e.operator = "NotIn" => ~hits
                          /\ e.operator = "Exists" => got # <<>> /\ e.values = {}
                          /\ e.operator = "DoesNotExist" => got = <<>> /\ e.values = {}
        /\ \A path \in DOMAIN target.fieldSelector :
               Text(obj, path) = <<target.fieldSelector[path]>>

\* What each kind of condition asks of the value it names.
Wanted(spec, obj) ==
    \A c \in {x[1] : x \in {spec.conditions} \ {<<>>}} :
        /\ \/ c.phase = {}
           \/ \E p \in c.phase : p = obj.phase
        /\ \A l \in c.hasLabels :
               LET got == Lookup(obj.labels, l.key)
               IN  \/ l.operator = "Exists" /\ got # <<>>
                   \/ l.operator \in {"Equals", "", "In"} /\ got = <<l.value>>
                   \/ l.operator = "NotIn" /\ got # <<l.value>>
        /\ \A a \in c.hasAnnotations : Lookup(obj.annotations, a.key) = <<a.value>>
        /\ \A f \in c.and :
               LET got == Text(obj, f.fieldPath)
               IN  \/ f.operator = "Equals" /\ got = <<f.value>>
                   \/ f.operator = "NotEquals" /\ got \notin {<<>>, <<f.value>>}
                   \/ f.operator = "In" /\ \E v \in f.values : got = <<v>>
                   \/ /\ f.operator = "NotIn" /\ got # <<>>
                      /\ \A v \in f.values : got # <<v>>

\* The lifetimes a spec gives an object: from when, for how many seconds.
FieldLifetimes(ttl, obj) ==
    LET value  == Lookup(obj.fields, ttl.fieldPath)
        number == value # <<>> /\ value[1][1] = "int"
        text   == Text(obj, ttl.fieldPath)
        mapped == text # <<>> /\ text[1] \in DOMAIN ttl.mappings
    IN  (IF number THEN {value[1][2]} ELSE {}) \cup
        (IF mapped THEN {ttl.mappings[text[1]]} ELSE {}) \cup
        {d[1] : d \in {x \in {ttl.default} :
            /\ x # <<>> /\ ~number /\ ~mapped
            /\ text # <<>> => DOMAIN ttl.mappings # {}}}

Lifetimes(ttl, obj) ==
    IF ttl.secondsAfterCreation # <<>>
    THEN {[from |-> obj.created, secs |-> ttl.secondsAfterCreation[1]]}
    ELSE IF ttl.fieldPath # ""
    THEN {[from |-> obj.created, secs |-> n] : n \in FieldLifetimes(ttl, obj)}
    ELSE {[from |-> t[1][2], secs |-> ttl.secondsAfter[1]] :
              t \in {x \in {Lookup(obj.fields, ttl.relativeTo)} :
                         ttl.secondsAfter # <<>> /\ x # <<>> /\ x[1][1] = "time"}}

\* Lifetimes a user can mean: positive, and within a time.Duration.
Sane(ttl, obj) ==
    \A life \in Lifetimes(ttl, obj) : life.secs \in 1..MaxDuration - 1

Due(spec, obj) ==
    \E life \in Lifetimes(spec.ttl, obj) : now > life.from + life.secs

\* Neither a path with an escaped dot outside the TTL, nor "In" the empty
\* string: the code reads both as never.
Plain(spec) ==
    /\ EscapedPaths \cap DOMAIN spec.target.fieldSelector = {}
    /\ \A c \in {x[1] : x \in {spec.conditions} \ {<<>>}} :
           /\ \A f \in c.and : f.fieldPath \notin EscapedPaths
           /\ \A l \in c.hasLabels : l.operator = "In" => l.value # ""

(***************************************************************************)
(* Properties                                                              *)
(***************************************************************************)

\* The variables stay within their types, whatever users and cluster do.
TypeOK ==
    /\ scene \in DOMAIN Scenes
    /\ config # <<>> =>
           /\ \A f \in Numbers : config[1][f] \in Int
           /\ config[1].deleteEnabled \in BOOLEAN
    /\ policy # <<>> => policy[1].asked \in Scenes[scene].specs
    /\ object # <<>> => object[1] \in Scenes[scene].objects
    /\ now \in 0..MaxNow
    /\ mapper \in BOOLEAN
    /\ \A k \in Kinds : Len(gvrCache[k]) <= 1
    /\ \A key \in informers : key.kind \in Kinds
    /\ limiter \in Nat
    /\ verdict \in Verdicts /\ outcome \in Outcomes
    /\ verdict = "planned" => config # <<>> /\ policy # <<>> /\ object # <<>>

\* evaluateResources with matchesSelectorsShared, meetsConditionsShared and
\* CalculateExpirationTime plans exactly the objects the policy means: the
\* selected ones that meet the conditions and whose lifetime is over, less
\* those the safety gate refuses.  (On the direct path the gate comes later.)
PlanIsIntended ==
    verdict \in {"kept", "planned"} /\ object # <<>> =>
        LET spec  == policy[1].spec
            obj   == object[1]
            meant == Selected(spec, obj) /\ Wanted(spec, obj) /\ Due(spec, obj)
            legal == Allowed(safetyGate, obj, spec.behavior)
        IN  Sane(spec.ttl, obj) /\ Plain(spec) =>
                /\ verdict = "planned" => meant
                /\ meant /\ legal => verdict = "planned"

\* Whatever was stored while the webhooks were missing or protected other
\* namespaces, whatever the case a kind was written in: an object is deleted
\* only in a namespace the policy names, or by a selector that selects
\* something; never in a namespace protected by nature or by the environment
\* the process runs in; never one of a protected kind; and never under the
\* emergency stop.
ScopeIsBounded ==
    [][object # <<>> /\ object' = <<>> =>
        LET target == policy[1].spec.target
        IN  /\ target.namespace = object[1].ns \/ hasSelector(target)
            /\ object[1].ns \notin protectedNamespaces
            /\ object[1].ns # "" =>
                   /\ object[1].ns # config[1].env.podNamespace
                   /\ \A ns \in config[1].env.protectedNamespaces :
                          object[1].ns # TrimSpace(ns)
            /\ object[1].kind \notin hardProtectedKinds
            /\ config[1].env.deleteEnabled \in {"", "true"}]_vars

\* Once the webhooks have accepted a policy, defaults and all, one thing alone
\* makes Reconcile refuse it as invalid: its namespace is protected in the
\* process that runs and was not in the one that reviewed it (a restart with
\* another environment, replicas that disagree).
ReviewedIsAccepted ==
    policy # <<>> /\ policy[1].reviewed # <<>> /\ verdict = "invalid" =>
        policy[1].spec.target.namespace \in
            safetyGate.protected \ policy[1].reviewed[1].protected

\* mutatePolicy adds defaults and takes nothing away that restrains: a dry run
\* stays one, a grace period, a propagation policy, a rate and a batch size
\* that were given are the ones stored, and no opt-in appears.  (An opt-in may
\* go: allowWorkloadDeletion given alone counts as no behavior at all.)
DefaultsNeverGrant ==
    policy # <<>> =>
        LET asked  == policy[1].asked.behavior
            stored == policy[1].spec.behavior
        IN  /\ stored.dryRun = asked.dryRun
            /\ stored.allowWorkloadDeletion => asked.allowWorkloadDeletion
            /\ stored.gracePeriodSeconds = asked.gracePeriodSeconds
            /\ asked.propagationPolicy \in {"", stored.propagationPolicy}
            /\ asked.maxDeletionsPerSecond \in {0, stored.maxDeletionsPerSecond}
            /\ asked.batchSize \in {0, stored.batchSize}

\* A 404 at deletion time means that the object is gone, never that it was
\* looked for under a guessed name: an informer that listed it, and the
\* resolver's cache, have its name from discovery.
GoneMeansGone == outcome = "gone" => object = <<>>

\* While the RESTMapper answers, a kind resolves to the name it is served
\* under: no guess made during an outage outlives it.
ResolvesWhenDiscovered ==
    \A kind \in DOMAIN Plural : mapper => ResolveGVR(kind) = Plural[kind]

\* The loop over the batches moves on: the batch size is positive, whatever
\* the environment and the policy say, unless --batch-size itself is not.
BatchMakesProgress ==
    verdict = "planned" =>
        \/ resolveBatchSize(policy[1].spec.behavior, config[1]) > 0
        \/ config[1].flags.batchSize # <<>> /\ config[1].flags.batchSize[1] <= 0

\* A delay of zero or less is no requeue: whatever evaluationInterval a
\* policy has, a cycle is followed by another one, unless the interval of the
\* controller itself, by environment or flag, is no delay.
CycleRepeats ==
    verdict \in {"kept", "planned", "done"} =>
        \/ EffectiveEvaluationInterval(policy[1].spec, config[1]) > 0
        \/ config[1].env.interval.is = "int" /\ config[1].env.interval.n <= 0
        \/ config[1].flags.interval # <<>> /\ config[1].flags.interval[1] <= 0

\* Deletions run at the rate of the policy as it is stored now, although the
\* limiter outlives the spec it was made for.  A policy without a rate should
\* run at the one the process is configured with; it does so only where that
\* is the built-in default, because getOrCreateRateLimiterShared never reads
\* the configuration.
PacedByPolicy ==
    verdict = "planned" =>
        LET rate == policy[1].spec.behavior.maxDeletionsPerSecond
        IN  \/ limiter = IF rate > 0 THEN rate ELSE config[1].maxDeletionsPerSecond
            \/ /\ rate <= 0
               /\ config[1].maxDeletionsPerSecond # DefaultMaxDeletionsPerSecond
               /\ limiter = DefaultMaxDeletionsPerSecond

(***************************************************************************)
(* The inductive invariant                                                 *)
(***************************************************************************)

\* What is stored is a spec, and a valid one if the webhooks have seen it.
StoredIsSpec ==
    policy # <<>> =>
        /\ IsSpec(policy[1].spec)
        /\ policy[1].reviewed # <<>> =>
               /\ ValidatePolicy(policy[1].spec)
               /\ EvaluatePolicyTarget(policy[1].reviewed[1], policy[1].spec.target) = ""

\* The process runs on one of the starts.
ConfigIsMade ==
    config # <<>> =>
        \E start \in Scenes[scene].starts :
            config[1] = Configuration(start)

\* GVRResolver.cache holds nothing but names from discovery.
CacheIsDiscovered ==
    /\ DOMAIN gvrCache = Kinds
    /\ \A k \in Kinds : gvrCache[k] # <<>> =>
           k \in DOMAIN Plural /\ gvrCache[k] = <<Plural[k]>>

\* Whoever watches a target has its name, by discovery or by a good guess,
\* and keeps it.
InformersAreServed ==
    \A key \in informers :
        /\ \E k \in Folds(key.kind) : GroupOf[k] = key.apiVersion
        /\ \/ gvrCache[key.kind] # <<>>
           \/ \E k \in Folds(key.kind) : PluralizeKind(key.kind) = Plural[k]

\* The verdict is about what is there now.
VerdictStands ==
    /\ verdict \in {"invalid", "kept", "planned", "done"} =>
           config # <<>> /\ policy # <<>>
    /\ verdict = "invalid" => ~RuntimeValid(policy[1].spec)
    /\ verdict \in {"kept", "planned"} =>
           /\ RuntimeValid(policy[1].spec)
           /\ TargetKey(policy[1].spec.target) \in informers
           /\ \E direct \in BOOLEAN :
                  Planned(policy[1].spec, direct) <=> verdict = "planned"

\* Configuration, names and the last verdict stay true together.
IInv ==
    /\ TypeOK
    /\ StoredIsSpec
    /\ DefaultsNeverGrant
    /\ ConfigIsMade
    /\ CacheIsDiscovered
    /\ InformersAreServed
    /\ VerdictStands
    /\ PacedByPolicy
    /\ GoneMeansGone
=============================================================================
