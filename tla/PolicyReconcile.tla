-------------------------- MODULE PolicyReconcile --------------------------
(***************************************************************************)
(* The reconcile loop of the leading process over its policies             *)
(* (pkg/controller): fetch from the manager's cache, runtime validation,   *)
(* target capability and its failure counts, informers and evaluation      *)
(* services per target, the maps keyed by policy UID, the status           *)
(* subresource and the work queue.                                         *)
(*                                                                         *)
(* There is one reconcile goroutine (MaxConcurrentReconciles is 1).  Users *)
(* create, edit and delete policies, and targets become available and      *)
(* unavailable, between any two of its steps.  What a cleanup cycle does   *)
(* to the objects is the subject of DeletionPath; here it is one step.     *)
(***************************************************************************)
EXTENDS Naturals

CONSTANTS
    Names,           \* namespaced names of policies
    Targets,         \* targets: apiVersion, kind and namespace
    Malformed,       \* targets whose apiVersion has no version
    Specs,           \* the policy specs users write
    Outages,         \* why the API server may refuse a target
    CleanupInterval, \* EffectiveEvaluationInterval
    targetBackoffBase, targetBackoffCap,
    MaxUid,          \* bound: number of policies ever created
    MaxFailures,     \* bound: failure counts saturate here
    NoSpec, NoName

Classes ==
    {"TARGET_API_NOT_FOUND", "TARGET_RESOURCE_NOT_DISCOVERABLE",
     "TARGET_ACCESS_DENIED", "TARGET_TEMPORARILY_UNAVAILABLE"}

\* TargetBackoffFor: the base, doubled for each further failure, capped.
Doubled[n \in Nat] ==
    IF n <= 1 THEN targetBackoffBase
    ELSE IF 2 * Doubled[n - 1] >= targetBackoffCap THEN targetBackoffCap
    ELSE 2 * Doubled[n - 1]

TargetBackoffFor(consecutiveFailures) == Doubled[consecutiveFailures]

\* Saturation does not change a delay.
ASSUME PolicyAssumption ==
    /\ MaxUid \in Nat
    /\ MaxFailures \in Nat \ {0}
    /\ CleanupInterval \in Nat \ {0}
    /\ targetBackoffBase \in Nat \ {0}
    /\ targetBackoffCap \in Nat \ {0}
    /\ Malformed \subseteq Targets
    /\ Outages \subseteq Classes
    /\ Specs \subseteq [target : Targets, paused : BOOLEAN, valid : BOOLEAN]
    /\ NoName \notin Names

ASSUME SaturationAssumption ==
    TargetBackoffFor(MaxFailures) = targetBackoffCap

VARIABLES
    policy,             \* the API server's policies, by name
    nextUid,            \* the next policy UID
    surface,            \* "served", or why a target is refused
    known,              \* the manager's cache of the policies
    event,              \* watch event that is under way to the cache
    queue,              \* the work queue: why a name is in it
    timer,              \* delay last asked for and not over, 0 if none
    rec,                \* the reconcile in progress
    policyUIDs,         \* name -> UID
    policySpecs,        \* UIDs whose spec is tracked
    rateLimiters,       \* UIDs that have a rate limiter
    targetFailures,     \* UID -> consecutive failures
    targetProbes,       \* targets whose grant is cached
    resourceInformers,  \* target -> "none", "syncing" or "synced"
    evaluationServices, \* targets that have a service
    faulty              \* history: names that had an invalid or malformed spec

vars == <<policy, nextUid, surface, known, event, queue, timer, rec,
          policyUIDs, policySpecs, rateLimiters, targetFailures, targetProbes,
          resourceInformers, evaluationServices, faulty>>

tables == <<policyUIDs, policySpecs, rateLimiters, targetFailures,
            targetProbes, resourceInformers, evaluationServices>>

cluster == <<policy, nextUid, surface, known, event, faulty>>

(***************************************************************************)
(* Data                                                                    *)
(***************************************************************************)

Uids == 1..MaxUid

ConditionTypes == {"Ready", "Error", "TargetReady"}

Reasons == Classes \cup
    {"TARGET_CONFIGURATION_INVALID", "TargetAvailable", "PolicyInvalid",
     "PolicyActive", "PolicyPaused", "PolicyError", "EvaluationFailed", ""}

\* status "": the condition is not there.
Condition == [status : {"", "True", "False"}, reason : Reasons]

NoCondition == [status |-> "", reason |-> ""]

PolicyPhases == {"", "Active", "Paused", "Error"}

Status == [phase : PolicyPhases, conditions : [ConditionTypes -> Condition]]

NoStatus == [phase |-> "", conditions |-> [c \in ConditionTypes |-> NoCondition]]

Policy == [uid : 0..MaxUid, spec : Specs \cup {NoSpec}, status : Status]

NoPolicy == [uid |-> 0, spec |-> NoSpec, status |-> NoStatus]

\* What the reconcile loop uses of the policy it fetched.
Copy == [uid : 0..MaxUid, spec : Specs \cup {NoSpec}, phase : PolicyPhases]

CopyOf(pol) == [uid |-> pol.uid, spec |-> pol.spec, phase |-> pol.status.phase]

NoCopy == CopyOf(NoPolicy)

\* invalid, granted, refused, status: the goroutine is writing the status.
Writing == {"invalid", "granted", "refused", "status"}

Reconciling ==
    [pc       : {"idle", "target", "sync", "cycle"} \cup Writing,
     name     : Names \cup {NoName},
     pol      : Copy,
     direct   : BOOLEAN,         \* on the path without evaluation service
     class    : Reasons,         \* class of the capability failure
     got      : BOOLEAN,         \* the policy was read for the status write
     fresh    : BOOLEAN]         \* and has not changed since

Idle == [pc |-> "idle", name |-> NoName, pol |-> NoCopy, direct |-> FALSE,
         class |-> "", got |-> FALSE, fresh |-> FALSE]

Init ==
    /\ policy = [p \in Names |-> NoPolicy]
    /\ nextUid = 1
    /\ surface \in [Targets -> {"served"} \cup Outages]
    /\ known = [p \in Names |-> NoCopy]
    /\ event = [p \in Names |-> "none"]
    /\ queue = [p \in Names |-> "none"]
    /\ timer = [p \in Names |-> 0]
    /\ rec = Idle
    /\ policyUIDs = [p \in Names |-> 0]
    /\ policySpecs = {}
    /\ rateLimiters = {}
    /\ targetFailures = [u \in Uids |-> 0]
    /\ targetProbes = {}
    /\ resourceInformers = [t \in Targets |-> "none"]
    /\ evaluationServices = {}
    /\ faulty = {}

Target == rec.pol.spec.target

(***************************************************************************)
(* Reconcile, up to the evaluation                                         *)
(***************************************************************************)

\* The goroutine takes p from the work queue.
Takes(p) ==
    /\ rec.pc = "idle"
    /\ queue[p] # "none"
    /\ queue' = [queue EXCEPT ![p] = "none"]

Requeue(p, delay) == timer' = [timer EXCEPT ![p] = delay]

\* handlePolicyFetchError: the error is returned, the queue tries again.
FetchFails(p) ==
    /\ Takes(p)
    /\ Requeue(p, 1)
    /\ UNCHANGED <<cluster, rec, tables>>

\* Mutant: the rate limiter is not cleaned up.
Forget_KeepsLimiter(p) ==
    /\ Takes(p)
    /\ known[p].uid = 0
    /\ policyUIDs' = [policyUIDs EXCEPT ![p] = 0]
    /\ policySpecs' = policySpecs \ {policyUIDs[p]}
    /\ UNCHANGED <<cluster, timer, rec, rateLimiters, targetFailures,
                   targetProbes, resourceInformers, evaluationServices>>

\* Mutant: the policy's name is not looked up in the maps.
Forget_Nothing(p) ==
    /\ Takes(p)
    /\ known[p].uid = 0
    /\ UNCHANGED <<cluster, timer, rec, tables>>

\* handlePolicyDeletion, cleanupPolicyResources: informers and failure counts
\* stay.
Forget(p) ==
    /\ Takes(p)
    /\ known[p].uid = 0
    /\ policyUIDs' = [policyUIDs EXCEPT ![p] = 0]
    /\ policySpecs' = policySpecs \ {policyUIDs[p]}
    /\ rateLimiters' = rateLimiters \ {policyUIDs[p]}
    /\ UNCHANGED <<cluster, timer, rec, targetFailures, targetProbes,
                   resourceInformers, evaluationServices>>

\* Runtime validation failed: only the status is written.
RejectInvalid(p) ==
    /\ Takes(p)
    /\ known[p].uid # 0
    /\ ~known[p].spec.valid
    /\ rec' = [Idle EXCEPT !.pc = "invalid", !.name = p,
                           !.pol = [known[p] EXCEPT !.phase = "Error"]]
    /\ UNCHANGED <<cluster, timer, tables>>

\* trackPolicyUID, handleInformerRecreation, trackPolicySpec.
Tracks(p) ==
    /\ Takes(p)
    /\ known[p].uid # 0
    /\ known[p].spec.valid
    /\ policyUIDs' = [policyUIDs EXCEPT ![p] = known[p].uid]
    /\ policySpecs' = policySpecs \cup {known[p].uid}
    /\ UNCHANGED <<cluster, rateLimiters, targetFailures, targetProbes,
                   resourceInformers, evaluationServices>>

\* Mutant: a paused policy is not requeued.
SkipPaused_NoRequeue(p) ==
    /\ Tracks(p)
    /\ known[p].spec.paused
    /\ UNCHANGED <<timer, rec>>

\* handlePausedPolicy: the status is not written.
SkipPaused(p) ==
    /\ Tracks(p)
    /\ known[p].spec.paused
    /\ Requeue(p, CleanupInterval)
    /\ UNCHANGED rec

Begin(p) ==
    /\ Tracks(p)
    /\ ~known[p].spec.paused
    /\ rec' = [Idle EXCEPT !.pc = "target", !.name = p, !.pol = known[p]]
    /\ UNCHANGED timer

(***************************************************************************)
(* evaluatePolicy: the service's path first, the direct one if that fails  *)
(***************************************************************************)

Goto(pc) == rec' = [rec EXCEPT !.pc = pc]

\* The reconcile ends and asks to be called again.
Finish(delay) ==
    /\ rec' = Idle
    /\ Requeue(rec.name, delay)

\* The service's path failed: the direct path does everything again.
FallBack == rec' = [Idle EXCEPT !.pc = "target", !.name = rec.name,
                                !.pol = rec.pol, !.direct = TRUE]

\* getOrCreateEvaluationService: the service is there.
FindService ==
    /\ rec.pc = "target"
    /\ ~rec.direct
    /\ Target \in evaluationServices
    /\ Goto("cycle")
    /\ UNCHANGED <<cluster, queue, timer, tables>>

NeedsInformer ==
    /\ rec.pc = "target"
    /\ rec.direct \/ Target \notin evaluationServices

\* The informer is there; the service is built on it.
Proceed ==
    /\ evaluationServices' = IF rec.direct THEN evaluationServices
                             ELSE evaluationServices \cup {Target}
    /\ Goto("cycle")

FindInformer ==
    /\ NeedsInformer
    /\ resourceInformers[Target] # "none"
    /\ Proceed
    /\ UNCHANGED <<cluster, queue, timer, policyUIDs, policySpecs,
                   rateLimiters, targetFailures, targetProbes,
                   resourceInformers>>

NeedsProbe ==
    /\ NeedsInformer
    /\ resourceInformers[Target] = "none"

\* ValidateTargetCapability grants: from the cache, or by discovery and list.
\* validateTargetOrClassify clears the failures and writes the condition.
ProbeGranted ==
    /\ NeedsProbe
    /\ Target \notin Malformed
    /\ Target \in targetProbes \/ surface[Target] = "served"
    /\ targetProbes' = targetProbes \cup {Target}
    /\ targetFailures' = [targetFailures EXCEPT ![rec.pol.uid] = 0]
    /\ Goto("granted")
    /\ UNCHANGED <<cluster, queue, timer, policyUIDs, policySpecs,
                   rateLimiters, resourceInformers, evaluationServices>>

\* Why a probe of t may be refused now; any call may fail.
Refusal(t) ==
    IF t \in Malformed THEN {"TARGET_CONFIGURATION_INVALID"}
    ELSE IF t \in targetProbes THEN {}
    ELSE ({surface[t]} \ {"served"}) \cup {"TARGET_TEMPORARILY_UNAVAILABLE"}

\* Failures are not cached.
ProbeRefused ==
    /\ NeedsProbe
    /\ \E class \in Refusal(Target) :
          rec' = [rec EXCEPT !.pc = "refused", !.class = class]
    /\ UNCHANGED <<cluster, queue, timer, tables>>

\* Mutant: the informer that did not sync stays in the map.
SyncFails_KeepsInformer ==
    /\ rec.pc = "sync"
    /\ IF rec.direct THEN Finish(30) ELSE FallBack /\ UNCHANGED timer
    /\ UNCHANGED <<cluster, queue, tables>>

\* WaitForCacheSync fails: the informer leaves the map, its reflector runs on.
SyncFails ==
    /\ rec.pc = "sync"
    /\ resourceInformers' = [resourceInformers EXCEPT ![Target] = "none"]
    /\ IF rec.direct THEN Finish(30) ELSE FallBack /\ UNCHANGED timer
    /\ UNCHANGED <<cluster, queue, policyUIDs, policySpecs, rateLimiters,
                   targetFailures, targetProbes, evaluationServices>>

SyncSucceeds ==
    /\ rec.pc = "sync"
    /\ surface[Target] = "served"
    /\ resourceInformers' = [resourceInformers EXCEPT ![Target] = "synced"]
    /\ Proceed
    /\ UNCHANGED <<cluster, queue, timer, policyUIDs, policySpecs,
                   rateLimiters, targetFailures, targetProbes>>

\* One cleanup cycle; it makes a rate limiter when it has something to delete.
Cycle(limiter) ==
    /\ rec.pc = "cycle"
    /\ rateLimiters' = IF limiter THEN rateLimiters \cup {rec.pol.uid}
                       ELSE rateLimiters
    /\ Goto("status")
    /\ UNCHANGED <<cluster, queue, timer, policyUIDs, policySpecs,
                   targetFailures, targetProbes, resourceInformers,
                   evaluationServices>>

(***************************************************************************)
(* The status subresource: StatusUpdater reads the policy by name and      *)
(* writes it back, so that a change in between is a conflict               *)
(***************************************************************************)

boolStatus(v) == IF v THEN "True" ELSE "False"

\* UpdateTargetCondition replaces one condition.
WithCondition(status, type, reason, permanent) ==
    [status EXCEPT
        !.conditions[type] = [status |-> boolStatus(permanent),
                              reason |-> reason],
        !.phase = IF permanent THEN "Error" ELSE @]

\* An Error phase is preserved, by a successful evaluation too.
statusPhaseFor(pol) ==
    IF pol.phase = "Error" THEN "Error"
    ELSE IF pol.spec.paused THEN "Paused" ELSE "Active"

statusConditionsFor(phase) ==
    LET ready == [status |-> boolStatus(phase = "Active"),
                  reason |-> CASE phase = "Error"  -> "PolicyError"
                               [] phase = "Paused" -> "PolicyPaused"
                               [] OTHER            -> "PolicyActive"]
        error == [status |-> "True", reason |-> "EvaluationFailed"]
    IN  [c \in ConditionTypes |->
            IF c = "Ready" THEN ready
            ELSE IF c = "Error" /\ phase = "Error" THEN error
            ELSE NoCondition]

\* UpdateStatus: phase and conditions are replaced as a whole.
Evaluated(pol) ==
    [phase |-> statusPhaseFor(pol),
     conditions |-> statusConditionsFor(statusPhaseFor(pol))]

\* Mutant: every failed probe counts as permanent.
Permanent_Any(class) == TRUE

\* reconcileTargetCondition: only a malformed target is a permanent failure.
Permanent(class) == class = "TARGET_CONFIGURATION_INVALID"

\* What the goroutine writes at its place in the reconcile.
Written(status) ==
    CASE rec.pc = "invalid" ->
            WithCondition(status, "Ready", "PolicyInvalid", TRUE)
      [] rec.pc = "granted" ->
            WithCondition(status, "TargetReady", "TargetAvailable", FALSE)
      [] rec.pc = "refused" ->
            WithCondition(status, "TargetReady", rec.class,
                          Permanent(rec.class))
      [] OTHER -> Evaluated(rec.pol)

\* Mutant: an invalid policy is not requeued.
AfterInvalid_NoRequeue ==
    /\ rec.pc = "invalid"
    /\ rec' = Idle
    /\ UNCHANGED <<timer, tables>>

\* Reconcile of an invalid policy ends; errors of the write are only logged.
AfterInvalid ==
    /\ rec.pc = "invalid"
    /\ Finish(3600)
    /\ UNCHANGED tables

\* getOrCreateResourceInformer starts the informer.
AfterGranted ==
    /\ rec.pc = "granted"
    /\ resourceInformers' = [resourceInformers EXCEPT ![Target] = "syncing"]
    /\ rec' = [rec EXCEPT !.pc = "sync", !.got = FALSE, !.fresh = FALSE]
    /\ UNCHANGED <<timer, policyUIDs, policySpecs, rateLimiters,
                   targetFailures, targetProbes, evaluationServices>>

recordTargetFailure(uid) ==
    IF targetFailures[uid] < MaxFailures THEN targetFailures[uid] + 1
    ELSE MaxFailures

\* Mutant: a failed target is not tried again.
AfterRefused_NoRequeue ==
    /\ rec.pc = "refused"
    /\ targetFailures' = [targetFailures EXCEPT
                             ![rec.pol.uid] = recordTargetFailure(rec.pol.uid)]
    /\ IF rec.direct THEN rec' = Idle ELSE FallBack
    /\ UNCHANGED <<timer, policyUIDs, policySpecs, rateLimiters, targetProbes,
                   resourceInformers, evaluationServices>>

\* The failure is counted on both paths; the direct one ends the reconcile
\* (handleEvaluationError).
AfterRefused ==
    /\ rec.pc = "refused"
    /\ targetFailures' = [targetFailures EXCEPT
                             ![rec.pol.uid] = recordTargetFailure(rec.pol.uid)]
    /\ IF rec.direct THEN Finish(TargetBackoffFor(targetFailures'[rec.pol.uid]))
       ELSE FallBack /\ UNCHANGED timer
    /\ UNCHANGED <<policyUIDs, policySpecs, rateLimiters, targetProbes,
                   resourceInformers, evaluationServices>>

\* A failed status write is an error of the evaluation, unless it timed out.
AfterStatus(written) ==
    /\ rec.pc = "status"
    /\ \/ Finish(CleanupInterval)
       \/ ~written /\ Finish(30)
    /\ UNCHANGED tables

AfterWrite(written) ==
    \/ AfterInvalid
    \/ AfterGranted
    \/ AfterRefused
    \/ AfterStatus(written)

ReadForStatus ==
    /\ rec.pc \in Writing
    /\ ~rec.got
    /\ policy[rec.name].uid # 0
    /\ rec' = [rec EXCEPT !.got = TRUE, !.fresh = TRUE]
    /\ UNCHANGED <<cluster, queue, timer, tables>>

\* A read or a write that fails, on a conflict for instance.
WriteFails ==
    /\ rec.pc \in Writing
    /\ AfterWrite(FALSE)
    /\ UNCHANGED <<cluster, queue>>

\* The write takes effect; answered FALSE: the answer is lost.  Its time
\* stamps have a resolution of a second: a write that changes nothing else
\* causes a watch event only if the second is a new one (newSecond).
WriteSucceeds(answered, newSecond) ==
    LET p == rec.name
        status == Written(policy[p].status)
        changed == newSecond \/ status # policy[p].status
    IN  /\ rec.pc \in Writing
        /\ rec.got
        /\ rec.fresh
        /\ policy' = [policy EXCEPT ![p].status = status]
        /\ event' = [event EXCEPT ![p] = IF changed /\ @ = "none" THEN "own"
                                         ELSE @]
        /\ AfterWrite(answered)
        /\ UNCHANGED <<nextUid, surface, known, faulty, queue>>

(***************************************************************************)
(* The manager: watch, timers, expiry of grants, restart                   *)
(***************************************************************************)

\* Watch events are applied to the cache; the name is enqueued.
Deliver(p) ==
    /\ event[p] # "none"
    /\ known' = [known EXCEPT ![p] = CopyOf(policy[p])]
    /\ event' = [event EXCEPT ![p] = "none"]
    /\ queue' = [queue EXCEPT ![p] = IF event[p] = "user" THEN "asked"
                                     ELSE IF @ = "none" THEN "own" ELSE @]
    /\ UNCHANGED <<policy, nextUid, surface, timer, rec, tables, faulty>>

\* A delay is over; an earlier one that is still pending may end first.
Fire(p) ==
    /\ timer[p] # 0
    /\ timer' = [timer EXCEPT ![p] = 0]
    /\ queue' = [queue EXCEPT ![p] = "asked"]
    /\ UNCHANGED <<cluster, rec, tables>>

\* targetProbeCacheTTL
GrantExpires(t) ==
    /\ t \in targetProbes
    /\ targetProbes' = targetProbes \ {t}
    /\ UNCHANGED <<cluster, queue, timer, rec, policyUIDs, policySpecs,
                   rateLimiters, targetFailures, resourceInformers,
                   evaluationServices>>

\* Another process takes over: its tables are empty, its cache lists all.
Restart ==
    /\ known' = [p \in Names |-> NoCopy]
    /\ event' = [p \in Names |-> IF policy[p].uid # 0 THEN "user" ELSE "none"]
    /\ queue' = [p \in Names |-> "none"]
    /\ timer' = [p \in Names |-> 0]
    /\ rec' = Idle
    /\ policyUIDs' = [p \in Names |-> 0]
    /\ policySpecs' = {}
    /\ rateLimiters' = {}
    /\ targetFailures' = [u \in Uids |-> 0]
    /\ targetProbes' = {}
    /\ resourceInformers' = [t \in Targets |-> "none"]
    /\ evaluationServices' = {}
    /\ UNCHANGED <<policy, nextUid, surface, faulty>>

(***************************************************************************)
(* Users and the cluster                                                   *)
(***************************************************************************)

\* A policy that validation or the target's probe finds fault with for good.
Faulty(pol) ==
    pol.uid # 0 /\ (~pol.spec.valid \/ pol.spec.target \in Malformed)

\* A user changes the policy p: a status write that read it before conflicts.
UserChanges(p, pol) ==
    /\ policy' = [policy EXCEPT ![p] = pol]
    /\ event' = [event EXCEPT ![p] = "user"]
    /\ rec' = IF rec.name = p THEN [rec EXCEPT !.fresh = FALSE] ELSE rec
    /\ faulty' = IF Faulty(pol) THEN faulty \cup {p} ELSE faulty
    /\ UNCHANGED <<surface, known, queue, timer, tables>>

CreatePolicy(p, spec) ==
    /\ policy[p].uid = 0
    /\ nextUid <= MaxUid
    /\ UserChanges(p, [uid |-> nextUid, spec |-> spec, status |-> NoStatus])
    /\ nextUid' = nextUid + 1

EditPolicy(p, spec) ==
    /\ policy[p].uid # 0
    /\ policy[p].spec # spec
    /\ UserChanges(p, [policy[p] EXCEPT !.spec = spec])
    /\ UNCHANGED nextUid

DeletePolicy(p) ==
    /\ policy[p].uid # 0
    /\ UserChanges(p, NoPolicy)
    /\ UNCHANGED nextUid

SurfaceChanges(t, state) ==
    /\ surface[t] # state
    /\ surface' = [surface EXCEPT ![t] = state]
    /\ UNCHANGED <<policy, nextUid, known, event, faulty, queue, timer, rec,
                   tables>>

-----------------------------------------------------------------------------

Start(p) ==
    \/ Forget(p)
    \/ RejectInvalid(p)
    \/ SkipPaused(p)
    \/ Begin(p)

\* A step of the reconcile in progress.
ReconcileStep ==
    \/ FindService
    \/ FindInformer
    \/ ProbeGranted
    \/ ProbeRefused
    \/ SyncFails
    \/ SyncSucceeds
    \/ \E limiter \in BOOLEAN : Cycle(limiter)
    \/ ReadForStatus
    \/ WriteFails
    \/ \E answered, newSecond \in BOOLEAN : WriteSucceeds(answered, newSecond)

ManagerStep ==
    \/ \E p \in Names : Deliver(p) \/ Fire(p)
    \/ \E t \in Targets : GrantExpires(t)

UserStep ==
    \/ \E p \in Names, spec \in Specs : CreatePolicy(p, spec)
    \/ \E p \in Names, spec \in Specs : EditPolicy(p, spec)
    \/ \E p \in Names : DeletePolicy(p)
    \/ \E t \in Targets, state \in {"served"} \cup Outages :
          SurfaceChanges(t, state)

Next ==
    \/ \E p \in Names : Start(p) \/ FetchFails(p)
    \/ ReconcileStep
    \/ ManagerStep
    \/ Restart
    \/ UserStep

Spec == Init /\ [][Next]_vars

\* The goroutine keeps going and API calls return; the queue is first come,
\* first served; watch events arrive and timers fire; no process is replaced
\* for ever; calls that can succeed and are tried again and again do so.
FairSpec ==
    /\ Spec
    /\ <>[][~Restart]_vars
    /\ WF_vars(ReconcileStep)
    /\ \A p \in Names : SF_vars(Start(p)) /\ WF_vars(Deliver(p)) /\ WF_vars(Fire(p))
    /\ SF_vars(ProbeGranted)
    /\ SF_vars(SyncSucceeds)
    /\ SF_vars(ReadForStatus)
    /\ SF_vars(\E newSecond \in BOOLEAN : WriteSucceeds(TRUE, newSecond))

(***************************************************************************)
(* Safety                                                                  *)
(***************************************************************************)

\* Type correctness.
TypeOK ==
    /\ policy \in [Names -> Policy]
    /\ nextUid \in 1..MaxUid + 1
    /\ surface \in [Targets -> {"served"} \cup Outages]
    /\ known \in [Names -> Copy]
    /\ event \in [Names -> {"none", "own", "user"}]
    /\ queue \in [Names -> {"none", "own", "asked"}]
    /\ timer \in [Names -> Nat]
    /\ rec \in Reconciling
    /\ policyUIDs \in [Names -> 0..MaxUid]
    /\ policySpecs \subseteq Uids
    /\ rateLimiters \subseteq Uids
    /\ targetFailures \in [Uids -> 0..MaxFailures]
    /\ targetProbes \subseteq Targets
    /\ resourceInformers \in [Targets -> {"none", "syncing", "synced"}]
    /\ evaluationServices \subseteq Targets
    /\ faulty \subseteq Names

\* Something will make the controller reconcile p.
Scheduled(p) ==
    \/ event[p] # "none"
    \/ queue[p] # "none"
    \/ timer[p] # 0
    \/ rec.name = p

\* Whatever path a reconcile takes and whatever fails on it, a policy that
\* exists and a deleted one that is still tracked have a reconcile to come
\* (the returns of Reconcile, handleEvaluationError, handlePausedPolicy).
NoPolicyForgotten ==
    \A p \in Names :
        policy[p].uid # 0 \/ policyUIDs[p] # 0 => Scheduled(p)

\* A policy with a rate limiter has a tracked spec, and so has the policy a
\* name stands for: cleanupPolicyResources takes all of them together.
MapsAgree ==
    /\ rateLimiters \subseteq policySpecs
    /\ \A p \in Names : policyUIDs[p] # 0 => policyUIDs[p] \in policySpecs

\* The maps hold something for u and no name leads to it any more.
Lost(u) ==
    /\ u \in policySpecs \cup rateLimiters
    /\ \A p \in Names : policyUIDs[p] # u

\* cleanupPolicyResources finds a policy's entries by the UID of its name.  Only
\* trackPolicyUID loses them, for ever, when the policy was deleted and created
\* again before the reconcile that would have cleaned up; no deletion, cycle,
\* failure or outage does.
LostOnlyByReplacement ==
    [][\A u \in Uids : ~Lost(u) /\ Lost(u)' =>
          \E p \in Names : policyUIDs[p] = u /\ policyUIDs'[p] \notin {0, u}]_vars

\* A cycle and a service read the store of an informer that is in the map and
\* has synced, although failed syncs remove it and both paths create it
\* (getOrCreateResourceInformer, getOrCreateEvaluationService).
StoreIsSynced ==
    /\ rec.pc = "cycle" => resourceInformers[Target] = "synced"
    /\ \A t \in evaluationServices : resourceInformers[t] = "synced"

\* UpdateTargetCondition: transient unavailability does not flip a policy to
\* Error; only a name whose policy was invalid or malformed shows it.
TransientNeverError ==
    \A p \in Names : policy[p].status.phase = "Error" => p \in faulty

(***************************************************************************)
(* The inductive invariant behind the safety properties                    *)
(***************************************************************************)

\* The reconcile in progress: whose it is and what its place implies.
ReconcileOK ==
    /\ rec.pc = "idle" <=> rec.name = NoName
    /\ rec.pc # "idle" => rec.pol.uid # 0 /\ rec.pol.spec \in Specs
    /\ rec.pc \notin {"idle", "invalid"} => rec.pol.uid \in policySpecs
    /\ rec.pc \in {"cycle", "status"} => resourceInformers[Target] = "synced"
    /\ rec.pc = "sync" => resourceInformers[Target] = "syncing"
    /\ rec.pc \in {"granted", "refused"} => resourceInformers[Target] = "none"
    /\ \A t \in Targets : resourceInformers[t] = "syncing" =>
            rec.pc = "sync" /\ t = Target

\* Faults leave their mark on every copy of a policy.
FaultsMarked ==
    /\ TransientNeverError
    /\ \A p \in Names :
        known[p].phase = "Error" \/ Faulty(known[p]) \/ Faulty(policy[p])
            => p \in faulty
    /\ rec.pc = "invalid" \/ rec.pol.phase = "Error" => rec.name \in faulty
    /\ rec.class = "TARGET_CONFIGURATION_INVALID" => rec.name \in faulty
    /\ rec.pc # "idle" /\ Target \in Malformed => rec.name \in faulty

\* The UIDs a name has had, as far as the API server, the cache and the maps
\* still know of them.
UidsOf(p) == {policy[p].uid, known[p].uid, policyUIDs[p]}

\* No UID goes to two names: to forget one never takes from another.
UidsDistinct ==
    /\ \A p \in Names : \A u \in UidsOf(p) : u < nextUid
    /\ \A p, q \in Names : p # q => UidsOf(p) \cap UidsOf(q) \subseteq {0}

\* With no event under way the cache knows which policy a name stands for.
CacheIsCurrent ==
    \A p \in Names : event[p] = "none" => known[p].uid = policy[p].uid

\* A policy that exists has a spec that some user wrote.
SpecsKnown ==
    \A p \in Names :
        /\ policy[p].uid # 0 => policy[p].spec \in Specs
        /\ known[p].uid # 0 => known[p].spec \in Specs

\* Reconcile keeps its tables, its schedule and its verdicts consistent.
IInv ==
    /\ TypeOK
    /\ NoPolicyForgotten
    /\ MapsAgree
    /\ StoreIsSynced
    /\ ReconcileOK
    /\ FaultsMarked
    /\ UidsDistinct
    /\ CacheIsCurrent
    /\ SpecsKnown

(***************************************************************************)
(* Liveness                                                                *)
(***************************************************************************)

Workable(p) ==
    /\ policy[p].uid # 0
    /\ policy[p].spec.valid
    /\ ~policy[p].spec.paused
    /\ policy[p].spec.target \notin Malformed
    /\ surface[policy[p].spec.target] = "served"

\* Recovery is automatic: a policy that stays valid and active and whose
\* target stays available is evaluated again and again, whatever failed before
\* (validateTargetOrClassify, handleEvaluationError).
RecoveryIsAutomatic ==
    \A p \in Names :
        <>[]Workable(p) =>
            []<>(rec.pc = "cycle" /\ rec.pol.uid = policy[p].uid)

\* A policy that is deleted for good leaves all the maps, unless a new policy of
\* its name has taken its place in policyUIDs (handlePolicyDeletion,
\* trackPolicyUID): then its spec and its rate limiter stay.
DeletedIsForgotten ==
    \A p \in Names : <>[](policy[p].uid = 0) =>
        /\ <>[](policyUIDs[p] = 0)
        /\ \A u \in Uids :
              [](policyUIDs[p] = u => <>(\/ u \notin policySpecs \cup rateLimiters
                                       \/ policyUIDs[p] \notin {0, u}))

Unfit(pol) ==
    /\ pol.uid # 0
    /\ ~pol.spec.valid \/ (~pol.spec.paused /\ pol.spec.target \in Malformed)

\* A policy that stays invalid or keeps a malformed target ends up in phase
\* Error, although a failed write of its condition is only logged (Reconcile's
\* runtime validation, validateTargetOrClassify).
InvalidIsReported ==
    \A p \in Names :
        <>[]Unfit(policy[p]) => <>[](policy[p].status.phase = "Error")

(***************************************************************************)
(* What the repository says of the reconcile loop and the code does not do *)
(***************************************************************************)

\* handleEvaluationError: no hot loop: a failing policy is tried again when
\* its backoff is over or someone changed it.
NoHotLoop ==
    [][rec.pc = "idle" /\ rec'.pc = "target" /\ targetFailures[rec'.pol.uid] > 0 =>
          queue[rec'.name] = "asked"]_vars
=============================================================================
