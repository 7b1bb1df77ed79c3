---------------------------- MODULE DeletionPath ----------------------------
(***************************************************************************)
(* One cleanup cycle of zen-cleaner against a live API server: evaluation  *)
(* of an informer snapshot, batched deletion with the safety gate, the     *)
(* live UID check and bounded retries, the execution receipt and the       *)
(* status report (pkg/controller).                                         *)
(*                                                                         *)
(* A worker is one replica: its single reconcile goroutine.  The API       *)
(* server serves requests at any time, so a DELETE is a message on `wire`  *)
(* that may be served after its sender timed out, lost its lease or died.  *)
(* Other clients create, change and remove objects at any time.            *)
(***************************************************************************)
EXTENDS SafetyGate, Naturals, FiniteSets

CONSTANTS
    Workers,     \* controller replicas
    Keys,        \* object keys (namespace/kind/name)
    Shapes,      \* Shapes[k]: what an object stored under k may look like
    Behaviors,   \* behavior sections of the policies that are evaluated
    StopValues,  \* values of Config.DeletesDisabled processes start with
    OwnNamespace,         \* Config.OwnNamespace ("" when POD_NAMESPACE unset)
    ConfiguredNamespaces, \* Config.ProtectedNamespaces
    Graceful,    \* keys whose objects have finalizers or a grace period
    MaxUid,      \* bound: number of objects ever created
    MaxInFlight, \* bound: number of DELETE requests in flight
    Steps,       \* backoff.DefaultConfig().Steps
    BatchSize,   \* ControllerConfig.BatchSize
    NoWorker, NoKey, NoShape

ASSUME ConstantsAssumption ==
    /\ MaxUid \in Nat
    /\ MaxInFlight \in Nat
    /\ Graceful \subseteq Keys
    /\ Steps \in Nat \ {0}
    /\ BatchSize \in Nat \ {0}
    /\ Behaviors \subseteq Behavior
    /\ StopValues \subseteq BOOLEAN
    /\ NoWorker \notin Workers
    /\ IsFiniteSet(Keys)

VARIABLES
    api,          \* the API server's store: key -> object
    nextUid,      \* next UID the API server hands out
    leader,       \* holder of the lease
    cache,        \* informer store of each worker: key -> object
    worker,       \* local state of each worker's reconcile goroutine
    wire          \* DELETE requests that are in flight

vars == <<api, nextUid, leader, cache, worker, wire>>

(***************************************************************************)
(* Data                                                                    *)
(***************************************************************************)

\* shape: the gate's attributes and `verdict`, what evaluation makes of it:
\*   unmatched   the selectors do not match
\*   unmet       a condition of the policy is not met
\*   young       the TTL cannot be computed or has not expired
\*   due         conditions met and TTL expired
Verdicts == {"unmatched", "unmet", "young", "due"}

AllShapes == (UNION {Shapes[k] : k \in Keys}) \cup {NoShape}

Uids == 1..MaxUid

\* uid 0: there is no such object.  terminating: deletionTimestamp is set.
Object == [uid : 0..MaxUid, shape : AllShapes, terminating : BOOLEAN]

Absent == [uid |-> 0, shape |-> NoShape, terminating |-> FALSE]

ResultClass ==
    {"SUCCEEDED", "ALREADY_ABSENT", "SKIPPED_PRECONDITION_MISMATCH", "FAILED"}

Result == [uid : Uids, class : ResultClass]

Phases == {"idle", "batch", "pre", "item", "attempt", "read", "await", "post",
           "report"}

NoBehavior ==
    [dryRun |-> TRUE, allowWorkloadDeletion |-> FALSE, batchSize |-> 0]

\* A DELETE request with what its sender knew: obs is the informer's object
\* the decision was made on, mark tells which UIDs existed at the live read
\* (those below it).
Request == [by : Workers, key : Keys, obs : Object, beh : Behavior,
            stop : BOOLEAN, mark : 1..MaxUid + 1,
            step : 0..Steps]

WorkerState ==
    [pc      : Phases,
     done    : BOOLEAN,                  \* the reconcile context is cancelled
     stop    : BOOLEAN,                  \* Config.DeletesDisabled
     beh     : Behavior,                 \* policy.Spec.Behavior
     obs     : [Keys -> Object],         \* the planned objects as observed
     left    : SUBSET Keys,              \* resourcesToDelete not yet batched
     batch   : SUBSET Keys,
     todo    : SUBSET Keys,              \* rest of the loop over the batch
     pre     : SUBSET Keys,              \* prePresent
     cur     : Keys \cup {NoKey},        \* the resource being deleted
     step    : 0..Steps,                 \* the backoff's step
     counted : SUBSET Keys,              \* deletedCount, by key
     failed  : SUBSET Keys,              \* errs, by key
     results : SUBSET Result]            \* receipt.Results

\* The goroutine outside a cycle; the context and the configuration survive.
Idle(done, stop) ==
    [pc |-> "idle", done |-> done, stop |-> stop, beh |-> NoBehavior,
     obs |-> [k \in Keys |-> Absent], left |-> {}, batch |-> {}, todo |-> {},
     pre |-> {}, cur |-> NoKey, step |-> 0, counted |-> {}, failed |-> {},
     results |-> {}]

Init ==
    /\ api = [k \in Keys |-> Absent]
    /\ nextUid = 1
    /\ leader = NoWorker
    /\ cache = [w \in Workers |-> api]
    /\ worker \in [Workers -> {Idle(FALSE, s) : s \in StopValues}]
    /\ wire = {}

Become(w, state) == worker' = [worker EXCEPT ![w] = state]

OnlyWorkerChanges ==
    UNCHANGED <<api, nextUid, leader, cache, wire>>

(***************************************************************************)
(* Evaluation: EvaluatePolicy with the gate (PolicyEvaluationService), or  *)
(* the informer-store path without it (evaluatePolicyResourcesShared).     *)
(***************************************************************************)

\* The gate of a process, by its emergency stop.
Gate(deletesDisabled) ==
    NewGate(OwnNamespace, ConfiguredNamespaces, deletesDisabled)

\* Mutant: the expiration test is inverted.
Planned_Inverted(obj, behavior, deletesDisabled, gated) ==
    /\ obj.uid # 0
    /\ gated => Allowed(Gate(deletesDisabled), obj.shape, behavior)
    /\ obj.shape.verdict = "young"

\* A terminating object is planned again: deletionTimestamp is not looked at.
Planned(obj, behavior, deletesDisabled, gated) ==
    /\ obj.uid # 0
    /\ gated => Allowed(Gate(deletesDisabled), obj.shape, behavior)
    /\ obj.shape.verdict = "due"

Evaluate(w, behavior, gated) ==
    LET plan == {k \in Keys :
                    Planned(cache[w][k], behavior, worker[w].stop, gated)}
    IN  /\ leader = w
        /\ worker[w].pc = "idle"
        /\ ~worker[w].done
        /\ Become(w, [Idle(FALSE, worker[w].stop) EXCEPT
                        !.pc = "batch",
                        !.beh = behavior,
                        !.obs = [k \in Keys |-> IF k \in plan
                                                THEN cache[w][k] ELSE Absent],
                        !.left = plan])
        /\ OnlyWorkerChanges

\* The policy's batch size overrides the controller's.
resolveBatchSize(behavior) ==
    IF behavior.batchSize > 0 THEN behavior.batchSize ELSE BatchSize

\* Mutant: the loop ends before a partial last batch.
StopBatches_DropsPartial(w) ==
    /\ worker[w].pc = "batch"
    /\ \/ worker[w].done
       \/ Cardinality(worker[w].left) < resolveBatchSize(worker[w].beh)
    /\ Become(w, [worker[w] EXCEPT !.pc = "report"])
    /\ OnlyWorkerChanges

\* deleteResourcesInBatches: the context is checked between batches.
StopBatches(w) ==
    /\ worker[w].pc = "batch"
    /\ worker[w].done \/ worker[w].left = {}
    /\ Become(w, [worker[w] EXCEPT !.pc = "report"])
    /\ OnlyWorkerChanges

\* A dry run goes straight to deleteBatchShared, without reads or receipt.
NextBatch(w, batch) ==
    /\ worker[w].pc = "batch"
    /\ ~worker[w].done
    /\ batch \in SUBSET worker[w].left \ {{}}
    /\ LET size == resolveBatchSize(worker[w].beh)
       IN  /\ Cardinality(batch) <= size
           /\ Cardinality(batch) = size \/ batch = worker[w].left
    /\ Become(w, [worker[w] EXCEPT
                    !.pc = IF worker[w].beh.dryRun THEN "item" ELSE "pre",
                    !.left = @ \ batch, !.batch = batch, !.todo = batch,
                    !.pre = {}, !.results = {}])
    /\ OnlyWorkerChanges

\* ExecuteWithReceipt's read before the deletions; any error is "not present".
PreRead(w, k, ok) ==
    LET rest == worker[w].todo \ {k}
    IN  /\ worker[w].pc = "pre"
        /\ k \in worker[w].todo
        /\ ok => api[k].uid # 0 /\ ~worker[w].done
        /\ Become(w, [worker[w] EXCEPT
                        !.pc = IF rest = {} THEN "item" ELSE "pre",
                        !.todo = IF rest = {} THEN worker[w].batch ELSE rest,
                        !.pre = IF ok THEN @ \cup {k} ELSE @])
        /\ OnlyWorkerChanges

(***************************************************************************)
(* deleteBatchShared: one resource after the other                         *)
(***************************************************************************)

\* After the last resource: the receipt's reads, or nothing in a dry run.
EndLoop(state) ==
    [state EXCEPT
        !.pc = IF state.beh.dryRun THEN "batch" ELSE "post",
        !.todo = IF state.beh.dryRun THEN {} ELSE state.batch,
        !.cur = NoKey, !.step = 0]

EndItem(state) ==
    IF state.todo = {}
    THEN EndLoop(state)
    ELSE [state EXCEPT !.pc = "item", !.cur = NoKey, !.step = 0]

\* Mutant: the dry-run test after the deletion is missing.
ItemOk_CountsDryRun(state) ==
    EndItem([state EXCEPT !.counted = @ \cup {state.cur}])

\* DeleteResourceWithBackoff returned nil: the resource counts as deleted,
\* whatever the reason for nil was, except in a dry run.
ItemOk(state) ==
    EndItem([state EXCEPT !.counted = IF state.beh.dryRun THEN @
                                      ELSE @ \cup {state.cur}])

ItemError(state) ==
    EndItem([state EXCEPT !.failed = @ \cup {state.cur}])

BeginItem(w, k) ==
    /\ worker[w].pc = "item"
    /\ k \in worker[w].todo
    /\ ~worker[w].done
    /\ Become(w, [worker[w] EXCEPT !.pc = "attempt", !.todo = @ \ {k},
                                   !.cur = k, !.step = 0])
    /\ OnlyWorkerChanges

\* i % contextCheckInterval = 0 holds for the first resource of the batch.
LoopCancelled(w) ==
    /\ worker[w].pc = "item"
    /\ worker[w].done
    /\ worker[w].todo = worker[w].batch
    /\ Become(w, EndLoop(worker[w]))
    /\ OnlyWorkerChanges

\* The rate limiter's Wait fails on a cancelled context, for later resources.
WaitFails(w, k) ==
    /\ worker[w].pc = "item"
    /\ k \in worker[w].todo
    /\ worker[w].done
    /\ worker[w].todo # worker[w].batch
    /\ Become(w, ItemError([worker[w] EXCEPT !.todo = @ \ {k}, !.cur = k]))
    /\ OnlyWorkerChanges

(***************************************************************************)
(* deleteResourceWithBackoffShared and deleteResource: one attempt         *)
(***************************************************************************)

\* The context is cancelled or the backoff is exhausted.
AttemptAborts(w) ==
    /\ worker[w].pc = "attempt"
    /\ worker[w].done \/ worker[w].step >= Steps
    /\ Become(w, ItemError(worker[w]))
    /\ OnlyWorkerChanges

\* Mutant: off by one in the exhaustion test.
MayAttempt_OneMore(w) ==
    /\ worker[w].pc = "attempt"
    /\ ~worker[w].done
    /\ worker[w].step <= Steps

MayAttempt(w) ==
    /\ worker[w].pc = "attempt"
    /\ ~worker[w].done
    /\ worker[w].step < Steps

SkipDryRun(w) ==
    /\ MayAttempt(w)
    /\ worker[w].beh.dryRun
    /\ Become(w, ItemOk(worker[w]))
    /\ OnlyWorkerChanges

\* Mutant: the last-line gate is missing.
GateAllows_Always(state) == TRUE

\* performResourceDeletion's gate looks at the informer's object.
GateAllows(state) ==
    Allowed(Gate(state.stop), state.obs[state.cur].shape, state.beh)

RefuseByGate(w) ==
    /\ MayAttempt(w)
    /\ ~worker[w].beh.dryRun
    /\ ~GateAllows(worker[w])
    /\ Become(w, ItemOk(worker[w]))
    /\ OnlyWorkerChanges

PassGate(w) ==
    /\ MayAttempt(w)
    /\ ~worker[w].beh.dryRun
    /\ GateAllows(worker[w])
    /\ Become(w, [worker[w] EXCEPT !.pc = "read"])
    /\ OnlyWorkerChanges

\* Mutant: the retry does not advance the backoff.
Retry_Forever(state) == [state EXCEPT !.pc = "attempt"]

\* A retryable error: b.Next() and back to the top of the loop.
Retry(state) == [state EXCEPT !.pc = "attempt", !.step = @ + 1]

\* getLiveForPrecondition: the object is gone.
ReadGone(w) ==
    /\ worker[w].pc = "read"
    /\ ~worker[w].done
    /\ api[worker[w].cur].uid = 0
    /\ Become(w, ItemOk(worker[w]))
    /\ OnlyWorkerChanges

\* Mutant: the UIDs are not compared.
SameUid_Always(live, observed) == TRUE

SameUid(live, observed) == live.uid = observed.uid

\* The live UID differs from the observed one: refused, reported as nil.
ReadReplaced(w) ==
    LET live == api[worker[w].cur]
    IN  /\ worker[w].pc = "read"
        /\ ~worker[w].done
        /\ live.uid # 0
        /\ ~SameUid(live, worker[w].obs[worker[w].cur])
        /\ Become(w, ItemOk(worker[w]))
        /\ OnlyWorkerChanges

\* The UIDs agree: the DELETE by name is sent, without a precondition.
ReadMatches(w) ==
    LET me == worker[w]
        live == api[me.cur]
    IN  /\ me.pc = "read"
        /\ ~me.done
        /\ live.uid # 0
        /\ SameUid(live, me.obs[me.cur])
        /\ Cardinality(wire) < MaxInFlight
        /\ wire' = wire \cup
             {[by |-> w, key |-> me.cur, obs |-> me.obs[me.cur],
               beh |-> me.beh, stop |-> me.stop, mark |-> nextUid,
               step |-> me.step]}
        /\ Become(w, [me EXCEPT !.pc = "await"])
        /\ UNCHANGED <<api, nextUid, leader, cache>>

\* Timeout, ServerTimeout, TooManyRequests, ServiceUnavailable, of the read
\* or of the DELETE, whose request may still be in flight.
TransientError(w) ==
    /\ worker[w].pc \in {"read", "await"}
    /\ ~worker[w].done
    /\ Become(w, Retry(worker[w]))
    /\ OnlyWorkerChanges

\* Any other error, a cancelled context included.
FatalError(w) ==
    /\ worker[w].pc \in {"read", "await"}
    /\ Become(w, ItemError(worker[w]))
    /\ OnlyWorkerChanges

(***************************************************************************)
(* ExecuteWithReceipt: classification from the state observed afterwards   *)
(***************************************************************************)

uidMismatch(planned, current) == current # planned

\* Mutant: a resource marked for deletion passes for deleted.
Classify_Terminating(prePresent, planned, live) ==
    IF live.uid = 0 \/ live.terminating
    THEN IF prePresent THEN "SUCCEEDED" ELSE "ALREADY_ABSENT"
    ELSE IF uidMismatch(planned, live.uid)
    THEN "SKIPPED_PRECONDITION_MISMATCH"
    ELSE "FAILED"

\* Mutant: classification by requested action.
Classify_Requested(prePresent, planned, live) ==
    IF prePresent THEN "SUCCEEDED" ELSE "ALREADY_ABSENT"

Classify(prePresent, planned, live) ==
    IF live.uid = 0
    THEN IF prePresent THEN "SUCCEEDED" ELSE "ALREADY_ABSENT"
    ELSE IF uidMismatch(planned, live.uid)
    THEN "SKIPPED_PRECONDITION_MISMATCH"
    ELSE "FAILED"

\* readOk FALSE: the read failed.  The last read completes the receipt.
PostRead(w, k, readOk) ==
    LET me == worker[w]
        class == IF readOk THEN Classify(k \in me.pre, me.obs[k].uid, api[k])
                 ELSE "FAILED"
        rest == me.todo \ {k}
        results == me.results \cup {[uid |-> me.obs[k].uid, class |-> class]}
    IN  /\ me.pc = "post"
        /\ k \in me.todo
        /\ readOk => ~me.done
        /\ Become(w, [me EXCEPT !.pc = IF rest = {} THEN "batch" ELSE "post",
                                !.todo = rest, !.results = results])
        /\ OnlyWorkerChanges

\* The cycle hands its counts to updatePolicyStatus, written or not, and ends.
EndCycle(w) ==
    /\ worker[w].pc = "report"
    /\ Become(w, Idle(worker[w].done, worker[w].stop))
    /\ OnlyWorkerChanges

(***************************************************************************)
(* Processes: the lease, loss of it, process exit and restart              *)
(***************************************************************************)

Acquire(w) ==
    /\ leader = NoWorker
    /\ worker[w].pc = "idle"
    /\ ~worker[w].done
    /\ leader' = w
    /\ UNCHANGED <<api, nextUid, cache, worker, wire>>

\* Mutant: the context of the running cycle is not cancelled.
LoseLease_CycleRunsOn(w) ==
    /\ leader = w
    /\ leader' = NoWorker
    /\ UNCHANGED <<api, nextUid, cache, worker, wire>>

\* The lease is lost or the process is told to stop: the context is cancelled
\* and the goroutine runs on until the process exits.
LoseLease(w) ==
    /\ leader = w
    /\ leader' = NoWorker
    /\ Become(w, [worker[w] EXCEPT !.done = TRUE])
    /\ UNCHANGED <<api, nextUid, cache, wire>>

\* The process exits at any point and starts again, possibly with the
\* emergency stop toggled.  Its requests stay in flight; its new informer
\* starts from some snapshot (here the old one, until the next Sync).
Restart(w, deletesDisabled) ==
    /\ Become(w, Idle(FALSE, deletesDisabled))
    /\ leader' = IF leader = w THEN NoWorker ELSE leader
    /\ UNCHANGED <<api, nextUid, cache, wire>>

\* The watch delivers: the informer store becomes the server's snapshot.
Sync(w) ==
    /\ cache' = [cache EXCEPT ![w] = api]
    /\ UNCHANGED <<api, nextUid, leader, worker, wire>>

(***************************************************************************)
(* The API server and its other clients                                    *)
(***************************************************************************)

\* What a DELETE leaves behind: nothing, or an object with finalizers or a
\* grace period marked for deletion; a marked one stays so.
Deleted(k) ==
    IF k \in Graceful /\ api[k].uid # 0
    THEN [api[k] EXCEPT !.terminating = TRUE]
    ELSE Absent

\* The sender is still waiting for this very request.
IsAwaited(r) ==
    LET me == worker[r.by]
    IN  /\ me.pc = "await"
        /\ me.cur = r.key
        /\ me.step = r.step
        /\ me.obs[r.key] = r.obs

\* DELETE by name: it acts on whatever object has the name now; NotFound is
\* an answer too.  answered FALSE: the answer is lost.  Equal requests are one
\* element of wire, so r may still be in flight afterwards.
ServeDelete(r, answered) ==
    /\ r \in wire
    /\ wire' \in {wire, wire \ {r}}
    /\ api' = [api EXCEPT ![r.key] = Deleted(r.key)]
    /\ answered => IsAwaited(r)
    /\ Become(r.by, IF answered THEN ItemOk(worker[r.by]) ELSE worker[r.by])
    /\ UNCHANGED <<nextUid, leader, cache>>

DropDelete(r) ==
    /\ r \in wire
    /\ wire' = wire \ {r}
    /\ UNCHANGED <<api, nextUid, leader, cache, worker>>

ClientsUnchanged ==
    UNCHANGED <<leader, cache, worker, wire>>

Create(k, shape) ==
    /\ api[k].uid = 0
    /\ nextUid <= MaxUid
    /\ api' = [api EXCEPT ![k] = [uid |-> nextUid, shape |-> shape,
                                  terminating |-> FALSE]]
    /\ nextUid' = nextUid + 1
    /\ ClientsUnchanged

\* Labels, phase or the fields the TTL reads change; time passes.
Update(k, shape) ==
    /\ api[k].uid # 0
    /\ api' = [api EXCEPT ![k].shape = shape]
    /\ UNCHANGED nextUid
    /\ ClientsUnchanged

\* Another client deletes the object, or its finalizers are done.
Vanish(k) ==
    /\ api[k].uid # 0
    /\ \E after \in {Deleted(k), Absent} : api' = [api EXCEPT ![k] = after]
    /\ UNCHANGED nextUid
    /\ ClientsUnchanged

-----------------------------------------------------------------------------

WorkerStep(w) ==
    \/ \E b \in Behaviors, gated \in BOOLEAN : Evaluate(w, b, gated)
    \/ StopBatches(w)
    \/ \E batch \in SUBSET Keys : NextBatch(w, batch)
    \/ \E k \in Keys, ok \in BOOLEAN : PreRead(w, k, ok)
    \/ \E k \in Keys : BeginItem(w, k)
    \/ LoopCancelled(w)
    \/ \E k \in Keys : WaitFails(w, k)
    \/ AttemptAborts(w)
    \/ SkipDryRun(w)
    \/ RefuseByGate(w)
    \/ PassGate(w)
    \/ ReadGone(w)
    \/ ReadReplaced(w)
    \/ ReadMatches(w)
    \/ TransientError(w)
    \/ FatalError(w)
    \/ \E k \in Keys, ok \in BOOLEAN : PostRead(w, k, ok)
    \/ EndCycle(w)

ProcessStep(w) ==
    \/ Acquire(w)
    \/ LoseLease(w)
    \/ \E stop \in StopValues : Restart(w, stop)
    \/ Sync(w)

ServerStep ==
    \/ \E r \in wire, answered \in BOOLEAN : ServeDelete(r, answered)
    \/ \E r \in wire : DropDelete(r)

ClientStep ==
    \/ \E k \in Keys : \E s \in Shapes[k] : Create(k, s)
    \/ \E k \in Keys : \E s \in Shapes[k] : Update(k, s)
    \/ \E k \in Keys : Vanish(k)

Next ==
    \/ \E w \in Workers : WorkerStep(w) \/ ProcessStep(w)
    \/ ServerStep
    \/ ClientStep

Spec == Init /\ [][Next]_vars

\* The reconcile goroutine keeps going: every call to the API server returns.
FairSpec == Spec /\ \A w \in Workers : WF_vars(WorkerStep(w))

\* A process that lost its lease exits and is started again.
Exit(w) == worker[w].done /\ \E stop \in StopValues : Restart(w, stop)

Disturbance(w) ==
    \/ LoseLease(w)
    \/ ~worker[w].done /\ \E stop \in StopValues : Restart(w, stop)

\* An environment that lets the cleaner work: from some time on no process
\* loses its lease or crashes, some replica takes the lease, watches deliver,
\* each policy is evaluated again and again, and reads and DELETEs that are
\* tried again and again do not always fail.
CalmSpec ==
    /\ FairSpec
    /\ <>[][\A w \in Workers : ~Disturbance(w)]_vars
    /\ \A w \in Workers : /\ WF_vars(Exit(w))
                          /\ WF_vars(Acquire(w))
                          /\ WF_vars(Sync(w))
                          /\ SF_vars(ReadMatches(w))
    /\ \A w \in Workers, b \in Behaviors, gated \in BOOLEAN :
          SF_vars(Evaluate(w, b, gated))
    /\ SF_vars(\E r \in wire, answered \in BOOLEAN : ServeDelete(r, answered))

(***************************************************************************)
(* Safety                                                                  *)
(***************************************************************************)

\* Type correctness.
TypeOK ==
    /\ api \in [Keys -> Object]
    /\ nextUid \in 1..MaxUid + 1
    /\ leader \in Workers \cup {NoWorker}
    /\ cache \in [Workers -> [Keys -> Object]]
    /\ worker \in [Workers -> WorkerState]
    /\ wire \subseteq Request

\* The laws of docs/SAFETY_MODEL.md as one condition, independent of the order
\* in which the gate tries its rules.
Lawful(shape, behavior, deletesDisabled) ==
    /\ ~deletesDisabled
    /\ shape.ns \notin protectedNamespaces
    /\ shape.ns # "" => shape.ns \notin {OwnNamespace} \cup ConfiguredNamespaces
    /\ shape.kind \notin hardProtectedKinds
    /\ "true" \notin {shape.label, shape.annotation}
    /\ shape.kind \in workloadKinds => behavior.allowWorkloadDeletion
    /\ shape.kind = "Pod" => shape.phase \in {"Succeeded", "Failed"}

\* Every DELETE in flight, whatever it will hit and whenever, was decided on
\* an observation that was due and that every law of the safety gate lets
\* through, under a policy that is not a dry run and in a process without the
\* emergency stop: on both evaluation paths and on every retry.
RequestsAuthorised ==
    \A r \in wire :
        /\ ~r.beh.dryRun
        /\ r.obs.shape.verdict = "due"
        /\ Lawful(r.obs.shape, r.beh, r.stop)

\* performResourceDeletion's live UID check: the object a DELETE in flight
\* would hit is the observed one, or it was created after the check of that
\* very attempt.  A replacement that existed at the check is safe, also when
\* an earlier attempt timed out.
OnlyRaceHitsReplacement ==
    \A r \in wire : \/ api[r.key].uid \in {0, r.obs.uid}
                    \/ api[r.key].uid >= r.mark

\* ExecuteWithReceipt classifies from observed state: every result but FAILED
\* means that the planned object is gone for good.
SettledMeansGone ==
    \A w \in Workers : \A x \in worker[w].results :
        x.class # "FAILED" => \A k \in Keys : api[k].uid # x.uid

\* A cycle that was not cancelled accounts for every planned object exactly
\* once when it reports: deleted or failed (deleteResourcesInBatches covers
\* the whole plan, the last partial batch included); a dry run accounts for
\* none.
NoCandidateLost ==
    \A w \in Workers :
        LET me == worker[w]
            plan == {k \in Keys : me.obs[k].uid # 0}
        IN  me.pc = "report" /\ ~me.done =>
                /\ me.counted \cup me.failed =
                        IF me.beh.dryRun THEN {} ELSE plan
                /\ me.counted \cap me.failed = {}

\* A dry run sends no DELETE, counts nothing as deleted and builds no receipt
\* (deleteBatchShared, ExecuteWithReceipt).
DryRunIsInert ==
    /\ \A r \in wire : ~r.beh.dryRun
    /\ \A w \in Workers : worker[w].beh.dryRun =>
            worker[w].counted = {} /\ worker[w].results = {}

\* Only the holder of the lease sends a DELETE: a replica that lost it in the
\* middle of a cycle sends none of the cycle's remaining DELETEs.
SentByLeader ==
    [][\A r \in wire' \ wire : leader = r.by]_vars

(***************************************************************************)
(* The inductive invariant behind the safety properties                    *)
(***************************************************************************)

\* The worker's place in the cycle: what is left of the plan, which tests the
\* resource at hand has passed, and whose cycle may run.
CycleOK(w, state) ==
    LET plan == {k \in Keys : state.obs[k].uid # 0}
    IN  /\ state.left \subseteq plan
        /\ state.batch \subseteq plan
        /\ state.todo \subseteq state.batch
        /\ \A k \in plan : state.obs[k].shape.verdict = "due"
        /\ state.pc \in {"attempt", "read", "await"} => state.cur \in state.batch
        /\ state.pc \in {"read", "await"} => /\ state.step < Steps
                                            /\ GateAllows(state)
        /\ state.pc \in {"pre", "read", "await", "post"} => ~state.beh.dryRun
        /\ state.beh.dryRun => state.counted = {} /\ state.results = {}
        /\ state.pc # "idle" /\ ~state.done => leader = w

\* A snapshot of the store: a UID it shows under a key is not a future one
\* and lives, if it lives, under that key.
SnapshotOK(store) ==
    \A k \in Keys :
        /\ store[k].uid < nextUid
        /\ \A other \in Keys :
              api[other].uid = store[k].uid /\ store[k].uid # 0 => other = k

\* What a receipt's results say of the store.
ResultsOK(state) ==
    \A x \in state.results :
        /\ x.uid < nextUid
        /\ x.class # "FAILED" => \A k \in Keys : api[k].uid # x.uid

\* performResourceDeletion and ExecuteWithReceipt keep their promises because
\* the phases, the snapshots and the requests in flight stay related this way.
IInv ==
    /\ TypeOK
    /\ SnapshotOK(api)
    /\ \A w \in Workers : /\ CycleOK(w, worker[w])
                          /\ SnapshotOK(cache[w])
                          /\ SnapshotOK(worker[w].obs)
                          /\ ResultsOK(worker[w])
    /\ RequestsAuthorised
    /\ OnlyRaceHitsReplacement
    /\ \A r \in wire : r.mark <= nextUid

\* Planned objects that the cycle has yet to delete or to give up.
Pending(state) ==
    {k \in Keys :
        \/ k \in state.left
        \/ state.pc = "pre" /\ k \in state.batch
        \/ state.pc \in {"item", "attempt", "read", "await"} /\ k \in state.todo
        \/ state.pc \in {"attempt", "read", "await"} /\ k = state.cur}

\* At every point of a cycle that is not cancelled, what is no longer pending
\* was counted or failed, and not both; no batch comes back.
AccountOK(state) ==
    LET plan == {k \in Keys : state.obs[k].uid # 0}
    IN  ~state.done =>
            /\ state.counted \cup state.failed =
                    IF state.beh.dryRun THEN {} ELSE plan \ Pending(state)
            /\ state.counted \cap state.failed = {}
            /\ state.left \cap state.batch = {}
            /\ state.pc \in {"attempt", "read", "await"} =>
                    state.cur \notin state.todo
            /\ state.pc = "attempt" /\ state.beh.dryRun => state.step = 0
            /\ state.pc = "report" => state.left = {}

\* The cycles of all replicas account for what they settled.
Accounted == \A w \in Workers : AccountOK(worker[w])

(***************************************************************************)
(* Liveness                                                                *)
(***************************************************************************)

\* A cycle ends, whatever the API server answers: retries are bounded, every
\* loop advances (deleteResourceWithBackoffShared, deleteBatchShared,
\* deleteResourcesInBatches).
CycleTerminates ==
    \A w \in Workers : worker[w].pc # "idle" ~> worker[w].pc = "idle"

\* An object that every law lets some destructive policy delete.
Eligible(k) ==
    /\ api[k].uid # 0
    /\ ~api[k].terminating
    /\ api[k].shape.verdict = "due"
    /\ \E b \in Behaviors : ~b.dryRun /\ Lawful(api[k].shape, b, FALSE)

\* No object stays eligible for ever: the cycles of a controller whose
\* environment calms down get it deleted (the purpose of evaluatePolicy),
\* through stale snapshots, lost answers, retries and replacements.
EligibleIsCleaned ==
    \A k \in Keys : []<>~Eligible(k)

(***************************************************************************)
(* What the repository says of the deletion path and the code does not do  *)
(***************************************************************************)

\* reconciler_helpers.go: a stale-cache decision never destroys a replacement
\* (a request in flight can be served in every state).
ReplacementNeverDestroyed ==
    \A r \in wire : api[r.key].uid \in {0, r.obs.uid}
=============================================================================
