# TLA+ specifications of zen-cleaner

zen-cleaner is a Kubernetes controller that deletes objects when the TTL and the
conditions of a `ZenCleanerPolicy` say so. These modules specify its core: what
may be deleted, by whom, on which knowledge, what is reported about it, how
the reconcile loop keeps every policy going, what becomes of a policy between the
user's file and a deletion, and how replicas share the work. TLC checks them on small instances;
TLAPS proves every safety property of every part for all values of the constants
(any number of replicas, policies, objects and retries, any spec and any object),
and that the deletion path implements its contract; liveness is model-checked. `src/` below is the root of the repository.

## 1. Inventory

| part | state it keeps | operations | talks to |
|---|---|---|---|
| safety gate (`pkg/safety`) | configuration only: protected namespaces and kinds, emergency stop | `EvaluateObject`, `EvaluatePolicyTarget` | called by evaluation, by the deletion, by `Reconcile` and by admission |
| reconcile loop (`reconciler.go`) | maps policy name -> UID, UID -> last spec, rate limiters, failure counts | `Reconcile`, `handlePolicyDeletion`, `handlePausedPolicy`, `handleEvaluationError` | work queue of controller-runtime, every part below |
| target capability (`target_capability.go`) | cache of granted probes, consecutive failures per policy UID | `ValidateTargetCapability`, `validateTargetOrClassify`, `TargetBackoffFor` | discovery and list calls, policy conditions |
| informers and evaluation services (`reconciler_informer.go`, `reconciler_evaluation.go`) | one informer and one service per target, kept for ever | `getOrCreateResourceInformer`, `getOrCreateEvaluationService`, `evaluatePolicy` | watch of the API server |
| cleanup cycle (`evaluate_policy_*.go`, `shared.go`, `reconciler_deletion.go`, `reconciler_helpers.go`, `execution_path.go`) | local to one reconcile: plan, batch, counts, receipt | `EvaluatePolicy`, `deleteResourcesInBatches`, `deleteBatchShared`, `deleteResourceWithBackoffShared`, `performResourceDeletion`, `ExecuteWithReceipt` | informer store (stale reads), API server (GET, DELETE) |
| policy status (`status_updater.go`) | the status subresource | `UpdateStatus`, `UpdateTargetCondition` | API server |
| leader election (`internal/election`, `leadership.go`) | the lease, `LeaderState`, the last API observation | `RunWithLeaderElection`, its callbacks, `observedLock` | starts and cancels the controller, feeds health, gauges and events |
| health (`health.go`, `leadership.go`, `internal/health`) | last evaluation time, informer sync state | liveness, readiness, `/leaderz` | takes the lock of the reconciler's informer map; probed by the kubelet |
| process (`cmd/zen-cleaner`, `pkg/config`) | configuration from environment and flags | `runMain`, `runController`, `LoadFromEnv`, `applyFlagOverrides` | starts everything, exits with the lease |
| GVR resolver (`gvr_resolver.go`) | cache of names confirmed by discovery | `ResolveGVR` | RESTMapper; informers and deletions use the name |
| admission (`pkg/webhook`, `pkg/validation`) | none | `ValidatePolicy`, mutation (defaults) | API server |
| pure helpers (`internal/ttl`, selectors, conditions, `batch_config.go`, `internal/backoff`) | none, or a step counter | TTL evaluation, matching, `Next`, `IsExhausted` | the cleanup cycle |
| metrics, events, logging, tracing, MCP server, operations registry | output only | - | - |

What is hard here, and where the properties point:

* the decision to delete is made on an informer snapshot, verified by a GET and
  carried out by a DELETE *by name*: three moments, and other clients act between
  any two of them;
* a DELETE that timed out may still be served, after its sender retried, lost the
  lease or was restarted;
* outcomes are classified by reads before and after the deletions, by name, and
  a read may fail;
* cancellation can fall between any two steps of a cycle, and the code notices it
  in five different places;
* a policy that is a dry run, a refused object, an object already gone and a real
  deletion all leave `performResourceDeletion` with `nil`;
* a controller that gives up or waits for ever is as useless as one that deletes
  too much: cycles must end, and eligible objects must go;
* nothing but the delay a reconcile asks for wakes a policy whose target has
  become available, and a reconcile has a dozen ways to end;
* the status of a policy is computed from a cached copy, merged into a live one
  and written under optimistic concurrency, and the write itself is a watch event;
* a policy is checked by the CRD's schema, by two webhooks that may be missing and
  again at run time, and changed by defaults in between; kinds are compared with
  case in one place and without it in another; a name that discovery cannot give
  is guessed, and a wrong guess reads as "object gone";
* leadership changes are reported from two goroutines, the lease outlives its
  holder, and the probes that decide about a restart wait on a lock that the
  controller holds for the length of a cache sync.

`PROJECT.json` lists these hazards line by line.

## 2. Modules

| module | models | state |
|---|---|---|
| `SafetyGate` | `pkg/safety/safety.go`: the rules and their order | none (pure operators; a gate is a value made from the configuration) |
| `DeletionPath` | one cleanup cycle of every replica, the API server, the other clients, lease and process failures | `api`, `nextUid`, `leader`, `cache`, `worker`, `wire` |
| `MCDeletionPath` | instances for TLC: shapes of objects, kinds of policies, symmetry | - |
| `DeletionPath_proofs` | theorems about `DeletionPath` | - |
| `PolicyReconcile` | the reconcile loop of the leading process over its policies: validation, target capability, informers and services, maps by UID, status, work queue | `policy`, `surface`, `known`, `event`, `queue`, `timer`, `rec` and the reconciler's tables |
| `MCPolicyReconcile` | instances for TLC: the specs users write | - |
| `PolicyReconcile_proofs` | theorems about `PolicyReconcile` | - |
| `CleanupContract` | what the cleaner promises the cluster, without cycles, caches, retries or receipts | `store`, `next`, `holder`, `orders` |
| `DeletionRefinement` | `DeletionPath` as an implementation of `CleanupContract` (`INSTANCE ... WITH`) | - |
| `DeletionRefinement_proofs` | the theorem that it does | - |
| `Validation` | `pkg/validation` and `EvaluatePolicyTarget` | none (pure operators) |
| `Eligibility` | selectors, conditions and the TTL evaluator | none (pure operators) |
| `PolicyPipeline` | a policy from the user's file to a deletion: webhooks, runtime validation, discovery, plan, name of the DELETE; the configuration of the process | `config`, `policy`, `object`, `now`, `mapper`, `gvrCache`, `informers`, `limiter`, `verdict`, `outcome` |
| `MCPolicyPipeline` | instances for TLC: six scenes of specs, objects and configurations | - |
| `PolicyPipeline_proofs` | theorems about `PolicyPipeline` and the pure operators below it | - |
| `Replica` | the life of each process: start-up, election, callbacks, health and probes, faults | `lease`, `left`, `network`, `main`, `run`, `state`, `gauge`, `event`, `map`, `misses` ... |
| `MCReplica` | instances for TLC: the deployments | - |
| `Replica_proofs` | theorems about `Replica` | - |

`PolicyReconcile` treats a cleanup cycle as one step (`Cycle`); `DeletionPath`
treats everything around a cycle as its start and its end. `PolicyPipeline`
computes what those two take as inputs (is a spec valid, which objects are due), on
a reconcile that is one step; `Replica` is what both take for granted about the
lease. `SafetyGate` is shared: `DeletionPath` and `PolicyPipeline` call the same
`EvaluateObject`, the first with one gate for all processes but for the emergency stop,
the second with the gate each start's environment makes.

### DeletionPath and the code

A *worker* is the reconcile goroutine of one replica; `worker[w].pc` is where it
stands in the cycle:

| pc | code | actions |
|---|---|---|
| `idle` | waiting for the work queue | `Evaluate`: plan from the informer store, with the gate (`PolicyEvaluationService`) or without it (`evaluatePolicyResourcesShared`) |
| `batch` | loop over the batches | `NextBatch`, `StopBatches` |
| `pre` | reads before the deletions (`ExecuteWithReceipt`) | `PreRead` |
| `item` | loop of `deleteBatchShared` | `BeginItem`, `LoopCancelled`, `WaitFails` |
| `attempt` | top of the retry loop, dry run, gate | `AttemptAborts`, `SkipDryRun`, `RefuseByGate`, `PassGate` |
| `read` | live UID check (`getLiveForPrecondition`) | `ReadGone`, `ReadReplaced`, `ReadMatches`, `TransientError`, `FatalError` |
| `await` | DELETE sent | `ServeDelete` (answered), `TransientError`, `FatalError` |
| `post` | classification reads | `PostRead` |
| `report` | `updatePolicyStatus` | `EndCycle` |

`api` is the server's store, `wire` the set of DELETE requests that were sent and
may still be served (`ServeDelete`) or lost (`DropDelete`), `cache[w]` the
informer store, which the watch brings up to date at any later time (`Sync`).
`Create`, `Update` and `Vanish` are other clients (users, controllers, the
garbage collector, finalizers), external to the repository; an `Update` is also the passing of time
(TTL expires) and any label or phase change. `Acquire`, `LoseLease` and `Restart`
are the process: losing the lease cancels the context, the goroutine runs on
until its code looks at the context.

What a request in `wire` carries beside its key is history, used by properties
only: the observation, the behavior and `mark`, the first UID that was not yet
used when the live object was read.

`DeletionRefinement` maps this state to the contract's: the server's store is
`store`, the lease `holder`, the DELETEs in flight `orders`. An order is placed
only by the lease's holder, for an object that is in the store under the UID the
order names, on sufficient grounds; it may be carried out late, twice or never, and
by then the name may belong to another object, which the contract admits because
the code does (`replacement`). Everything else a cycle does is a stutter.

Abstractions:

* a kind/namespace/name triple is a key; an object is its UID, its terminating
  flag and a *shape*: the attributes the gate reads and the verdict of
  selectors, conditions and TTL. Those computations are inputs here;
* loops over resources are taken in any order (sets); batch sizes are below 50,
  so the context check `i % 50 == 0` of `deleteBatchShared` happens at the first
  resource of a batch only;
* the informer store is replaced by a snapshot of the whole server store; a
  restarted process starts from its old snapshot, which is no newer than what a
  list would return;
* a lost lease is noticed by its holder before another replica acquires it:
  `LoseLease` is the moment the holder's elector gives up. With the code's durations
  both instants are 15 s after the last renewal, so the order assumed here is the one
  the code aims at and not one it guarantees (`Replica`, `OneController`); election is
  enabled;
* equal requests in flight are one element of `wire`; serving one may leave it
  there, so a second copy is never forgotten;
* the group-version-resource of an object is resolved correctly; durations, rate
  limits, events, metrics and logs are left out; the status write is reduced to
  its moment.

### PolicyReconcile and the code

There is one reconcile goroutine (controller-runtime's default of one concurrent
reconcile); `rec` is the reconcile in progress and `rec.pc` its place:

| pc | code | actions |
|---|---|---|
| `idle` | waiting for the work queue | `FetchFails`, `Forget` (policy not found), `RejectInvalid`, `SkipPaused`, `Begin` |
| `target` | `getOrCreateEvaluationService`, `getOrCreateResourceInformer`, `ValidateTargetCapability` | `FindService`, `FindInformer`, `ProbeGranted`, `ProbeRefused` |
| `granted`, `refused` | the `TargetReady` condition is written | `ReadForStatus`, then `WriteSucceeds` or `WriteFails`, followed by `AfterGranted` (the informer is started) or `AfterRefused` (the failure is counted) |
| `sync` | `WaitForCacheSync` | `SyncSucceeds`, `SyncFails` |
| `cycle` | the cleanup cycle | `Cycle` |
| `status` | `UpdateStatus` | as above, followed by `AfterStatus` |
| `invalid` | the `Ready` condition of an invalid policy | as above, followed by `AfterInvalid` |

`evaluatePolicy` takes the service's path first; if that fails, `FallBack` sends
the reconcile through `target` again with `direct = TRUE`; a failure there ends
the reconcile. `Finish(delay)` is a return with `RequeueAfter`.

`policyUIDs`, `policySpecs`, `rateLimiters`, `targetFailures`, `targetProbes`,
`resourceInformers` and `evaluationServices` are the maps of `PolicyReconciler`.
`known` is the manager's cache, `event` a watch event on its way (several are one: the cache
jumps to the latest state), `queue` the work queue with the reason a name is in
it: `asked` for a user's change or a delay that is over, `own` for the
controller's own status write. A status write is two requests; it fails
when the policy changed in between (`fresh`), and its answer may be lost
(`answered`). Time stamps are the only other thing it changes, so a repeated write is an
event only in a new second (`newSecond`). `faulty` is history.

Abstractions:

* a policy's spec is its target, whether it is paused and whether runtime
  validation accepts it (`ValidatePolicy`, `EvaluatePolicyTarget`); a target
  without a version ("apps/") passes that validation and is `Malformed` to the probe;
* a probe is one step: its calls only read, and any of them may fail. A grant is
  cached per target. The code's key leaves out the version, so a grant of another
  version counts too: a grant for a target that is not served, which also arises
  when the target goes away after its own grant. A grant for namespace "*" is
  stored under a key that is never looked up, as if it expired at once;
* delays are compared, not measured: a timer fires at any later time, and a pending
  earlier one is covered by that. Failure counts saturate at `MaxFailures`, where
  the delay has reached its cap (`SaturationAssumption`);
* a cancelled context is a series of failing calls followed by `Restart`;
* resolving the GVR of a granted target succeeds (its fallback always returns);
* status counters, `nextGCRun`, `lastCycleRefusals`, the cap on conditions,
  events, metrics and the integrity overlay are left out.

### PolicyPipeline and the code

| action | code |
|---|---|
| `Start`, `Crash` | `LoadFromEnv`, then `applyFlagOverrides`: interval, rate, batch size, concurrency, emergency stop, protected namespaces, own namespace; all caches are lost with the process |
| `Admit` | a write the webhooks see: `mutatePolicy`, the CRD's schema, `validatePolicy` with the gate of any replica (every replica serves the webhooks) |
| `Bypass` | a write while no webhook configuration is installed |
| `Remove` | deletion of the policy and `cleanupPolicyResources` |
| `Reconcile` | `Reject` (runtime validation), `Refuse` (no informer can be made) or `Evaluate`, on the path of the evaluation service or on the direct one |
| `Delete` | `deleteResource`: dry run, name, gate, live read, DELETE |
| `MapperChanges`, `Edit`, `Tick` | discovery, other clients, time |

`policy[1]` is what was `asked`, the `spec` that is stored and the gate it was
`reviewed` with, if any; `safetyGate` is that of the process that runs; `verdict` and `outcome` are the results of the last reconcile and
deletion, forgotten when anything they looked at changes.

The plan is compared with a definition of what a policy means that does not follow
the code: `Selected` (every term of the selectors), `Wanted` (every condition) and
`Due` (some lifetime the spec gives the object is over). `Sane` and `Plain` name the
specs for which the two agree; outside them the code does something a user would not
expect, listed under "Further divergences".

Abstractions:

* strings are classes: a kind has a lower-case form (`Lower`) and an ending
  (`Ending`), an apiVersion is its parts, a DNS name is well-formed or not; a field
  path stands for the list it is parsed into, a field for its type and value; the list
  of protected namespaces is the set of its parts, of which one may be blank or begin
  with a blank (`TrimSpace`);
* one object, one policy and one informer per target: what two policies share is in
  `PolicyReconcile`;
* times are seconds; `MaxDuration` stands for the 2^63 nanoseconds of a
  `time.Duration`, and products wrap at it;
* the informer is in sync and the live object is the one observed (`DeletionPath`
  has the rest); a watch on a name that is not served never syncs.

### Replica and the code

| state | code |
|---|---|
| `main` | where `runMain` is: `elect` and `lead` inside `RunOrDie`, `direct` without election, `exiting` after `OnStoppedLeading` |
| `run` | the goroutine of `OnStartedLeading`: `announce` (before `OnLeadingChange(true)`), `setup` (`runController` before `mgr.Start`), `running`, `failed`, `ended` |
| `bound` | the health server of `ServeStandalone` has its port |
| `state`, `gauge`, `was` | `LeaderState`, the gauges, `apiWasReachable` |
| `map` | `resourceInformersMu`: held for writing by `Create` until `Created` |
| `event` | the pod's last event about reachability; `stale` once the process that recorded an outage is gone |
| `lease`, `left` | the Lease and its age in retry periods; how long the elector of a leader still tries |
| `misses` | the kubelet's count |

`Acquire`, `AcquireFails`, `Renew` and `RenewFails` are one round of client-go's
elector with the observation `observedLock` makes of it; `LoseLease` and `Terminate`
end the election, `Exit` the process. `Announce`, `Setup`, `SetupFails`,
`ManagerFails` and `ManagerStops` are the callback goroutine, which runs on after
the election has ended. A replica is a pod: its process restarts in place, with the
same identity in the lease and no memory.

The timing is client-go's. `renew` waits a `RetryPeriod` after a renewal and then tries
for `RenewDeadline` before it gives up (right after the acquisition it tries at once): a
leader leads until `RetryPeriod + RenewDeadline` after its last renewal, whatever happens
to the lease meanwhile. With the durations of `ApplyDefaults`, 5, 10 and 15 s, that is
exactly `LeaseDuration`, when another replica may take the lease. In this last instant
the two steps may come in either order (`Overdue`).

Abstractions: time is the age of the lease, in units of the retry period, and does not
pass a moment at which an elector has to act (its timers fire, a clock that stops is
outside client-go's contract too); an event is what the process handed to its recorder:
whether it arrives while the API server is cut off is left open, and nothing is claimed
of it; what the
controller does is the lock of its informer map; a probe that outlasts the kubelet's
patience is a fault, counted like the others; the webhook server is part of
`Boot`/`BootFails`.

## 3. Runs

### Deletion path

Bounds: `MaxUid` bounds the objects ever created, `MaxInFlight` the DELETE
requests in flight; `Steps` is the real constant `backoff.DefaultConfig().Steps`
scaled down. One key with `MaxUid = 2` is the smallest world with a replacement
under the same name; `MaxInFlight = 2` with `Steps = 2` lets a timed-out DELETE and its
retry be in flight together; two keys make batches and partial failures. The
theorems below drop these bounds for safety.

| run | instance | shows |
|---|---|---|
| `overlap` | 2 replicas, 1 name, 2 lifetimes | `TypeOK`; the lease changes hands in mid-cycle with a DELETE in flight: only the leader sends (`SentByLeader`), the UID check and the receipts hold (`OnlyRaceHitsReplacement`, `SettledMeansGone`) |
| `retry` | 1 replica, 2 attempts, 2 DELETEs in flight, finalizers, exclusion label toggled | the inductive invariant `IInv` of the proofs, the two properties above under retries, and the refinement of `CleanupContract` (`KeepsContract`) |
| `batches` | 2 objects, batches of 1 and 2, dry run or not, every call may fail | every planned object is counted exactly once, as deleted or as failed (`NoCandidateLost`); every cycle ends (`CycleTerminates`) |
| `gate` | pods in every phase, excluded and plain objects that turn into one another, three kinds of policy, emergency stop toggled | nothing is sent against a law (`RequestsAuthorised`); a dry run does nothing (`DryRunIsInert`) |
| `clean` | 1 name, 2 lifetimes, every kind of policy | no object stays eligible for ever (`EligibleIsCleaned`) |

One run shows where a comment promises more than the code does; the quotes are in
`PROJECT.json`, under `findings`: in `replacement` the DELETE carries no UID
precondition, and a replacement created after the live read is destroyed.

### Reconcile loop

Bounds: `MaxUid` bounds the policies ever created (two under one name is the
smallest world in which maps by UID can go stale), `MaxFailures` saturates the
failure counts. Names interact only through the informer and the service of a
shared target, which outlive every policy: the second lifetime of a name finds
what the first one left, as a second name would. `MaxFailures = 1` with base equal to cap is
enough where delays are not compared; `recover` uses the real 30 s and 10 min.

| run | instance | shows |
|---|---|---|
| `reconcile` | 1 name, 2 lifetimes, paused and resumed, valid or not, target comes and goes | every path of a reconcile leaves another one to come (`NoPolicyForgotten`); `MapsAgree`; entries are lost track of only when a successor takes over the name of a policy whose deletion was not reconciled (`LostOnlyByReplacement`); cycles and services read a synced store (`StoreIsSynced`); an outage never turns a policy to Error (`TransientNeverError`); the candidate inductive invariant `IInv` |
| `recover` | 1 name, 2 lifetimes, target comes and goes, restarts | a policy whose target stays available is evaluated again and again (`RecoveryIsAutomatic`) |
| `settle` | 1 name, 2 lifetimes, malformed target, invalid or paused | a name whose policy stays deleted leaves `policyUIDs`, and a UID it was tracked with leaves `policySpecs` and `rateLimiters`, unless it was overwritten by a successor's (`DeletedIsForgotten`; no cycle runs here, so that limiters go along is `LostOnlyByReplacement` of `reconcile`); invalid and malformed ones end in phase Error (`InvalidIsReported`) |

In `hotloop`, which is expected to fail, the condition written by a failed
reconcile wakes the policy before its backoff is over.

### Pipeline

`pipeline` takes six scenes, each varying one part of a spec with what that part
looks at: `ttl` (every mode, missing and mistyped fields, zero, negative and
overflowing seconds), `select` (selectors and conditions with every operator),
`scope` (namespaces, kinds and apiVersions, well written and not), `protect`
(environments that protect different namespaces), `behavior`
(defaults, rates, batch sizes and intervals under every configuration) and `names`
(kinds whose plural the guess gets right or wrong, while the RESTMapper comes and
goes). `MaxDuration = 8` with TTLs of 1, 2 and 9 seconds has sane and overflowing
ones; `MaxNow = 3` lets every sane lifetime of the scenes pass.

| property | shows |
|---|---|
| `PlanIsIntended` | the plan is exactly the objects the policy means, less those the gate refuses |
| `ScopeIsBounded` | nothing is deleted outside the policy's namespace without a selector that selects something, in a namespace protected by nature or by the environment of the running process, of a protected kind in whatever spelling, or under the emergency stop; with or without the webhooks |
| `ReviewedIsAccepted` | of what the webhooks accepted, defaults included, the runtime validation refuses only a policy whose namespace the running process protects and the reviewing one did not |
| `DefaultsNeverGrant` | defaults keep a dry run and the grace period, propagation policy, rate and batch size that were set, and add no opt-in (one may be lost, see below) |
| `GoneMeansGone`, `ResolvesWhenDiscovered` | an object is never taken for gone because of a guessed name, and no guess outlives the outage it was made in |
| `BatchMakesProgress`, `CycleRepeats` | no policy and no environment variable makes the batch loop endless or the policy sleep; the flag and the interval of the controller that could are named |
| `PacedByPolicy` | deletions run at the stored policy's rate, though the limiter is older, and without one at the configured rate, unless that differs from the built-in default, which then counts (see below) |

`IInv` is the inductive invariant of section 4, checked here as well.

### Replicas

`replica` has two replicas that elect a leader, or one that does not, and two faults,
each of which may be a crash, a termination, a failed start, a port in use, a sync
that outlasts the probes, a manager that fails, or an API server that is cut off
from or denies a replica (an outage that ends is one fault). Two faults let a second
one meet the recovery from the first, on either replica. The probe threshold is 2 for
the manifests' 3: below it a probe may be missed without a consequence, at it the
container is killed, and nothing else depends on the number.

| property | shows |
|---|---|
| `IInv` | the inductive invariant of section 4 |
| `OneController` | of two replicas that run a controller with a live context at once, one is `Overdue`. Without that exception TLC finds two live controllers after 13 steps: r1 is cut off after a renewal, its lease comes of age, and r2 acquires and starts before r1's elector gives up |
| `TruthfulLeader` | who says leader holds the lease, is `Overdue` or on its way out, although `OnLeadingChange(true)` may come after `(false)` |
| `SurfacesAgree` | a process reports the API server unreachable, in state and gauge, exactly as long as the last event it recorded says so (an event of an earlier process, or none for want of a pod name, says nothing) |
| `LeadershipPassesOn` | while one replica reaches the API, some replica runs the controller again and again, unless the manager of the lease's holder failed on its own |
| `ReadinessTracksAPI` | a replica that is cut off ends up not ready, one that is not comes back to ready again and again |

### Further divergences

Seen while modelling; no run is kept for them:

* the live copy is compared by UID only: a live object that already carries the
  exclusion label is deleted (`reconciler_helpers.go:166`, laws 5 and 8 of
  `docs/SAFETY_MODEL.md`);
* refused, vanished and replaced resources leave `performResourceDeletion` with
  `nil` and are counted as deleted (`shared.go:225`, `docs/API_REFERENCE.md:224`);
* a failed read before the deletions is taken for absence, so an object this very
  cycle deleted can be reported ALREADY_ABSENT (`execution_path.go:98`, l.27);
* one failed reconcile probes on both evaluation paths and counts two failures:
  the first retry comes after 60 s (`target_capability.go:108`), and a count is not
  cleared when a policy finds the informer another one created;
* a reflector whose cache did not sync runs on beside its successor
  (`reconciler_informer.go:117`, l.88);
* the failure count of a deleted policy stays (`reconciler_lifecycle.go:66`);
* a paused policy keeps `nextGCRun`, because the paused path writes no status
  (`status_updater.go:96`);
* an invalid policy shows `Ready=True`, since the condition's status is the
  `permanent` flag (`status_updater.go:268`);
* `lastCycleRefusals` of an earlier cycle stays when a cycle refuses nothing
  (`status_updater.go:105`);
* phase Error survives successful evaluations (`status_updater.go:182`, whose
  comment says "until cleared by successful evaluation");
* SUCCEEDED can be reported twice for one object, when a replacement is present at
  the first read and absent at the second (`execution_path.go:122`, l.31-33);
* the checks of a changed spec recreate no informer: informers and services stay for
  the life of the process (`reconciler_lifecycle.go`);
* an error of `mgr.Start` is only logged: the replica keeps its lease, says leader
  and reconciles nothing (`main.go:559`);
* a denial by RBAC counts as reachable (`election.go:250`), although the comments
  there and at `main.go:262` name it as a cause of "unreachable";
* without election the leader state stays "not leading", so the full readiness law
  never applies (`leadership.go:116`, `health.go:43`);
* the lease timing has no margin: a cut-off holder gives up 5 + 10 s after its last
  renewal, the lease may be taken after 15 s, so two controllers can run for an instant
  (`election.go:131-139`), although `main.go:200-201`, `leadership.go:25-26`,
  `docs/security/threat-model.md:70` and `deploy/manifests/pdb.yaml:3` speak of exactly
  one reconciler. A `RenewDeadline` of less than 10 s, or a longer lease, would give one;
* a process that dies in an outage leaves its APIUnreachable on the pod, and the next
  one, which starts with `apiWasReachable` true, has no reason to record APIReachable
  (`main.go:266`);
* a policy deleted and recreated before its deletion is reconciled leaves `policySpecs`
  and `rateLimiters` of the former UID behind for the life of the process: the new UID
  overwrites the one the cleanup would look for (`reconciler_lifecycle.go:51-55`);
* a policy that the webhooks accepted turns invalid when the leader is, or becomes, a
  process whose environment protects its namespace (`config.go:127-139`,
  `reconciler.go:264`);
* `MaxDeletionsPerSecond` of the configuration, its variable and its flag are not used:
  a policy without a rate runs at the built-in 10 (`shared.go:120`), although
  `config.go:49-50` calls it "the default maximum deletions per second. Individual
  policies can override this." and so does the flag (`main.go:89`). The provider that
  would use it (`infrastructure.go:163-168`) is not used itself;
* `MaxConcurrentEvaluations` is only logged (`main.go:169`);
* `allowWorkloadDeletion` given as the only behavior is dropped by the mutating
  webhook (`webhook.go:340`);
* `secondsAfterCreation` of zero or less passes validation beside another mode, and
  shadows it: the object expires at once (`validator.go:350`, `evaluator.go:57`). The
  default of a field TTL is not validated at all;
* a TTL beyond 292 years wraps to the past (`evaluator.go:87`);
* admission accepts apiVersions that `ParseGVR` rejects or the probe calls malformed
  ("apps/");
* values given to `Exists` or `DoesNotExist` pass validation and make the selector
  match nothing; a label condition `In` the empty string never matches; the field
  operator `Exists` of `types.go` is unknown to the code (`shared.go:469`);
* escaped dots in field paths work for TTLs only (`field_path.go`, `evaluator.go`);
* the validator protects three namespaces, the gate six and the configured ones;
* `--batch-size` of zero or less is not validated and makes the batch loop endless;
  an interval of zero or less, by environment or flag, is no requeue.

### Fairness

`DeletionPath`'s `FairSpec` assumes weak fairness of the worker's own steps: the goroutine is
scheduled, and each API call returns (they run with client-go timeouts and a
context), with an answer or an error. Nothing is assumed of the server or the
other clients; the answer may always be an error. `CalmSpec`, for
`EligibleIsCleaned` only, adds what the code relies on but cannot bring about:
from some time on no more crashes and lost leases, a free lease is taken, the
watch delivers, each policy is requeued again and again on an evaluation path
(`RequeueAfter`), and reads and DELETEs that are retried for ever do not fail for
ever (strong fairness: in between there are steps in which they are not possible).

`Replica`'s `FairSpec` assumes weak fairness of the kubelet (a container that is
down is started, probes are made, a container over the threshold is killed), of the
elector's rounds (timers fire, calls return), of the callback goroutine, of the end
of a wait for a cache (`DefaultCacheSyncTimeout`) and of time. No call has to
succeed, and a lost network need not heal: the properties assume what they need of
it. `PolicyPipeline` states no fairness and no liveness.

`PolicyReconcile`'s `FairSpec` assumes weak fairness of the reconcile in progress
(calls return), of watch delivery and of timers; strong fairness of taking a name
from the queue, which is first come, first served while the goroutine is at times
busy with another name; that processes are not replaced for ever; and strong
fairness of the calls that can succeed (probe, sync, read and write of a status):
a retry that is possible again and again is not refused for ever. `FetchFails` is
not excluded: it is tried against `Start`, which is fair.

## 4. Proofs

Every invariant and every action property of the passing runs is a theorem, for all
values of the constants. Each module proves its inductive invariant `IInv` (checked by
TLC first, in the runs `retry`, `reconcile`, `pipeline` and `replica`), one lemma per
action or group of actions, and then the properties as consequences. The assumptions are
the named `ASSUME`s of the modules that declare the constants; TLC evaluates them in
every run.

### DeletionPath

For every `Workers`, `Keys`, `Shapes`, `MaxUid`, `MaxInFlight`, `Steps` and
`BatchSize` allowed by `ConstantsAssumption`:

* `Invariance`: `Spec => []IInv`;
* `TypeCorrect`, `Authorised`, `UidCheckHolds`, `ReceiptsHonest`, `DryRunSafe`,
  `AllAccounted`: the invariants of the runs, as consequences;
* `LeaderSends`: the action property `SentByLeader`.

None of the properties is inductive alone. Types need `step < Steps` at the read
and the await (a retry increments the step). `RequestsAuthorised` needs to know at
`ReadMatches` that the gate passed, that the policy is no dry run and that the object was planned as
due (`CycleOK`). `OnlyRaceHitsReplacement` needs `mark <= nextUid`, so that new
objects count as created after the check. `SettledMeansGone` needs that a UID that
has left its key never comes back: UIDs in snapshots are below `nextUid`
and, if alive, live under the same key (`SnapshotOK`, for the server, every cache
and every plan). `SentByLeader` needs that a running cycle that is not
cancelled belongs to the leader. `NoCandidateLost` speaks of the end of a cycle
only; `AccountOK` says at every point which planned objects are still `Pending`, that
the rest was counted or failed, and that the rest of the plan and the batch are disjoint. The proof
has one step per action; lemmas about `EndItem`, `Idle` and a step that only changes one
worker are shared.

`DeletionRefinement_proofs` proves `Refinement`: `Spec => KeepsContract`. Every step
that changes the store, the lease or the requests in flight is one step of
`CleanupContract`; all others are stutters. It rests on three facts: a request in flight
is a lawful one (`RequestsAuthorised`), the read that precedes a DELETE saw the UID the
plan saw (`ReadMatches`, with the invariant about the leader), and a name without an
object carries nothing of the object before (`FreeIsAbsent`).

### PolicyReconcile

For any names, targets, specs, bounds and outages allowed by `PolicyAssumption` and
`SaturationAssumption`: `Invariant` and its consequences `NoPolicyForgottenHolds`,
`MapsAgreeHolds`, `StoreIsSyncedHolds`, `TransientNeverErrorHolds`, and the action property
`LostOnlyByReplacementHolds` (step by step, what each action does to the three maps:
`MapsStep`). What had to be added:

* `UidsDistinct`: to forget a name takes its UID out of every table, which is right only
  if no other name has that UID, in the server, in the cache or in the map;
* `CacheIsCurrent`: a name is forgotten on the cache's word that it is gone; with no
  event under way that word is true, otherwise the event brings the name back;
* `ReconcileOK`: what the place of the reconcile in progress implies for the informer it
  created or waits for;
* `FaultsMarked`: a phase is computed from a copy of the policy that may be older than
  the fault or its repair, so all copies have to be accounted for;
* `SpecsKnown`: types alone do not say that a policy that exists has a user's spec.

`BackoffBounded` and `SaturationIsHarmless` are about the doubling of
`TargetBackoffFor`, a recursive function on the naturals. The library's induction
theorems take an operator as parameter and cannot be used; the module derives from the
well-foundedness of `<` that a set of naturals that is not empty has a least element
(`LeastNatural`), and proves existence of the recursive function, and then the bounds, by
smallest counterexample. `SaturationIsHarmless` justifies the bound `MaxFailures` of the
model: a counter that stops there gives the delay of one that does not.

### PolicyPipeline

For any scenes (specs, objects, starts, RESTMappers), kinds, plurals, clock and width of
a duration. `ScenesAssumption` says that these are what Go's types allow, with numbers of
any sign, and that objects have a kind that is served; `NamesAssumption` that the
ending of a kind is that of its lower case, that served kinds differ in more than case
(the model has one group per kind), and that a served apiVersion is `v1` or a group and a
version. Proved:

* pure facts first: `SelectionMeans`, `ConditionsMean`, `ExpiryMeans` show operator by
  operator that `matchesSelectors`, `meetsConditions` and `shouldDelete` are the reference
  definitions `Selected`, `Wanted` and `Due` (`DurationExact`: seconds within
  `MaxDuration` do not wrap), and `PlanMeans` puts them together for both evaluation paths;
* `Invariant`; then `PlanIsIntendedHolds`, `ScopeIsBoundedHolds` (the action property),
  `ReviewedIsAcceptedHolds`, `DefaultsNeverGrantHolds`, `GoneMeansGoneHolds`,
  `ResolvesWhenDiscoveredHolds`, `BatchMakesProgressHolds`, `CycleRepeatsHolds`,
  `PacedByPolicyHolds`.

The strengthening: `VerdictStands` (a verdict is the value of the plan on the state of
now, not of the moment it was made), `ConfigIsMade` (the configuration is that of some
start), `StoredIsSpec` (what the webhooks saw is valid, for the gate that reviewed it), `CacheIsDiscovered` (the cache
holds confirmed names only) and `InformersAreServed`: whoever watches a target has its
name in the cache or guesses it right. The last one is what `GoneMeansGone` needs: an
object is deleted under its own kind, the informer was made under the policy's spelling of
it, and discovery may have gone away in between. The proof gives more than the property:
`DeleteOK` shows that a planned object is never classified as gone at all.

### Replica

For any number of replicas, faults and deployments allowed by `ReplicaAssumption` (without
election there is one pod): `Invariant`, `TypeCorrect`, `OneControllerHolds`,
`TruthfulLeaderHolds`, `SurfacesAgreeHolds`. `OneController` needs `LeaderHolds`: who
leads holds the lease, and its age and the time its holder still tries add up to no more
than `LeaseDuration`, or that time is over. It rests on `RetryPeriod + RenewDeadline <=
LeaseDuration`, which the durations meet with equality (with a longer `RenewDeadline` the
proof fails, as it should); `RunFollowsMain` and `ModeAgrees`, since a goroutine that outlives the election
and a process without election both count. `TruthfulLeader` needs that the announcement
of leading comes only from a process that acquired (`LeadingIsEarned`), `SurfacesAgree`
that the flag `apiWasReachable`, against which events are decided, is the last
observation and agrees with the last event of this process (`ObservationsAgree`).

### Checked by TLC only

The liveness properties (`CycleTerminates`, `EligibleIsCleaned`, `RecoveryIsAutomatic`,
`DeletedIsForgotten`, `InvalidIsReported`, `LeadershipPassesOn`, `ReadinessTracksAPI`):
fairness and ENABLED are out of the prover's reach. And the two counterexamples.

## 5. Plan

1. `SafetyGate`, `DeletionPath`, runs and proofs: done.
2. `PolicyReconcile` and its runs: done.
3. `CleanupContract` and the refinement, model-checked and proved: done.
4. `Replica`: done.
5. `Validation`, `Eligibility`, `PolicyPipeline` with reference definitions: done.
6. Proofs of the inductive invariants and of all safety properties: done.
7. Next: facts the liveness arguments rest on and the prover can reach, such as bounds
   that every step of a cycle decreases (`CycleTerminates`) or that no step of a
   reconcile raises.

### Not modelled

* metrics, logs, tracing and events other than the pod's reachability: output only;
* the MCP server and the operations registry: read-only tooling beside the
  controller, without a part in any decision to delete;
* the policy integrity overlay (`policyintegrity.go`): no construction site sets a
  verifier, so the check at `reconciler.go:287` never runs in the binary;
* `DeleteWithReceipt`, `ActivityChecker`, `CompositeChecker`, `internal/errors/classified.go`,
  `internal/config/env.go` and the other helpers that no code of the controller calls;
* HTTP, TLS and the decoding of reviews in the webhook; wall-clock rate limiting; the
  counters, `nextGCRun` and refusals of a policy's status.
