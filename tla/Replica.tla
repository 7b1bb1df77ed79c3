------------------------------ MODULE Replica ------------------------------
(***************************************************************************)
(* The life of a zen-cleaner process (cmd/zen-cleaner, internal/election,  *)
(* pkg/controller/leadership.go and health.go): start-up, the always-on    *)
(* health server, leader election over one lease, the callback goroutine   *)
(* that runs the controller, what the replica reports about itself, and    *)
(* the kubelet that probes and restarts it.                                *)
(*                                                                         *)
(* A replica is a pod; its process is restarted in place, so its identity  *)
(* in the lease (the host name) survives a restart.  What the controller   *)
(* does while it runs is reduced to the lock of its informer map, which    *)
(* the probes of a leader take too.  An informer stays in the map for the  *)
(* life of the process.                                                    *)
(***************************************************************************)
EXTENDS Naturals

CONSTANTS
    Replicas,
    Deployments,       \* --leader-election, the pods, whether they know their names
    FailureThreshold,  \* probes the kubelet lets fail in a row
    MaxFaults,         \* bound: number of faults of the environment
    NoReplica

ASSUME ReplicaAssumption ==
    /\ FailureThreshold \in Nat \ {0}
    /\ MaxFaults \in Nat
    /\ NoReplica \notin Replicas
    /\ Deployments \subseteq
          [leaderElection : BOOLEAN, pods : SUBSET Replicas, named : BOOLEAN]
    \* logLeaderElectionMode: without election only safe for one replica.
    /\ \A d \in Deployments :
          ~d.leaderElection => \E r \in Replicas : d.pods = {r}

\* Mutant: 15 seconds, as long as the lease.
RenewDeadline_AsLease == 3

\* ApplyDefaults, in units of RetryPeriod (5, 10 and 15 seconds).
RetryPeriod == 1

RenewDeadline == 2

LeaseDuration == 3

\* The elector waits a RetryPeriod after a renewal and then tries for
\* RenewDeadline: as long as the lease lasts, and no margin is left.
GivesUpAfter == RetryPeriod + RenewDeadline

VARIABLES
    flags,    \* the deployment
    network,  \* how the API server answers a replica: ok, denied or cut
    lease,    \* the Lease object: holder and time since its last renewal
    left,     \* time until the elector of a leader gives up, 0 if none leads
    main,     \* where runMain is
    run,      \* where the goroutine of OnStartedLeading is
    bound,    \* the health server has its port
    state,    \* LeaderState: leading, apiReachable
    gauge,    \* the gauges on /metrics: leading, apiReachable
    event,    \* the last event recorded on the pod; stale: the last one is
              \* APIUnreachable and an earlier process recorded it
    was,      \* apiWasReachable of runMain
    map,      \* resourceInformersMu
    misses,   \* liveness probes failed in a row
    faults    \* faults so far

vars == <<flags, network, lease, left, main, run, bound, state, gauge, event, was,
          map, misses, faults>>

report == <<state, gauge, event, was>>

(***************************************************************************)
(* Data                                                                    *)
(***************************************************************************)

\* elect: acquiring; lead: renewing; direct: election is disabled;
\* exiting: after OnStoppedLeading.
MainPlaces == {"down", "elect", "lead", "direct", "exiting"}

\* announce: before OnLeadingChange(true); setup: in runController before
\* mgr.Start; running: in mgr.Start; failed: mgr.Start returned an error.
RunPlaces == {"none", "announce", "setup", "running", "failed", "ended"}

Report == [leading : BOOLEAN, apiReachable : BOOLEAN]

\* NewLeaderState and the gauges' init: the API is taken to be reachable.
NewLeaderState == [leading |-> FALSE, apiReachable |-> TRUE]

\* creating: the write lock is held while an informer is made.
MapStates == {"free", "creating"}

Pods == flags.pods

Alive(r) == main[r] # "down"

\* The context that mgr.Start runs under has not been cancelled.
Live(r) == main[r] \in {"lead", "direct"}

Init ==
    /\ flags \in Deployments
    /\ network = [r \in Replicas |-> "ok"]
    /\ lease = [holder |-> NoReplica, age |-> 0]
    /\ left = [r \in Replicas |-> 0]
    /\ main = [r \in Replicas |-> "down"]
    /\ run = [r \in Replicas |-> "none"]
    /\ bound = [r \in Replicas |-> FALSE]
    /\ state = [r \in Replicas |-> NewLeaderState]
    /\ gauge = [r \in Replicas |-> NewLeaderState]
    /\ event = [r \in Replicas |-> "none"]
    /\ was = [r \in Replicas |-> TRUE]
    /\ map = [r \in Replicas |-> "free"]
    /\ misses = [r \in Replicas |-> 0]
    /\ faults = 0

(***************************************************************************)
(* Start-up                                                                *)
(***************************************************************************)

\* A fault of the environment.
Fault == faults < MaxFaults /\ faults' = faults + 1

\* ServeStandalone: a listen error comes up in its goroutine and is logged.
ServeStandalone(r, listens) ==
    /\ bound' = [bound EXCEPT ![r] = listens]
    /\ IF listens THEN faults' = faults ELSE Fault

\* runMain up to the election.  A process starts with the memory that Ends
\* left.
Boot(r, listens) ==
    /\ main[r] = "down"
    /\ r \in Pods
    /\ ServeStandalone(r, listens)
    /\ main' = [main EXCEPT ![r] =
                  IF flags.leaderElection THEN "elect" ELSE "direct"]
    /\ run' = [run EXCEPT ![r] =
                  IF flags.leaderElection THEN "none" ELSE "setup"]
    /\ UNCHANGED <<flags, network, lease, left, report, map, misses>>

\* The process ends: its listeners, goroutines and memory are gone; the lease
\* and the events stay.
Ends(r) ==
    /\ main' = [main EXCEPT ![r] = "down"]
    /\ left' = [left EXCEPT ![r] = 0]
    /\ run' = [run EXCEPT ![r] = "none"]
    /\ bound' = [bound EXCEPT ![r] = FALSE]
    /\ state' = [state EXCEPT ![r] = NewLeaderState]
    /\ gauge' = [gauge EXCEPT ![r] = NewLeaderState]
    /\ was' = [was EXCEPT ![r] = TRUE]
    /\ event' = [event EXCEPT ![r] = IF @ = "APIUnreachable" THEN "stale" ELSE @]
    /\ map' = [map EXCEPT ![r] = "free"]
    /\ misses' = [misses EXCEPT ![r] = 0]

\* Clients or configuration that cannot be built, a metrics port in use, TLS
\* files that are missing: the process exits with 1 before the election.
BootFails(r) ==
    /\ main[r] = "down"
    /\ r \in Pods
    /\ Fault
    /\ UNCHANGED <<flags, network, lease, left, main, run, bound, report, map, misses>>

(***************************************************************************)
(* Leader election                                                         *)
(***************************************************************************)

\* Mutant: every outcome counts as reachable.
Responds_Always(r) == TRUE

\* observedLock: what counts as reachable is that the API server responded,
\* with an error or not.
Responds(r) == network[r] # "cut"

\* Mutant: only the outage is announced.
Announced_Outage(r, reachable) ==
    IF flags.named /\ ~reachable /\ was[r] THEN "APIUnreachable" ELSE event[r]

\* An event for a change, if the pod's name is known.
Announced(r, reachable) ==
    IF reachable = was[r] \/ ~flags.named THEN event[r]
    ELSE IF reachable THEN "APIReachable" ELSE "APIUnreachable"

\* OnAPIObservation.  The event is handed to the recorder; whether it arrives
\* while the API server is cut off is not said.
Observe(r) ==
    LET reachable == Responds(r) IN
    /\ state' = [state EXCEPT ![r].apiReachable = reachable]
    /\ gauge' = [gauge EXCEPT ![r].apiReachable = reachable]
    /\ was' = [was EXCEPT ![r] = reachable]
    /\ event' = [event EXCEPT ![r] = Announced(r, reachable)]

\* Mutant: leases do not expire.
MayTake_OnlyFree(r) == lease.holder \in {NoReplica, r}

\* Mutant: a lease is taken once its holder has no more time to renew it.
MayTake_AtDeadline(r) ==
    \/ lease.holder \in {NoReplica, r}
    \/ lease.age >= RenewDeadline

\* A lease of another replica stands until it was not renewed for LeaseDuration
\* (longer, for a replica that saw the renewal later).
MayTake(r) ==
    \/ lease.holder \in {NoReplica, r}
    \/ lease.age >= LeaseDuration

Renewed(r) == lease' = [holder |-> r, age |-> 0]

\* The lease is taken; OnStartedLeading is started in its own goroutine, and
\* renew() begins to try at once.
Acquire(r) ==
    /\ main[r] = "elect"
    /\ network[r] = "ok"
    /\ MayTake(r)
    /\ Renewed(r)
    /\ left' = [left EXCEPT ![r] = RenewDeadline]
    /\ Observe(r)
    /\ main' = [main EXCEPT ![r] = "lead"]
    /\ run' = [run EXCEPT ![r] = "announce"]
    /\ UNCHANGED <<flags, network, bound, map, misses, faults>>

AcquireFails(r) ==
    /\ main[r] = "elect"
    /\ network[r] # "ok" \/ ~MayTake(r)
    /\ Observe(r)
    /\ UNCHANGED <<flags, network, lease, left, main, run, bound, map, misses, faults>>

Renew(r) ==
    /\ main[r] = "lead"
    /\ network[r] = "ok"
    /\ lease.holder = r
    /\ Renewed(r)
    /\ left' = [left EXCEPT ![r] = GivesUpAfter]
    /\ Observe(r)
    /\ UNCHANGED <<flags, network, main, run, bound, map, misses, faults>>

RenewFails(r) ==
    /\ main[r] = "lead"
    /\ network[r] # "ok" \/ lease.holder # r
    /\ Observe(r)
    /\ UNCHANGED <<flags, network, lease, left, main, run, bound, map, misses, faults>>

\* OnLeadingChange.
SetLeading(r, leading) ==
    /\ state' = [state EXCEPT ![r].leading = leading]
    /\ gauge' = [gauge EXCEPT ![r].leading = leading]

\* OnStoppedLeading: the election is over for this process and the context of
\* its controller is cancelled.
Stop(r) ==
    /\ main' = [main EXCEPT ![r] = "exiting"]
    /\ left' = [left EXCEPT ![r] = 0]
    /\ SetLeading(r, FALSE)
    /\ UNCHANGED <<flags, network, lease, run, event, was, map, misses>>

\* The deadline of renew() is over.  That another replica took the lease ends
\* nothing earlier.
Overdue(r) == main[r] = "lead" /\ left[r] = 0

LoseLease(r) ==
    /\ Overdue(r)
    /\ Stop(r)
    /\ UNCHANGED <<bound, faults>>

\* ShutdownContext: SIGTERM ends the election, the controller and the health
\* server; the lease is not released.
Terminate(r) ==
    /\ main[r] \in {"elect", "lead", "direct"}
    /\ Fault
    /\ Stop(r)
    /\ bound' = [bound EXCEPT ![r] = FALSE]

\* Mutant: the process that lost the lease stands for election again.
Exit_Rejoins(r) ==
    /\ main[r] = "exiting"
    /\ main' = [main EXCEPT ![r] = "elect"]
    /\ UNCHANGED <<flags, network, lease, left, run, bound, report, map, misses,
                   faults>>

\* RunOrDie returns, or without election the controller, so runMain returns
\* and the process exits.
Exit(r) ==
    /\ main[r] = "exiting"
    /\ flags.leaderElection \/ run[r] = "ended"
    /\ Ends(r)
    /\ UNCHANGED <<flags, network, lease, faults>>

(***************************************************************************)
(* The callback goroutine and the controller                               *)
(***************************************************************************)

\* OnLeadingChange(true), in the goroutine of OnStartedLeading.
Announce(r) ==
    /\ run[r] = "announce"
    /\ run' = [run EXCEPT ![r] = "setup"]
    /\ SetLeading(r, TRUE)
    /\ UNCHANGED <<flags, network, lease, left, main, bound, event, was, map, misses,
                   faults>>

\* runController up to mgr.Start; its errors end the process.
Setup(r) ==
    /\ run[r] = "setup"
    /\ run' = [run EXCEPT ![r] = "running"]
    /\ UNCHANGED <<flags, network, lease, left, main, bound, report, map, misses, faults>>

SetupFails(r) ==
    /\ run[r] = "setup"
    /\ Fault
    /\ Ends(r)
    /\ UNCHANGED <<flags, network, lease>>

\* mgr.Start returns an error of its own (a cache that does not sync): it is
\* logged, and the goroutine returns; without election runMain returns too.
ManagerFails(r) ==
    /\ run[r] = "running"
    /\ Live(r)
    /\ map[r] # "creating"
    /\ Fault
    /\ IF main[r] = "direct"
       THEN Ends(r)
       ELSE /\ run' = [run EXCEPT ![r] = "failed"]
            /\ map' = [map EXCEPT ![r] = "free"]
            /\ UNCHANGED <<left, main, bound, report, misses>>
    /\ UNCHANGED <<flags, network, lease>>

\* mgr.Start returns after its context was cancelled.
ManagerStops(r) ==
    /\ run[r] = "running"
    /\ ~Live(r)
    /\ run' = [run EXCEPT ![r] = "ended"]
    /\ UNCHANGED <<flags, network, lease, left, main, bound, report, map, misses, faults>>

\* getOrCreateResourceInformer takes the write lock and keeps it through the
\* capability probe, the registration and the wait for the cache.
Create(r) ==
    /\ run[r] = "running"
    /\ Live(r)
    /\ map[r] = "free"
    /\ map' = [map EXCEPT ![r] = "creating"]
    /\ UNCHANGED <<flags, network, lease, left, main, run, bound, report, misses, faults>>

\* The cache has synced; or the probe was refused or the wait timed out, and
\* the informer is taken out of the map again.
Created(r) ==
    /\ map[r] = "creating"
    /\ map' = [map EXCEPT ![r] = "free"]
    /\ UNCHANGED <<flags, network, lease, left, main, run, bound, report, misses, faults>>

(***************************************************************************)
(* Health                                                                  *)
(***************************************************************************)

\* InformerSyncChecker takes the map's lock, so it waits for a new informer
\* and finds in the map only informers that have synced.
Readable(r) == map[r] = "free"

\* A standby is alive; a leader's answer needs the map.
LivenessCheck(r) == ~state[r].leading \/ Readable(r)

Answers(r) == bound[r] /\ LivenessCheck(r)

ReadinessCheck(r) == ~state[r].leading \/ Readable(r)

\* LeadershipAwareReadinessCheck.
Ready(r) ==
    /\ bound[r]
    /\ state[r].apiReachable
    /\ ReadinessCheck(r)

LeaderzCheck(r) == IF state[r].leading THEN "leader" ELSE "standby"

ProbeOk(r) ==
    /\ Alive(r)
    /\ Answers(r)
    /\ misses[r] # 0
    /\ misses' = [misses EXCEPT ![r] = 0]
    /\ UNCHANGED <<flags, network, lease, left, main, run, bound, report, map, faults>>

\* A probe is not answered in time.  That a sync outlasts all the probes the
\* kubelet tolerates is a fault.  A process on its way out is gone before the
\* kubelet would kill it.
ProbeMissed(r) ==
    /\ Alive(r) /\ main[r] # "exiting"
    /\ ~Answers(r)
    /\ misses[r] < FailureThreshold
    /\ misses' = [misses EXCEPT ![r] = @ + 1]
    /\ IF misses'[r] = FailureThreshold /\ bound[r]
       THEN Fault ELSE faults' = faults
    /\ UNCHANGED <<flags, network, lease, left, main, run, bound, report, map>>

\* The kubelet restarts the container.
Kill(r) ==
    /\ misses[r] = FailureThreshold
    /\ Ends(r)
    /\ UNCHANGED <<flags, network, lease, faults>>

(***************************************************************************)
(* Environment                                                             *)
(***************************************************************************)

Crash(r) ==
    /\ Alive(r)
    /\ Fault
    /\ Ends(r)
    /\ UNCHANGED <<flags, network, lease>>

NetworkFails(r, how) ==
    /\ r \in Pods
    /\ network[r] = "ok"
    /\ Fault
    /\ network' = [network EXCEPT ![r] = how]
    /\ UNCHANGED <<flags, lease, left, main, run, bound, report, map, misses>>

NetworkHeals(r) ==
    /\ network[r] # "ok"
    /\ network' = [network EXCEPT ![r] = "ok"]
    /\ UNCHANGED <<flags, lease, left, main, run, bound, report, map, misses, faults>>

\* Electors act on time: a holder that can renew does so when it is due, and
\* one whose deadline is over gives up.
ElectorIsDue(r) ==
    \/ Overdue(r)
    \/ /\ main[r] = "lead" /\ lease.holder = r
       /\ network[r] = "ok" /\ lease.age >= RetryPeriod

\* A RetryPeriod passes.
Tick ==
    /\ lease.holder # NoReplica
    /\ lease.age < LeaseDuration
    /\ \A r \in Replicas : ~ElectorIsDue(r)
    /\ lease' = [lease EXCEPT !.age = @ + 1]
    /\ left' = [r \in Replicas |-> IF main[r] = "lead" THEN left[r] - 1 ELSE left[r]]
    /\ UNCHANGED <<flags, network, main, run, bound, report, map, misses, faults>>

(***************************************************************************)
(* The specification                                                       *)
(***************************************************************************)

ElectorStep(r) ==
    \/ Acquire(r) \/ AcquireFails(r)
    \/ Renew(r) \/ RenewFails(r) \/ LoseLease(r)
    \/ Exit(r)

RunStep(r) ==
    \/ Announce(r) \/ Setup(r) \/ ManagerStops(r)

KubeletStep(r) == ProbeOk(r) \/ ProbeMissed(r) \/ Kill(r)

FaultStep(r) ==
    \/ BootFails(r)
    \/ Terminate(r)
    \/ SetupFails(r)
    \/ ManagerFails(r)
    \/ Crash(r)
    \/ \E how \in {"denied", "cut"} : NetworkFails(r, how)

Next ==
    \/ \E r \in Replicas :
          \/ \E listens \in BOOLEAN : Boot(r, listens)
          \/ ElectorStep(r)
          \/ RunStep(r)
          \/ Create(r) \/ Created(r)
          \/ KubeletStep(r)
          \/ FaultStep(r)
          \/ NetworkHeals(r)
    \/ Tick

Spec == Init /\ [][Next]_vars

\* The kubelet starts what is down, probes and kills; the elector's timers
\* fire and its calls return; goroutines that are not blocked go on; a wait
\* for a cache ends (DefaultCacheSyncTimeout); time passes.
FairSpec ==
    /\ Spec
    /\ \A r \in Replicas :
          /\ WF_vars(Boot(r, TRUE))
          /\ WF_vars(ElectorStep(r))
          /\ WF_vars(RunStep(r))
          /\ WF_vars(Created(r))
          /\ WF_vars(KubeletStep(r))
    /\ WF_vars(Tick)

(***************************************************************************)
(* Safety                                                                  *)
(***************************************************************************)

\* Type correctness.
TypeOK ==
    /\ flags \in Deployments
    /\ network \in [Replicas -> {"ok", "denied", "cut"}]
    /\ lease \in [holder : Replicas \cup {NoReplica}, age : 0..LeaseDuration]
    /\ left \in [Replicas -> 0..GivesUpAfter]
    /\ main \in [Replicas -> MainPlaces]
    /\ run \in [Replicas -> RunPlaces]
    /\ bound \in [Replicas -> BOOLEAN]
    /\ state \in [Replicas -> Report]
    /\ gauge \in [Replicas -> Report]
    /\ event \in [Replicas -> {"none", "APIReachable", "APIUnreachable", "stale"}]
    /\ was \in [Replicas -> BOOLEAN]
    /\ map \in [Replicas -> MapStates]
    /\ misses \in [Replicas -> 0..FailureThreshold]
    /\ faults \in 0..MaxFaults

\* Exactly-one reconciliation, as far as RunOrDie and the durations go: through
\* crashes, restarts in place, outages and takeovers, of two replicas that run
\* a controller at once one is at the very end of its deadline.  (Both instants
\* are 15 seconds after the last renewal, so the exception does happen.)
OneController ==
    \A r, s \in Replicas :
        (run[r] = "running" /\ Live(r) /\ run[s] = "running" /\ Live(s)) =>
            r = s \/ Overdue(r) \/ Overdue(s)

\* /leaderz: OnLeadingChange(true) comes from another goroutine than
\* OnLeadingChange(false) and may come after it; a replica that says leader is
\* the holder of the lease, or its deadline is over, or it is on its way out.
TruthfulLeader ==
    \A r \in Replicas :
        Alive(r) /\ (LeaderzCheck(r) = "leader" \/ gauge[r].leading) =>
            \/ main[r] = "lead" /\ lease.holder = r
            \/ Overdue(r)
            \/ main[r] = "exiting"

\* OnAPIObservation: state, gauge and the events that a process recorded tell
\* the same story: the API server is reported unreachable exactly as long as
\* the process's last event says so.  (What an earlier process left on the pod
\* is stale, and without a pod name there is no event.)
SurfacesAgree ==
    \A r \in Replicas : Alive(r) =>
        /\ gauge[r].apiReachable = state[r].apiReachable
        /\ flags.named => (state[r].apiReachable <=> event[r] # "APIUnreachable")

(***************************************************************************)
(* The inductive invariant behind the safety properties                    *)
(***************************************************************************)

\* Who leads holds the lease and gives up no later than the others may take
\* it, unless its deadline is over already.
LeaderHolds ==
    \A r \in Replicas : main[r] = "lead" =>
        \/ left[r] = 0
        \/ lease.holder = r /\ lease.age + left[r] <= LeaseDuration

\* The goroutine of OnStartedLeading is there only once the lease was taken;
\* without election nothing is announced.
RunFollowsMain ==
    \A r \in Replicas :
        /\ main[r] \in {"down", "elect"} => run[r] = "none"
        /\ main[r] = "direct" => run[r] # "announce"

\* A replica says leader only while it leads or is on its way out.
LeadingIsEarned ==
    \A r \in Replicas : main[r] \notin {"lead", "exiting"} =>
        ~state[r].leading /\ ~gauge[r].leading

\* Where a process is agrees with the flag it was started with.
ModeAgrees ==
    \A r \in Replicas :
        /\ main[r] # "down" => r \in Pods
        /\ main[r] \in {"elect", "lead"} => flags.leaderElection
        /\ main[r] = "direct" => ~flags.leaderElection

\* The last observation is in apiWasReachable, the state, the gauge and the
\* events alike.
ObservationsAgree ==
    \A r \in Replicas :
        /\ state[r].apiReachable = was[r]
        /\ gauge[r].apiReachable = was[r]
        /\ flags.named => (was[r] <=> event[r] # "APIUnreachable")

\* Leading, running and reporting are consistent on every replica.
IInv ==
    /\ TypeOK
    /\ LeaderHolds
    /\ RunFollowsMain
    /\ LeadingIsEarned
    /\ ModeAgrees
    /\ ObservationsAgree

(***************************************************************************)
(* Liveness                                                                *)
(***************************************************************************)

\* The replica keeps the lease although its controller is gone.
Zombie(r) == main[r] = "lead" /\ run[r] = "failed"

\* Crashes, kills, outages and terminations do not end the cleaning: while the
\* API server answers one replica, some replica runs the controller again and
\* again, unless the manager of a lease's holder failed on its own.
LeadershipPassesOn ==
    \A s \in Replicas : s \in Pods /\ <>[](network[s] = "ok") =>
        []<>(\E r \in Replicas : (run[r] = "running" /\ Live(r)) \/ Zombie(r))

\* LeadershipAwareReadinessCheck: a replica that cannot reach the API server
\* ends up not ready, and one that can keeps coming back to ready, leader or
\* standby, whatever the informers and the probes do.
ReadinessTracksAPI ==
    flags.leaderElection =>
        \A r \in Replicas : r \in Pods =>
            /\ <>[](network[r] = "cut") => <>[]~Ready(r)
            /\ <>[](network[r] = "ok") => []<>Ready(r)
=============================================================================
