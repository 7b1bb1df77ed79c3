--------------------------- MODULE Replica_proofs ---------------------------
(***************************************************************************)
(* Proofs about Replica for any number of replicas and faults and any set  *)
(* of deployments.  IInv is inductive; the safety properties follow.       *)
(***************************************************************************)
EXTENDS Replica, TLAPS

Events == {"none", "APIReachable", "APIUnreachable", "stale"}

\* An environment's fault keeps the bound.
LEMMA FaultType ==
    ASSUME faults \in 0..MaxFaults, Fault \/ faults' = faults
    PROVE  faults' \in 0..MaxFaults
BY ReplicaAssumption DEF Fault

\* OnAPIObservation keeps the observations in agreement, and the report's
\* types.  What it says of leading does not change.
LEMMA ObserveOK ==
    ASSUME TypeOK, ObservationsAgree, NEW r \in Replicas, Observe(r), UNCHANGED flags
    PROVE  /\ state' \in [Replicas -> Report]
           /\ gauge' \in [Replicas -> Report]
           /\ was' \in [Replicas -> BOOLEAN]
           /\ event' \in [Replicas -> Events]
           /\ ObservationsAgree'
           /\ \A s \in Replicas : /\ state'[s].leading = state[s].leading
                                  /\ gauge'[s].leading = gauge[s].leading
<1> DEFINE reachable == Responds(r)
<1>1. reachable \in BOOLEAN
  BY DEF Responds
<1>2. /\ state' = [state EXCEPT ![r].apiReachable = reachable]
      /\ gauge' = [gauge EXCEPT ![r].apiReachable = reachable]
      /\ was' = [was EXCEPT ![r] = reachable]
      /\ event' = [event EXCEPT ![r] =
                     IF reachable = was[r] \/ ~flags.named THEN event[r]
                     ELSE IF reachable THEN "APIReachable" ELSE "APIUnreachable"]
  BY DEF Observe, Announced
<1> HIDE DEF reachable
<1>3. /\ state' \in [Replicas -> Report]
      /\ gauge' \in [Replicas -> Report]
      /\ was' \in [Replicas -> BOOLEAN]
  BY <1>1, <1>2 DEF TypeOK, Report
<1>4. event' \in [Replicas -> Events]
  BY <1>1, <1>2 DEF TypeOK, Events
<1>5. ObservationsAgree'
  BY <1>1, <1>2, <1>3, <1>4 DEF TypeOK, ObservationsAgree, Report
<1>6. \A s \in Replicas : /\ state'[s].leading = state[s].leading
                          /\ gauge'[s].leading = gauge[s].leading
  BY <1>2 DEF TypeOK, Report
<1> QED BY <1>3, <1>4, <1>5, <1>6

\* A process that ends keeps the invariant, whatever place it ends from: the
\* lease stays with it until it expires.
LEMMA EndsOK ==
    ASSUME IInv, NEW r \in Replicas, Ends(r), Fault \/ faults' = faults,
           UNCHANGED <<flags, network, lease>>
    PROVE  IInv'
<1>1. TypeOK'
  BY FaultType, ReplicaAssumption
     DEF IInv, TypeOK, Ends, MainPlaces, RunPlaces, Report, NewLeaderState,
         MapStates, RetryPeriod, RenewDeadline, GivesUpAfter
<1>2. LeaderHolds' /\ RunFollowsMain' /\ ModeAgrees'
  BY DEF IInv, TypeOK, Ends, LeaderHolds, RunFollowsMain, ModeAgrees, Pods
<1>3. LeadingIsEarned' /\ ObservationsAgree'
  BY DEF IInv, TypeOK, Ends, LeadingIsEarned, ObservationsAgree, NewLeaderState
<1> QED BY <1>1, <1>2, <1>3 DEF IInv

\* A step of the elector that only observes.
LEMMA OnlyObserves ==
    ASSUME IInv, NEW r \in Replicas, Observe(r),
           UNCHANGED <<flags, network, lease, left, main, run, bound, map, misses,
                       faults>>
    PROVE  IInv'
<1>1. TypeOK' /\ ObservationsAgree'
  BY ObserveOK DEF IInv, TypeOK, Events
<1>2. LeaderHolds' /\ RunFollowsMain' /\ ModeAgrees'
  BY DEF IInv, LeaderHolds, RunFollowsMain, ModeAgrees, Pods
<1>3. LeadingIsEarned'
  BY ObserveOK DEF IInv, LeadingIsEarned
<1> QED BY <1>1, <1>2, <1>3 DEF IInv

\* OnStoppedLeading, by the deadline or by a signal.
LEMMA StopOK ==
    ASSUME IInv, NEW r \in Replicas, Stop(r), main[r] # "down",
           bound' \in [Replicas -> BOOLEAN], Fault \/ faults' = faults
    PROVE  IInv'
<1>1. TypeOK'
  <2>1. state' \in [Replicas -> Report] /\ gauge' \in [Replicas -> Report]
    BY DEF IInv, TypeOK, Stop, SetLeading, Report
  <2>2. left' \in [Replicas -> 0..GivesUpAfter] /\ main' \in [Replicas -> MainPlaces]
    BY DEF IInv, TypeOK, Stop, MainPlaces, RetryPeriod, RenewDeadline, GivesUpAfter
  <2> QED BY <2>1, <2>2, FaultType DEF IInv, TypeOK, Stop
<1>2. LeaderHolds' /\ RunFollowsMain' /\ ModeAgrees'
  BY DEF IInv, TypeOK, Stop, LeaderHolds, RunFollowsMain, ModeAgrees, Pods
<1>3. LeadingIsEarned'
  BY DEF IInv, TypeOK, Stop, SetLeading, LeadingIsEarned, Report
<1>4. ObservationsAgree'
  BY DEF IInv, TypeOK, Stop, SetLeading, ObservationsAgree, Report
<1> QED BY <1>1, <1>2, <1>3, <1>4 DEF IInv

\* A step that leaves election, goroutine places and reports alone.
LEMMA OnlySurroundings ==
    ASSUME IInv, UNCHANGED <<flags, lease, left, main, run, report>>, TypeOK'
    PROVE  IInv'
BY DEF IInv, report, LeaderHolds, RunFollowsMain, LeadingIsEarned, ModeAgrees,
       ObservationsAgree, Pods

\* The initial states satisfy the invariant.
LEMMA InitInv == Init => IInv
<1> SUFFICES ASSUME Init PROVE IInv
  OBVIOUS
<1>1. TypeOK
  BY ReplicaAssumption
     DEF Init, TypeOK, LeaseDuration, MainPlaces, RunPlaces, Report,
         NewLeaderState, MapStates, RetryPeriod, RenewDeadline, GivesUpAfter
<1>2. LeaderHolds /\ RunFollowsMain /\ LeadingIsEarned /\ ModeAgrees
      /\ ObservationsAgree
  BY DEF Init, LeaderHolds, RunFollowsMain, LeadingIsEarned, ModeAgrees,
         ObservationsAgree, NewLeaderState
<1> QED BY <1>1, <1>2 DEF IInv

\* Taking the lease: who else leads is at the end of its deadline, because a
\* lease whose holder has time left is too young to be taken.
LEMMA AcquireOK ==
    ASSUME IInv, NEW r \in Replicas, Acquire(r)
    PROVE  IInv'
<1>1. TypeOK' /\ ObservationsAgree'
  BY ObserveOK
     DEF IInv, TypeOK, Acquire, Renewed, LeaseDuration, RetryPeriod, RenewDeadline,
         GivesUpAfter, MainPlaces, RunPlaces, Events
<1>2. \A s \in Replicas : main[s] = "lead" => left[s] = 0
  BY ReplicaAssumption
     DEF IInv, TypeOK, Acquire, MayTake, LeaderHolds, RetryPeriod, RenewDeadline,
         LeaseDuration, GivesUpAfter
<1>3. LeaderHolds'
  BY <1>2 DEF IInv, TypeOK, Acquire, Renewed, LeaderHolds, RenewDeadline,
              LeaseDuration
<1>4. RunFollowsMain' /\ ModeAgrees'
  BY DEF IInv, TypeOK, Acquire, RunFollowsMain, ModeAgrees, Pods
<1>5. LeadingIsEarned'
  BY ObserveOK DEF IInv, TypeOK, Acquire, LeadingIsEarned
<1> QED BY <1>1, <1>3, <1>4, <1>5 DEF IInv

\* Renewing gives the holder all the time there is, and no more: RetryPeriod
\* and RenewDeadline together are the LeaseDuration.
LEMMA RenewOK ==
    ASSUME IInv, NEW r \in Replicas, Renew(r)
    PROVE  IInv'
<1>1. TypeOK' /\ ObservationsAgree'
  BY ObserveOK DEF IInv, TypeOK, Renew, Renewed, LeaseDuration, RetryPeriod,
                   RenewDeadline, GivesUpAfter, Events
<1>2. LeaderHolds'
  BY DEF IInv, TypeOK, Renew, Renewed, LeaderHolds, RetryPeriod, RenewDeadline,
         LeaseDuration, GivesUpAfter
<1>3. RunFollowsMain' /\ ModeAgrees'
  BY DEF IInv, Renew, RunFollowsMain, ModeAgrees, Pods
<1>4. LeadingIsEarned'
  BY ObserveOK DEF IInv, Renew, LeadingIsEarned
<1> QED BY <1>1, <1>2, <1>3, <1>4 DEF IInv

\* Every step of the elector.
LEMMA ElectorInv ==
    ASSUME IInv, NEW r \in Replicas, ElectorStep(r)
    PROVE  IInv'
<1>1. CASE Acquire(r)
  BY <1>1, AcquireOK
<1>2. CASE AcquireFails(r)
  BY <1>2, OnlyObserves DEF AcquireFails
<1>3. CASE Renew(r)
  BY <1>3, RenewOK
<1>4. CASE RenewFails(r)
  BY <1>4, OnlyObserves DEF RenewFails
<1>5. CASE LoseLease(r)
  <2>1. bound' \in [Replicas -> BOOLEAN] /\ main[r] # "down"
    BY <1>5 DEF LoseLease, Overdue, IInv, TypeOK
  <2> QED BY <1>5, <2>1, StopOK DEF LoseLease
<1>6. CASE Exit(r)
  BY <1>6, EndsOK DEF Exit
<1> QED BY <1>1, <1>2, <1>3, <1>4, <1>5, <1>6 DEF ElectorStep

\* Every step of the callback goroutine: OnLeadingChange(true) may come after
\* OnLeadingChange(false), and then the replica is exiting.
LEMMA RunInv ==
    ASSUME IInv, NEW r \in Replicas, RunStep(r)
    PROVE  IInv'
<1>1. CASE Announce(r)
  <2>1. TypeOK'
    BY <1>1 DEF IInv, TypeOK, Announce, SetLeading, RunPlaces, Report
  <2>2. LeaderHolds' /\ RunFollowsMain' /\ ModeAgrees'
    BY <1>1 DEF IInv, TypeOK, Announce, LeaderHolds, RunFollowsMain, ModeAgrees,
                Pods
  <2>3. main[r] \in {"lead", "exiting"}
    BY <1>1 DEF IInv, TypeOK, Announce, RunFollowsMain, MainPlaces
  <2>4. LeadingIsEarned'
    BY <1>1, <2>3 DEF IInv, TypeOK, Announce, SetLeading, LeadingIsEarned, Report
  <2>5. ObservationsAgree'
    BY <1>1 DEF IInv, TypeOK, Announce, SetLeading, ObservationsAgree, Report
  <2> QED BY <2>1, <2>2, <2>4, <2>5 DEF IInv
<1>2. CASE Setup(r) \/ ManagerStops(r)
  <2>1. TypeOK'
    BY <1>2 DEF IInv, TypeOK, Setup, ManagerStops, RunPlaces, report
  <2>2. RunFollowsMain'
    BY <1>2 DEF IInv, TypeOK, Setup, ManagerStops, RunFollowsMain
  <2>3. LeaderHolds' /\ LeadingIsEarned' /\ ModeAgrees' /\ ObservationsAgree'
    BY <1>2 DEF IInv, Setup, ManagerStops, LeaderHolds, LeadingIsEarned,
                ModeAgrees, ObservationsAgree, Pods, report
  <2> QED BY <2>1, <2>2, <2>3 DEF IInv
<1> QED BY <1>1, <1>2 DEF RunStep

\* Probes change nothing but the count; a kill ends the process.
LEMMA KubeletInv ==
    ASSUME IInv, NEW r \in Replicas, KubeletStep(r)
    PROVE  IInv'
<1>1. CASE ProbeOk(r)
  <2>1. TypeOK'
    BY <1>1, ReplicaAssumption DEF IInv, TypeOK, ProbeOk, report
  <2> QED BY <1>1, <2>1, OnlySurroundings DEF ProbeOk
<1>2. CASE ProbeMissed(r)
  <2>1. misses' \in [Replicas -> 0..FailureThreshold]
    BY <1>2, ReplicaAssumption DEF IInv, TypeOK, ProbeMissed
  <2>2. Fault \/ faults' = faults
    BY <1>2 DEF ProbeMissed
  <2>3. TypeOK'
    BY <1>2, <2>1, <2>2, FaultType DEF IInv, TypeOK, ProbeMissed, report
  <2> QED BY <1>2, <2>3, OnlySurroundings DEF ProbeMissed
<1>3. CASE Kill(r)
  BY <1>3, EndsOK DEF Kill
<1> QED BY <1>1, <1>2, <1>3 DEF KubeletStep

\* Faults of the environment and of the manager.
LEMMA FaultInv ==
    ASSUME IInv, NEW r \in Replicas, FaultStep(r)
    PROVE  IInv'
<1>1. CASE BootFails(r)
  <2>1. TypeOK'
    BY <1>1, FaultType DEF IInv, TypeOK, BootFails, report
  <2> QED BY <1>1, <2>1, OnlySurroundings DEF BootFails
<1>2. CASE Terminate(r)
  <2>1. bound' \in [Replicas -> BOOLEAN] /\ main[r] # "down"
    BY <1>2 DEF Terminate, IInv, TypeOK
  <2> QED BY <1>2, <2>1, StopOK DEF Terminate
<1>3. CASE SetupFails(r) \/ Crash(r)
  BY <1>3, EndsOK DEF SetupFails, Crash
<1>4. CASE ManagerFails(r)
  <2>1. CASE main[r] = "direct"
    BY <1>4, <2>1, EndsOK DEF ManagerFails
  <2>2. CASE main[r] # "direct"
    <3>1. TypeOK'
      BY <1>4, <2>2, FaultType
         DEF IInv, TypeOK, ManagerFails, RunPlaces, MapStates, report
    <3>2. RunFollowsMain'
      BY <1>4, <2>2 DEF IInv, TypeOK, ManagerFails, RunFollowsMain, Live
    <3>3. LeaderHolds' /\ LeadingIsEarned' /\ ModeAgrees' /\ ObservationsAgree'
      BY <1>4, <2>2 DEF IInv, ManagerFails, LeaderHolds, LeadingIsEarned,
                        ModeAgrees, ObservationsAgree, Pods, report
    <3> QED BY <3>1, <3>2, <3>3 DEF IInv
  <2> QED BY <2>1, <2>2
<1>5. CASE \E how \in {"denied", "cut"} : NetworkFails(r, how)
  <2>1. TypeOK'
    BY <1>5, FaultType DEF IInv, TypeOK, NetworkFails, report
  <2> QED BY <1>5, <2>1, OnlySurroundings DEF NetworkFails
<1> QED BY <1>1, <1>2, <1>3, <1>4, <1>5 DEF FaultStep

\* A new process.
LEMMA BootInv ==
    ASSUME IInv, NEW r \in Replicas, NEW listens \in BOOLEAN, Boot(r, listens)
    PROVE  IInv'
<1>1. Fault \/ faults' = faults
  BY DEF Boot, ServeStandalone
<1>2. TypeOK'
  BY <1>1, FaultType
     DEF IInv, TypeOK, Boot, ServeStandalone, MainPlaces, RunPlaces, report
<1>3. LeaderHolds' /\ RunFollowsMain'
  BY DEF IInv, TypeOK, Boot, LeaderHolds, RunFollowsMain
<1>4. ModeAgrees'
  BY DEF IInv, TypeOK, Boot, ModeAgrees, Pods
<1>5. LeadingIsEarned' /\ ObservationsAgree'
  BY DEF IInv, TypeOK, Boot, LeadingIsEarned, ObservationsAgree, report
<1> QED BY <1>2, <1>3, <1>4, <1>5 DEF IInv

\* Time passes only while no elector has anything due: what the lease gets
\* older, every leader's time gets shorter, and a leader had time left.
LEMMA TickInv ==
    ASSUME IInv, Tick
    PROVE  IInv'
<1>1. \A r \in Replicas : main[r] = "lead" => left[r] # 0
  BY DEF Tick, ElectorIsDue, Overdue
<1>2. left' \in [Replicas -> 0..GivesUpAfter]
  BY <1>1 DEF IInv, TypeOK, Tick, RetryPeriod, RenewDeadline, GivesUpAfter
<1>3. TypeOK'
  BY <1>2 DEF IInv, TypeOK, Tick, LeaseDuration, report
<1>4. LeaderHolds'
  BY <1>1 DEF IInv, TypeOK, Tick, LeaderHolds, RetryPeriod, RenewDeadline,
              LeaseDuration, GivesUpAfter
<1>5. RunFollowsMain' /\ LeadingIsEarned' /\ ModeAgrees' /\ ObservationsAgree'
  BY DEF IInv, Tick, RunFollowsMain, LeadingIsEarned, ModeAgrees,
         ObservationsAgree, Pods, report
<1> QED BY <1>3, <1>4, <1>5 DEF IInv

\* Every step of a replica and of its surroundings keeps the invariant.
LEMMA NextInv == IInv /\ [Next]_vars => IInv'
<1> SUFFICES ASSUME IInv, [Next]_vars PROVE IInv'
  OBVIOUS
<1>1. ASSUME NEW r \in Replicas, NEW listens \in BOOLEAN, Boot(r, listens)
      PROVE  IInv'
  BY <1>1, BootInv
<1>2. ASSUME NEW r \in Replicas, ElectorStep(r) PROVE IInv'
  BY <1>2, ElectorInv
<1>3. ASSUME NEW r \in Replicas, RunStep(r) PROVE IInv'
  BY <1>3, RunInv
<1>4. ASSUME NEW r \in Replicas, Create(r) \/ Created(r) PROVE IInv'
  <2>1. TypeOK'
    BY <1>4 DEF IInv, TypeOK, Create, Created, MapStates, report
  <2> QED BY <1>4, <2>1, OnlySurroundings DEF Create, Created
<1>5. ASSUME NEW r \in Replicas, KubeletStep(r) PROVE IInv'
  BY <1>5, KubeletInv
<1>6. ASSUME NEW r \in Replicas, FaultStep(r) PROVE IInv'
  BY <1>6, FaultInv
<1>7. ASSUME NEW r \in Replicas, NetworkHeals(r) PROVE IInv'
  <2>1. TypeOK'
    BY <1>7 DEF IInv, TypeOK, NetworkHeals, report
  <2> QED BY <1>7, <2>1, OnlySurroundings DEF NetworkHeals
<1>8. CASE Tick
  BY <1>8, TickInv
<1>9. CASE UNCHANGED vars
  <2>1. TypeOK'
    BY <1>9 DEF IInv, TypeOK, vars
  <2> QED BY <1>9, <2>1, OnlySurroundings DEF vars, report
<1> QED BY <1>1, <1>2, <1>3, <1>4, <1>5, <1>6, <1>7, <1>8, <1>9 DEF Next

\* Leading, running and reporting stay consistent on every replica through
\* crashes, restarts, outages and takeovers, and every variable keeps its type.
THEOREM Invariant == Spec => []IInv
<1>1. Init => IInv
  BY InitInv
<1>2. IInv /\ [Next]_vars => IInv'
  BY NextInv
<1> QED BY <1>1, <1>2, PTL DEF Spec

\* Type correctness (runMain, LeaderState and the lease).
THEOREM TypeCorrect == Spec => []TypeOK
<1>1. IInv => TypeOK
  BY DEF IInv
<1> QED BY <1>1, Invariant, PTL

\* Exactly-one reconciliation: two live controllers with time left would both
\* hold the lease, or both be the one pod of a deployment without election
\* (RunOrDie, logLeaderElectionMode).
THEOREM OneControllerHolds == Spec => []OneController
<1>1. IInv => OneController
  <2> SUFFICES ASSUME IInv, NEW r \in Replicas, NEW s \in Replicas,
                      Live(r), Live(s), ~Overdue(r), ~Overdue(s)
               PROVE  r = s
    BY DEF OneController
  <2>1. CASE main[r] = "lead" /\ main[s] = "lead"
    BY <2>1 DEF IInv, LeaderHolds, Overdue
  <2>2. CASE main[r] = "direct" /\ main[s] = "direct"
    <3>1. /\ r \in flags.pods /\ s \in flags.pods
          /\ flags \in Deployments /\ ~flags.leaderElection
      BY <2>2 DEF IInv, TypeOK, ModeAgrees, Pods
    <3>2. \E q \in Replicas : flags.pods = {q}
      BY <3>1, ReplicaAssumption
    <3> QED BY <3>1, <3>2
  <2>3. ~(main[r] = "lead" /\ main[s] = "direct")
    BY DEF IInv, ModeAgrees
  <2>4. ~(main[r] = "direct" /\ main[s] = "lead")
    BY DEF IInv, ModeAgrees
  <2> QED BY <2>1, <2>2, <2>3, <2>4 DEF Live
<1> QED BY <1>1, Invariant, PTL

\* /leaderz and the leader gauge: a replica that says leader holds the lease,
\* is at the end of its deadline or is on its way out, although the two
\* OnLeadingChange calls come from two goroutines.
THEOREM TruthfulLeaderHolds == Spec => []TruthfulLeader
<1>1. IInv => TruthfulLeader
  BY DEF IInv, TypeOK, TruthfulLeader, LeadingIsEarned, LeaderHolds, LeaderzCheck,
         Overdue, MainPlaces
<1> QED BY <1>1, Invariant, PTL

\* OnAPIObservation: state, gauge and the events of the process that runs tell
\* the same story, through outages and restarts.
THEOREM SurfacesAgreeHolds == Spec => []SurfacesAgree
<1>1. IInv => SurfacesAgree
  BY DEF IInv, TypeOK, SurfacesAgree, ObservationsAgree, Report
<1> QED BY <1>1, Invariant, PTL
=============================================================================
