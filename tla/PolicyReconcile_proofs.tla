----------------------- MODULE PolicyReconcile_proofs -----------------------
(***************************************************************************)
(* Proofs about PolicyReconcile for every set of names, targets and specs, *)
(* every delay and every number of policies.  IInv is inductive; the       *)
(* safety properties follow from it.                                       *)
(***************************************************************************)
EXTENDS PolicyReconcile, WellFoundedInduction, TLAPS

(***************************************************************************)
(* The backoff of a failing target                                         *)
(***************************************************************************)

\* A set of naturals has a least element.
LEMMA LeastNatural ==
    ASSUME NEW T, T \subseteq Nat, T # {}
    PROVE  \E m \in T : \A n \in T : m <= n
<1> DEFINE R == {ss \in Nat \X Nat : ss[1] < ss[2]}
<1>1. IsWellFoundedOn(OpToRel(<, Nat), Nat)
  BY NatLessThanWellFounded
<1>2. OpToRel(<, Nat) = R
  BY DEF OpToRel
<1>3. IsWellFoundedOn(R, Nat)
  BY <1>1, <1>2
<1>4. \A x, y \in Nat : x < y => <<x, y>> \in R
  OBVIOUS
<1> HIDE DEF R
<1>5. PICK m \in T : \A n \in T : ~(<<n, m>> \in R)
  BY <1>3, WFMin
<1>6. \A n \in T : ~(n < m)
  BY <1>4, <1>5
<1>7. \A n \in T : m <= n
  BY <1>6
<1> QED BY <1>7

Delays == Nat \ {0}

\* One round of the loop of TargetBackoffFor.
Round(d) == IF 2 * d >= targetBackoffCap THEN targetBackoffCap ELSE 2 * d

\* g holds the loop's value for every number of failures up to k.
Unrolled(g, k) ==
    \A n \in 0..k : g[n] = IF n <= 1 THEN targetBackoffBase ELSE Round(g[n - 1])

LEMMA RoundType == \A d \in Delays : Round(d) \in Delays
BY PolicyAssumption DEF Round, Delays

LEMMA UnrolledExists ==
    \A k \in Nat : \E g \in [0..k -> Delays] : Unrolled(g, k)
<1> DEFINE T == {k \in Nat : ~\E g \in [0..k -> Delays] : Unrolled(g, k)}
<1> SUFFICES ASSUME T # {} PROVE FALSE
  OBVIOUS
<1>1. PICK m \in T : \A n \in T : m <= n
  BY LeastNatural
<1>2. CASE m = 0
  <2> DEFINE g == [n \in 0..0 |-> targetBackoffBase]
  <2>1. g \in [0..0 -> Delays] /\ Unrolled(g, 0)
    BY PolicyAssumption DEF Unrolled, Delays
  <2> QED BY <1>2, <2>1
<1>3. CASE m # 0
  <2>1. m \in Nat /\ m - 1 \in Nat /\ m - 1 \notin T
    BY <1>1, <1>3
  <2>2. PICK h \in [0..(m - 1) -> Delays] : Unrolled(h, m - 1)
    BY <2>1
  <2> DEFINE g == [n \in 0..m |->
                     IF n < m THEN h[n]
                     ELSE IF n <= 1 THEN targetBackoffBase ELSE Round(h[m - 1])]
  <2>3. g \in [0..m -> Delays]
    BY <2>1, <2>2, RoundType, PolicyAssumption DEF Delays
  <2>4. ASSUME NEW n \in 0..m
        PROVE  g[n] = IF n <= 1 THEN targetBackoffBase ELSE Round(g[n - 1])
    <3>1. CASE n < m
      <4>1. /\ n \in 0..(m - 1)
            /\ h[n] = IF n <= 1 THEN targetBackoffBase ELSE Round(h[n - 1])
        BY <2>1, <2>2, <2>4, <3>1 DEF Unrolled
      <4>2. n > 1 => g[n - 1] = h[n - 1]
        BY <2>1, <2>4, <3>1
      <4> QED BY <3>1, <4>1, <4>2
    <3>2. CASE n = m
      <4>1. n > 1 => g[n - 1] = h[m - 1]
        BY <2>1, <3>2
      <4> QED BY <2>1, <3>2, <4>1
    <3> QED BY <2>1, <3>1, <3>2
  <2>5. Unrolled(g, m)
    BY <2>4 DEF Unrolled
  <2> QED BY <1>1, <2>3, <2>5
<1> QED BY <1>2, <1>3

\* Two unrollings agree where both are defined.
LEMMA UnrolledUnique ==
    ASSUME NEW j \in Nat, NEW k \in Nat,
           NEW g \in [0..j -> Delays], NEW h \in [0..k -> Delays],
           Unrolled(g, j), Unrolled(h, k)
    PROVE  \A n \in (0..j) \cap (0..k) : g[n] = h[n]
<1> DEFINE T == {n \in (0..j) \cap (0..k) : g[n] # h[n]}
<1> SUFFICES ASSUME T # {} PROVE FALSE
  OBVIOUS
<1>0. T \subseteq Nat
  OBVIOUS
<1>1. PICK m \in T : \A n \in T : m <= n
  <2> HIDE DEF T
  <2> QED BY <1>0, LeastNatural
<1>2. CASE m <= 1
  BY <1>1, <1>2 DEF Unrolled
<1>3. CASE m > 1
  <2>1. m - 1 \in (0..j) \cap (0..k) /\ m - 1 \notin T
    BY <1>1, <1>3
  <2>2. g[m - 1] = h[m - 1]
    BY <2>1
  <2>3. g[m] = Round(g[m - 1]) /\ h[m] = Round(h[m - 1])
    BY <1>1, <1>3 DEF Unrolled
  <2> QED BY <1>1, <2>2, <2>3
<1> QED BY <1>1, <1>2, <1>3

\* So the recursion has a solution, and Doubled is one.
LEMMA DoubledUnfolds ==
    \A n \in Nat :
        Doubled[n] = IF n <= 1 THEN targetBackoffBase ELSE Round(Doubled[n - 1])
<1> DEFINE U(k) == CHOOSE g \in [0..k -> Delays] : Unrolled(g, k)
           f == [n \in Nat |-> U(n)[n]]
<1>1. \A k \in Nat : U(k) \in [0..k -> Delays] /\ Unrolled(U(k), k)
  BY UnrolledExists
<1> HIDE DEF U
<1>2. ASSUME NEW n \in Nat
      PROVE  f[n] = IF n <= 1 THEN targetBackoffBase ELSE Round(f[n - 1])
  <2>1. n \in 0..n
    OBVIOUS
  <2>2. U(n)[n] = IF n <= 1 THEN targetBackoffBase ELSE Round(U(n)[n - 1])
    BY <1>1, <2>1 DEF Unrolled
  <2>3. CASE n <= 1
    BY <2>2, <2>3
  <2>4. CASE n > 1
    <3>1. n - 1 \in Nat /\ n - 1 \in (0..n) \cap (0..(n - 1))
      BY <2>4
    <3>2. U(n)[n - 1] = U(n - 1)[n - 1]
      BY <1>1, <3>1, UnrolledUnique
    <3> QED BY <2>2, <2>4, <3>1, <3>2
  <2> QED BY <2>3, <2>4
<1>3. f = [n \in Nat |-> IF n <= 1 THEN targetBackoffBase
                         ELSE IF 2 * f[n - 1] >= targetBackoffCap
                              THEN targetBackoffCap ELSE 2 * f[n - 1]]
  BY <1>2 DEF Round
<1> HIDE DEF f
<1>4. \E s : s = [n \in Nat |-> IF n <= 1 THEN targetBackoffBase
                               ELSE IF 2 * s[n - 1] >= targetBackoffCap
                                    THEN targetBackoffCap ELSE 2 * s[n - 1]]
  BY <1>3
<1>5. Doubled = [n \in Nat |-> IF n <= 1 THEN targetBackoffBase
                               ELSE IF 2 * Doubled[n - 1] >= targetBackoffCap
                                    THEN targetBackoffCap ELSE 2 * Doubled[n - 1]]
  BY <1>4 DEF Doubled
<1> QED BY <1>5 DEF Round

\* The delay before a failing target is tried again is positive, whatever the
\* number of failures, and no longer than the base or the cap: the policy is
\* neither dropped nor retried in a hot loop by its delay (TargetBackoffFor).
THEOREM BackoffBounded ==
    \A n \in Nat :
        /\ TargetBackoffFor(n) \in Nat \ {0}
        /\ TargetBackoffFor(n) <= targetBackoffBase
              \/ TargetBackoffFor(n) <= targetBackoffCap
<1> DEFINE Good(n) == /\ Doubled[n] \in Delays
                      /\ Doubled[n] <= targetBackoffBase
                            \/ Doubled[n] <= targetBackoffCap
           T == {n \in Nat : ~Good(n)}
<1>1. ASSUME T # {} PROVE FALSE
  <2>1. PICK m \in T : \A n \in T : m <= n
    BY <1>1, LeastNatural
  <2>2. CASE m <= 1
    BY <2>1, <2>2, DoubledUnfolds, PolicyAssumption DEF Delays
  <2>3. CASE m > 1
    <3>1. m - 1 \in Nat /\ m - 1 \notin T
      BY <2>1, <2>3
    <3>2. Doubled[m - 1] \in Delays
      BY <3>1
    <3>3. Doubled[m] = Round(Doubled[m - 1])
      BY <2>1, <2>3, DoubledUnfolds
    <3>4. Doubled[m] \in Delays /\ Doubled[m] <= targetBackoffCap
      BY <3>2, <3>3, RoundType, PolicyAssumption DEF Round, Delays
    <3> QED BY <2>1, <3>4
  <2> QED BY <2>1, <2>2, <2>3
<1>2. \A n \in Nat : Good(n)
  BY <1>1
<1> QED BY <1>2 DEF TargetBackoffFor, Delays

\* Failure counts above the bound would not change a delay.
THEOREM SaturationIsHarmless ==
    \A n \in Nat : n >= MaxFailures => TargetBackoffFor(n) = targetBackoffCap
<1> DEFINE T == {n \in Nat : n >= MaxFailures /\ Doubled[n] # targetBackoffCap}
<1>1. ASSUME T # {} PROVE FALSE
  <2>0. T \subseteq Nat
    OBVIOUS
  <2>1. PICK m \in T : \A n \in T : m <= n
    <3> HIDE DEF T
    <3> QED BY <1>1, <2>0, LeastNatural
  <2>2. Doubled[MaxFailures] = targetBackoffCap
    BY SaturationAssumption DEF TargetBackoffFor
  <2>3. m > MaxFailures /\ m > 1 /\ m - 1 \in Nat /\ m - 1 >= MaxFailures
    BY <2>1, <2>2, PolicyAssumption
  <2>4. Doubled[m - 1] = targetBackoffCap
    BY <2>1, <2>3
  <2>5. Doubled[m] = Round(Doubled[m - 1])
    BY <2>1, <2>3, DoubledUnfolds
  <2> QED BY <2>1, <2>4, <2>5, PolicyAssumption DEF Round
<1> QED BY <1>1 DEF TargetBackoffFor

(***************************************************************************)
(* Types of the data                                                       *)
(***************************************************************************)

\* The values the goroutine and the API server start from.
LEMMA DataTypes ==
    /\ NoStatus \in Status
    /\ NoPolicy \in Policy
    /\ \A pol \in Policy : CopyOf(pol) \in Copy
    /\ NoCopy \in Copy
    /\ Idle \in Reconciling
<1>1. NoStatus \in Status
  BY DEF NoStatus, Status, NoCondition, Condition, PolicyPhases, Reasons
<1>2. 0 \in 0..MaxUid
  BY PolicyAssumption
<1>3. NoPolicy \in Policy
  BY <1>1, <1>2 DEF NoPolicy, Policy
<1>4. \A pol \in Policy : CopyOf(pol) \in Copy
  BY DEF Policy, CopyOf, Copy, Status
<1>5. NoCopy \in Copy
  BY <1>3, <1>4 DEF NoCopy
<1>6. Idle \in Reconciling
  BY <1>5 DEF Idle, Reconciling, Reasons
<1> QED BY <1>1, <1>3, <1>4, <1>5, <1>6

\* What the goroutine writes is a status.
LEMMA WrittenType ==
    ASSUME TypeOK, NEW status \in Status
    PROVE  Written(status) \in Status
<1>1. ASSUME NEW type \in ConditionTypes, NEW reason \in Reasons,
             NEW permanent \in BOOLEAN
      PROVE  WithCondition(status, type, reason, permanent) \in Status
  BY <1>1 DEF WithCondition, Status, Condition, PolicyPhases, boolStatus
<1>2. Evaluated(rec.pol) \in Status
  <2>1. statusPhaseFor(rec.pol) \in PolicyPhases
    BY DEF statusPhaseFor, PolicyPhases
  <2>2. \A phase \in PolicyPhases :
            statusConditionsFor(phase) \in [ConditionTypes -> Condition]
    BY DEF statusConditionsFor, Condition, Reasons, NoCondition, boolStatus
  <2> QED BY <2>1, <2>2 DEF Evaluated, Status
<1>3. /\ "Ready" \in ConditionTypes /\ "TargetReady" \in ConditionTypes
      /\ "PolicyInvalid" \in Reasons /\ "TargetAvailable" \in Reasons
      /\ rec.class \in Reasons /\ Permanent(rec.class) \in BOOLEAN
  BY DEF ConditionTypes, Reasons, TypeOK, Reconciling, Permanent
<1> QED BY <1>1, <1>2, <1>3 DEF Written

\* An Error phase that the goroutine writes is about a fault of the policy.
LEMMA WrittenMarked ==
    ASSUME IInv, rec.pc # "idle", NEW status \in Status,
           status.phase = "Error" => rec.name \in faulty
    PROVE  Written(status).phase = "Error" => rec.name \in faulty
<1>1. rec.pc = "invalid" => rec.name \in faulty
  BY DEF IInv, FaultsMarked
<1>2. Permanent(rec.class) => rec.name \in faulty
  BY DEF IInv, FaultsMarked, Permanent
<1>3. Evaluated(rec.pol).phase = "Error" => rec.name \in faulty
  BY DEF IInv, FaultsMarked, Evaluated, statusPhaseFor
<1>4. \A type, reason, permanent :
        WithCondition(status, type, reason, permanent).phase = "Error" =>
            permanent \/ status.phase = "Error"
  BY DEF WithCondition, Status
<1>5. CASE rec.pc = "granted"
  <2>1. Written(status) = WithCondition(status, "TargetReady", "TargetAvailable", FALSE)
    BY <1>5 DEF Written
  <2> QED BY <2>1 DEF WithCondition, Status
<1>6. CASE rec.pc = "refused"
  <2>1. Written(status) = WithCondition(status, "TargetReady", rec.class,
                                        Permanent(rec.class))
    BY <1>6 DEF Written
  <2> QED BY <1>2, <1>4, <2>1
<1>7. CASE rec.pc \notin {"invalid", "granted", "refused"}
  <2>1. Written(status) = Evaluated(rec.pol)
    BY <1>7 DEF Written
  <2> QED BY <1>3, <2>1
<1> QED BY <1>1, <1>5, <1>6, <1>7

\* The initial states satisfy the invariant.
LEMMA InitInv == Init => IInv
<1> SUFFICES ASSUME Init PROVE IInv
  OBVIOUS
<1>1. TypeOK
  BY DataTypes, PolicyAssumption DEF Init, TypeOK, Uids
<1>2. NoPolicyForgotten /\ MapsAgree /\ SpecsKnown /\ CacheIsCurrent
  BY DEF Init, NoPolicyForgotten, MapsAgree, SpecsKnown, CacheIsCurrent,
         NoPolicy, NoCopy, CopyOf
<1>3. StoreIsSynced /\ ReconcileOK
  BY DEF Init, StoreIsSynced, ReconcileOK, Idle, NoCopy, CopyOf, NoPolicy
<1>4. FaultsMarked
  BY DEF Init, FaultsMarked, TransientNeverError, Faulty, Idle, NoCopy, CopyOf,
         NoPolicy, NoStatus
<1>5. UidsDistinct
  BY DEF Init, UidsDistinct, UidsOf, NoPolicy, NoCopy, CopyOf
<1> QED BY <1>1, <1>2, <1>3, <1>4, <1>5 DEF IInv

(***************************************************************************)
(* The start of a reconcile                                                *)
(***************************************************************************)

\* What is known of the reconcile in progress.
LEMMA InProgress ==
    ASSUME IInv, rec.pc # "idle"
    PROVE  /\ rec.name \in Names
           /\ rec.pol \in Copy
           /\ rec.pol.uid \in Uids
           /\ rec.pol.spec \in Specs
           /\ Target \in Targets
<1>1. rec \in Reconciling /\ rec.name # NoName
  BY DEF IInv, TypeOK, ReconcileOK
<1>2. rec.name \in Names /\ rec.pol \in Copy
  BY <1>1 DEF Reconciling
<1>3. rec.pol.uid # 0 /\ rec.pol.spec \in Specs
  BY DEF IInv, ReconcileOK
<1>4. rec.pol.uid \in Uids
  BY <1>2, <1>3, PolicyAssumption DEF Copy, Uids
<1>5. Target \in Targets
  BY <1>3, PolicyAssumption DEF Target
<1> QED BY <1>2, <1>3, <1>4, <1>5

\* The fetch fails and the queue tries again.
LEMMA FetchFailsInv ==
    ASSUME IInv, NEW p \in Names, FetchFails(p)
    PROVE  IInv'
<1>1. TypeOK'
  BY DEF IInv, TypeOK, FetchFails, Takes, Requeue, cluster, tables
<1>2. NoPolicyForgotten'
  BY DEF IInv, TypeOK, NoPolicyForgotten, Scheduled, FetchFails, Takes, Requeue,
         cluster, tables
<1>3. /\ MapsAgree' /\ StoreIsSynced' /\ ReconcileOK' /\ FaultsMarked'
      /\ UidsDistinct' /\ CacheIsCurrent' /\ SpecsKnown'
  BY DEF IInv, FetchFails, cluster, tables, MapsAgree, StoreIsSynced, ReconcileOK,
         FaultsMarked, TransientNeverError, Faulty, UidsDistinct, UidsOf,
         CacheIsCurrent, SpecsKnown, Target
<1> QED BY <1>1, <1>2, <1>3 DEF IInv

\* A policy that is gone is forgotten: its UID is no other name's, and a policy
\* that was created since under its name has an event under way.
LEMMA ForgetInv ==
    ASSUME IInv, NEW p \in Names, Forget(p)
    PROVE  IInv'
<1>0. /\ policyUIDs' = [policyUIDs EXCEPT ![p] = 0]
      /\ policySpecs' = policySpecs \ {policyUIDs[p]}
      /\ rateLimiters' = rateLimiters \ {policyUIDs[p]}
      /\ queue' = [queue EXCEPT ![p] = "none"]
      /\ known[p].uid = 0 /\ rec.pc = "idle"
      /\ UNCHANGED <<policy, nextUid, surface, known, event, faulty, timer, rec,
                     targetFailures, targetProbes, resourceInformers,
                     evaluationServices>>
  BY DEF Forget, Takes, cluster
<1>1. TypeOK'
  BY <1>0, PolicyAssumption DEF IInv, TypeOK
<1>2. NoPolicyForgotten'
  BY <1>0 DEF IInv, TypeOK, NoPolicyForgotten, CacheIsCurrent, Scheduled
<1>3. MapsAgree'
  <2>1. rateLimiters' \subseteq policySpecs'
    BY <1>0 DEF IInv, MapsAgree
  <2>2. ASSUME NEW q \in Names, policyUIDs'[q] # 0
        PROVE  policyUIDs'[q] \in policySpecs'
    <3>1. q # p /\ policyUIDs'[q] = policyUIDs[q]
      BY <1>0, <2>2 DEF IInv, TypeOK
    <3>2. policyUIDs[q] # policyUIDs[p]
      BY <2>2, <3>1 DEF IInv, UidsDistinct, UidsOf
    <3> QED BY <1>0, <2>2, <3>1, <3>2 DEF IInv, MapsAgree
  <2> QED BY <2>1, <2>2 DEF MapsAgree
<1>4. UidsDistinct'
  <2>1. \A q \in Names : UidsOf(q)' \subseteq UidsOf(q) \cup {0}
    BY <1>0 DEF IInv, TypeOK, UidsOf
  <2>2. nextUid > 0
    BY PolicyAssumption DEF IInv, TypeOK
  <2> QED BY <1>0, <2>1, <2>2 DEF IInv, UidsDistinct
<1>5. StoreIsSynced' /\ ReconcileOK'
  BY <1>0 DEF IInv, StoreIsSynced, ReconcileOK, Target
<1>6. FaultsMarked' /\ CacheIsCurrent' /\ SpecsKnown'
  BY <1>0 DEF IInv, FaultsMarked, TransientNeverError, Faulty, CacheIsCurrent,
              SpecsKnown, Target
<1> QED BY <1>1, <1>2, <1>3, <1>4, <1>5, <1>6 DEF IInv

\* The status of an invalid policy is to be written.
LEMMA RejectInvalidInv ==
    ASSUME IInv, NEW p \in Names, RejectInvalid(p)
    PROVE  IInv'
<1> DEFINE pol == [known[p] EXCEPT !.phase = "Error"]
<1>0. /\ queue' = [queue EXCEPT ![p] = "none"]
      /\ rec.pc = "idle" /\ known[p].uid # 0 /\ ~known[p].spec.valid
      /\ rec' = [pc |-> "invalid", name |-> p, pol |-> pol, direct |-> FALSE,
                 class |-> "", got |-> FALSE, fresh |-> FALSE]
      /\ UNCHANGED <<policy, nextUid, surface, known, event, faulty, timer,
                     policyUIDs, policySpecs, rateLimiters, targetFailures,
                     targetProbes, resourceInformers, evaluationServices>>
  BY DEF RejectInvalid, Takes, cluster, tables, Idle
<1>1. /\ pol \in Copy /\ pol.uid = known[p].uid /\ pol.spec = known[p].spec
      /\ pol.phase = "Error"
  BY DEF IInv, TypeOK, Copy, PolicyPhases
<1> HIDE DEF pol
<1>2. TypeOK'
  <2>1. rec' \in Reconciling
    BY <1>0, <1>1 DEF Reconciling, Writing, Reasons
  <2> QED BY <1>0, <2>1 DEF IInv, TypeOK
<1>3. NoPolicyForgotten'
  BY <1>0, PolicyAssumption
     DEF IInv, TypeOK, NoPolicyForgotten, Scheduled, ReconcileOK
<1>4. p \in faulty
  BY <1>0 DEF IInv, FaultsMarked, Faulty
<1>5. FaultsMarked'
  BY <1>0, <1>4 DEF IInv, FaultsMarked, TransientNeverError, Faulty, Target
<1>6. StoreIsSynced' /\ ReconcileOK'
  BY <1>0, <1>1, PolicyAssumption
     DEF IInv, StoreIsSynced, ReconcileOK, SpecsKnown, Target
<1>7. MapsAgree' /\ UidsDistinct' /\ CacheIsCurrent' /\ SpecsKnown'
  BY <1>0 DEF IInv, MapsAgree, UidsDistinct, UidsOf, CacheIsCurrent, SpecsKnown
<1> QED BY <1>2, <1>3, <1>5, <1>6, <1>7 DEF IInv

\* A policy is tracked: its UID becomes the name's.
LEMMA TracksOK ==
    ASSUME IInv, NEW p \in Names, Tracks(p)
    PROVE  /\ policyUIDs' \in [Names -> 0..MaxUid]
           /\ policySpecs' \subseteq Uids
           /\ queue' \in [Names -> {"none", "own", "asked"}]
           /\ known[p] \in Copy /\ known[p].uid \in policySpecs'
           /\ MapsAgree' /\ UidsDistinct' /\ CacheIsCurrent' /\ SpecsKnown'
<1>0. /\ policyUIDs' = [policyUIDs EXCEPT ![p] = known[p].uid]
      /\ policySpecs' = policySpecs \cup {known[p].uid}
      /\ queue' = [queue EXCEPT ![p] = "none"]
      /\ known[p].uid # 0
      /\ UNCHANGED <<policy, nextUid, surface, known, event, faulty, rateLimiters>>
  BY DEF Tracks, Takes, cluster
<1>1. known[p] \in Copy /\ known[p].uid \in Uids /\ known[p].uid \in 0..MaxUid
  BY <1>0, PolicyAssumption DEF IInv, TypeOK, Copy, Uids
<1>2. /\ policyUIDs' \in [Names -> 0..MaxUid]
      /\ policySpecs' \subseteq Uids
      /\ queue' \in [Names -> {"none", "own", "asked"}]
  BY <1>0, <1>1 DEF IInv, TypeOK
<1>3. MapsAgree'
  BY <1>0 DEF IInv, TypeOK, MapsAgree
<1>4. UidsDistinct'
  <2>1. \A q \in Names : UidsOf(q)' \subseteq UidsOf(q)
    BY <1>0 DEF IInv, TypeOK, UidsOf
  <2> QED BY <1>0, <2>1 DEF IInv, UidsDistinct
<1>5. CacheIsCurrent' /\ SpecsKnown'
  BY <1>0 DEF IInv, CacheIsCurrent, SpecsKnown
<1> QED BY <1>0, <1>1, <1>2, <1>3, <1>4, <1>5

\* A paused policy is tracked and comes back after the interval.
LEMMA SkipPausedInv ==
    ASSUME IInv, NEW p \in Names, SkipPaused(p)
    PROVE  IInv'
<1>0. /\ rec.pc = "idle"
      /\ queue' = [queue EXCEPT ![p] = "none"]
      /\ timer' = [timer EXCEPT ![p] = CleanupInterval]
      /\ policyUIDs' = [policyUIDs EXCEPT ![p] = known[p].uid]
      /\ UNCHANGED <<policy, nextUid, surface, known, event, faulty, rec,
                     rateLimiters, targetFailures, targetProbes,
                     resourceInformers, evaluationServices>>
  BY DEF SkipPaused, Tracks, Takes, Requeue, cluster
<1>1. /\ policyUIDs' \in [Names -> 0..MaxUid]
      /\ policySpecs' \subseteq Uids
      /\ queue' \in [Names -> {"none", "own", "asked"}]
      /\ MapsAgree' /\ UidsDistinct' /\ CacheIsCurrent' /\ SpecsKnown'
  BY TracksOK DEF SkipPaused
<1>2. TypeOK'
  BY <1>0, <1>1, PolicyAssumption DEF IInv, TypeOK
<1>3. NoPolicyForgotten'
  BY <1>0, PolicyAssumption DEF IInv, TypeOK, NoPolicyForgotten, Scheduled
<1>4. StoreIsSynced' /\ ReconcileOK'
  BY <1>0 DEF IInv, StoreIsSynced, ReconcileOK, Target
<1>5. FaultsMarked'
  BY <1>0 DEF IInv, FaultsMarked, TransientNeverError, Faulty, Target
<1> QED BY <1>1, <1>2, <1>3, <1>4, <1>5 DEF IInv

\* The evaluation of an active policy begins.
LEMMA BeginInv ==
    ASSUME IInv, NEW p \in Names, Begin(p)
    PROVE  IInv'
<1>0. /\ rec.pc = "idle" /\ known[p].uid # 0 /\ known[p].spec.valid
      /\ queue' = [queue EXCEPT ![p] = "none"]
      /\ rec' = [pc |-> "target", name |-> p, pol |-> known[p],
                 direct |-> FALSE, class |-> "", got |-> FALSE, fresh |-> FALSE]
      /\ policyUIDs' = [policyUIDs EXCEPT ![p] = known[p].uid]
      /\ UNCHANGED <<policy, nextUid, surface, known, event, faulty, timer,
                     rateLimiters, targetFailures, targetProbes,
                     resourceInformers, evaluationServices>>
  BY DEF Begin, Tracks, Takes, cluster, Idle
<1>1. /\ policyUIDs' \in [Names -> 0..MaxUid]
      /\ policySpecs' \subseteq Uids
      /\ queue' \in [Names -> {"none", "own", "asked"}]
      /\ known[p] \in Copy /\ known[p].uid \in policySpecs'
      /\ MapsAgree' /\ UidsDistinct' /\ CacheIsCurrent' /\ SpecsKnown'
  BY TracksOK DEF Begin
<1>2. TypeOK'
  <2>1. rec' \in Reconciling
    BY <1>0, <1>1 DEF Reconciling, Writing, Reasons
  <2> QED BY <1>0, <1>1, <2>1 DEF IInv, TypeOK
<1>3. NoPolicyForgotten'
  BY <1>0, PolicyAssumption
     DEF IInv, TypeOK, NoPolicyForgotten, Scheduled, ReconcileOK
<1>4. StoreIsSynced' /\ ReconcileOK'
  BY <1>0, <1>1, PolicyAssumption
     DEF IInv, StoreIsSynced, ReconcileOK, SpecsKnown, Target
<1>5. FaultsMarked'
  BY <1>0 DEF IInv, FaultsMarked, TransientNeverError, Faulty, Target
<1> QED BY <1>1, <1>2, <1>3, <1>4, <1>5 DEF IInv

(***************************************************************************)
(* The reconcile in progress                                               *)
(***************************************************************************)

\* A step of the goroutine leaves the names alone: it keeps the reconcile of
\* its policy or asks for another one.
LEMMA GoroutineFrame ==
    ASSUME IInv, rec.pc # "idle",
           UNCHANGED <<nextUid, known, queue, policyUIDs>>,
           \A p \in Names : /\ policy'[p].uid = policy[p].uid
                            /\ policy'[p].spec = policy[p].spec
                            /\ event'[p] = "none" => event[p] = "none",
           \/ rec'.name = rec.name /\ UNCHANGED timer
           \/ \E delay \in Nat \ {0} : timer' = [timer EXCEPT ![rec.name] = delay]
    PROVE  NoPolicyForgotten' /\ UidsDistinct' /\ CacheIsCurrent' /\ SpecsKnown'
<1>1. UidsDistinct'
  <2>1. \A p \in Names : UidsOf(p)' = UidsOf(p)
    BY DEF UidsOf
  <2> QED BY <2>1 DEF IInv, UidsDistinct
<1>2. CacheIsCurrent' /\ SpecsKnown'
  BY DEF IInv, CacheIsCurrent, SpecsKnown
<1>3. NoPolicyForgotten'
  BY InProgress DEF IInv, TypeOK, NoPolicyForgotten, Scheduled
<1> QED BY <1>1, <1>2, <1>3

\* The service's path failed and the direct path begins.
LEMMA FallBackOK ==
    ASSUME IInv, rec.pc # "idle", FallBack
    PROVE  /\ rec' = [pc |-> "target", name |-> rec.name, pol |-> rec.pol,
                      direct |-> TRUE, class |-> "", got |-> FALSE,
                      fresh |-> FALSE]
           /\ rec' \in Reconciling
<1>1. rec' = [pc |-> "target", name |-> rec.name, pol |-> rec.pol,
              direct |-> TRUE, class |-> "", got |-> FALSE, fresh |-> FALSE]
  BY DEF FallBack, Idle
<1> QED BY <1>1, InProgress DEF Reconciling, Writing, Reasons

\* The reconcile ends with a delay.
LEMMA FinishOK ==
    ASSUME IInv, rec.pc # "idle", NEW delay \in Nat \ {0}, Finish(delay)
    PROVE  /\ rec' \in Reconciling
           /\ rec'.pc = "idle" /\ rec'.name = NoName /\ rec'.class = ""
           /\ rec'.pol.phase = ""
           /\ timer' \in [Names -> Nat]
           /\ \E d \in Nat \ {0} : timer' = [timer EXCEPT ![rec.name] = d]
<1>1. rec' = Idle /\ timer' = [timer EXCEPT ![rec.name] = delay]
  BY DEF Finish, Requeue
<1>2. rec' \in Reconciling
  BY <1>1, DataTypes
<1>3. /\ rec'.pc = "idle" /\ rec'.name = NoName /\ rec'.class = ""
      /\ rec'.pol.phase = ""
  BY <1>1 DEF Idle, NoCopy, CopyOf, NoPolicy, NoStatus
<1> QED BY <1>1, <1>2, <1>3 DEF IInv, TypeOK

\* Only the place in the reconcile changes.
LEMMA GotoOK ==
    ASSUME IInv, NEW pc \in {"sync", "cycle", "granted", "status"}, Goto(pc)
    PROVE  /\ rec' \in Reconciling
           /\ rec'.pc = pc
           /\ rec'.name = rec.name /\ rec'.pol = rec.pol /\ rec'.class = rec.class
           /\ Target' = Target
BY DEF IInv, TypeOK, Reconciling, Writing, Goto, Target

\* The service or the informer is there; the cycle can begin.
LEMMA FindInv ==
    ASSUME IInv, FindService \/ FindInformer
    PROVE  IInv'
<1>0. /\ rec.pc = "target"
      /\ Goto("cycle")
      /\ evaluationServices' \in {evaluationServices, evaluationServices \cup {Target}}
      /\ resourceInformers[Target] = "synced"
      /\ UNCHANGED <<policy, nextUid, surface, known, event, faulty, queue, timer,
                     policyUIDs, policySpecs, rateLimiters, targetFailures,
                     targetProbes, resourceInformers>>
  <2>1. CASE FindService
    BY <2>1 DEF FindService, IInv, StoreIsSynced, cluster, tables
  <2>2. CASE FindInformer
    <3>1. rec.pc = "target" /\ resourceInformers[Target] # "none"
      BY <2>2 DEF FindInformer, NeedsInformer
    <3>2. resourceInformers[Target] = "synced"
      BY <3>1, InProgress DEF IInv, TypeOK, ReconcileOK
    <3> QED BY <2>2, <3>1, <3>2 DEF FindInformer, Proceed, cluster
  <2> QED BY <2>1, <2>2
<1>1. /\ rec' \in Reconciling /\ rec'.pc = "cycle" /\ rec'.name = rec.name
      /\ rec'.pol = rec.pol /\ rec'.class = rec.class /\ Target' = Target
  BY <1>0, GotoOK
<1>2. TypeOK'
  BY <1>0, <1>1, InProgress DEF IInv, TypeOK
<1>3. NoPolicyForgotten' /\ UidsDistinct' /\ CacheIsCurrent' /\ SpecsKnown'
  BY <1>0, <1>1, GoroutineFrame
<1>4. MapsAgree' /\ StoreIsSynced'
  BY <1>0, <1>1 DEF IInv, MapsAgree, StoreIsSynced
<1>5. ReconcileOK'
  BY <1>0, <1>1 DEF IInv, ReconcileOK
<1>6. FaultsMarked'
  BY <1>0, <1>1 DEF IInv, FaultsMarked, TransientNeverError, Faulty
<1> QED BY <1>2, <1>3, <1>4, <1>5, <1>6 DEF IInv

\* The probe grants the target.
LEMMA ProbeGrantedInv ==
    ASSUME IInv, ProbeGranted
    PROVE  IInv'
<1>0. /\ rec.pc = "target"
      /\ Goto("granted")
      /\ targetProbes' = targetProbes \cup {Target}
      /\ targetFailures' = [targetFailures EXCEPT ![rec.pol.uid] = 0]
      /\ resourceInformers[Target] = "none"
      /\ UNCHANGED <<policy, nextUid, surface, known, event, faulty, queue, timer,
                     policyUIDs, policySpecs, rateLimiters, resourceInformers,
                     evaluationServices>>
  BY DEF ProbeGranted, NeedsProbe, NeedsInformer, cluster
<1>1. /\ rec' \in Reconciling /\ rec'.pc = "granted" /\ rec'.name = rec.name
      /\ rec'.pol = rec.pol /\ rec'.class = rec.class /\ Target' = Target
  BY <1>0, GotoOK
<1>2. TypeOK'
  BY <1>0, <1>1, InProgress, PolicyAssumption DEF IInv, TypeOK
<1>3. NoPolicyForgotten' /\ UidsDistinct' /\ CacheIsCurrent' /\ SpecsKnown'
  BY <1>0, <1>1, GoroutineFrame
<1>4. MapsAgree' /\ StoreIsSynced'
  BY <1>0, <1>1 DEF IInv, MapsAgree, StoreIsSynced
<1>5. ReconcileOK'
  BY <1>0, <1>1 DEF IInv, ReconcileOK
<1>6. FaultsMarked'
  BY <1>0, <1>1 DEF IInv, FaultsMarked, TransientNeverError, Faulty
<1> QED BY <1>2, <1>3, <1>4, <1>5, <1>6 DEF IInv

\* The probe is refused; only a malformed target is refused for good.
LEMMA ProbeRefusedInv ==
    ASSUME IInv, ProbeRefused
    PROVE  IInv'
<1>0. /\ rec.pc = "target"
      /\ resourceInformers[Target] = "none"
      /\ UNCHANGED <<policy, nextUid, surface, known, event, faulty, queue, timer,
                     policyUIDs, policySpecs, rateLimiters, targetFailures,
                     targetProbes, resourceInformers, evaluationServices>>
  BY DEF ProbeRefused, NeedsProbe, NeedsInformer, cluster, tables
<1>1. PICK class \in Refusal(Target) :
        rec' = [rec EXCEPT !.pc = "refused", !.class = class]
  BY DEF ProbeRefused
<1>2. /\ class \in Reasons
      /\ class = "TARGET_CONFIGURATION_INVALID" => Target \in Malformed
  <2>1. Target \in Targets
    BY <1>0, InProgress
  <2>2. surface[Target] \in {"served"} \cup Outages
    BY <2>1 DEF IInv, TypeOK
  <2> QED BY <1>1, <2>2, PolicyAssumption DEF Refusal, Reasons, Classes
<1>3. /\ rec' \in Reconciling /\ rec'.pc = "refused" /\ rec'.name = rec.name
      /\ rec'.pol = rec.pol /\ rec'.class = class /\ Target' = Target
  BY <1>1, <1>2 DEF IInv, TypeOK, Reconciling, Writing, Target
<1>4. TypeOK'
  BY <1>0, <1>3 DEF IInv, TypeOK
<1>5. NoPolicyForgotten' /\ UidsDistinct' /\ CacheIsCurrent' /\ SpecsKnown'
  BY <1>0, <1>3, GoroutineFrame
<1>6. MapsAgree' /\ StoreIsSynced'
  BY <1>0, <1>3 DEF IInv, MapsAgree, StoreIsSynced
<1>7. ReconcileOK'
  BY <1>0, <1>3 DEF IInv, ReconcileOK
<1>8. FaultsMarked'
  BY <1>0, <1>2, <1>3 DEF IInv, FaultsMarked, TransientNeverError, Faulty
<1> QED BY <1>4, <1>5, <1>6, <1>7, <1>8 DEF IInv

\* The cache did not sync: the informer leaves the map, and no service and no
\* cycle was built on it.
LEMMA SyncFailsInv ==
    ASSUME IInv, SyncFails
    PROVE  IInv'
<1>0. /\ rec.pc = "sync"
      /\ resourceInformers' = [resourceInformers EXCEPT ![Target] = "none"]
      /\ Finish(30) \/ (FallBack /\ UNCHANGED timer)
      /\ UNCHANGED <<policy, nextUid, surface, known, event, faulty, queue,
                     policyUIDs, policySpecs, rateLimiters, targetFailures,
                     targetProbes, evaluationServices>>
  BY DEF SyncFails, cluster
<1>1. /\ Target \in Targets /\ resourceInformers[Target] = "syncing"
      /\ Target \notin evaluationServices
  BY <1>0, InProgress DEF IInv, ReconcileOK, StoreIsSynced
<1>2. \A t \in Targets : resourceInformers'[t] # "syncing"
  BY <1>0, <1>1 DEF IInv, TypeOK, ReconcileOK
<1>3. resourceInformers' \in [Targets -> {"none", "syncing", "synced"}]
  BY <1>0 DEF IInv, TypeOK
<1>4. \A t \in evaluationServices' : resourceInformers'[t] = "synced"
  BY <1>0, <1>1 DEF IInv, TypeOK, StoreIsSynced
<1>5. MapsAgree'
  BY <1>0 DEF IInv, MapsAgree
<1>6. CASE Finish(30)
  <2>0. rec.pc # "idle" /\ 30 \in Nat \ {0}
    BY <1>0
  <2>1. /\ rec' \in Reconciling
        /\ rec'.pc = "idle" /\ rec'.name = NoName /\ rec'.class = ""
        /\ rec'.pol.phase = ""
        /\ timer' \in [Names -> Nat]
        /\ \E d \in Nat \ {0} : timer' = [timer EXCEPT ![rec.name] = d]
    BY <1>6, <2>0, FinishOK
  <2>2. TypeOK'
    BY <1>0, <1>3, <2>1 DEF IInv, TypeOK
  <2>3. NoPolicyForgotten' /\ UidsDistinct' /\ CacheIsCurrent' /\ SpecsKnown'
    BY <1>0, <2>1, GoroutineFrame
  <2>4. StoreIsSynced' /\ ReconcileOK'
    BY <1>2, <1>4, <2>1 DEF StoreIsSynced, ReconcileOK
  <2>5. FaultsMarked'
    BY <1>0, <2>1 DEF IInv, FaultsMarked, TransientNeverError, Faulty
  <2> QED BY <1>5, <2>2, <2>3, <2>4, <2>5 DEF IInv
<1>7. CASE FallBack /\ UNCHANGED timer
  <2>1. /\ rec' = [pc |-> "target", name |-> rec.name, pol |-> rec.pol,
                   direct |-> TRUE, class |-> "", got |-> FALSE, fresh |-> FALSE]
        /\ rec' \in Reconciling
    BY <1>0, <1>7, FallBackOK
  <2>2. TypeOK'
    BY <1>0, <1>3, <1>7, <2>1 DEF IInv, TypeOK
  <2>3. NoPolicyForgotten' /\ UidsDistinct' /\ CacheIsCurrent' /\ SpecsKnown'
    BY <1>0, <1>7, <2>1, GoroutineFrame
  <2>4. StoreIsSynced' /\ ReconcileOK'
    BY <1>0, <1>2, <1>4, <2>1 DEF IInv, StoreIsSynced, ReconcileOK
  <2>5. FaultsMarked'
    BY <1>0, <2>1 DEF IInv, FaultsMarked, TransientNeverError, Faulty, Target
  <2> QED BY <1>5, <2>2, <2>3, <2>4, <2>5 DEF IInv
<1> QED BY <1>0, <1>6, <1>7

\* The cache synced.
LEMMA SyncSucceedsInv ==
    ASSUME IInv, SyncSucceeds
    PROVE  IInv'
<1>0. /\ rec.pc = "sync"
      /\ Goto("cycle")
      /\ resourceInformers' = [resourceInformers EXCEPT ![Target] = "synced"]
      /\ evaluationServices' \in {evaluationServices, evaluationServices \cup {Target}}
      /\ UNCHANGED <<policy, nextUid, surface, known, event, faulty, queue, timer,
                     policyUIDs, policySpecs, rateLimiters, targetFailures,
                     targetProbes>>
  BY DEF SyncSucceeds, Proceed, cluster
<1>1. /\ rec' \in Reconciling /\ rec'.pc = "cycle" /\ rec'.name = rec.name
      /\ rec'.pol = rec.pol /\ rec'.class = rec.class /\ Target' = Target
  BY <1>0, GotoOK
<1>2. Target \in Targets
  BY <1>0, InProgress
<1>3. TypeOK'
  BY <1>0, <1>1, <1>2 DEF IInv, TypeOK
<1>4. NoPolicyForgotten' /\ UidsDistinct' /\ CacheIsCurrent' /\ SpecsKnown'
  BY <1>0, <1>1, GoroutineFrame
<1>5. MapsAgree' /\ StoreIsSynced'
  BY <1>0, <1>1, <1>2 DEF IInv, TypeOK, MapsAgree, StoreIsSynced
<1>6. ReconcileOK'
  BY <1>0, <1>1, <1>2 DEF IInv, TypeOK, ReconcileOK
<1>7. FaultsMarked'
  BY <1>0, <1>1 DEF IInv, FaultsMarked, TransientNeverError, Faulty
<1> QED BY <1>3, <1>4, <1>5, <1>6, <1>7 DEF IInv

\* A cycle; the rate limiter it may make is that of a tracked policy.
LEMMA CycleInv ==
    ASSUME IInv, NEW limiter \in BOOLEAN, Cycle(limiter)
    PROVE  IInv'
<1>0. /\ rec.pc = "cycle"
      /\ Goto("status")
      /\ rateLimiters' \in {rateLimiters, rateLimiters \cup {rec.pol.uid}}
      /\ UNCHANGED <<policy, nextUid, surface, known, event, faulty, queue, timer,
                     policyUIDs, policySpecs, targetFailures, targetProbes,
                     resourceInformers, evaluationServices>>
  BY DEF Cycle, cluster
<1>1. /\ rec' \in Reconciling /\ rec'.pc = "status" /\ rec'.name = rec.name
      /\ rec'.pol = rec.pol /\ rec'.class = rec.class /\ Target' = Target
  BY <1>0, GotoOK
<1>2. TypeOK'
  BY <1>0, <1>1, InProgress DEF IInv, TypeOK
<1>3. NoPolicyForgotten' /\ UidsDistinct' /\ CacheIsCurrent' /\ SpecsKnown'
  BY <1>0, <1>1, GoroutineFrame
<1>4. MapsAgree' /\ StoreIsSynced'
  BY <1>0, <1>1 DEF IInv, MapsAgree, StoreIsSynced, ReconcileOK
<1>5. ReconcileOK'
  BY <1>0, <1>1 DEF IInv, ReconcileOK
<1>6. FaultsMarked'
  BY <1>0, <1>1 DEF IInv, FaultsMarked, TransientNeverError, Faulty
<1> QED BY <1>2, <1>3, <1>4, <1>5, <1>6 DEF IInv

\* The policy is read for the status write.
LEMMA ReadForStatusInv ==
    ASSUME IInv, ReadForStatus
    PROVE  IInv'
<1>0. /\ rec.pc # "idle"
      /\ rec' = [rec EXCEPT !.got = TRUE, !.fresh = TRUE]
      /\ UNCHANGED <<policy, nextUid, surface, known, event, faulty, queue, timer,
                     policyUIDs, policySpecs, rateLimiters, targetFailures,
                     targetProbes, resourceInformers, evaluationServices>>
  BY DEF ReadForStatus, Writing, cluster, tables
<1>1. /\ rec' \in Reconciling /\ rec'.pc = rec.pc /\ rec'.name = rec.name
      /\ rec'.pol = rec.pol /\ rec'.class = rec.class /\ Target' = Target
  BY <1>0 DEF IInv, TypeOK, Reconciling, Target
<1>2. TypeOK'
  BY <1>0, <1>1 DEF IInv, TypeOK
<1>3. NoPolicyForgotten' /\ UidsDistinct' /\ CacheIsCurrent' /\ SpecsKnown'
  BY <1>0, <1>1, GoroutineFrame
<1>4. MapsAgree' /\ StoreIsSynced'
  BY <1>0, <1>1 DEF IInv, MapsAgree, StoreIsSynced
<1>5. ReconcileOK'
  BY <1>0, <1>1 DEF IInv, ReconcileOK
<1>6. FaultsMarked'
  BY <1>0, <1>1 DEF IInv, FaultsMarked, TransientNeverError, Faulty
<1> QED BY <1>2, <1>3, <1>4, <1>5, <1>6 DEF IInv

(***************************************************************************)
(* The status writes                                                       *)
(***************************************************************************)

\* A reconcile that ends after a status write, whatever became of the write.
LEMMA EndsAfterWrite ==
    ASSUME IInv, rec.pc \in {"invalid", "refused", "status"},
           NEW delay \in Nat \ {0}, Finish(delay),
           UNCHANGED <<nextUid, surface, known, faulty, queue, policyUIDs,
                       policySpecs, rateLimiters, targetProbes,
                       resourceInformers, evaluationServices>>,
           targetFailures' \in [Uids -> 0..MaxFailures],
           policy' \in [Names -> Policy],
           event' \in [Names -> {"none", "own", "user"}],
           \A p \in Names : /\ policy'[p].uid = policy[p].uid
                            /\ policy'[p].spec = policy[p].spec
                            /\ event'[p] = "none" => event[p] = "none"
                            /\ policy'[p].status.phase = "Error" => p \in faulty
    PROVE  IInv'
<1>1. /\ rec' \in Reconciling
      /\ rec'.pc = "idle" /\ rec'.name = NoName /\ rec'.class = ""
      /\ rec'.pol.phase = ""
      /\ timer' \in [Names -> Nat]
      /\ \E d \in Nat \ {0} : timer' = [timer EXCEPT ![rec.name] = d]
  BY FinishOK
<1>2. TypeOK'
  BY <1>1 DEF IInv, TypeOK
<1>3. NoPolicyForgotten' /\ UidsDistinct' /\ CacheIsCurrent' /\ SpecsKnown'
  BY <1>1, GoroutineFrame
<1>4. MapsAgree' /\ StoreIsSynced'
  BY <1>1 DEF IInv, MapsAgree, StoreIsSynced
<1>5. ReconcileOK'
  BY <1>1 DEF IInv, ReconcileOK
<1>6. FaultsMarked'
  BY <1>1 DEF IInv, FaultsMarked, TransientNeverError, Faulty
<1> QED BY <1>2, <1>3, <1>4, <1>5, <1>6 DEF IInv

\* What follows a status write, whatever became of it: of the policies it
\* changes at most the status, and an Error phase is about a fault.
LEMMA AfterWriteInv ==
    ASSUME IInv, NEW written, AfterWrite(written),
           UNCHANGED <<nextUid, surface, known, faulty, queue>>,
           policy' \in [Names -> Policy],
           event' \in [Names -> {"none", "own", "user"}],
           \A p \in Names : /\ policy'[p].uid = policy[p].uid
                            /\ policy'[p].spec = policy[p].spec
                            /\ event'[p] = "none" => event[p] = "none"
                            /\ policy'[p].status.phase = "Error" => p \in faulty
    PROVE  IInv'
<1>1. CASE AfterInvalid
  <2>1. /\ rec.pc = "invalid" /\ Finish(3600) /\ 3600 \in Nat \ {0}
        /\ targetFailures' \in [Uids -> 0..MaxFailures]
        /\ UNCHANGED <<policyUIDs, policySpecs, rateLimiters, targetProbes,
                       resourceInformers, evaluationServices>>
    BY <1>1 DEF AfterInvalid, tables, IInv, TypeOK
  <2> QED BY <2>1, EndsAfterWrite
<1>2. CASE AfterStatus(written)
  <2>1. /\ rec.pc = "status"
        /\ Finish(CleanupInterval) \/ Finish(30)
        /\ 30 \in Nat \ {0} /\ CleanupInterval \in Nat \ {0}
        /\ targetFailures' \in [Uids -> 0..MaxFailures]
        /\ UNCHANGED <<policyUIDs, policySpecs, rateLimiters, targetProbes,
                       resourceInformers, evaluationServices>>
    BY <1>2, PolicyAssumption DEF AfterStatus, tables, IInv, TypeOK
  <2> QED BY <2>1, EndsAfterWrite
<1>3. CASE AfterGranted
  <2>0. /\ rec.pc = "granted"
        /\ resourceInformers' = [resourceInformers EXCEPT ![Target] = "syncing"]
        /\ rec' = [rec EXCEPT !.pc = "sync", !.got = FALSE, !.fresh = FALSE]
        /\ UNCHANGED <<timer, policyUIDs, policySpecs, rateLimiters,
                       targetFailures, targetProbes, evaluationServices>>
    BY <1>3 DEF AfterGranted
  <2>1. /\ rec' \in Reconciling /\ rec'.pc = "sync" /\ rec'.name = rec.name
        /\ rec'.pol = rec.pol /\ rec'.class = rec.class /\ Target' = Target
    BY <2>0 DEF IInv, TypeOK, Reconciling, Target
  <2>2. Target \in Targets /\ Target \notin evaluationServices
    BY <2>0, InProgress DEF IInv, ReconcileOK, StoreIsSynced
  <2>3. TypeOK'
    BY <2>0, <2>1 DEF IInv, TypeOK
  <2>4. NoPolicyForgotten' /\ UidsDistinct' /\ CacheIsCurrent' /\ SpecsKnown'
    BY <2>0, <2>1, GoroutineFrame
  <2>5. MapsAgree' /\ StoreIsSynced'
    BY <2>0, <2>1, <2>2 DEF IInv, TypeOK, MapsAgree, StoreIsSynced
  <2>6. ReconcileOK'
    BY <2>0, <2>1, <2>2 DEF IInv, TypeOK, ReconcileOK
  <2>7. FaultsMarked'
    BY <2>0, <2>1 DEF IInv, FaultsMarked, TransientNeverError, Faulty
  <2> QED BY <2>3, <2>4, <2>5, <2>6, <2>7 DEF IInv
<1>4. CASE AfterRefused
  <2> DEFINE count == recordTargetFailure(rec.pol.uid)
  <2>0. /\ rec.pc = "refused"
        /\ targetFailures' = [targetFailures EXCEPT ![rec.pol.uid] = count]
        /\ \/ Finish(TargetBackoffFor(targetFailures'[rec.pol.uid]))
           \/ FallBack /\ UNCHANGED timer
        /\ UNCHANGED <<policyUIDs, policySpecs, rateLimiters, targetProbes,
                       resourceInformers, evaluationServices>>
    BY <1>4 DEF AfterRefused
  <2>1. rec.pol.uid \in Uids
    BY <2>0, InProgress
  <2>2. count \in 0..MaxFailures
    BY <2>1, PolicyAssumption DEF IInv, TypeOK, recordTargetFailure
  <2> HIDE DEF count
  <2>3. /\ targetFailures' \in [Uids -> 0..MaxFailures]
        /\ targetFailures'[rec.pol.uid] \in Nat
    BY <2>0, <2>1, <2>2 DEF IInv, TypeOK
  <2>4. CASE Finish(TargetBackoffFor(targetFailures'[rec.pol.uid]))
    <3>1. TargetBackoffFor(targetFailures'[rec.pol.uid]) \in Nat \ {0}
      BY <2>3, BackoffBounded
    <3> QED BY <2>0, <2>3, <2>4, <3>1, EndsAfterWrite
  <2>5. CASE FallBack /\ UNCHANGED timer
    <3>1. /\ rec' = [pc |-> "target", name |-> rec.name, pol |-> rec.pol,
                     direct |-> TRUE, class |-> "", got |-> FALSE,
                     fresh |-> FALSE]
          /\ rec' \in Reconciling
      BY <2>0, <2>5, FallBackOK
    <3>2. TypeOK'
      BY <2>0, <2>3, <2>5, <3>1 DEF IInv, TypeOK
    <3>3. NoPolicyForgotten' /\ UidsDistinct' /\ CacheIsCurrent' /\ SpecsKnown'
      BY <2>0, <2>5, <3>1, GoroutineFrame
    <3>4. MapsAgree' /\ StoreIsSynced'
      BY <2>0, <3>1 DEF IInv, MapsAgree, StoreIsSynced
    <3>5. ReconcileOK'
      BY <2>0, <3>1 DEF IInv, ReconcileOK
    <3>6. FaultsMarked'
      BY <2>0, <3>1 DEF IInv, FaultsMarked, TransientNeverError, Faulty, Target
    <3> QED BY <3>2, <3>3, <3>4, <3>5, <3>6 DEF IInv
  <2> QED BY <2>0, <2>4, <2>5
<1> QED BY <1>1, <1>2, <1>3, <1>4 DEF AfterWrite

\* A write that failed changes no policy.
LEMMA WriteFailsInv ==
    ASSUME IInv, WriteFails
    PROVE  IInv'
<1>1. /\ AfterWrite(FALSE)
      /\ UNCHANGED <<policy, nextUid, surface, known, event, faulty, queue>>
  BY DEF WriteFails, cluster
<1>2. /\ policy' \in [Names -> Policy]
      /\ event' \in [Names -> {"none", "own", "user"}]
      /\ \A p \in Names : policy[p].status.phase = "Error" => p \in faulty
  BY <1>1 DEF IInv, TypeOK, FaultsMarked, TransientNeverError
<1> QED BY <1>1, <1>2, AfterWriteInv

\* A write that takes effect changes the status of the policy only.
LEMMA WriteSucceedsInv ==
    ASSUME IInv, NEW answered \in BOOLEAN, NEW newSecond \in BOOLEAN,
           WriteSucceeds(answered, newSecond)
    PROVE  IInv'
<1> DEFINE p == rec.name
           status == Written(policy[p].status)
<1>1. /\ rec.pc # "idle"
      /\ policy' = [policy EXCEPT ![p].status = status]
      /\ \E e \in {event[p], "own"} :
            event' = [event EXCEPT ![p] = e] /\ (e = "none" => event[p] = "none")
      /\ AfterWrite(answered)
      /\ UNCHANGED <<nextUid, surface, known, faulty, queue>>
  BY DEF WriteSucceeds, Writing
<1>2. p \in Names /\ policy[p] \in Policy /\ policy[p].status \in Status
  BY <1>1, InProgress DEF IInv, TypeOK, Policy
<1>3. status \in Status
  BY <1>2, WrittenType DEF IInv
<1>4. status.phase = "Error" => p \in faulty
  <2>1. policy[p].status.phase = "Error" => p \in faulty
    BY <1>2 DEF IInv, FaultsMarked, TransientNeverError
  <2> QED BY <1>1, <1>2, <2>1, WrittenMarked
<1> HIDE DEF status
<1>5. policy' \in [Names -> Policy]
  BY <1>1, <1>2, <1>3 DEF IInv, TypeOK, Policy
<1>6. event' \in [Names -> {"none", "own", "user"}]
  BY <1>1, <1>2 DEF IInv, TypeOK
<1>7. ASSUME NEW q \in Names
      PROVE  /\ policy'[q].uid = policy[q].uid
             /\ policy'[q].spec = policy[q].spec
             /\ event'[q] = "none" => event[q] = "none"
             /\ policy'[q].status.phase = "Error" => q \in faulty
  <2>1. CASE q = p
    BY <1>1, <1>2, <1>3, <1>4, <2>1 DEF IInv, TypeOK, Policy
  <2>2. CASE q # p
    BY <1>1, <2>2 DEF IInv, TypeOK, FaultsMarked, TransientNeverError
  <2> QED BY <2>1, <2>2
<1> QED BY <1>1, <1>5, <1>6, <1>7, AfterWriteInv

(***************************************************************************)
(* The manager, the users and the cluster                                  *)
(***************************************************************************)

\* A watch event is applied and the name is enqueued.
LEMMA DeliverInv ==
    ASSUME IInv, NEW p \in Names, Deliver(p)
    PROVE  IInv'
<1>0. /\ event[p] # "none"
      /\ known' = [known EXCEPT ![p] = CopyOf(policy[p])]
      /\ event' = [event EXCEPT ![p] = "none"]
      /\ \E why \in {"own", "asked"} : queue' = [queue EXCEPT ![p] = why]
      /\ UNCHANGED <<policy, nextUid, surface, timer, rec, policyUIDs,
                     policySpecs, rateLimiters, targetFailures, targetProbes,
                     resourceInformers, evaluationServices, faulty>>
  BY DEF Deliver, tables, IInv, TypeOK
<1>1. /\ policy[p] \in Policy /\ CopyOf(policy[p]) \in Copy
      /\ CopyOf(policy[p]).uid = policy[p].uid
      /\ CopyOf(policy[p]).spec = policy[p].spec
      /\ CopyOf(policy[p]).phase = policy[p].status.phase
  BY DataTypes DEF IInv, TypeOK, CopyOf
<1>2. TypeOK'
  BY <1>0, <1>1 DEF IInv, TypeOK
<1>3. NoPolicyForgotten'
  BY <1>0 DEF IInv, TypeOK, NoPolicyForgotten, Scheduled
<1>4. MapsAgree' /\ StoreIsSynced' /\ ReconcileOK'
  BY <1>0 DEF IInv, MapsAgree, StoreIsSynced, ReconcileOK, Target
<1>5. FaultsMarked'
  BY <1>0, <1>1
     DEF IInv, TypeOK, FaultsMarked, TransientNeverError, Faulty, Target
<1>6. UidsDistinct'
  <2>1. \A q \in Names : UidsOf(q)' \subseteq UidsOf(q)
    BY <1>0, <1>1 DEF IInv, TypeOK, UidsOf
  <2> QED BY <1>0, <2>1 DEF IInv, UidsDistinct
<1>7. CacheIsCurrent' /\ SpecsKnown'
  BY <1>0, <1>1 DEF IInv, TypeOK, CacheIsCurrent, SpecsKnown
<1> QED BY <1>2, <1>3, <1>4, <1>5, <1>6, <1>7 DEF IInv

\* Timers, grants that expire and targets that come and go.
LEMMA SurroundingsInv ==
    ASSUME IInv,
           \/ \E p \in Names : Fire(p)
           \/ \E t \in Targets : GrantExpires(t)
           \/ \E t \in Targets, state \in {"served"} \cup Outages :
                 SurfaceChanges(t, state)
           \/ UNCHANGED vars
    PROVE  IInv'
<1> DEFINE Frame ==
        /\ UNCHANGED <<policy, nextUid, known, event, faulty, rec, policyUIDs,
                       policySpecs, rateLimiters, targetFailures,
                       resourceInformers, evaluationServices>>
        /\ targetProbes' \subseteq targetProbes
        /\ surface' \in [Targets -> {"served"} \cup Outages]
        /\ timer' \in [Names -> Nat]
        /\ queue' \in [Names -> {"none", "own", "asked"}]
        /\ \A p \in Names : timer[p] # 0 \/ queue[p] # "none" =>
                               timer'[p] # 0 \/ queue'[p] # "none"
<1>0. Frame
  <2>1. ASSUME NEW p \in Names, Fire(p) PROVE Frame
    BY <2>1 DEF Fire, cluster, tables, IInv, TypeOK
  <2>2. ASSUME NEW t \in Targets, GrantExpires(t) PROVE Frame
    BY <2>2 DEF GrantExpires, cluster, IInv, TypeOK
  <2>3. ASSUME NEW t \in Targets, NEW state \in {"served"} \cup Outages,
               SurfaceChanges(t, state)
        PROVE  Frame
    BY <2>3 DEF SurfaceChanges, tables, IInv, TypeOK
  <2>4. CASE UNCHANGED vars
    BY <2>4 DEF vars, IInv, TypeOK
  <2> QED BY <2>1, <2>2, <2>3, <2>4
<1>1. TypeOK'
  BY <1>0 DEF IInv, TypeOK
<1>2. NoPolicyForgotten'
  BY <1>0 DEF IInv, NoPolicyForgotten, Scheduled
<1>3. MapsAgree' /\ StoreIsSynced' /\ ReconcileOK'
  BY <1>0 DEF IInv, MapsAgree, StoreIsSynced, ReconcileOK, Target
<1>4. /\ FaultsMarked' /\ UidsDistinct' /\ CacheIsCurrent' /\ SpecsKnown'
  BY <1>0 DEF IInv, FaultsMarked, TransientNeverError, Faulty, UidsDistinct,
              UidsOf, CacheIsCurrent, SpecsKnown, Target
<1> QED BY <1>1, <1>2, <1>3, <1>4 DEF IInv

\* Another process starts with empty tables; its cache lists every policy.
LEMMA RestartInv ==
    ASSUME IInv, Restart
    PROVE  IInv'
<1>1. TypeOK'
  BY DataTypes, PolicyAssumption DEF Restart, IInv, TypeOK, Uids
<1>2. NoPolicyForgotten' /\ MapsAgree'
  BY DEF Restart, IInv, NoPolicyForgotten, MapsAgree, Scheduled
<1>3. StoreIsSynced' /\ ReconcileOK'
  BY DEF Restart, StoreIsSynced, ReconcileOK, Idle
<1>4. FaultsMarked'
  BY DEF Restart, IInv, FaultsMarked, TransientNeverError, Faulty, Idle, NoCopy,
         CopyOf, NoPolicy, NoStatus
<1>5. UidsDistinct'
  <2>1. \A q \in Names : UidsOf(q)' \subseteq UidsOf(q) \cup {0}
    BY DEF Restart, UidsOf, NoCopy, CopyOf, NoPolicy
  <2>2. nextUid > 0 /\ nextUid' = nextUid
    BY PolicyAssumption DEF Restart, IInv, TypeOK
  <2> QED BY <2>1, <2>2 DEF IInv, UidsDistinct
<1>6. CacheIsCurrent' /\ SpecsKnown'
  BY DEF Restart, IInv, CacheIsCurrent, SpecsKnown, NoCopy, CopyOf, NoPolicy
<1> QED BY <1>1, <1>2, <1>3, <1>4, <1>5, <1>6 DEF IInv

\* A user creates, edits or deletes a policy: the UID is the policy's, none or
\* a new one, and a status write in progress does not notice.
LEMMA UserChangesInv ==
    ASSUME IInv, NEW p \in Names, NEW pol \in Policy, UserChanges(p, pol),
           nextUid' \in 1..MaxUid + 1, nextUid <= nextUid',
           \/ pol.uid \in {0, policy[p].uid}
           \/ pol.uid = nextUid /\ nextUid' = nextUid + 1,
           pol.uid # 0 => pol.spec \in Specs,
           pol.status.phase = "Error" => policy[p].status.phase = "Error"
    PROVE  IInv'
<1>0. /\ policy' = [policy EXCEPT ![p] = pol]
      /\ event' = [event EXCEPT ![p] = "user"]
      /\ rec' \in {rec, [rec EXCEPT !.fresh = FALSE]}
      /\ faulty' = IF Faulty(pol) THEN faulty \cup {p} ELSE faulty
      /\ UNCHANGED <<surface, known, queue, timer, policyUIDs, policySpecs,
                     rateLimiters, targetFailures, targetProbes,
                     resourceInformers, evaluationServices>>
  BY DEF UserChanges, tables
<1>1. /\ rec' \in Reconciling /\ rec'.pc = rec.pc /\ rec'.name = rec.name
      /\ rec'.pol = rec.pol /\ rec'.class = rec.class /\ Target' = Target
  BY <1>0 DEF IInv, TypeOK, Reconciling, Target
<1>2. TypeOK'
  BY <1>0, <1>1 DEF IInv, TypeOK
<1>3. NoPolicyForgotten'
  BY <1>0, <1>1 DEF IInv, TypeOK, NoPolicyForgotten, Scheduled
<1>4. MapsAgree' /\ StoreIsSynced' /\ ReconcileOK'
  BY <1>0, <1>1 DEF IInv, MapsAgree, StoreIsSynced, ReconcileOK
<1>5. FaultsMarked'
  <2>1. faulty \subseteq faulty' /\ (Faulty(pol) => p \in faulty')
    BY <1>0
  <2>2. ASSUME NEW q \in Names
        PROVE  /\ policy'[q].status.phase = "Error" => q \in faulty'
               /\ Faulty(policy'[q]) => q \in faulty'
    <3>1. CASE q = p
      BY <1>0, <2>1, <3>1 DEF IInv, TypeOK, FaultsMarked, TransientNeverError
    <3>2. CASE q # p
      BY <1>0, <2>1, <3>2 DEF IInv, TypeOK, FaultsMarked, TransientNeverError
    <3> QED BY <3>1, <3>2
  <2>3. \A q \in Names : known'[q].phase = "Error" \/ Faulty(known'[q])
                            => q \in faulty'
    BY <1>0, <2>1 DEF IInv, FaultsMarked
  <2>4. \A q \in Names : /\ Faulty(policy[q])' = Faulty(policy'[q])
                         /\ Faulty(known[q])' = Faulty(known'[q])
    BY DEF Faulty
  <2>5. /\ rec'.pc = "invalid" \/ rec'.pol.phase = "Error" => rec'.name \in faulty'
        /\ rec'.class = "TARGET_CONFIGURATION_INVALID" => rec'.name \in faulty'
        /\ rec'.pc # "idle" /\ Target' \in Malformed => rec'.name \in faulty'
    BY <1>1, <2>1 DEF IInv, FaultsMarked
  <2> QED BY <2>2, <2>3, <2>4, <2>5 DEF FaultsMarked, TransientNeverError
<1>6. UidsDistinct'
  <2>1. nextUid \in Nat /\ nextUid > 0
    BY PolicyAssumption DEF IInv, TypeOK
  <2>2. \A q \in Names : UidsOf(q) \subseteq Nat
    BY DEF IInv, TypeOK, UidsOf, Policy, Copy
  <2>3. \A q \in Names : q # p => UidsOf(q)' = UidsOf(q)
    BY <1>0 DEF IInv, TypeOK, UidsOf
  <2>4. \/ UidsOf(p)' \subseteq UidsOf(p) \cup {0}
        \/ UidsOf(p)' \subseteq UidsOf(p) \cup {nextUid} /\ nextUid' = nextUid + 1
    BY <1>0 DEF IInv, TypeOK, UidsOf
  <2>5. \A q \in Names : \A u \in UidsOf(q)' : u < nextUid'
    BY <2>1, <2>2, <2>3, <2>4 DEF IInv, UidsDistinct
  <2>6. ASSUME NEW q \in Names, NEW r \in Names, q # r
        PROVE  UidsOf(q)' \cap UidsOf(r)' \subseteq {0}
    BY <2>1, <2>2, <2>3, <2>4, <2>6 DEF IInv, UidsDistinct
  <2> QED BY <2>5, <2>6 DEF UidsDistinct
<1>7. CacheIsCurrent' /\ SpecsKnown'
  BY <1>0 DEF IInv, TypeOK, CacheIsCurrent, SpecsKnown
<1> QED BY <1>2, <1>3, <1>4, <1>5, <1>6, <1>7 DEF IInv

\* What users do.
LEMMA UserInv ==
    ASSUME IInv,
           \/ \E p \in Names, spec \in Specs : CreatePolicy(p, spec)
           \/ \E p \in Names, spec \in Specs : EditPolicy(p, spec)
           \/ \E p \in Names : DeletePolicy(p)
    PROVE  IInv'
<1>0. nextUid \in 1..MaxUid + 1 /\ MaxUid \in Nat
  BY PolicyAssumption DEF IInv, TypeOK
<1>1. ASSUME NEW p \in Names, NEW spec \in Specs, CreatePolicy(p, spec)
      PROVE  IInv'
  <2> DEFINE pol == [uid |-> nextUid, spec |-> spec, status |-> NoStatus]
  <2>1. /\ UserChanges(p, pol)
        /\ nextUid <= MaxUid /\ nextUid' = nextUid + 1
    BY <1>1 DEF CreatePolicy
  <2>2. /\ pol \in Policy /\ pol.uid = nextUid /\ pol.spec \in Specs
        /\ pol.status.phase # "Error"
    <3>1. nextUid \in 0..MaxUid /\ NoStatus \in Status
      BY <1>0, <2>1, DataTypes
    <3>2. NoStatus.phase # "Error"
      BY DEF NoStatus
    <3> QED BY <3>1, <3>2 DEF Policy
  <2>3. nextUid' \in 1..MaxUid + 1 /\ nextUid <= nextUid'
    BY <1>0, <2>1
  <2> HIDE DEF pol
  <2> QED BY <2>1, <2>2, <2>3, UserChangesInv
<1>2. ASSUME NEW p \in Names, NEW spec \in Specs, EditPolicy(p, spec)
      PROVE  IInv'
  <2> DEFINE pol == [policy[p] EXCEPT !.spec = spec]
  <2>1. UserChanges(p, pol) /\ nextUid' = nextUid
    BY <1>2 DEF EditPolicy
  <2>2. /\ pol \in Policy /\ pol.uid = policy[p].uid /\ pol.spec \in Specs
        /\ pol.status = policy[p].status
    BY DEF IInv, TypeOK, Policy
  <2>3. nextUid' \in 1..MaxUid + 1 /\ nextUid <= nextUid'
    BY <1>0, <2>1
  <2> HIDE DEF pol
  <2> QED BY <2>1, <2>2, <2>3, UserChangesInv
<1>3. ASSUME NEW p \in Names, DeletePolicy(p)
      PROVE  IInv'
  <2>1. UserChanges(p, NoPolicy) /\ nextUid' = nextUid
    BY <1>3 DEF DeletePolicy
  <2>2. NoPolicy \in Policy /\ NoPolicy.uid = 0 /\ NoPolicy.status.phase # "Error"
    BY DataTypes DEF NoPolicy, NoStatus
  <2>3. nextUid' \in 1..MaxUid + 1 /\ nextUid <= nextUid'
    BY <1>0, <2>1
  <2> QED BY <2>1, <2>2, <2>3, UserChangesInv
<1> QED BY <1>1, <1>2, <1>3

(***************************************************************************)
(* The theorems                                                            *)
(***************************************************************************)

\* Every step keeps the invariant.
LEMMA NextInv == IInv /\ [Next]_vars => IInv'
<1> SUFFICES ASSUME IInv, [Next]_vars PROVE IInv'
  OBVIOUS
<1>1. ASSUME NEW p \in Names, Start(p) \/ FetchFails(p) PROVE IInv'
  BY <1>1, ForgetInv, RejectInvalidInv, SkipPausedInv, BeginInv, FetchFailsInv
     DEF Start
<1>2. CASE ReconcileStep
  <2>1. ASSUME NEW limiter \in BOOLEAN, Cycle(limiter) PROVE IInv'
    BY <2>1, CycleInv
  <2>2. ASSUME NEW answered \in BOOLEAN, NEW newSecond \in BOOLEAN,
               WriteSucceeds(answered, newSecond)
        PROVE  IInv'
    BY <2>2, WriteSucceedsInv
  <2>3. CASE FindService \/ FindInformer
    BY <2>3, FindInv
  <2>4. CASE ProbeGranted
    BY <2>4, ProbeGrantedInv
  <2>5. CASE ProbeRefused
    BY <2>5, ProbeRefusedInv
  <2>6. CASE SyncFails \/ SyncSucceeds
    BY <2>6, SyncFailsInv, SyncSucceedsInv
  <2>7. CASE ReadForStatus \/ WriteFails
    BY <2>7, ReadForStatusInv, WriteFailsInv
  <2> QED BY <1>2, <2>1, <2>2, <2>3, <2>4, <2>5, <2>6, <2>7 DEF ReconcileStep
<1>3. CASE ManagerStep
  BY <1>3, DeliverInv, SurroundingsInv DEF ManagerStep
<1>4. CASE Restart
  BY <1>4, RestartInv
<1>5. CASE UserStep
  BY <1>5, UserInv, SurroundingsInv DEF UserStep
<1>6. CASE UNCHANGED vars
  BY <1>6, SurroundingsInv
<1> QED BY <1>1, <1>2, <1>3, <1>4, <1>5, <1>6 DEF Next

\* Reconcile keeps its tables, its schedule and its verdicts consistent,
\* whatever users, outages, failed writes and restarts do between its steps.
THEOREM Invariant == Spec => []IInv
<1>1. Init => IInv
  BY InitInv
<1>2. IInv /\ [Next]_vars => IInv'
  BY NextInv
<1> QED BY <1>1, <1>2, PTL DEF Spec

\* Whatever path a reconcile takes and whatever fails on it, a policy that
\* exists and a deleted one that is still tracked have a reconcile to come
\* (the returns of Reconcile, handleEvaluationError, handlePausedPolicy).
THEOREM NoPolicyForgottenHolds == Spec => []NoPolicyForgotten
<1>1. IInv => NoPolicyForgotten
  BY DEF IInv
<1> QED BY <1>1, Invariant, PTL

\* cleanupPolicyResources takes a policy from all maps together, and never
\* takes what another name needs: UIDs are not shared.
THEOREM MapsAgreeHolds == Spec => []MapsAgree
<1>1. IInv => MapsAgree
  BY DEF IInv
<1> QED BY <1>1, Invariant, PTL

\* What a step may do to the three maps of policies: forget a name, track it,
\* add a rate limiter, start anew, or nothing.
LEMMA MapsStep ==
    ASSUME IInv, [Next]_vars
    PROVE  \/ UNCHANGED <<policyUIDs, policySpecs, rateLimiters>>
           \/ \E p \in Names : Forget(p) \/ Tracks(p)
           \/ \E limiter \in BOOLEAN : Cycle(limiter)
           \/ Restart
<1>1. CASE \E p \in Names : Start(p) \/ FetchFails(p)
  <2>1. PICK p \in Names : Start(p) \/ FetchFails(p)
    BY <1>1
  <2>2. CASE RejectInvalid(p) \/ FetchFails(p)
    BY <2>2 DEF RejectInvalid, FetchFails, tables
  <2>3. CASE Forget(p) \/ SkipPaused(p) \/ Begin(p)
    BY <2>3 DEF SkipPaused, Begin
  <2> QED BY <2>1, <2>2, <2>3 DEF Start
<1>2. CASE ReconcileStep
  <2>1. CASE FindService \/ FindInformer \/ ProbeGranted \/ ProbeRefused
    BY <2>1 DEF FindService, FindInformer, ProbeGranted, ProbeRefused, tables
  <2>2. CASE SyncFails \/ SyncSucceeds \/ ReadForStatus
    BY <2>2 DEF SyncFails, SyncSucceeds, ReadForStatus, tables
  <2>3. ASSUME NEW written, AfterWrite(written)
        PROVE  UNCHANGED <<policyUIDs, policySpecs, rateLimiters>>
    BY <2>3 DEF AfterWrite, AfterInvalid, AfterGranted, AfterRefused, AfterStatus,
                tables
  <2>4. CASE WriteFails \/ \E answered, newSecond \in BOOLEAN :
                              WriteSucceeds(answered, newSecond)
    BY <2>3, <2>4 DEF WriteFails, WriteSucceeds
  <2> QED BY <1>2, <2>1, <2>2, <2>4 DEF ReconcileStep
<1>3. CASE ManagerStep
  BY <1>3 DEF ManagerStep, Deliver, Fire, GrantExpires, tables
<1>4. CASE UserStep
  BY <1>4 DEF UserStep, CreatePolicy, EditPolicy, DeletePolicy, UserChanges,
              SurfaceChanges, tables
<1>5. CASE UNCHANGED vars
  BY <1>5 DEF vars
<1> QED BY <1>1, <1>2, <1>3, <1>4, <1>5 DEF Next

\* cleanupPolicyResources finds everything that is kept for a policy, unless
\* trackPolicyUID has put a new policy of the same name in its place.
THEOREM LostOnlyByReplacementHolds == Spec => LostOnlyByReplacement
<1> DEFINE Replaced(u) ==
        \E p \in Names : policyUIDs[p] = u /\ policyUIDs'[p] \notin {0, u}
<1>1. ASSUME IInv, [Next]_vars
      PROVE  [\A u \in Uids : ~Lost(u) /\ Lost(u)' => Replaced(u)]_vars
  <2> SUFFICES ASSUME NEW u \in Uids, ~Lost(u), Lost(u)'
               PROVE  Replaced(u)
    OBVIOUS
  <2>1. CASE UNCHANGED <<policyUIDs, policySpecs, rateLimiters>>
    BY <2>1 DEF Lost
  <2>2. ASSUME NEW p \in Names, Forget(p) PROVE Replaced(u)
    BY <1>1, <2>2 DEF Forget, Lost, IInv, TypeOK, Uids
  <2>3. ASSUME NEW p \in Names, Tracks(p) PROVE Replaced(u)
    <3>1. /\ policyUIDs' = [policyUIDs EXCEPT ![p] = known[p].uid]
          /\ policySpecs' = policySpecs \cup {known[p].uid}
          /\ rateLimiters' = rateLimiters
          /\ known[p].uid # 0
          /\ policyUIDs \in [Names -> 0..MaxUid]
      BY <1>1, <2>3 DEF Tracks, IInv, TypeOK
    <3>2. policyUIDs'[p] = known[p].uid
      BY <3>1
    <3>3. u # known[p].uid
      BY <3>2 DEF Lost
    <3>4. PICK q \in Names : policyUIDs[q] = u
      BY <3>1, <3>3 DEF Lost
    <3>5. q = p
      BY <3>1, <3>4 DEF Lost
    <3> QED BY <3>1, <3>2, <3>3, <3>4, <3>5
  <2>4. ASSUME NEW limiter \in BOOLEAN, Cycle(limiter) PROVE Replaced(u)
    <3>1. /\ policyUIDs' = policyUIDs
          /\ policySpecs' = policySpecs
          /\ rateLimiters' \subseteq rateLimiters \cup {rec.pol.uid}
      BY <2>4 DEF Cycle
    <3>2. rec.pol.uid \in policySpecs
      BY <1>1, <2>4 DEF Cycle, IInv, ReconcileOK
    <3> QED BY <3>1, <3>2 DEF Lost
  <2>5. CASE Restart
    BY <2>5 DEF Restart, Lost
  <2> QED BY <1>1, <2>1, <2>2, <2>3, <2>4, <2>5, MapsStep
<1> QED BY <1>1, Invariant, PTL DEF Spec, LostOnlyByReplacement

\* A cycle and a service read the store of an informer that is in the map and
\* has synced (getOrCreateResourceInformer, getOrCreateEvaluationService).
THEOREM StoreIsSyncedHolds == Spec => []StoreIsSynced
<1>1. IInv => StoreIsSynced
  BY DEF IInv
<1> QED BY <1>1, Invariant, PTL

\* Transient unavailability does not flip a policy to Error: only a name whose
\* policy was invalid or malformed shows it (UpdateTargetCondition).
THEOREM TransientNeverErrorHolds == Spec => []TransientNeverError
<1>1. IInv => TransientNeverError
  BY DEF IInv, FaultsMarked
<1> QED BY <1>1, Invariant, PTL
=============================================================================
