------------------------- MODULE DeletionPath_proofs -------------------------
(***************************************************************************)
(* Proofs about DeletionPath for every number of replicas, keys, objects,  *)
(* retries and requests in flight.  IInv is inductive; the safety          *)
(* properties follow from it.                                              *)
(***************************************************************************)
EXTENDS DeletionPath, TLAPS

\* The gate's decision list lets through only what every law lets through
\* (EvaluateObject).
LEMMA AllowedIsLawful ==
    ASSUME NEW obj, NEW behavior \in Behavior, NEW disabled \in BOOLEAN,
           Allowed(Gate(disabled), obj, behavior)
    PROVE  Lawful(obj, behavior, disabled)
BY DEF Allowed, EvaluateObject, Gate, NewGate, Lawful, Behavior,
       excludedByLabelOrAnnotation

\* A goroutine outside a cycle satisfies the invariant's part about it.
LEMMA IdleOK ==
    ASSUME NEW w \in Workers, NEW done \in BOOLEAN, NEW stop \in BOOLEAN,
           nextUid \in 1..MaxUid + 1
    PROVE  /\ Idle(done, stop) \in WorkerState
           /\ CycleOK(w, Idle(done, stop))
           /\ SnapshotOK(Idle(done, stop).obs)
           /\ ResultsOK(Idle(done, stop))
<1>1. Idle(done, stop) \in WorkerState
  <2>1. 0 \in 0..Steps /\ 0 \in 0..MaxUid
    BY ConstantsAssumption
  <2>2. Absent \in Object
    BY <2>1 DEF Absent, Object, AllShapes
  <2>3. NoBehavior \in Behavior
    BY DEF NoBehavior, Behavior
  <2> QED BY <2>1, <2>2, <2>3 DEF Idle, WorkerState, Phases
<1>2. CycleOK(w, Idle(done, stop))
  BY DEF CycleOK, Idle, Absent, NoBehavior
<1>3. SnapshotOK(Idle(done, stop).obs) /\ ResultsOK(Idle(done, stop))
  BY ConstantsAssumption DEF Idle, Absent, SnapshotOK, ResultsOK
<1> QED BY <1>1, <1>2, <1>3

\* A step that changes one goroutine's state, and nothing else, keeps the
\* invariant if the new state satisfies the part about it.
LEMMA OnlyWorker ==
    ASSUME IInv, NEW w \in Workers, NEW state \in WorkerState,
           CycleOK(w, state), SnapshotOK(state.obs), ResultsOK(state),
           Become(w, state), OnlyWorkerChanges
    PROVE  IInv'
<1>1. /\ worker' = [worker EXCEPT ![w] = state]
      /\ worker \in [Workers -> WorkerState]
  BY DEF IInv, TypeOK, Become
<1>2. TypeOK'
  BY <1>1 DEF IInv, TypeOK, OnlyWorkerChanges
<1>3. ASSUME NEW v \in Workers
      PROVE  /\ CycleOK(v, worker'[v])
             /\ SnapshotOK(worker'[v].obs)
             /\ ResultsOK(worker'[v])
  BY <1>1 DEF IInv
<1>4. \A v \in Workers : /\ CycleOK(v, worker[v])'
                         /\ SnapshotOK(cache[v])'
                         /\ SnapshotOK(worker[v].obs)'
                         /\ ResultsOK(worker[v])'
  BY <1>3 DEF IInv, CycleOK, SnapshotOK, ResultsOK, OnlyWorkerChanges, GateAllows
<1>5. /\ SnapshotOK(api)'
      /\ RequestsAuthorised'
      /\ OnlyRaceHitsReplacement'
      /\ (\A r \in wire : r.mark <= nextUid)'
  BY DEF IInv, SnapshotOK, RequestsAuthorised, OnlyRaceHitsReplacement,
         OnlyWorkerChanges
<1> QED BY <1>2, <1>4, <1>5 DEF IInv

\* Leaving the loop over a batch, or a resource of it.
LEMMA EndItemOK ==
    ASSUME NEW w \in Workers, NEW state \in WorkerState,
           CycleOK(w, state), SnapshotOK(state.obs), ResultsOK(state),
           state.pc # "idle"
    PROVE  /\ \A next \in {EndLoop(state), EndItem(state)} :
                 /\ next \in WorkerState
                 /\ CycleOK(w, next)
                 /\ SnapshotOK(next.obs)
                 /\ ResultsOK(next)
<1>1. /\ EndLoop(state) \in WorkerState
      /\ CycleOK(w, EndLoop(state))
      /\ SnapshotOK(EndLoop(state).obs)
      /\ ResultsOK(EndLoop(state))
  <2>1. 0 \in 0..Steps
    BY ConstantsAssumption
  <2>4. EndLoop(state) \in WorkerState
    BY <2>1 DEF EndLoop, WorkerState, Phases
  <2>2. CycleOK(w, EndLoop(state))
    BY DEF EndLoop, CycleOK, WorkerState, GateAllows
  <2>3. SnapshotOK(EndLoop(state).obs) /\ ResultsOK(EndLoop(state))
    BY DEF EndLoop, ResultsOK, WorkerState
  <2> QED BY <2>4, <2>2, <2>3
<1>2. CASE state.todo # {}
  <2> DEFINE next == [state EXCEPT !.pc = "item", !.cur = NoKey, !.step = 0]
  <2>0. 0 \in 0..Steps
    BY ConstantsAssumption
  <2>1. next \in WorkerState
    BY <2>0 DEF WorkerState, Phases
  <2>2. CycleOK(w, next)
    BY DEF CycleOK, WorkerState, GateAllows
  <2>3. SnapshotOK(next.obs) /\ ResultsOK(next)
    BY DEF ResultsOK, WorkerState
  <2> QED BY <1>1, <1>2, <2>1, <2>2, <2>3 DEF EndItem
<1> QED BY <1>1, <1>2 DEF EndItem

\* DeleteResourceWithBackoff returned, with nil or with an error.
LEMMA ItemDone ==
    ASSUME NEW w \in Workers, NEW state \in WorkerState,
           CycleOK(w, state), SnapshotOK(state.obs), ResultsOK(state),
           state.pc # "idle", state.cur \in Keys
    PROVE  /\ \A next \in {ItemOk(state), ItemError(state)} :
                 /\ next \in WorkerState
                 /\ CycleOK(w, next)
                 /\ SnapshotOK(next.obs)
                 /\ ResultsOK(next)
<1> DEFINE ok == [state EXCEPT !.counted = IF state.beh.dryRun THEN @
                                           ELSE @ \cup {state.cur}]
           err == [state EXCEPT !.failed = @ \cup {state.cur}]
<1>1. /\ ok \in WorkerState /\ ok.pc # "idle"
      /\ CycleOK(w, ok) /\ SnapshotOK(ok.obs) /\ ResultsOK(ok)
  <2>1. ok \in WorkerState /\ ok.pc # "idle"
    BY DEF WorkerState
  <2>2. CycleOK(w, ok)
    BY DEF CycleOK, WorkerState, GateAllows
  <2>3. SnapshotOK(ok.obs) /\ ResultsOK(ok)
    BY DEF ResultsOK, WorkerState
  <2> QED BY <2>1, <2>2, <2>3
<1>2. /\ err \in WorkerState /\ err.pc # "idle"
      /\ CycleOK(w, err) /\ SnapshotOK(err.obs) /\ ResultsOK(err)
  <2>1. err \in WorkerState /\ err.pc # "idle"
    BY DEF WorkerState
  <2>2. CycleOK(w, err)
    BY DEF CycleOK, WorkerState, GateAllows
  <2>3. SnapshotOK(err.obs) /\ ResultsOK(err)
    BY DEF ResultsOK, WorkerState
  <2> QED BY <2>1, <2>2, <2>3
<1>3. ItemOk(state) = EndItem(ok) /\ ItemError(state) = EndItem(err)
  BY DEF ItemOk, ItemError
<1> QED BY <1>1, <1>2, <1>3, EndItemOK

\* Nothing is in flight and nothing is planned initially.
LEMMA InitOK ==
    Init => IInv
<1> SUFFICES ASSUME Init PROVE IInv
  OBVIOUS
<1>1. Absent \in Object
  BY ConstantsAssumption DEF Absent, Object, AllShapes
<1>2. nextUid = 1 /\ nextUid \in 1..MaxUid + 1
  BY ConstantsAssumption DEF Init
<1>3. ASSUME NEW w \in Workers
      PROVE  /\ worker[w] \in WorkerState
             /\ CycleOK(w, worker[w])
             /\ SnapshotOK(worker[w].obs)
             /\ ResultsOK(worker[w])
  <2>1. PICK s \in StopValues : worker[w] = Idle(FALSE, s)
    BY DEF Init
  <2>2. s \in BOOLEAN
    BY ConstantsAssumption
  <2> QED BY <1>2, <2>1, <2>2, IdleOK
<1>4. TypeOK
  <2>1. worker \in [Workers -> WorkerState]
    BY <1>3 DEF Init
  <2>2. api \in [Keys -> Object] /\ cache \in [Workers -> [Keys -> Object]]
    BY <1>1 DEF Init
  <2> QED BY <1>2, <2>1, <2>2 DEF Init, TypeOK
<1>5. SnapshotOK(api) /\ \A w \in Workers : SnapshotOK(cache[w])
  BY <1>2 DEF Init, SnapshotOK, Absent
<1>6. /\ RequestsAuthorised
      /\ OnlyRaceHitsReplacement
      /\ \A r \in wire : r.mark <= nextUid
  BY DEF Init, RequestsAuthorised, OnlyRaceHitsReplacement
<1> QED BY <1>3, <1>4, <1>5, <1>6 DEF IInv

-----------------------------------------------------------------------------

\* The steps of a cycle up to the loop over a batch.
LEMMA PlanningOK ==
    ASSUME IInv, NEW w \in Workers,
           \/ \E b \in Behaviors, gated \in BOOLEAN : Evaluate(w, b, gated)
           \/ StopBatches(w)
           \/ \E batch \in SUBSET Keys : NextBatch(w, batch)
           \/ \E k \in Keys, ok \in BOOLEAN : PreRead(w, k, ok)
           \/ EndCycle(w)
    PROVE  IInv'
<1> DEFINE me == worker[w]
<1>1. /\ me \in WorkerState /\ CycleOK(w, me) /\ SnapshotOK(me.obs)
      /\ ResultsOK(me) /\ SnapshotOK(cache[w]) /\ TypeOK
  BY DEF IInv, TypeOK
<1>2. ASSUME NEW b \in Behaviors, NEW gated \in BOOLEAN, Evaluate(w, b, gated)
      PROVE  IInv'
  <2> DEFINE plan == {k \in Keys : Planned(cache[w][k], b, me.stop, gated)}
             obs == [k \in Keys |-> IF k \in plan THEN cache[w][k] ELSE Absent]
             base == Idle(FALSE, me.stop)
             next == [base EXCEPT !.pc = "batch", !.beh = b,
                                  !.obs = obs, !.left = plan]
  <2>1. me.stop \in BOOLEAN /\ b \in Behavior
    BY <1>1, ConstantsAssumption DEF WorkerState
  <2>2. /\ base \in WorkerState /\ CycleOK(w, base)
        /\ SnapshotOK(base.obs) /\ ResultsOK(base)
    BY <1>1, <2>1, IdleOK DEF TypeOK
  <2>3. obs \in [Keys -> Object]
    BY <1>1, ConstantsAssumption DEF TypeOK, Absent, Object, AllShapes
  <2>4. next \in WorkerState
    BY <2>1, <2>2, <2>3 DEF WorkerState, Phases
  <2>5. /\ plan \subseteq Keys
        /\ \A k \in plan : obs[k].uid # 0 /\ obs[k].shape.verdict = "due"
        /\ \A k \in Keys \ plan : obs[k].uid = 0
    BY DEF Planned, Absent
  <2>6. SnapshotOK(obs)
    BY <1>1, ConstantsAssumption DEF SnapshotOK, Absent, TypeOK
  <2>7. leader = w
    BY <1>2 DEF Evaluate
  <2> HIDE DEF obs, plan
  <2>8. CycleOK(w, next)
    BY <2>5, <2>7 DEF CycleOK, Idle
  <2>9. SnapshotOK(next.obs) /\ ResultsOK(next)
    BY <2>6 DEF Idle, ResultsOK
  <2>10. Become(w, next) /\ OnlyWorkerChanges
    BY <1>2 DEF Evaluate, obs, plan
  <2> QED BY <2>4, <2>8, <2>9, <2>10, OnlyWorker
<1>3. ASSUME StopBatches(w)
      PROVE  IInv'
  <2> DEFINE next == [me EXCEPT !.pc = "report"]
  <2>1. next \in WorkerState
    BY <1>1 DEF WorkerState, Phases
  <2>2. CycleOK(w, next) /\ SnapshotOK(next.obs) /\ ResultsOK(next)
    BY <1>1, <1>3 DEF CycleOK, ResultsOK, WorkerState, StopBatches, GateAllows
  <2> QED BY <1>3, <2>1, <2>2, OnlyWorker DEF StopBatches
<1>4. ASSUME NEW batch \in SUBSET Keys, NextBatch(w, batch)
      PROVE  IInv'
  <2> DEFINE next == [me EXCEPT !.pc = IF me.beh.dryRun THEN "item" ELSE "pre",
                                !.left = @ \ batch, !.batch = batch,
                                !.todo = batch, !.pre = {}, !.results = {}]
  <2>1. next \in WorkerState
    BY <1>1 DEF WorkerState, Phases
  <2>2. batch \subseteq me.left /\ me.pc = "batch" /\ ~me.done
    BY <1>4 DEF NextBatch
  <2>3. CycleOK(w, next)
    BY <1>1, <2>2 DEF CycleOK, WorkerState
  <2>4. SnapshotOK(next.obs) /\ ResultsOK(next)
    BY <1>1 DEF ResultsOK, WorkerState
  <2> QED BY <1>4, <2>1, <2>3, <2>4, OnlyWorker DEF NextBatch
<1>5. ASSUME NEW k \in Keys, NEW ok \in BOOLEAN, PreRead(w, k, ok)
      PROVE  IInv'
  <2> DEFINE rest == me.todo \ {k}
             next == [me EXCEPT
                        !.pc = IF rest = {} THEN "item" ELSE "pre",
                        !.todo = IF rest = {} THEN me.batch ELSE rest,
                        !.pre = IF ok THEN @ \cup {k} ELSE @]
  <2>1. next \in WorkerState
    BY <1>1 DEF WorkerState, Phases
  <2>2. CycleOK(w, next)
    BY <1>1, <1>5 DEF CycleOK, WorkerState, PreRead
  <2>3. SnapshotOK(next.obs) /\ ResultsOK(next)
    BY <1>1 DEF ResultsOK, WorkerState
  <2> QED BY <1>5, <2>1, <2>2, <2>3, OnlyWorker DEF PreRead
<1>6. ASSUME EndCycle(w)
      PROVE  IInv'
  <2>1. me.done \in BOOLEAN /\ me.stop \in BOOLEAN
    BY <1>1 DEF WorkerState
  <2> QED BY <1>1, <1>6, <2>1, IdleOK, OnlyWorker DEF EndCycle, TypeOK
<1> QED BY <1>2, <1>3, <1>4, <1>5, <1>6

\* The steps of the loop over a batch that send no DELETE.
LEMMA LoopOK ==
    ASSUME IInv, NEW w \in Workers,
           \/ \E k \in Keys : BeginItem(w, k)
           \/ LoopCancelled(w)
           \/ \E k \in Keys : WaitFails(w, k)
           \/ AttemptAborts(w)
           \/ SkipDryRun(w)
           \/ RefuseByGate(w)
           \/ PassGate(w)
           \/ ReadGone(w)
           \/ ReadReplaced(w)
           \/ TransientError(w)
           \/ FatalError(w)
    PROVE  IInv'
<1> DEFINE me == worker[w]
<1>1. /\ me \in WorkerState /\ CycleOK(w, me) /\ SnapshotOK(me.obs)
      /\ ResultsOK(me)
  BY DEF IInv, TypeOK
<1>2. ASSUME NEW k \in Keys, BeginItem(w, k)
      PROVE  IInv'
  <2> DEFINE next == [me EXCEPT !.pc = "attempt", !.todo = @ \ {k},
                                !.cur = k, !.step = 0]
  <2>1. 0 \in 0..Steps
    BY ConstantsAssumption
  <2>2. next \in WorkerState
    BY <1>1, <2>1 DEF WorkerState, Phases
  <2>3. CycleOK(w, next)
    BY <1>1, <1>2 DEF CycleOK, WorkerState, BeginItem
  <2>4. SnapshotOK(next.obs) /\ ResultsOK(next)
    BY <1>1 DEF ResultsOK, WorkerState
  <2> QED BY <1>2, <2>2, <2>3, <2>4, OnlyWorker DEF BeginItem
<1>3. ASSUME LoopCancelled(w)
      PROVE  IInv'
  <2>1. me.pc # "idle" /\ Become(w, EndLoop(me)) /\ OnlyWorkerChanges
    BY <1>3 DEF LoopCancelled
  <2> QED BY <1>1, <2>1, EndItemOK, OnlyWorker
<1>4. ASSUME NEW k \in Keys, WaitFails(w, k)
      PROVE  IInv'
  <2> DEFINE state == [me EXCEPT !.todo = @ \ {k}, !.cur = k]
  <2>1. me.pc = "item" /\ Become(w, ItemError(state)) /\ OnlyWorkerChanges
    BY <1>4 DEF WaitFails
  <2>2. state \in WorkerState /\ state.pc # "idle" /\ state.cur \in Keys
    BY <1>1, <2>1 DEF WorkerState
  <2>3. CycleOK(w, state)
    BY <1>1, <2>1 DEF CycleOK, WorkerState
  <2>4. SnapshotOK(state.obs) /\ ResultsOK(state)
    BY <1>1 DEF ResultsOK, WorkerState
  <2> QED BY <2>1, <2>2, <2>3, <2>4, ItemDone, OnlyWorker
<1>5. ASSUME \/ Become(w, ItemOk(me))
             \/ Become(w, ItemError(me)),
             me.pc \in {"attempt", "read", "await"}, OnlyWorkerChanges
      PROVE  IInv'
  <2>1. me.cur \in Keys /\ me.pc # "idle"
    BY <1>1, <1>5 DEF CycleOK, WorkerState
  <2> QED BY <1>1, <1>5, <2>1, ItemDone, OnlyWorker
<1>6. ASSUME \/ AttemptAborts(w)
             \/ SkipDryRun(w)
             \/ RefuseByGate(w)
             \/ ReadGone(w)
             \/ ReadReplaced(w)
             \/ FatalError(w)
      PROVE  IInv'
  BY <1>5, <1>6 DEF AttemptAborts, SkipDryRun, RefuseByGate, ReadGone,
                    ReadReplaced, FatalError, MayAttempt
<1>7. ASSUME PassGate(w)
      PROVE  IInv'
  <2> DEFINE next == [me EXCEPT !.pc = "read"]
  <2>1. /\ me.pc = "attempt" /\ ~me.done /\ me.step < Steps
        /\ ~me.beh.dryRun /\ GateAllows(me)
        /\ Become(w, next) /\ OnlyWorkerChanges
    BY <1>7 DEF PassGate, MayAttempt
  <2>2. next \in WorkerState
    BY <1>1 DEF WorkerState, Phases
  <2>3. CycleOK(w, next)
    BY <1>1, <2>1 DEF CycleOK, WorkerState, GateAllows
  <2>4. SnapshotOK(next.obs) /\ ResultsOK(next)
    BY <1>1 DEF ResultsOK, WorkerState
  <2> QED BY <2>1, <2>2, <2>3, <2>4, OnlyWorker
<1>8. ASSUME TransientError(w)
      PROVE  IInv'
  <2>1. /\ me.pc \in {"read", "await"}
        /\ Become(w, Retry(me)) /\ OnlyWorkerChanges
    BY <1>8 DEF TransientError
  <2>2. me.step < Steps /\ me.step \in 0..Steps
    BY <1>1, <2>1 DEF CycleOK, WorkerState
  <2>3. me.step + 1 \in 0..Steps
    BY <2>2, ConstantsAssumption
  <2>4. Retry(me) \in WorkerState
    BY <1>1, <2>3 DEF Retry, WorkerState, Phases
  <2>5. CycleOK(w, Retry(me))
    BY <1>1, <2>1 DEF Retry, CycleOK, WorkerState, GateAllows
  <2>6. SnapshotOK(Retry(me).obs) /\ ResultsOK(Retry(me))
    BY <1>1 DEF Retry, ResultsOK, WorkerState
  <2> QED BY <2>1, <2>4, <2>5, <2>6, OnlyWorker
<1> QED BY <1>2, <1>3, <1>4, <1>6, <1>7, <1>8

\* The DELETE that is sent is authorised, and its target is the observed object.
LEMMA ReadMatchesOK ==
    ASSUME IInv, NEW w \in Workers, ReadMatches(w)
    PROVE  IInv'
<1> DEFINE me == worker[w]
           r == [by |-> w, key |-> me.cur, obs |-> me.obs[me.cur],
                 beh |-> me.beh, stop |-> me.stop, mark |-> nextUid,
                 step |-> me.step]
           next == [me EXCEPT !.pc = "await"]
<1>1. /\ me \in WorkerState /\ CycleOK(w, me) /\ SnapshotOK(me.obs)
      /\ ResultsOK(me) /\ TypeOK
  BY DEF IInv, TypeOK
<1>2. /\ me.pc = "read" /\ ~me.done
      /\ api[me.cur].uid = me.obs[me.cur].uid
      /\ wire' = wire \cup {r} /\ Become(w, next)
      /\ UNCHANGED <<api, nextUid, leader, cache>>
  BY DEF ReadMatches, SameUid
<1>3. /\ me.cur \in Keys /\ GateAllows(me) /\ ~me.beh.dryRun
      /\ me.obs[me.cur].shape.verdict = "due"
  BY <1>1, <1>2 DEF CycleOK, WorkerState
<1>4. Lawful(r.obs.shape, r.beh, r.stop)
  BY <1>1, <1>3, AllowedIsLawful DEF GateAllows, WorkerState
<1>5. r \in Request
  BY <1>1, <1>3 DEF Request, WorkerState, TypeOK, Object
<1>6. next \in WorkerState
  BY <1>1 DEF WorkerState, Phases
<1>7. CycleOK(w, next) /\ SnapshotOK(next.obs) /\ ResultsOK(next)
  BY <1>1, <1>2 DEF CycleOK, ResultsOK, WorkerState, GateAllows
<1>8. worker' = [worker EXCEPT ![w] = next]
  BY <1>2 DEF Become
<1>9. TypeOK'
  BY <1>1, <1>2, <1>5, <1>6, <1>8 DEF TypeOK
<1>10. ASSUME NEW v \in Workers
       PROVE  /\ CycleOK(v, worker'[v])
              /\ SnapshotOK(worker'[v].obs)
              /\ ResultsOK(worker'[v])
  BY <1>1, <1>7, <1>8 DEF IInv, TypeOK
<1>11. \A v \in Workers : /\ CycleOK(v, worker[v])'
                          /\ SnapshotOK(cache[v])'
                          /\ SnapshotOK(worker[v].obs)'
                          /\ ResultsOK(worker[v])'
  BY <1>2, <1>10 DEF IInv, CycleOK, SnapshotOK, ResultsOK, GateAllows
<1>12. SnapshotOK(api)'
  BY <1>2 DEF IInv, SnapshotOK
<1>13. RequestsAuthorised'
  BY <1>2, <1>3, <1>4 DEF IInv, RequestsAuthorised
<1>14. OnlyRaceHitsReplacement' /\ (\A x \in wire : x.mark <= nextUid)'
  BY <1>1, <1>2 DEF IInv, OnlyRaceHitsReplacement, TypeOK
<1> QED BY <1>9, <1>11, <1>12, <1>13, <1>14 DEF IInv

\* A result other than FAILED says that the planned object is gone.
LEMMA PostReadOK ==
    ASSUME IInv, NEW w \in Workers, NEW k \in Keys, NEW readOk \in BOOLEAN,
           PostRead(w, k, readOk)
    PROVE  IInv'
<1> DEFINE me == worker[w]
           class == IF readOk
                    THEN Classify(k \in me.pre, me.obs[k].uid, api[k])
                    ELSE "FAILED"
           rest == me.todo \ {k}
           result == [uid |-> me.obs[k].uid, class |-> class]
           results == me.results \cup {result}
           next == [me EXCEPT !.pc = IF rest = {} THEN "batch" ELSE "post",
                              !.todo = rest, !.results = results]
<1>1. /\ me \in WorkerState /\ CycleOK(w, me) /\ SnapshotOK(me.obs)
      /\ ResultsOK(me) /\ TypeOK
  BY DEF IInv, TypeOK
<1>2. /\ me.pc = "post" /\ k \in me.todo
      /\ Become(w, next)
      /\ UNCHANGED <<api, nextUid, leader, cache, wire>>
  BY DEF PostRead, OnlyWorkerChanges
<1>3. /\ me.obs[k] \in Object /\ me.obs[k].uid # 0
      /\ me.obs[k].uid < nextUid
      /\ \A other \in Keys : api[other].uid = me.obs[k].uid => other = k
  BY <1>1, <1>2 DEF CycleOK, WorkerState, SnapshotOK
<1>4. result \in Result
  <2>1. class \in ResultClass
    BY DEF Classify, ResultClass
  <2>2. me.obs[k].uid \in Uids
    BY <1>3, ConstantsAssumption DEF Object, Uids
  <2> QED BY <2>1, <2>2 DEF Result
<1>5. class # "FAILED" => api[k].uid # me.obs[k].uid
  BY <1>3 DEF Classify, uidMismatch
<1>6. class # "FAILED" => \A other \in Keys : api[other].uid # me.obs[k].uid
  BY <1>3, <1>5
<1> HIDE DEF class
<1>7. next \in WorkerState
  BY <1>1, <1>4 DEF WorkerState, Phases
<1>8. CycleOK(w, next)
  BY <1>1, <1>2 DEF CycleOK, WorkerState
<1>9. SnapshotOK(next.obs)
  BY <1>1 DEF WorkerState
<1>10. ResultsOK(next)
  <2>1. next.results = me.results \cup {result}
    BY <1>1 DEF WorkerState
  <2> QED BY <1>1, <1>3, <1>6, <2>1 DEF ResultsOK
<1> HIDE DEF next
<1>12. worker' = [worker EXCEPT ![w] = next]
  BY <1>2 DEF Become
<1>13. TypeOK'
  BY <1>1, <1>2, <1>7, <1>12 DEF TypeOK
<1>14. ASSUME NEW v \in Workers
       PROVE  /\ CycleOK(v, worker'[v])
              /\ SnapshotOK(worker'[v].obs)
              /\ ResultsOK(worker'[v])
  BY <1>1, <1>8, <1>9, <1>10, <1>12 DEF IInv, TypeOK
<1>15. \A v \in Workers : /\ CycleOK(v, worker[v])'
                          /\ SnapshotOK(cache[v])'
                          /\ SnapshotOK(worker[v].obs)'
                          /\ ResultsOK(worker[v])'
  BY <1>2, <1>14 DEF IInv, CycleOK, SnapshotOK, ResultsOK, GateAllows
<1>16. /\ SnapshotOK(api)'
       /\ RequestsAuthorised'
       /\ OnlyRaceHitsReplacement'
       /\ (\A r \in wire : r.mark <= nextUid)'
  BY <1>2 DEF IInv, SnapshotOK, RequestsAuthorised, OnlyRaceHitsReplacement
<1> QED BY <1>13, <1>15, <1>16 DEF IInv

\* Lease, restart and watch: no cycle runs without the lease.
LEMMA ProcessOK ==
    ASSUME IInv, NEW w \in Workers, ProcessStep(w)
    PROVE  IInv'
<1> DEFINE me == worker[w]
<1>1. /\ me \in WorkerState /\ CycleOK(w, me) /\ SnapshotOK(me.obs)
      /\ ResultsOK(me) /\ TypeOK
  BY DEF IInv, TypeOK
<1>2. ASSUME UNCHANGED <<api, nextUid, wire>>, TypeOK',
             \A v \in Workers, k \in Keys :
                 cache'[v][k] \in {cache[v][k], api[k]},
             \A v \in Workers : /\ CycleOK(v, worker[v])'
                                /\ SnapshotOK(worker'[v].obs)
                                /\ ResultsOK(worker'[v])
      PROVE  IInv'
  <2>1. \A v \in Workers : SnapshotOK(cache[v])'
    BY <1>2 DEF IInv, SnapshotOK
  <2> QED BY <1>2, <2>1 DEF IInv, SnapshotOK, ResultsOK, RequestsAuthorised,
                            OnlyRaceHitsReplacement
<1>3. ASSUME Acquire(w)
      PROVE  IInv'
  <2>1. /\ leader = NoWorker /\ leader' = w
        /\ UNCHANGED <<api, nextUid, cache, worker, wire>>
    BY <1>3 DEF Acquire
  <2>2. TypeOK'
    BY <1>1, <2>1 DEF TypeOK
  <2>3. \A v \in Workers : CycleOK(v, worker[v])'
    BY <2>1, ConstantsAssumption DEF IInv, CycleOK, GateAllows
  <2> QED BY <1>2, <2>1, <2>2, <2>3 DEF IInv
<1>4. ASSUME NEW state \in WorkerState, Become(w, state),
             leader' = IF leader = w THEN NoWorker ELSE leader,
             state.done \/ state.pc = "idle",
             CycleOK(w, state), SnapshotOK(state.obs), ResultsOK(state),
             UNCHANGED <<api, nextUid, cache, wire>>
      PROVE  IInv'
  <2>1. worker' = [worker EXCEPT ![w] = state]
    BY <1>4 DEF Become
  <2>2. TypeOK'
    BY <1>1, <1>4, <2>1 DEF TypeOK
  <2>3. ASSUME NEW v \in Workers
        PROVE  /\ CycleOK(v, worker[v])'
               /\ SnapshotOK(worker'[v].obs)
               /\ ResultsOK(worker'[v])
    <3>1. CASE v = w
      <4>1. worker'[v] = state
        BY <1>1, <2>1, <3>1 DEF TypeOK
      <4> QED BY <1>4, <3>1, <4>1 DEF CycleOK, GateAllows
    <3>2. CASE v # w
      <4>1. worker'[v] = worker[v]
        BY <1>1, <2>1, <3>2 DEF TypeOK
      <4>2. leader = v => leader' = v
        BY <1>4, <3>2
      <4> QED BY <1>4, <4>1, <4>2 DEF IInv, CycleOK, GateAllows
    <3> QED BY <3>1, <3>2
  <2> QED BY <1>2, <1>4, <2>2, <2>3
<1>5. ASSUME LoseLease(w)
      PROVE  IInv'
  <2> DEFINE state == [me EXCEPT !.done = TRUE]
  <2>1. state \in WorkerState /\ state.done
    BY <1>1 DEF WorkerState
  <2>2. CycleOK(w, state) /\ SnapshotOK(state.obs) /\ ResultsOK(state)
    BY <1>1 DEF CycleOK, ResultsOK, WorkerState, GateAllows
  <2> QED BY <1>4, <1>5, <2>1, <2>2 DEF LoseLease
<1>6. ASSUME NEW stop \in StopValues, Restart(w, stop)
      PROVE  IInv'
  <2>1. stop \in BOOLEAN
    BY ConstantsAssumption
  <2>2. /\ Idle(FALSE, stop) \in WorkerState /\ CycleOK(w, Idle(FALSE, stop))
        /\ SnapshotOK(Idle(FALSE, stop).obs) /\ ResultsOK(Idle(FALSE, stop))
    BY <1>1, <2>1, IdleOK DEF TypeOK
  <2>3. Idle(FALSE, stop).pc = "idle"
    BY DEF Idle
  <2> QED BY <1>4, <1>6, <2>2, <2>3 DEF Restart
<1>7. ASSUME Sync(w)
      PROVE  IInv'
  <2>1. /\ cache' = [cache EXCEPT ![w] = api]
        /\ UNCHANGED <<api, nextUid, leader, worker, wire>>
    BY <1>7 DEF Sync
  <2>2. TypeOK'
    BY <1>1, <2>1 DEF TypeOK
  <2>3. \A v \in Workers : CycleOK(v, worker[v])'
    BY <2>1 DEF IInv, CycleOK, GateAllows
  <2>4. \A v \in Workers, k \in Keys : cache'[v][k] \in {cache[v][k], api[k]}
    BY <1>1, <2>1 DEF TypeOK
  <2> QED BY <1>2, <2>1, <2>2, <2>3, <2>4 DEF IInv
<1> QED BY <1>3, <1>5, <1>6, <1>7 DEF ProcessStep

\* A step of the store in which no object appears under a key keeps what
\* snapshots, results and requests say of the store.
LEMMA NoNewObject ==
    ASSUME IInv, NEW w \in Workers, NEW state \in WorkerState,
           CycleOK(w, state), SnapshotOK(state.obs), ResultsOK(state),
           Become(w, state), api' \in [Keys -> Object],
           \A k \in Keys : api'[k].uid \in {0, api[k].uid},
           wire' \subseteq wire,
           UNCHANGED <<nextUid, leader, cache>>
    PROVE  IInv'
<1>1. /\ worker' = [worker EXCEPT ![w] = state]
      /\ worker \in [Workers -> WorkerState]
  BY DEF IInv, TypeOK, Become
<1>2. TypeOK'
  BY <1>1 DEF IInv, TypeOK
<1>3. ASSUME NEW v \in Workers
      PROVE  /\ CycleOK(v, worker'[v])
             /\ SnapshotOK(worker'[v].obs)
             /\ ResultsOK(worker'[v])
  BY <1>1 DEF IInv
<1>4. \A v \in Workers : CycleOK(v, worker[v])'
  BY <1>3 DEF CycleOK, GateAllows
<1>5. ASSUME NEW v \in Workers
      PROVE  /\ SnapshotOK(cache[v])'
             /\ SnapshotOK(worker[v].obs)'
             /\ ResultsOK(worker[v])'
  <2>1. SnapshotOK(cache[v])'
    BY DEF IInv, SnapshotOK
  <2>2. SnapshotOK(worker[v].obs)'
    BY <1>3 DEF SnapshotOK
  <2>3. ResultsOK(worker[v])'
    <3>1. worker'[v] \in WorkerState
      BY <1>1
    <3>2. \A x \in worker'[v].results : x.uid # 0
      BY <3>1 DEF WorkerState, Result, Uids
    <3> QED BY <1>3, <3>2 DEF ResultsOK
  <2> QED BY <2>1, <2>2, <2>3
<1>6. SnapshotOK(api)'
  BY DEF IInv, SnapshotOK, TypeOK, Object
<1>7. /\ RequestsAuthorised'
      /\ (\A r \in wire : r.mark <= nextUid)'
  BY DEF IInv, RequestsAuthorised
<1>8. OnlyRaceHitsReplacement'
  BY DEF IInv, TypeOK, Request, OnlyRaceHitsReplacement
<1> QED BY <1>2, <1>4, <1>5, <1>6, <1>7, <1>8 DEF IInv

\* What a DELETE leaves behind is the same object or none.
LEMMA DeletedOK ==
    ASSUME TypeOK, NEW k \in Keys
    PROVE  /\ Deleted(k) \in Object
           /\ Deleted(k).uid \in {0, api[k].uid}
           /\ Absent \in Object /\ Absent.uid = 0
<1>1. api[k] \in Object
  BY DEF TypeOK
<1>2. Absent \in Object /\ Absent.uid = 0
  BY ConstantsAssumption DEF Absent, Object, AllShapes
<1> QED BY <1>1, <1>2 DEF Deleted, Object, Absent

\* The server's steps.
LEMMA ServerOK ==
    ASSUME IInv, ServerStep
    PROVE  IInv'
<1>1. ASSUME NEW r \in wire, NEW answered \in BOOLEAN, ServeDelete(r, answered)
      PROVE  IInv'
  <2> DEFINE me == worker[r.by]
             next == IF answered THEN ItemOk(me) ELSE me
  <2>1. r.by \in Workers /\ r.key \in Keys /\ TypeOK
    BY DEF IInv, TypeOK, Request
  <2>2. /\ me \in WorkerState /\ CycleOK(r.by, me) /\ SnapshotOK(me.obs)
        /\ ResultsOK(me)
    BY <2>1 DEF IInv, TypeOK
  <2>3. /\ answered => me.pc = "await"
        /\ Become(r.by, next)
        /\ wire' \subseteq wire
        /\ api' = [api EXCEPT ![r.key] = Deleted(r.key)]
        /\ UNCHANGED <<nextUid, leader, cache>>
    BY <1>1 DEF ServeDelete, IsAwaited
  <2>4. /\ next \in WorkerState /\ CycleOK(r.by, next)
        /\ SnapshotOK(next.obs) /\ ResultsOK(next)
    <3>1. CASE answered
      <4>1. me.pc # "idle" /\ me.cur \in Keys
        BY <2>2, <2>3, <3>1 DEF CycleOK, WorkerState
      <4> QED BY <2>1, <2>2, <3>1, <4>1, ItemDone
    <3>2. CASE ~answered
      BY <2>2, <3>2
    <3> QED BY <3>1, <3>2
  <2>5. Deleted(r.key) \in Object /\ Deleted(r.key).uid \in {0, api[r.key].uid}
    BY <2>1, DeletedOK
  <2>6. /\ api' \in [Keys -> Object]
        /\ \A k \in Keys : api'[k].uid \in {0, api[k].uid}
    BY <2>1, <2>3, <2>5 DEF TypeOK
  <2> HIDE DEF next
  <2> QED BY <2>1, <2>3, <2>4, <2>6, NoNewObject
<1>2. ASSUME NEW r \in wire, DropDelete(r)
      PROVE  IInv'
  <2>1. /\ wire' \subseteq wire
        /\ UNCHANGED <<api, nextUid, leader, cache, worker>>
    BY <1>2 DEF DropDelete
  <2> QED BY <2>1 DEF IInv, TypeOK, SnapshotOK, CycleOK, GateAllows, ResultsOK,
                      RequestsAuthorised, OnlyRaceHitsReplacement
<1> QED BY <1>1, <1>2 DEF ServerStep

\* The steps of other clients.
LEMMA ClientOK ==
    ASSUME IInv, ClientStep
    PROVE  IInv'
<1>1. TypeOK
  BY DEF IInv
<1>2. ASSUME NEW k \in Keys, NEW shape \in Shapes[k], Create(k, shape)
      PROVE  IInv'
  <2> DEFINE obj == [uid |-> nextUid, shape |-> shape, terminating |-> FALSE]
  <2>1. /\ api[k].uid = 0 /\ nextUid <= MaxUid
        /\ api' = [api EXCEPT ![k] = obj]
        /\ nextUid' = nextUid + 1
        /\ UNCHANGED <<leader, cache, worker, wire>>
    BY <1>2 DEF Create, ClientsUnchanged
  <2>2. nextUid \in 1..MaxUid /\ nextUid' \in 1..MaxUid + 1
    BY <1>1, <2>1, ConstantsAssumption DEF TypeOK
  <2>3. obj \in Object
    BY <2>2, ConstantsAssumption DEF Object, AllShapes
  <2>4. TypeOK'
    BY <1>1, <2>1, <2>2, <2>3 DEF TypeOK
  <2>5. \A j \in Keys : api'[j].uid = IF j = k THEN nextUid ELSE api[j].uid
    BY <1>1, <2>1 DEF TypeOK
  <2>6. /\ nextUid \in Nat /\ nextUid # 0
        /\ \A j \in Keys : /\ api[j].uid \in Nat
                           /\ \A v \in Workers : /\ cache[v][j].uid \in Nat
                                                 /\ worker[v].obs[j].uid \in Nat
    BY <1>1, ConstantsAssumption DEF TypeOK, Object, WorkerState
  <2>7. \A v \in Workers : CycleOK(v, worker[v])'
    BY <2>1 DEF IInv, CycleOK, GateAllows
  <2>8. ASSUME NEW v \in Workers
        PROVE  SnapshotOK(cache[v])' /\ SnapshotOK(worker[v].obs)'
    BY <2>1, <2>5, <2>6 DEF IInv, SnapshotOK
  <2>9. SnapshotOK(api)'
    BY <2>1, <2>5, <2>6 DEF IInv, SnapshotOK
  <2>10. ASSUME NEW v \in Workers
         PROVE  ResultsOK(worker[v])'
    <3>1. \A x \in worker[v].results : x.uid \in Nat
      BY <1>1, ConstantsAssumption DEF TypeOK, WorkerState, Result, Uids
    <3> QED BY <2>1, <2>5, <2>6, <3>1 DEF IInv, ResultsOK
  <2>11. \A r \in wire : /\ r.mark \in Nat /\ r.mark <= nextUid
                         /\ r.key \in Keys
    BY <1>1, ConstantsAssumption DEF IInv, TypeOK, Request
  <2>12. OnlyRaceHitsReplacement'
    BY <2>1, <2>5, <2>6, <2>11 DEF IInv, OnlyRaceHitsReplacement
  <2>13. RequestsAuthorised' /\ (\A r \in wire : r.mark <= nextUid)'
    BY <2>1, <2>6, <2>11 DEF IInv, RequestsAuthorised
  <2> QED BY <2>4, <2>7, <2>8, <2>9, <2>10, <2>12, <2>13 DEF IInv
<1>3. ASSUME api' \in [Keys -> Object],
             \A k \in Keys : api'[k].uid \in {0, api[k].uid},
             nextUid' = nextUid, ClientsUnchanged
      PROVE  IInv'
  <2>1. UNCHANGED <<leader, cache, worker, wire>>
    BY <1>3 DEF ClientsUnchanged
  <2>2. TypeOK'
    BY <1>1, <1>3, <2>1 DEF TypeOK
  <2>3. ASSUME NEW v \in Workers
        PROVE  /\ CycleOK(v, worker[v])'
               /\ SnapshotOK(cache[v])'
               /\ SnapshotOK(worker[v].obs)'
    BY <1>3, <2>1 DEF IInv, CycleOK, GateAllows, SnapshotOK
  <2>4. ASSUME NEW v \in Workers
        PROVE  ResultsOK(worker[v])'
    <3>1. \A x \in worker[v].results : x.uid # 0
      BY <1>1 DEF TypeOK, WorkerState, Result, Uids
    <3> QED BY <1>3, <2>1, <3>1 DEF IInv, ResultsOK
  <2>5. SnapshotOK(api)'
    BY <1>1, <1>3 DEF IInv, SnapshotOK, TypeOK, Object
  <2>6. /\ RequestsAuthorised'
        /\ (\A r \in wire : r.mark <= nextUid)'
        /\ OnlyRaceHitsReplacement'
    BY <1>1, <1>3, <2>1 DEF IInv, TypeOK, Request, RequestsAuthorised,
                            OnlyRaceHitsReplacement
  <2> QED BY <2>2, <2>3, <2>4, <2>5, <2>6 DEF IInv
<1>4. ASSUME NEW k \in Keys, NEW shape \in Shapes[k], Update(k, shape)
      PROVE  IInv'
  <2>1. /\ api' = [api EXCEPT ![k].shape = shape]
        /\ nextUid' = nextUid /\ ClientsUnchanged
    BY <1>4 DEF Update
  <2>2. api' \in [Keys -> Object]
    BY <1>1, <2>1 DEF TypeOK, Object, AllShapes
  <2>3. \A j \in Keys : api'[j].uid = api[j].uid
    BY <1>1, <2>1 DEF TypeOK, Object
  <2> QED BY <1>3, <2>1, <2>2, <2>3
<1>5. ASSUME NEW k \in Keys, Vanish(k)
      PROVE  IInv'
  <2>1. PICK after \in {Deleted(k), Absent} : api' = [api EXCEPT ![k] = after]
    BY <1>5 DEF Vanish
  <2>2. after \in Object /\ after.uid \in {0, api[k].uid}
    BY <1>1, <2>1, DeletedOK
  <2>3. /\ api' \in [Keys -> Object]
        /\ \A j \in Keys : api'[j].uid \in {0, api[j].uid}
    BY <1>1, <2>1, <2>2 DEF TypeOK
  <2> QED BY <1>3, <1>5, <2>3 DEF Vanish
<1> QED BY <1>2, <1>4, <1>5 DEF ClientStep

-----------------------------------------------------------------------------

\* Every step keeps the invariant.
LEMMA StepOK ==
    IInv /\ [Next]_vars => IInv'
<1> SUFFICES ASSUME IInv, [Next]_vars PROVE IInv'
  OBVIOUS
<1>1. ASSUME NEW w \in Workers, WorkerStep(w)
      PROVE  IInv'
  BY <1>1, PlanningOK, LoopOK, ReadMatchesOK, PostReadOK DEF WorkerStep
<1>2. CASE UNCHANGED vars
  BY <1>2 DEF vars, IInv, TypeOK, SnapshotOK, CycleOK, GateAllows, ResultsOK,
              RequestsAuthorised, OnlyRaceHitsReplacement
<1> QED BY <1>1, <1>2, ProcessOK, ServerOK, ClientOK DEF Next

\* IInv is an invariant of the specification, with its conjuncts: type
\* correctness, what requests in flight may do, where the cycle stands.
THEOREM Invariance ==
    Spec => []IInv
BY InitOK, StepOK, PTL DEF Spec

\* Every state of the deletion path is well typed; in particular the backoff
\* never makes more than Steps attempts (deleteResourceWithBackoffShared).
THEOREM TypeCorrect ==
    Spec => []TypeOK
<1>1. IInv => TypeOK
  BY DEF IInv
<1> QED BY <1>1, Invariance, PTL

\* Only lawful, due, non-dry-run decisions become DELETE requests
\* (performResourceDeletion's gate).
THEOREM Authorised ==
    Spec => []RequestsAuthorised
<1>1. IInv => RequestsAuthorised
  BY DEF IInv
<1> QED BY <1>1, Invariance, PTL

\* A DELETE in flight threatens the observed object or one that was created
\* after its live read (getLiveForPrecondition).
THEOREM UidCheckHolds ==
    Spec => []OnlyRaceHitsReplacement
<1>1. IInv => OnlyRaceHitsReplacement
  BY DEF IInv
<1> QED BY <1>1, Invariance, PTL

\* A settled result means that the planned object is gone (ExecuteWithReceipt).
THEOREM ReceiptsHonest ==
    Spec => []SettledMeansGone
<1>1. IInv => SettledMeansGone
  BY DEF IInv, ResultsOK, SettledMeansGone
<1> QED BY <1>1, Invariance, PTL

\* Dry runs have no effect (deleteBatchShared, ExecuteWithReceipt).
THEOREM DryRunSafe ==
    Spec => []DryRunIsInert
<1>1. IInv => DryRunIsInert
  BY DEF IInv, RequestsAuthorised, CycleOK, DryRunIsInert
<1> QED BY <1>1, Invariance, PTL

\* Only the holder of the lease sends a DELETE (RunWithLeaderElection, the
\* context handed to every step of the cycle).
THEOREM LeaderSends ==
    Spec => SentByLeader
<1>1. ASSUME IInv, [Next]_vars
      PROVE  [\A r \in wire' \ wire : leader = r.by]_vars
  <2>1. ASSUME NEW w \in Workers, ReadMatches(w)
        PROVE  \A r \in wire' \ wire : leader = r.by
    <3>1. worker[w].pc = "read" /\ ~worker[w].done /\ CycleOK(w, worker[w])
      BY <1>1, <2>1 DEF ReadMatches, IInv
    <3>2. leader = w
      BY <3>1 DEF CycleOK
    <3> QED BY <2>1, <3>2 DEF ReadMatches
  <2>2. ASSUME NEW w \in Workers, WorkerStep(w)
        PROVE  ReadMatches(w) \/ wire' \subseteq wire
    BY <2>2 DEF WorkerStep, Evaluate, StopBatches, NextBatch, PreRead,
                BeginItem, LoopCancelled, WaitFails, AttemptAborts, SkipDryRun,
                RefuseByGate, PassGate, ReadGone, ReadReplaced, TransientError,
                FatalError, PostRead, EndCycle, OnlyWorkerChanges
  <2>3. ASSUME NEW w \in Workers, ProcessStep(w)
        PROVE  wire' \subseteq wire
    BY <2>3 DEF ProcessStep, Acquire, LoseLease, Restart, Sync
  <2>4. ASSUME ServerStep \/ ClientStep
        PROVE  wire' \subseteq wire
    <3>1. ASSUME NEW r \in wire, NEW answered \in BOOLEAN,
                 ServeDelete(r, answered)
          PROVE  wire' \subseteq wire
      BY <3>1 DEF ServeDelete
    <3>2. ASSUME NEW r \in wire, DropDelete(r)
          PROVE  wire' \subseteq wire
      BY <3>2 DEF DropDelete
    <3>3. ASSUME ClientStep
          PROVE  wire' \subseteq wire
      BY <3>3 DEF ClientStep, Create, Update, Vanish, ClientsUnchanged
    <3> QED BY <2>4, <3>1, <3>2, <3>3 DEF ServerStep
  <2>5. CASE UNCHANGED vars
    BY <2>5
  <2> QED BY <1>1, <2>1, <2>2, <2>3, <2>4, <2>5 DEF Next
<1> QED BY <1>1, Invariance, PTL DEF Spec, SentByLeader

(***************************************************************************)
(* Every planned object is accounted for                                   *)
(***************************************************************************)

\* A goroutine outside a cycle has nothing to account for.
LEMMA IdleAccount ==
    ASSUME NEW done, NEW stop
    PROVE  AccountOK(Idle(done, stop))
BY DEF AccountOK, Pending, Idle, Absent, NoBehavior

\* The resource at hand is counted or failed and no longer pending.
LEMMA ItemAccount ==
    ASSUME NEW w \in Workers, NEW state \in WorkerState,
           CycleOK(w, state), AccountOK(state), ~state.done,
           state.pc \in {"attempt", "read", "await"},
           NEW next \in {ItemOk(state), ItemError(state)},
           next = ItemError(state) => ~state.beh.dryRun
    PROVE  AccountOK(next)
<1> DEFINE ok == [state EXCEPT !.counted = IF state.beh.dryRun THEN @
                                           ELSE @ \cup {state.cur}]
           err == [state EXCEPT !.failed = @ \cup {state.cur}]
           plan == {k \in Keys : state.obs[k].uid # 0}
<1>1. state.cur \in plan /\ state.batch \subseteq plan /\ state.todo \subseteq state.batch
  BY DEF CycleOK
<1>2. /\ state.cur \notin state.left /\ state.cur \notin state.todo
      /\ state.cur \in Pending(state)
  BY <1>1 DEF AccountOK, CycleOK, Pending
<1>3. PICK s \in {ok, err} : /\ next = EndItem(s)
                             /\ s = err => ~state.beh.dryRun
  BY DEF ItemOk, ItemError
<1>4. /\ s \in WorkerState
      /\ s.done = state.done /\ s.beh = state.beh /\ s.obs = state.obs
      /\ s.left = state.left /\ s.batch = state.batch /\ s.todo = state.todo
  BY <1>1, <1>3 DEF WorkerState
<1>5. /\ s.counted \cup s.failed =
            IF state.beh.dryRun THEN {}
            ELSE plan \ (Pending(state) \ {state.cur})
      /\ s.counted \cap s.failed = {}
  <2>1. CASE s = ok
    BY <1>1, <1>2, <2>1 DEF AccountOK, WorkerState
  <2>2. CASE s = err
    BY <1>1, <1>2, <1>3, <2>2 DEF AccountOK, WorkerState
  <2> QED BY <1>3, <2>1, <2>2
<1>6. /\ next.done = s.done /\ next.beh = s.beh /\ next.obs = s.obs
      /\ next.left = s.left /\ next.batch = s.batch
      /\ next.counted = s.counted /\ next.failed = s.failed
      /\ \/ next.pc = "item" /\ next.todo = s.todo
         \/ next.pc \in {"batch", "post"} /\ s.todo = {}
  BY <1>3, <1>4 DEF EndItem, EndLoop, WorkerState
<1>7. Pending(next) = Pending(state) \ {state.cur}
  BY <1>2, <1>4, <1>6 DEF Pending
<1> QED BY <1>4, <1>5, <1>6, <1>7 DEF AccountOK

\* The steps of a cycle keep its account.
LEMMA CycleAccount ==
    ASSUME IInv, Accounted, NEW w \in Workers, WorkerStep(w)
    PROVE  AccountOK(worker'[w])
<1> DEFINE me == worker[w]
<1>1. me \in WorkerState /\ CycleOK(w, me) /\ AccountOK(me)
  BY DEF IInv, TypeOK, Accounted
<1>2. ASSUME NEW next, Become(w, next) PROVE worker'[w] = next
  BY <1>2 DEF IInv, TypeOK, Become
<1>3. ASSUME NEW b \in Behaviors, NEW gated \in BOOLEAN, Evaluate(w, b, gated)
      PROVE  AccountOK(worker'[w])
  <2> DEFINE plan == {k \in Keys : Planned(cache[w][k], b, me.stop, gated)}
             obs == [k \in Keys |-> IF k \in plan THEN cache[w][k] ELSE Absent]
             next == [Idle(FALSE, me.stop) EXCEPT !.pc = "batch", !.beh = b,
                                                  !.obs = obs, !.left = plan]
  <2>1. worker'[w] = next
    BY <1>2, <1>3 DEF Evaluate
  <2>2. \A k \in Keys : obs[k].uid # 0 <=> k \in plan
    BY DEF Planned, Absent
  <2> HIDE DEF obs, plan
  <2>3. AccountOK(next)
    BY <2>2 DEF AccountOK, Pending, Idle
  <2> QED BY <2>1, <2>3
<1>4. ASSUME StopBatches(w) PROVE AccountOK(worker'[w])
  <2>1. worker'[w] = [me EXCEPT !.pc = "report"] /\ me.pc = "batch"
        /\ (me.done \/ me.left = {})
    BY <1>2, <1>4 DEF StopBatches
  <2> QED BY <1>1, <2>1 DEF AccountOK, Pending, WorkerState
<1>5. ASSUME NEW batch \in SUBSET Keys, NextBatch(w, batch)
      PROVE  AccountOK(worker'[w])
  <2> DEFINE next == [me EXCEPT !.pc = IF me.beh.dryRun THEN "item" ELSE "pre",
                                !.left = @ \ batch, !.batch = batch,
                                !.todo = batch, !.pre = {}, !.results = {}]
  <2>1. worker'[w] = next /\ batch \subseteq me.left /\ me.pc = "batch"
    BY <1>2, <1>5 DEF NextBatch
  <2>2. Pending(next) = Pending(me)
    BY <1>1, <2>1 DEF Pending, WorkerState
  <2>3. AccountOK(next)
    BY <1>1, <2>1, <2>2 DEF AccountOK, WorkerState
  <2> QED BY <2>1, <2>3
<1>6. ASSUME NEW k \in Keys, NEW ok \in BOOLEAN, PreRead(w, k, ok)
      PROVE  AccountOK(worker'[w])
  <2> DEFINE rest == me.todo \ {k}
             next == [me EXCEPT
                        !.pc = IF rest = {} THEN "item" ELSE "pre",
                        !.todo = IF rest = {} THEN me.batch ELSE rest,
                        !.pre = IF ok THEN @ \cup {k} ELSE @]
  <2>1. worker'[w] = next /\ me.pc = "pre"
    BY <1>2, <1>6 DEF PreRead
  <2>2. Pending(next) = Pending(me)
    BY <1>1, <2>1 DEF Pending, WorkerState
  <2>3. AccountOK(next)
    BY <1>1, <2>1, <2>2 DEF AccountOK, WorkerState
  <2> QED BY <2>1, <2>3
<1>7. ASSUME NEW k \in Keys, BeginItem(w, k) PROVE AccountOK(worker'[w])
  <2> DEFINE next == [me EXCEPT !.pc = "attempt", !.todo = @ \ {k},
                                !.cur = k, !.step = 0]
  <2>1. worker'[w] = next /\ me.pc = "item" /\ k \in me.todo
    BY <1>2, <1>7 DEF BeginItem
  <2>2. Pending(next) = Pending(me)
    BY <1>1, <2>1 DEF Pending, WorkerState
  <2>3. AccountOK(next)
    BY <1>1, <2>1, <2>2 DEF AccountOK, WorkerState
  <2> QED BY <2>1, <2>3
<1>8. ASSUME me.done,
             \/ LoopCancelled(w)
             \/ \E k \in Keys : WaitFails(w, k)
             \/ AttemptAborts(w)
             \/ FatalError(w)
      PROVE  AccountOK(worker'[w])
  <2>1. ASSUME NEW state \in WorkerState, state.done
        PROVE  EndLoop(state).done /\ ItemError(state).done
    BY <2>1 DEF EndLoop, ItemError, EndItem, WorkerState
  <2>2. CASE LoopCancelled(w)
    BY <1>1, <1>2, <1>8, <2>1, <2>2 DEF LoopCancelled, AccountOK
  <2>3. ASSUME NEW k \in Keys, WaitFails(w, k) PROVE AccountOK(worker'[w])
    <3> DEFINE state == [me EXCEPT !.todo = @ \ {k}, !.cur = k]
    <3>1. worker'[w] = ItemError(state)
      BY <1>2, <2>3 DEF WaitFails
    <3>2. state \in WorkerState /\ state.done
      BY <1>1, <1>8 DEF WorkerState
    <3> QED BY <2>1, <3>1, <3>2 DEF AccountOK
  <2>4. CASE AttemptAborts(w) \/ FatalError(w)
    BY <1>1, <1>2, <1>8, <2>1, <2>4 DEF AttemptAborts, FatalError, AccountOK
  <2> QED BY <1>8, <2>2, <2>3, <2>4
<1>9. ASSUME ~me.done,
             \/ AttemptAborts(w) \/ FatalError(w)
             \/ SkipDryRun(w) \/ RefuseByGate(w) \/ ReadGone(w) \/ ReadReplaced(w)
      PROVE  AccountOK(worker'[w])
  <2>1. CASE AttemptAborts(w) \/ FatalError(w)
    <3>1. ~me.beh.dryRun
      BY <1>1, <1>9, <2>1, ConstantsAssumption
         DEF AttemptAborts, FatalError, AccountOK, CycleOK
    <3>2. worker'[w] = ItemError(me) /\ me.pc \in {"attempt", "read", "await"}
      BY <1>2, <2>1 DEF AttemptAborts, FatalError
    <3> QED BY <1>1, <1>9, <3>1, <3>2, ItemAccount
  <2>2. CASE SkipDryRun(w) \/ RefuseByGate(w) \/ ReadGone(w) \/ ReadReplaced(w)
    <3>1. worker'[w] = ItemOk(me) /\ me.pc \in {"attempt", "read", "await"}
      BY <1>2, <2>2 DEF SkipDryRun, RefuseByGate, ReadGone, ReadReplaced, MayAttempt
    <3>2. ItemOk(me) = ItemError(me) => ~me.beh.dryRun
      <4>1. SUFFICES ASSUME me.beh.dryRun PROVE ItemOk(me) # ItemError(me)
        OBVIOUS
      <4>2. ItemOk(me).failed = me.failed /\ ItemError(me).failed = me.failed \cup {me.cur}
        BY <1>1 DEF ItemOk, ItemError, EndItem, EndLoop, WorkerState
      <4>3. me.failed = {}
        BY <1>1, <1>9, <4>1 DEF AccountOK
      <4> QED BY <4>2, <4>3
    <3> QED BY <1>1, <1>9, <3>1, <3>2, ItemAccount
  <2> QED BY <1>9, <2>1, <2>2
<1>10. ASSUME PassGate(w) \/ ReadMatches(w) \/ TransientError(w)
       PROVE  AccountOK(worker'[w])
  <2>1. PICK pc \in {"attempt", "read", "await"}, step \in Nat :
            /\ worker'[w] = [me EXCEPT !.pc = pc, !.step = step]
            /\ me.pc \in {"attempt", "read", "await"}
            /\ me.beh.dryRun => pc # "attempt"
    <3>1. CASE PassGate(w)
      <4>1. worker'[w] = [me EXCEPT !.pc = "read"] /\ me.pc = "attempt"
        BY <1>2, <3>1 DEF PassGate, MayAttempt
      <4>2. worker'[w] = [me EXCEPT !.pc = "read", !.step = me.step]
        BY <1>1, <4>1 DEF WorkerState
      <4>3. me.step \in Nat
        BY <1>1 DEF WorkerState
      <4> QED BY <4>1, <4>2, <4>3
    <3>2. CASE ReadMatches(w)
      <4>1. worker'[w] = [me EXCEPT !.pc = "await"] /\ me.pc = "read"
        BY <1>2, <3>2 DEF ReadMatches
      <4>2. worker'[w] = [me EXCEPT !.pc = "await", !.step = me.step]
        BY <1>1, <4>1 DEF WorkerState
      <4>3. me.step \in Nat
        BY <1>1 DEF WorkerState
      <4> QED BY <4>1, <4>2, <4>3
    <3>3. CASE TransientError(w)
      <4>1. worker'[w] = Retry(me) /\ me.pc \in {"read", "await"}
        BY <1>2, <3>3 DEF TransientError
      <4>2. worker'[w] = [me EXCEPT !.pc = "attempt", !.step = me.step + 1]
        BY <4>1 DEF Retry
      <4>3. me.step + 1 \in Nat /\ ~me.beh.dryRun
        BY <1>1, <4>1 DEF WorkerState, CycleOK
      <4> QED BY <4>1, <4>2, <4>3
    <3> QED BY <1>10, <3>1, <3>2, <3>3
  <2> DEFINE next == [me EXCEPT !.pc = pc, !.step = step]
  <2>2. Pending(next) = Pending(me)
    BY <1>1, <2>1 DEF Pending, WorkerState
  <2>3. AccountOK(next)
    BY <1>1, <2>1, <2>2 DEF AccountOK, WorkerState
  <2> QED BY <2>1, <2>3
<1>11. ASSUME NEW k \in Keys, NEW ok \in BOOLEAN, PostRead(w, k, ok)
       PROVE  AccountOK(worker'[w])
  <2>1. PICK results :
            /\ worker'[w] = [me EXCEPT
                              !.pc = IF me.todo \ {k} = {} THEN "batch" ELSE "post",
                              !.todo = me.todo \ {k}, !.results = results]
            /\ me.pc = "post"
    BY <1>2, <1>11 DEF PostRead
  <2> DEFINE next == [me EXCEPT
                        !.pc = IF me.todo \ {k} = {} THEN "batch" ELSE "post",
                        !.todo = me.todo \ {k}, !.results = results]
  <2>2. Pending(next) = Pending(me)
    BY <1>1, <2>1 DEF Pending, WorkerState
  <2>3. AccountOK(next)
    BY <1>1, <2>1, <2>2 DEF AccountOK, WorkerState
  <2> QED BY <2>1, <2>3
<1>12. ASSUME EndCycle(w) PROVE AccountOK(worker'[w])
  BY <1>2, <1>12, IdleAccount DEF EndCycle
<1>13. LoopCancelled(w) \/ (\E k \in Keys : WaitFails(w, k)) => me.done
  BY DEF LoopCancelled, WaitFails
<1>14. ASSUME LoopCancelled(w) \/ (\E k \in Keys : WaitFails(w, k))
                \/ AttemptAborts(w) \/ FatalError(w)
       PROVE  AccountOK(worker'[w])
  BY <1>8, <1>9, <1>13, <1>14
<1>15. ASSUME SkipDryRun(w) \/ RefuseByGate(w) \/ ReadGone(w) \/ ReadReplaced(w)
       PROVE  AccountOK(worker'[w])
  <2>1. ~me.done
    BY <1>15 DEF SkipDryRun, RefuseByGate, ReadGone, ReadReplaced, MayAttempt
  <2> QED BY <1>9, <1>15, <2>1
<1> QED BY <1>3, <1>4, <1>5, <1>6, <1>7, <1>10, <1>11, <1>12, <1>14, <1>15
        DEF WorkerStep

\* Steps of the processes, the server and the clients: at most one goroutine's
\* state changes, and it is cancelled, restarted or answered.
LEMMA OthersAccount ==
    ASSUME IInv, Accounted,
           (\E w \in Workers : ProcessStep(w)) \/ ServerStep \/ ClientStep
    PROVE  Accounted'
<1>0. worker \in [Workers -> WorkerState]
  BY DEF IInv, TypeOK
<1>1. ASSUME NEW w \in Workers, NEW next, worker' = [worker EXCEPT ![w] = next],
             AccountOK(next)
      PROVE  Accounted'
  <2>1. \A v \in Workers : AccountOK(worker'[v])
    BY <1>0, <1>1 DEF Accounted
  <2> QED BY <2>1 DEF Accounted, AccountOK, Pending
<1>2. ASSUME worker' = worker PROVE Accounted'
  BY <1>2 DEF Accounted, AccountOK, Pending
<1>3. ASSUME NEW w \in Workers, ProcessStep(w) PROVE Accounted'
  <2>1. CASE Acquire(w) \/ Sync(w)
    BY <1>2, <2>1 DEF Acquire, Sync
  <2>2. CASE LoseLease(w)
    <3>1. AccountOK([worker[w] EXCEPT !.done = TRUE])
      BY <1>0 DEF AccountOK, WorkerState
    <3> QED BY <1>1, <2>2, <3>1 DEF LoseLease, Become
  <2>3. ASSUME NEW stop \in StopValues, Restart(w, stop) PROVE Accounted'
    BY <1>1, <2>3, IdleAccount DEF Restart, Become
  <2> QED BY <1>3, <2>1, <2>2, <2>3 DEF ProcessStep
<1>4. ASSUME NEW r \in wire, NEW answered \in BOOLEAN, ServeDelete(r, answered)
      PROVE  Accounted'
  <2> DEFINE w == r.by
             me == worker[w]
  <2>0. w \in Workers /\ me \in WorkerState
    BY <1>0 DEF IInv, TypeOK, Request
  <2>1. me \in WorkerState /\ CycleOK(w, me) /\ AccountOK(me)
    BY <2>0 DEF IInv, Accounted
  <2>2. CASE ~answered
    BY <1>1, <1>4, <2>0, <2>1, <2>2 DEF ServeDelete, Become
  <2>3. CASE answered
    <3>1. me.pc = "await" /\ worker' = [worker EXCEPT ![w] = ItemOk(me)]
      BY <1>4, <2>3 DEF ServeDelete, Become, IsAwaited
    <3>2. CASE me.done
      <4>1. ItemOk(me).done
        BY <2>1, <3>2 DEF ItemOk, EndItem, EndLoop, WorkerState
      <4>2. AccountOK(ItemOk(me))
        BY <4>1 DEF AccountOK
      <4> QED BY <1>1, <2>0, <3>1, <4>2
    <3>3. CASE ~me.done
      <4>1. ~me.beh.dryRun
        BY <2>1, <3>1 DEF CycleOK
      <4>2. AccountOK(ItemOk(me))
        BY <2>0, <2>1, <3>1, <3>3, <4>1, ItemAccount
      <4> QED BY <1>1, <2>0, <3>1, <4>2
    <3> QED BY <3>2, <3>3
  <2> QED BY <2>2, <2>3
<1>5. ASSUME NEW r \in wire, DropDelete(r) PROVE Accounted'
  BY <1>2, <1>5 DEF DropDelete
<1>6. CASE ClientStep
  BY <1>2, <1>6 DEF ClientStep, Create, Update, Vanish, ClientsUnchanged
<1> QED BY <1>3, <1>4, <1>5, <1>6 DEF ServerStep

\* A cycle that was not cancelled accounts for every planned object exactly
\* once when it reports, through retries, refusals, replacements, partial last
\* batches and dry runs (deleteResourcesInBatches, deleteBatchShared).
THEOREM AllAccounted ==
    Spec => []NoCandidateLost
<1>1. Init => Accounted
  <2> SUFFICES ASSUME Init, NEW w \in Workers PROVE AccountOK(worker[w])
    BY DEF Accounted
  <2>1. PICK s \in StopValues : worker[w] = Idle(FALSE, s)
    BY DEF Init
  <2> QED BY <2>1, IdleAccount
<1>2. Accounted /\ IInv /\ [Next]_vars => Accounted'
  <2> SUFFICES ASSUME Accounted, IInv, [Next]_vars PROVE Accounted'
    OBVIOUS
  <2>1. ASSUME NEW w \in Workers, WorkerStep(w) PROVE Accounted'
    <3>1. AccountOK(worker'[w])
      BY <2>1, CycleAccount
    <3>2. PICK next : Become(w, next)
      BY <2>1 DEF WorkerStep, Evaluate, StopBatches, NextBatch, PreRead,
                  BeginItem, LoopCancelled, WaitFails, AttemptAborts, SkipDryRun,
                  RefuseByGate, PassGate, ReadGone, ReadReplaced, ReadMatches,
                  TransientError, FatalError, PostRead, EndCycle
    <3>3. \A v \in Workers : v # w => worker'[v] = worker[v]
      BY <3>2 DEF Become, IInv, TypeOK
    <3>4. \A v \in Workers : AccountOK(worker'[v])
      BY <3>1, <3>3 DEF Accounted
    <3> QED BY <3>4 DEF Accounted, AccountOK, Pending
  <2>2. CASE UNCHANGED vars
    BY <2>2 DEF vars, Accounted, AccountOK, Pending
  <2> QED BY <2>1, <2>2, OthersAccount DEF Next
<1>3. Accounted => NoCandidateLost
  BY DEF Accounted, AccountOK, NoCandidateLost, Pending
<1> QED BY <1>1, <1>2, <1>3, Invariance, PTL DEF Spec
=============================================================================
