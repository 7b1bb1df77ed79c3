---------------------- MODULE DeletionRefinement_proofs ----------------------
(***************************************************************************)
(* DeletionPath implements CleanupContract, for every instance of its      *)
(* constants: initial states are the contract's, and under the invariant   *)
(* every step is a step of the contract or leaves its variables alone.     *)
(***************************************************************************)
EXTENDS DeletionRefinement, DeletionPath_proofs

\* What a DELETE by name leaves under the name is what the contract allows.
LEMMA DeletedIsAllowed ==
    ASSUME TypeOK, NEW k \in Keys
    PROVE  /\ \/ Deleted(k) = Absent
              \/ api[k] # Absent /\ Deleted(k) = [api[k] EXCEPT !.terminating = TRUE]
           /\ Deleted(k).uid = 0 => Deleted(k) = Absent
           /\ Deleted(k) = Absent \/ Deleted(k).uid = api[k].uid
<1>1. api[k] \in Object
  BY DEF TypeOK
<1>2. CASE k \in Graceful /\ api[k].uid # 0
  <2>1. Deleted(k) = [api[k] EXCEPT !.terminating = TRUE]
    BY <1>2 DEF Deleted
  <2>2. api[k] # Absent /\ Deleted(k).uid = api[k].uid
    BY <1>1, <1>2, <2>1 DEF Absent, Object
  <2> QED BY <1>2, <2>1, <2>2
<1>3. CASE ~(k \in Graceful /\ api[k].uid # 0)
  BY <1>3 DEF Deleted
<1> QED BY <1>2, <1>3

\* A name is either free or has a whole object.
LEMMA FreeStep ==
    ASSUME IInv, FreeIsAbsent, [Next]_vars
    PROVE  FreeIsAbsent'
<1>0. api \in [Keys -> Object] /\ nextUid \in 1..MaxUid + 1
  BY DEF IInv, TypeOK
<1>1. ASSUME UNCHANGED api PROVE FreeIsAbsent'
  BY <1>1 DEF FreeIsAbsent
<1>2. ASSUME NEW k \in Keys, NEW after, api' = [api EXCEPT ![k] = after],
             after.uid = 0 => after = Absent
      PROVE  FreeIsAbsent'
  BY <1>0, <1>2 DEF FreeIsAbsent
<1>3. ASSUME NEW w \in Workers, WorkerStep(w) \/ ProcessStep(w) PROVE FreeIsAbsent'
  <2>1. UNCHANGED api
    BY <1>3 DEF WorkerStep, Evaluate, StopBatches, NextBatch, PreRead, BeginItem,
                LoopCancelled, WaitFails, AttemptAborts, SkipDryRun,
                RefuseByGate, PassGate, ReadGone, ReadReplaced, ReadMatches,
                TransientError, FatalError, PostRead, EndCycle,
                OnlyWorkerChanges, ProcessStep, Acquire, LoseLease, Restart, Sync
  <2> QED BY <1>1, <2>1
<1>4. ASSUME NEW r \in wire, NEW answered \in BOOLEAN, ServeDelete(r, answered)
      PROVE  FreeIsAbsent'
  <2>1. r.key \in Keys
    BY DEF IInv, TypeOK, Request
  <2>2. Deleted(r.key).uid = 0 => Deleted(r.key) = Absent
    BY <2>1, DeletedIsAllowed DEF IInv
  <2> QED BY <1>2, <1>4, <2>1, <2>2 DEF ServeDelete
<1>5. ASSUME NEW r \in wire, DropDelete(r) PROVE FreeIsAbsent'
  BY <1>1, <1>5 DEF DropDelete
<1>6. ASSUME NEW k \in Keys, NEW s \in Shapes[k], Create(k, s) PROVE FreeIsAbsent'
  <2> DEFINE after == [uid |-> nextUid, shape |-> s, terminating |-> FALSE]
  <2>1. after.uid # 0
    BY <1>0
  <2>2. api' = [api EXCEPT ![k] = after]
    BY <1>6 DEF Create
  <2> HIDE DEF after
  <2> QED BY <1>2, <2>1, <2>2
<1>7. ASSUME NEW k \in Keys, NEW s \in Shapes[k], Update(k, s) PROVE FreeIsAbsent'
  <2> DEFINE after == [api[k] EXCEPT !.shape = s]
  <2>1. after.uid # 0
    BY <1>0, <1>7 DEF Update, Object
  <2>2. api' = [api EXCEPT ![k] = after]
    BY <1>7 DEF Update
  <2> HIDE DEF after
  <2> QED BY <1>2, <2>1, <2>2
<1>8. ASSUME NEW k \in Keys, Vanish(k) PROVE FreeIsAbsent'
  <2>1. PICK after \in {Deleted(k), Absent} : api' = [api EXCEPT ![k] = after]
    BY <1>8 DEF Vanish
  <2>2. after.uid = 0 => after = Absent
    BY <2>1, DeletedIsAllowed DEF IInv
  <2> QED BY <1>2, <2>1, <2>2
<1>9. CASE UNCHANGED vars
  BY <1>1, <1>9 DEF vars
<1> QED BY <1>3, <1>4, <1>5, <1>6, <1>7, <1>8, <1>9
        DEF Next, ServerStep, ClientStep

\* A DELETE that is sent is an order: by the holder of the lease, for an object
\* that is there under the UID that was seen (performResourceDeletion).
LEMMA ReadMatchesPlaces ==
    ASSUME IInv, IInv', NEW w \in Workers, ReadMatches(w)
    PROVE  Contract!Next
<1> DEFINE me == worker[w]
           r == [by |-> w, key |-> me.cur, obs |-> me.obs[me.cur],
                 beh |-> me.beh, stop |-> me.stop, mark |-> nextUid,
                 step |-> me.step]
<1>1. /\ me.pc = "read" /\ ~me.done /\ api[me.cur].uid # 0
      /\ api[me.cur].uid = me.obs[me.cur].uid
      /\ wire' = wire \cup {r}
      /\ UNCHANGED <<api, nextUid, leader, cache>>
  BY DEF ReadMatches, SameUid
<1>2. CASE r \in wire
  <2>1. wire' = wire
    BY <1>1, <1>2
  <2> QED BY <1>1, <2>1 DEF Contract!Next, Contract!Handover
<1>3. CASE r \notin wire
  <2>1. me \in WorkerState /\ CycleOK(w, me)
    BY DEF IInv, TypeOK
  <2>2. r.by = leader /\ r.key \in Keys
    BY <1>1, <2>1 DEF CycleOK, WorkerState
  <2>3. api[r.key] # Absent /\ api[r.key].uid = r.obs.uid /\ r.mark = nextUid
    BY <1>1 DEF Absent
  <2>4. r \in wire' \ wire
    BY <1>1, <1>3
  <2> HIDE DEF r
  <2>5. Grounds(r)
    BY <2>4 DEF IInv, RequestsAuthorised, Grounds, Lawful
  <2>6. Contract!Place(r)
    BY <1>1, <2>2, <2>3, <2>5 DEF Contract!Place
  <2> QED BY <2>4, <2>6 DEF Contract!Next
<1> QED BY <1>2, <1>3

\* The API server carries out or drops an order, late or twice.
LEMMA ServerCarriesOut ==
    ASSUME IInv, ServerStep
    PROVE  Contract!Next
<1>1. ASSUME NEW r \in wire, NEW answered \in BOOLEAN, ServeDelete(r, answered)
      PROVE  Contract!Next
  <2>1. /\ wire' \in {wire, wire \ {r}}
        /\ api' = [api EXCEPT ![r.key] = Deleted(r.key)]
        /\ UNCHANGED <<nextUid, leader>>
    BY <1>1 DEF ServeDelete
  <2>2. r.key \in Keys
    BY DEF IInv, TypeOK, Request
  <2>3. \/ Deleted(r.key) = Absent
        \/ /\ api[r.key] # Absent
           /\ Deleted(r.key) = [api[r.key] EXCEPT !.terminating = TRUE]
    BY <2>2, DeletedIsAllowed DEF IInv
  <2>4. Deleted(r.key) \in {Absent, api[r.key]} \cup
                             {[x EXCEPT !.terminating = TRUE] :
                                 x \in {api[r.key]} \ {Absent}}
    BY <2>3
  <2>5. Contract!CarryOut(r)
    BY <2>1, <2>4 DEF Contract!CarryOut
  <2> QED BY <2>5 DEF Contract!Next
<1>2. ASSUME NEW r \in wire, DropDelete(r)
      PROVE  Contract!Next
  BY <1>2 DEF DropDelete, Contract!Next, Contract!Withdraw
<1> QED BY <1>1, <1>2 DEF ServerStep

\* The other clients are the contract's world.
LEMMA ClientsAreWorld ==
    ASSUME IInv, FreeIsAbsent, ClientStep
    PROVE  Contract!Next
<1>0. api \in [Keys -> Object]
  BY DEF IInv, TypeOK
<1>1. ASSUME NEW k \in Keys, NEW s \in Shapes[k], Create(k, s)
      PROVE  Contract!World
  <2> DEFINE after == [uid |-> nextUid, shape |-> s, terminating |-> FALSE]
  <2>1. /\ api[k] = Absent /\ api' = [api EXCEPT ![k] = after]
        /\ nextUid' = nextUid + 1 /\ UNCHANGED <<leader, wire>>
    BY <1>1 DEF Create, ClientsUnchanged, FreeIsAbsent
  <2>2. after.uid = nextUid
    OBVIOUS
  <2> HIDE DEF after
  <2>3. api'[k] = after
    BY <1>0, <2>1
  <2> QED BY <2>1, <2>2, <2>3 DEF Contract!World
<1>2. ASSUME NEW k \in Keys, NEW after, api' = [api EXCEPT ![k] = after],
             api[k].uid # 0, after = Absent \/ after.uid = api[k].uid,
             UNCHANGED <<nextUid, leader, wire>>
      PROVE  Contract!World
  <2>1. api[k] # Absent
    BY <1>2 DEF Absent
  <2>2. api'[k] = after
    BY <1>0, <1>2
  <2> QED BY <1>2, <2>1, <2>2 DEF Contract!World
<1>3. ASSUME NEW k \in Keys, NEW s \in Shapes[k], Update(k, s)
      PROVE  Contract!World
  <2> DEFINE after == [api[k] EXCEPT !.shape = s]
  <2>1. after.uid = api[k].uid
    BY <1>0 DEF Object
  <2>2. /\ api' = [api EXCEPT ![k] = after] /\ api[k].uid # 0
        /\ UNCHANGED <<nextUid, leader, wire>>
    BY <1>3 DEF Update, ClientsUnchanged
  <2> HIDE DEF after
  <2> QED BY <1>2, <2>1, <2>2
<1>4. ASSUME NEW k \in Keys, Vanish(k)
      PROVE  Contract!World
  <2>1. PICK after \in {Deleted(k), Absent} : api' = [api EXCEPT ![k] = after]
    BY <1>4 DEF Vanish
  <2>2. api[k].uid # 0 /\ UNCHANGED <<nextUid, leader, wire>>
    BY <1>4 DEF Vanish, ClientsUnchanged
  <2>3. after = Absent \/ after.uid = api[k].uid
    BY <2>1, DeletedIsAllowed DEF IInv
  <2> QED BY <1>2, <2>1, <2>2, <2>3
<1> QED BY <1>1, <1>3, <1>4 DEF ClientStep, Contract!Next

\* Nothing a cycle does, through retries, stale snapshots, takeovers and
\* restarts, shows in the cluster except DELETEs, each sent by the leader for an
\* object that is there under the UID that was seen due and lawful
\* (deleteBatchShared, performResourceDeletion, RunWithLeaderElection).
THEOREM Refinement ==
    Spec => KeepsContract
<1>1. Init => Contract!Init /\ FreeIsAbsent
  BY DEF Init, Contract!Init, FreeIsAbsent
<1>2. IInv /\ IInv' /\ FreeIsAbsent /\ [Next]_vars => [Contract!Next]_Contract!vars
  <2> SUFFICES ASSUME IInv, IInv', FreeIsAbsent, [Next]_vars
               PROVE  [Contract!Next]_Contract!vars
    OBVIOUS
  <2>1. ASSUME NEW w \in Workers, WorkerStep(w), ~ReadMatches(w)
        PROVE  Contract!Next
    <3>1. OnlyWorkerChanges
      BY <2>1 DEF WorkerStep, Evaluate, StopBatches, NextBatch, PreRead,
                  BeginItem, LoopCancelled, WaitFails, AttemptAborts, SkipDryRun,
                  RefuseByGate, PassGate, ReadGone, ReadReplaced, TransientError,
                  FatalError, PostRead, EndCycle
    <3> QED BY <3>1 DEF OnlyWorkerChanges, Contract!Next, Contract!Handover
  <2>2. ASSUME NEW w \in Workers, ProcessStep(w)
        PROVE  Contract!Next
    BY <2>2 DEF ProcessStep, Acquire, LoseLease, Restart, Sync, Contract!Next,
                Contract!Handover
  <2>3. CASE UNCHANGED vars
    BY <2>3 DEF vars, Contract!vars
  <2> QED BY <2>1, <2>2, <2>3, ReadMatchesPlaces, ServerCarriesOut,
             ClientsAreWorld DEF Next
<1>3. IInv /\ FreeIsAbsent /\ [Next]_vars => FreeIsAbsent'
  BY FreeStep
<1> QED BY <1>1, <1>2, <1>3, Invariance, PTL
        DEF Spec, KeepsContract, Contract!Spec
=============================================================================
