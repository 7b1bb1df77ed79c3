------------------------- MODULE DeletionRefinement -------------------------
(***************************************************************************)
(* DeletionPath implements CleanupContract: the API server's store, the    *)
(* lease and the DELETEs in flight are the contract's; the workers, their  *)
(* caches and their receipts stay inside.                                  *)
(***************************************************************************)
EXTENDS DeletionPath

\* The grounds of a DELETE: a policy that is no dry run, in a process without
\* the emergency stop, saw the object due and no law protected it.
Grounds(request) ==
    /\ ~request.beh.dryRun
    /\ request.obs.shape.verdict = "due"
    /\ Lawful(request.obs.shape, request.beh, request.stop)

Contract == INSTANCE CleanupContract
    WITH store <- api, next <- nextUid, holder <- leader, orders <- wire,
         Authorised <- Grounds

\* A name without an object has nothing of an object.
FreeIsAbsent == \A k \in Keys : api[k].uid = 0 => api[k] = Absent

\* Nothing a cycle does (deleteBatchShared, its retries, a replica that comes
\* back, a cached decision that is out of date) shows in the cluster except
\* DELETEs, each sent by the leader for an object that is there at that time
\* under the UID that was seen due and lawful.
KeepsContract == Contract!Spec
=============================================================================
