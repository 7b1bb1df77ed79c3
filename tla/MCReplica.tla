----------------------------- MODULE MCReplica -----------------------------
(***************************************************************************)
(* Instances of Replica for TLC.                                           *)
(***************************************************************************)
EXTENDS Replica

\* Replicas that elect a leader; one alone with election but no pod name; one
\* alone without election.
MCDeployments ==
    LET alone == {CHOOSE r \in Replicas : TRUE}
    IN  {[leaderElection |-> TRUE, pods |-> Replicas, named |-> TRUE],
         [leaderElection |-> TRUE, pods |-> alone, named |-> FALSE],
         [leaderElection |-> FALSE, pods |-> alone, named |-> TRUE]}
=============================================================================
