--------------------------- MODULE MCDeletionPath ---------------------------
(***************************************************************************)
(* Instances of DeletionPath for TLC.  An object moves between the few     *)
(* shapes that the gate and the evaluation tell apart.                     *)
(***************************************************************************)
EXTENDS DeletionRefinement, TLC

ConfigMap(label, verdict) ==
    [name |-> "obj", ns |-> "apps", kind |-> "ConfigMap", label |-> label,
     annotation |-> "absent", phase |-> "absent", verdict |-> verdict]

Pod(phase, verdict) ==
    [ConfigMap("absent", verdict) EXCEPT !.kind = "Pod", !.phase = phase]

\* What the gate and the evaluation tell apart.
MCShapes ==
    [k \in Keys |->
        {Pod("Running", "due"), Pod("Succeeded", "due"),
         Pod("Failed", "young"), ConfigMap("absent", "due"),
         ConfigMap("true", "due")}]

\* What only the deletion itself tells apart.
MCDueShapes == [k \in Keys |-> {ConfigMap("absent", "due")}]

MCExclusionShapes ==
    [k \in Keys |-> {ConfigMap("absent", "due"), ConfigMap("true", "due")}]

Policy(dryRun, workloads, batchSize) ==
    [dryRun |-> dryRun, allowWorkloadDeletion |-> workloads,
     batchSize |-> batchSize]

MCBehaviors ==
    {Policy(FALSE, FALSE, 0), Policy(FALSE, TRUE, 0), Policy(TRUE, TRUE, 0)}
MCBatchSizes ==
    {Policy(FALSE, FALSE, 0), Policy(FALSE, FALSE, 2), Policy(TRUE, FALSE, 2)}
MCDestructive == {Policy(FALSE, FALSE, 0)}

\* Replicas are interchangeable, and so are keys that allow the same shapes.
Symmetry == Permutations(Workers) \cup Permutations(Keys)
=============================================================================
