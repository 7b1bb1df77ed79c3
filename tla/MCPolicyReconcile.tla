------------------------- MODULE MCPolicyReconcile -------------------------
(***************************************************************************)
(* Instances of PolicyReconcile for TLC.                                   *)
(***************************************************************************)
EXTENDS PolicyReconcile

Active(t) == [target |-> t, paused |-> FALSE, valid |-> TRUE]

\* What a user may write for any of the targets.
MCSpecs ==
    UNION {{Active(t), [Active(t) EXCEPT !.paused = TRUE],
            [Active(t) EXCEPT !.valid = FALSE]} : t \in Targets}

\* Policies that only differ in their target.
MCActive == {Active(t) : t \in Targets}
=============================================================================
