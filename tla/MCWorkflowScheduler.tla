------------------------- MODULE MCWorkflowScheduler -------------------------
(***************************************************************************)
(* Small instances of WorkflowScheduler: every directed graph on three     *)
(* stages (the cyclic ones are rejected), all stages read-only or all of   *)
(* them vault writers.                                                     *)
(***************************************************************************)
EXTENDS WorkflowScheduler, TLC

CONSTANTS a, b, c

AllGraphs == {f \in [Stages -> SUBSET Stages] : \A s \in Stages : s \notin f[s]}

\* Two independent stages and one that waits for both, or a chain.
FewGraphs ==
    { (a :> {} @@ b :> {} @@ c :> {a, b}), (a :> {} @@ b :> {a} @@ c :> {a}) }

SameEffect == {[s \in Stages |-> e] : e \in {"read_only", "vault_write"}}

AllWorkflows == [deps : AllGraphs, effect : SameEffect]
FewWorkflows == [deps : FewGraphs, effect : SameEffect]

=============================================================================
