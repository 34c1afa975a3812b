---- MODULE MCWorkflow ----
(* Two first nodes, one of them empty, and a third that waits for both and has a
   condition.                                                                *)
EXTENDS Workflow, TLC

CONSTANTS a, b, c

MCOrder == <<a, b, c>>
MCDependsOn == (a :> {}) @@ (b :> {}) @@ (c :> {a, b})
MCTriggerRule == (a :> "all_success") @@ (b :> "all_success") @@ (c :> "all_done")
MCUpdates == {<<a, "pending">>, <<a, "completed">>}
====
