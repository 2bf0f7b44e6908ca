-------------------------- MODULE MCWorkflowEngine -------------------------
(* One vendor-approval style record: u1 raises it, somebody submits it,    *)
(* and whoever approves it must be neither its creator nor the person who  *)
(* submitted it.  "ping" is a self-loop, the one case in which a replayed  *)
(* key can find its transition still available.                            *)
EXTENDS WorkflowEngine, TLC

CONSTANTS i1, u1, u2, k1, key1, r1, r2

MCTransitions == {"submit", "approve", "reject", "ping"}
MCFromState == [t \in MCTransitions |-> IF t = "submit" THEN "draft" ELSE "review"]
MCToState == [t \in MCTransitions |->
  CASE t = "submit" -> "review"
    [] t = "approve" -> "done"
    [] t = "reject" -> "draft"
    [] OTHER -> "review"]
MCActorRules == [t \in MCTransitions |->
  CASE t = "approve" -> {"actor_not_creator", "actor_not_prior_actor"}
    [] t = "reject" -> {"actor_not_prior_actor"}
    [] OTHER -> {}]
MCNoActorRules == [t \in MCTransitions |-> {}]
MCRuleStates == [t \in MCTransitions |-> {"draft"}]
MCMayTake == [t \in MCTransitions |-> IF t = "ping" THEN {u1, k1} ELSE {u1, u2, k1}]
MCCreator == [i \in {i1} |-> u1]
Symmetry == Permutations(Requests)
=============================================================================
