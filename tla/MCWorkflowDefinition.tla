----------------------- MODULE MCWorkflowDefinition ------------------------
(* Three state rows and three names: a rename finds a free name, and two   *)
(* rows may share one.                                                     *)
EXTENDS WorkflowDefinition, TLC

CONSTANTS a, b, c, s1, s2, s3, t1, i1, r1, r2

Symmetry == Permutations(Names) \cup Permutations(Ids)
=============================================================================
