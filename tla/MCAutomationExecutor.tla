----------------------- MODULE MCAutomationExecutor ------------------------
(* Rules 1 and 2 send the record to and fro ("cycle"), or on and on        *)
(* ("chain"), where the second move is too deep for the first pass.        *)
EXTENDS AutomationExecutor, TLC

CONSTANTS w1, w2

ASSUME ConstantsOK

CycleScope == 1 :> {"review"} @@ 2 :> {"done"}
CycleActions == 1 :> <<"transition">> @@ 2 :> <<"transition">>
CycleTarget == 1 :> "done" @@ 2 :> "review"

(* Two moves in a row, the second too deep for the first pass.             *)
ChainScope == 1 :> {"review"} @@ 2 :> {"done"} @@ 3 :> {"review"}
ChainActions == 1 :> <<"transition">> @@ 2 :> <<"transition">> @@ 3 :> <<"notify">>
ChainTarget == 1 :> "done" @@ 2 :> "closed" @@ 3 :> "closed"

Symmetry == Permutations(Workers)
=============================================================================
