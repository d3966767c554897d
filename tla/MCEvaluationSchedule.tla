------------------------ MODULE MCEvaluationSchedule ------------------------
(***************************************************************************)
(* Instances of EvaluationSchedule: every plan of MaxCells cells over two  *)
(* chains and isolated cells.  Codes play no role here.                    *)
(***************************************************************************)
EXTENDS EvaluationSchedule

CONSTANTS main, side, env, x, MaxCells

AllPlans ==
    {[i \in 1..MaxCells |-> [cell_id |-> i, session |-> f[i], environment |-> env,
                             code |-> x, volatile_nonce |-> NoNonce]] :
        f \in [1..MaxCells -> Chains \cup {Isolated}]}
=============================================================================
