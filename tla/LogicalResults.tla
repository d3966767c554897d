--------------------------- MODULE LogicalResults ---------------------------
(***************************************************************************)
(* The abstract promise of the execution coordinator to a renderer, free   *)
(* of sessions, attempts and interpreters: at every moment the held        *)
(* results are clean-build outputs of the current plan.  An edit keeps     *)
(* exactly those whose clean output it does not change, a retry gives up   *)
(* one chain suffix, and results are gained one cell at a time, each after *)
(* its whole chain prefix.                                                 *)
(***************************************************************************)
EXTENDS EvaluationPlan

VARIABLES
    desired,   \* the current plan
    outputs    \* cell -> output, for the cells that have a current result

vars == <<desired, outputs>>

Init == desired = <<>> /\ outputs = <<>>

Unchanged(plan) ==
    {id \in DOMAIN outputs \cap CellIdsOf(plan) :
        CleanOutput(desired, id) = CleanOutput(plan, id)}

Revise ==
    /\ WellFormed(desired')
    /\ outputs' = [id \in Unchanged(desired') |-> outputs[id]]

Discard(id) ==
    /\ outputs' = [c \in DOMAIN outputs \ Suffix(desired, id) |-> outputs[c]]
    /\ UNCHANGED desired

Accept(id) ==
    /\ id \notin DOMAIN outputs
    /\ \A c \in CellIdsOf(desired) \ {id} :
          id \in Suffix(desired, c) => c \in DOMAIN outputs
    /\ outputs' = [c \in DOMAIN outputs \cup {id} |->
                     IF c = id THEN CleanOutput(desired, id) ELSE outputs[c]]
    /\ UNCHANGED desired

Next ==
    \/ Revise
    \/ \E id \in CellIdsOf(desired) : Discard(id) \/ Accept(id)

Spec == Init /\ [][Next]_vars
=============================================================================
