-------------------------- MODULE MCExecutionStore --------------------------
(***************************************************************************)
(* A small instance of ExecutionStore: attempts for two keys that share an *)
(* object, one with two aliases of equal bytes, and one whose display      *)
(* refers to an artifact that was never delivered.                         *)
(***************************************************************************)
EXTENDS ExecutionStore, TLC

CONSTANTS p1, p2, k1, k2, plot, table, old, new

Outcome(key, artifacts, shows) ==
    [key |-> key, valid |-> TRUE, artifacts |-> artifacts, shows |-> shows]

SomeOutcomes ==
    {Outcome(k1, plot :> old @@ table :> old, <<table, plot>>),
     Outcome(k1, plot :> new @@ table :> old, <<plot, table>>),
     Outcome(k2, plot :> old, <<plot>>),
     Outcome(k2, plot :> new, <<table>>)}
=============================================================================
