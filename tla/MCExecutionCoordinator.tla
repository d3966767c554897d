----------------------- MODULE MCExecutionCoordinator -----------------------
(***************************************************************************)
(* Small instances of ExecutionCoordinator: the plans an editing session   *)
(* moves between, over at most three cells of one chain and one isolated   *)
(* cell.                                                                   *)
(***************************************************************************)
EXTENDS CoordinatorProperties

CONSTANTS a, b, c, d, main, side, env, env2, x, y, z, nonce1, nonce2

Cell(id, session, code) ==
    [cell_id |-> id, session |-> session, environment |-> env, code |-> code,
     volatile_nonce |-> NoNonce]

Volatile(cell, nonce) == [cell EXCEPT !.volatile_nonce = nonce]
InEnvironment(cell, e) == [cell EXCEPT !.environment = e]

\* A chain; its head edited and its last cell removed; its head under a new
\* handle (an anonymous cell that was given a label); its head removed.
ChainPlans ==
    {<<Cell(a, main, x), Cell(b, main, y), Cell(d, main, z)>>,
     <<Cell(a, main, z), Cell(b, main, y)>>,
     <<Cell(c, main, x), Cell(b, main, y), Cell(d, main, z)>>,
     <<Cell(b, main, y)>>}

\* One chain with a volatile head, interleaved with a second chain; a fresh
\* authorization and a volatile isolated cell; another one, and a change of
\* the chain's environment.
SessionPlans ==
    {<<Volatile(Cell(a, main, x), nonce1), Cell(c, side, x), Cell(b, main, y)>>,
     <<Volatile(Cell(a, main, x), nonce2), Cell(b, main, y),
       Volatile(Cell(d, Isolated, z), nonce1)>>,
     <<InEnvironment(Cell(a, main, x), env2), InEnvironment(Cell(b, main, y), env2),
       Volatile(Cell(d, Isolated, z), nonce2)>>}

\* The smallest plans with a chain and an isolated cell, for adapter faults;
\* the isolated cell is volatile.
FaultPlans ==
    {<<Cell(a, main, x), Cell(b, main, y)>>,
     <<Cell(a, main, x), Volatile(Cell(d, Isolated, x), nonce1)>>}
=============================================================================
