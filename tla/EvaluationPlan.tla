--------------------------- MODULE EvaluationPlan ---------------------------
(***************************************************************************)
(* The pure part of execution planning: the desired computations of one    *)
(* source revision in document order, the conservative chain that links    *)
(* the stateful ones, and the keys that identify each computation.         *)
(*                                                                         *)
(* A planned cell carries what the compiler plans (id, session, code) and  *)
(* the resolved execution inputs the caller adds to it (environment,       *)
(* volatile nonce).  "session" stands for the pair (language, session) of  *)
(* the source.  SHA-256 is taken to be injective: a state key is the       *)
(* initial environment and the steps hashed into it, an execution key is   *)
(* the tuple of hashed fields.                                             *)
(***************************************************************************)
EXTENDS Naturals, Sequences, FiniteSets

CONSTANTS
    CellIds,        \* semantic cell handles
    Chains,         \* stateful (language, session) selections
    Isolated,       \* the isolated session selection
    Environments,   \* environment digests
    Codes,          \* executable source and its computation digest
    Nonces,         \* authorization tokens of volatile executions
    NoNonce,        \* a cell that is not volatile
    NoKey,          \* the state key of an isolated computation
    NoCell          \* "no predecessor"

\* A state key: where the interpreter of a chain started, and what it has run.
Steps == [code : Codes, nonce : Nonces \cup {NoNonce}]
StateKey == [environment : Environments, session : Chains, steps : Seq(Steps)]

ASSUME PlanAssumption ==
    /\ Isolated \notin Chains
    /\ NoNonce \notin Nonces
    /\ NoCell \notin CellIds
    /\ NoKey \notin StateKey

PlannedCell ==
    [cell_id : CellIds, session : Chains \cup {Isolated},
     environment : Environments, code : Codes,
     volatile_nonce : Nonces \cup {NoNonce}]

CellIdsOf(plan) == {plan[i].cell_id : i \in DOMAIN plan}

IndexOf(plan, id) == CHOOSE i \in DOMAIN plan : plan[i].cell_id = id

CellOf(plan, id) == plan[IndexOf(plan, id)]

IsIsolated(cell) == cell.session = Isolated

\* Cells i < j of one stateful chain.
Precedes(plan, i, j) ==
    /\ i < j
    /\ ~ IsIsolated(plan[j])
    /\ plan[i].session = plan[j].session

\* What the compiler and keyed() guarantee: handles are unique and a chain
\* never mixes environments.
WellFormed(plan) ==
    /\ \A i, j \in DOMAIN plan : plan[i].cell_id = plan[j].cell_id => i = j
    /\ \A i, j \in DOMAIN plan :
          Precedes(plan, i, j) => plan[i].environment = plan[j].environment

\* The cells of j's chain before it, and how many there are.
Before(plan, j) == {i \in DOMAIN plan : Precedes(plan, i, j)}
Depth(plan, j) == Cardinality(Before(plan, j))

\* The preceding enabled cell of the same chain.
Predecessor(plan, id) ==
    LET before == Before(plan, IndexOf(plan, id))
    IN  IF before = {} THEN NoCell
        ELSE plan[CHOOSE i \in before : \A k \in before : k <= i].cell_id

\* A cell and every cell its predecessor links reach forward.
Suffix(plan, id) ==
    {id} \cup {plan[j].cell_id :
                  j \in {k \in DOMAIN plan : Precedes(plan, IndexOf(plan, id), k)}}

(***************************************************************************)
(* Keys.                                                                   *)
(***************************************************************************)
Step(cell) == [code |-> cell.code, nonce |-> cell.volatile_nonce]

InitialKey(cell) ==
    IF IsIsolated(cell) THEN NoKey
    ELSE [environment |-> cell.environment, session |-> cell.session, steps |-> <<>>]

\* The state key after running cell in state key.
Advance(key, cell) ==
    IF key = NoKey THEN NoKey
    ELSE [key EXCEPT !.steps = Append(@, Step(cell))]

\* The r-th cell of j's chain.
ChainCell(plan, j, r) == CHOOSE k \in {i \in Before(plan, j) : Depth(plan, i) = r - 1} : TRUE

RequiredKey(plan, id) ==
    LET j == IndexOf(plan, id)
    IN  IF IsIsolated(plan[j]) THEN NoKey
        ELSE [environment |-> plan[j].environment, session |-> plan[j].session,
              steps |-> [r \in 1..Depth(plan, j) |-> Step(plan[ChainCell(plan, j, r)])]]

ResultingKey(plan, id) == Advance(RequiredKey(plan, id), CellOf(plan, id))

ExecutionKey(plan, id) ==
    LET cell == CellOf(plan, id)
    IN  [environment |-> cell.environment, session |-> cell.session,
         code |-> cell.code, required |-> RequiredKey(plan, id)]

(***************************************************************************)
(* preparation: what must run before a cell, given the state of its live   *)
(* interpreter.  The walk follows predecessor links back to the chain's    *)
(* head.                                                                   *)
(***************************************************************************)
Isolates == [kind |-> "Isolated", prefix |-> <<>>]
ReadyNow == [kind |-> "Ready", prefix |-> <<>>]

Walk(plan) ==
    LET walked[j \in DOMAIN plan] ==
            LET before == Predecessor(plan, plan[j].cell_id)
            IN  IF before = NoCell THEN <<>>
                ELSE Append(walked[IndexOf(plan, before)], CellOf(plan, before))
    IN  walked

preparation(plan, id, materialized) ==
    LET required == RequiredKey(plan, id)
    IN  CASE required = NoKey -> Isolates
          [] required # NoKey /\ materialized = required -> ReadyNow
          [] OTHER -> [kind |-> "Replay", prefix |-> Walk(plan)[IndexOf(plan, id)]]

(***************************************************************************)
(* The output a clean, sequential build of the plan gives a cell: what its *)
(* code does in an interpreter that has run exactly the cell's prefix.     *)
(***************************************************************************)
Output(memory, cell) ==
    [memory |-> memory, environment |-> cell.environment,
     session |-> cell.session, step |-> Step(cell)]

CleanOutput(plan, id) == Output(RequiredKey(plan, id), CellOf(plan, id))
=============================================================================
