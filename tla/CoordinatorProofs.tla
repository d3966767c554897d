------------------------- MODULE CoordinatorProofs -------------------------
(***************************************************************************)
(* Proofs about the execution coordinator, for every set of well-formed    *)
(* plans, every limit, every fault and every bound.                        *)
(*                                                                         *)
(* The central argument: SessionSound relates each session to its runner   *)
(* and to the desired plan.  An unrevoked attempt is a computation of the  *)
(* desired plan and runs in an interpreter that is in the state it         *)
(* requires; an interrupted reconstruction stands right after a cell of    *)
(* the prefix it rebuilds.  Edits and retries revoke what they invalidate, *)
(* so what is accepted is what a clean build would produce.                *)
(*                                                                         *)
(* The second half is about what runs, when, and what is held meanwhile.   *)
(* The cells of one chain share one session, so they are worked on one at  *)
(* a time, and dispatch_ready scans them in document order.  A cell whose  *)
(* session is free therefore starts only after every cell of its prefix,   *)
(* although only the immediate predecessor is asked, and although an edit  *)
(* may keep a result behind a prefix cell that has still to run.           *)
(***************************************************************************)
EXTENDS CoordinatorProperties, TLAPS, FiniteSetTheorems, WellFoundedInduction

-----------------------------------------------------------------------------
(***************************************************************************)
(* Chains and keys of a plan, for every well-formed plan: each stateful    *)
(* chain is a line, every cell starts in the state its predecessor leaves, *)
(* and a partial reconstruction of a prefix can always be continued.       *)
(***************************************************************************)
\* A non-empty set of natural numbers has a least element.
LEMMA LeastNat ==
    ASSUME NEW T \in SUBSET Nat, T # {}
    PROVE  \E x \in T : \A y \in T : x <= y
<1>1. IsWellFoundedOn(OpToRel(<, Nat), Nat)
    BY NatLessThanWellFounded
<1>2. PICK x \in T : \A y \in T : ~ (<<y, x>> \in OpToRel(<, Nat))
    BY <1>1, WFMin
<1>3. \A y \in T : ~ (y < x)
    BY <1>2 DEF OpToRel
<1>4. \A y \in T : y \in Nat
    OBVIOUS
<1>5. \A y \in T : x <= y
    BY <1>3, <1>4
<1>. QED
    BY <1>5

\* A non-empty bounded set of natural numbers has a greatest element.
LEMMA GreatestNat ==
    ASSUME NEW n \in Nat, NEW T \in SUBSET (1..n), T # {}
    PROVE  \E x \in T : \A y \in T : y <= x
<1>. DEFINE M == {n - y : y \in T}
<1>0. \A y \in T : n - y \in Nat
    OBVIOUS
<1>1. M \in SUBSET Nat /\ M # {}
    BY <1>0
<1>2. PICK m \in M : \A y \in M : m <= y
    BY <1>1, LeastNat
<1>3. PICK x \in T : m = n - x
    OBVIOUS
<1>4. \A y \in T : n - x <= n - y
    BY <1>2, <1>3
<1>5. \A y \in T : y \in Nat
    OBVIOUS
<1>6. \A y \in T : y <= x
    BY <1>4, <1>5
<1>. QED
    BY <1>6

-----------------------------------------------------------------------------
Plan(p) == p \in Seq(PlannedCell) /\ WellFormed(p)

\* The positions of a plan are natural numbers, and finitely many.
LEMMA PlanDomain ==
    ASSUME NEW p, Plan(p)
    PROVE  /\ Len(p) \in Nat /\ DOMAIN p = 1..Len(p)
           /\ DOMAIN p \subseteq Nat /\ IsFiniteSet(DOMAIN p)
           /\ \A i \in DOMAIN p : p[i] \in PlannedCell
<1>1. p \in Seq(PlannedCell)
    BY DEF Plan
<1>2. /\ DOMAIN p = 1..Len(p) /\ Len(p) \in Nat
      /\ \A i \in DOMAIN p : p[i] \in PlannedCell
    BY <1>1
<1>. QED
    BY <1>2, FS_Interval

\* The order of a chain is a strict order, linear below each of its cells
\* (chain_predecessors).
LEMMA PrecedesOrder ==
    ASSUME NEW p, Plan(p), NEW i \in DOMAIN p, NEW j \in DOMAIN p, NEW k \in DOMAIN p
    PROVE  /\ ~ Precedes(p, i, i)
           /\ Precedes(p, i, j) => i < j /\ ~ Precedes(p, j, i)
           /\ Precedes(p, i, j) /\ Precedes(p, j, k) => Precedes(p, i, k)
           /\ Precedes(p, i, k) /\ Precedes(p, j, k) /\ i < j => Precedes(p, i, j)
           /\ Precedes(p, i, j) /\ Precedes(p, i, k) /\ j < k => Precedes(p, j, k)
           /\ i < j \/ i = j \/ j < i
<1>1. i \in Nat /\ j \in Nat /\ k \in Nat
    BY PlanDomain
<1>. QED
    BY <1>1 DEF Precedes, IsIsolated

\* Membership in Before.
LEMMA BeforeDef ==
    ASSUME NEW p, NEW i
    PROVE  /\ Before(p, i) \subseteq DOMAIN p
           /\ \A k : k \in Before(p, i) <=> k \in DOMAIN p /\ Precedes(p, k, i)
BY DEF Before

\* A handle names one position of a plan.
LEMMA IndexOfCell ==
    ASSUME NEW p, Plan(p), NEW i \in DOMAIN p
    PROVE  /\ p[i].cell_id \in CellIdsOf(p)
           /\ IndexOf(p, p[i].cell_id) = i
           /\ CellOf(p, p[i].cell_id) = p[i]
<1>1. \A k \in DOMAIN p : p[k].cell_id = p[i].cell_id => k = i
    BY DEF Plan, WellFormed
<1>2. IndexOf(p, p[i].cell_id) = i
    BY <1>1 DEF IndexOf
<1>. QED
    BY <1>2 DEF CellOf, CellIdsOf

\* Every handle of a plan has a position.
LEMMA IndexOfId ==
    ASSUME NEW p, Plan(p), NEW id \in CellIdsOf(p)
    PROVE  /\ IndexOf(p, id) \in DOMAIN p
           /\ p[IndexOf(p, id)].cell_id = id
           /\ CellOf(p, id) = p[IndexOf(p, id)]
           /\ CellOf(p, id) \in PlannedCell
           /\ id \in CellIds
<1>1. PICK i \in DOMAIN p : p[i].cell_id = id
    BY DEF CellIdsOf
<1>2. IndexOf(p, id) = i
    BY <1>1, IndexOfCell
<1>3. p[i] \in PlannedCell
    BY PlanDomain
<1>. QED
    BY <1>1, <1>2, <1>3 DEF CellOf, PlannedCell

\* A cell is in the suffix of every cell that precedes it in its chain.
LEMMA SuffixDef ==
    ASSUME NEW p, Plan(p), NEW id \in CellIdsOf(p), NEW c \in CellIdsOf(p)
    PROVE  id \in Suffix(p, c) <=> id = c \/ Precedes(p, IndexOf(p, c), IndexOf(p, id))
<1>1. IndexOf(p, id) \in DOMAIN p /\ p[IndexOf(p, id)].cell_id = id
    BY IndexOfId
<1>2. \A k \in DOMAIN p : p[k].cell_id = id => k = IndexOf(p, id)
    BY IndexOfCell
<1>. QED
    BY <1>1, <1>2 DEF Suffix

-----------------------------------------------------------------------------
\* Depth counts the cells of a chain before a position.
LEMMA DepthType ==
    ASSUME NEW p, Plan(p), NEW j \in DOMAIN p
    PROVE  /\ IsFiniteSet(Before(p, j)) /\ Depth(p, j) \in Nat
           /\ Depth(p, j) = 0 <=> Before(p, j) = {}
<1>1. IsFiniteSet(Before(p, j))
    BY PlanDomain, BeforeDef, FS_Subset
<1>. QED
    BY <1>1, FS_CardinalityType, FS_EmptySet DEF Depth

\* The immediate predecessor's chain is the cell's chain without its last cell.
LEMMA LastBefore ==
    ASSUME NEW p, Plan(p), NEW j \in DOMAIN p,
           NEW m \in Before(p, j), \A k \in Before(p, j) : k <= m
    PROVE  /\ Before(p, j) = Before(p, m) \cup {m} /\ m \notin Before(p, m)
           /\ Depth(p, j) = Depth(p, m) + 1
<1>1. m \in DOMAIN p /\ Precedes(p, m, j)
    BY BeforeDef
<1>2. m \notin Before(p, m)
    BY <1>1, PrecedesOrder, BeforeDef
<1>3. ASSUME NEW k \in Before(p, j), k # m PROVE k \in Before(p, m)
    <2>1. k \in DOMAIN p /\ Precedes(p, k, j) /\ k <= m /\ k \in Nat /\ m \in Nat
        BY <1>1, BeforeDef, PlanDomain
    <2>2. k < m
        BY <1>3, <2>1
    <2>. QED
        BY <1>1, <2>1, <2>2, PrecedesOrder, BeforeDef
<1>4. ASSUME NEW k \in Before(p, m) PROVE k \in Before(p, j)
    BY <1>1, PrecedesOrder, BeforeDef
<1>5. Before(p, j) = Before(p, m) \cup {m}
    BY <1>3, <1>4
<1>. QED
    BY <1>1, <1>2, <1>5, DepthType, FS_AddElement DEF Depth

\* Every chain prefix has a last cell.
LEMMA HasLast ==
    ASSUME NEW p, Plan(p), NEW j \in DOMAIN p, Before(p, j) # {}
    PROVE  \E m \in Before(p, j) : \A k \in Before(p, j) : k <= m
<1>1. Len(p) \in Nat /\ Before(p, j) \in SUBSET (1..Len(p))
    BY PlanDomain, BeforeDef
<1>. QED
    BY <1>1, GreatestNat

\* Depth grows along a chain.
LEMMA DepthGrows ==
    ASSUME NEW p, Plan(p), NEW j \in DOMAIN p, NEW i \in Before(p, j)
    PROVE  /\ i \in DOMAIN p /\ Depth(p, i) < Depth(p, j)
           /\ Before(p, i) \subseteq Before(p, j)
<1>1. i \in DOMAIN p /\ Precedes(p, i, j)
    BY BeforeDef
<1>2. Before(p, i) \subseteq Before(p, j) /\ i \notin Before(p, i)
    BY <1>1, PrecedesOrder, BeforeDef
<1>3. Cardinality(Before(p, i) \cup {i}) = Depth(p, i) + 1
    BY <1>1, <1>2, DepthType, FS_AddElement DEF Depth
<1>4. Cardinality(Before(p, i) \cup {i}) <= Depth(p, j)
    BY <1>2, DepthType, FS_Subset DEF Depth
<1>. QED
    BY <1>1, <1>2, <1>3, <1>4, DepthType

\* No two cells of a chain have the same depth.
LEMMA DepthInjective ==
    ASSUME NEW p, Plan(p), NEW j \in DOMAIN p,
           NEW i \in Before(p, j), NEW k \in Before(p, j), Depth(p, i) = Depth(p, k)
    PROVE  i = k
<1>1. i \in DOMAIN p /\ k \in DOMAIN p /\ Precedes(p, i, j) /\ Precedes(p, k, j)
    BY BeforeDef
<1>2. i \notin Before(p, k) /\ k \notin Before(p, i)
    BY <1>1, DepthGrows, DepthType
<1>. QED
    BY <1>1, <1>2, PrecedesOrder, BeforeDef

\* Every depth below a cell's own occurs in its chain.
LEMMA DepthOnto ==
    ASSUME NEW p, Plan(p), NEW j \in DOMAIN p, NEW r \in 1..Depth(p, j)
    PROVE  \E i \in Before(p, j) : Depth(p, i) = r - 1
<1>. DEFINE T == {i \in Before(p, j) : r - 1 <= Depth(p, i)}
<1>0. r \in Nat /\ r >= 1 /\ r <= Depth(p, j) /\ Depth(p, j) \in Nat
    BY DepthType
<1>1. T # {}
    <2>1. PICK m \in Before(p, j) : \A k \in Before(p, j) : k <= m
        BY <1>0, DepthType, HasLast
    <2>2. m \in DOMAIN p /\ Depth(p, j) = Depth(p, m) + 1 /\ Depth(p, m) \in Nat
        BY <2>1, LastBefore, BeforeDef, DepthType
    <2>. QED
        BY <1>0, <2>1, <2>2
<1>2. T \in SUBSET Nat
    BY PlanDomain, BeforeDef
<1>3. PICK i \in T : \A k \in T : i <= k
    BY <1>1, <1>2, LeastNat
<1>4. i \in DOMAIN p /\ Depth(p, i) \in Nat
    BY BeforeDef, DepthType
<1>5. ASSUME r - 1 < Depth(p, i) PROVE FALSE
    <2>1. PICK m \in Before(p, i) : \A k \in Before(p, i) : k <= m
        BY <1>0, <1>4, <1>5, DepthType, HasLast
    <2>2. m \in DOMAIN p /\ Depth(p, i) = Depth(p, m) + 1 /\ Depth(p, m) \in Nat
        BY <1>4, <2>1, LastBefore, BeforeDef, DepthType
    <2>3. m \in Before(p, j)
        BY <2>1, DepthGrows
    <2>4. m \in T
        BY <1>0, <1>5, <2>2, <2>3
    <2>5. m < i
        BY <1>4, <2>1, <2>2, BeforeDef, PrecedesOrder
    <2>. QED
        BY <1>2, <1>3, <2>4, <2>5
<1>. QED
    BY <1>0, <1>3, <1>4, <1>5

\* ChainCell finds the cell of a given depth, from every later cell.
LEMMA ChainCellIs ==
    ASSUME NEW p, Plan(p), NEW j \in DOMAIN p
    PROVE  /\ \A r \in 1..Depth(p, j) :
                 ChainCell(p, j, r) \in Before(p, j) /\ Depth(p, ChainCell(p, j, r)) = r - 1
           /\ \A i \in Before(p, j) : ChainCell(p, j, Depth(p, i) + 1) = i
<1>1. ASSUME NEW r \in 1..Depth(p, j)
      PROVE  ChainCell(p, j, r) \in Before(p, j) /\ Depth(p, ChainCell(p, j, r)) = r - 1
    BY DepthOnto DEF ChainCell
<1>2. ASSUME NEW i \in Before(p, j) PROVE ChainCell(p, j, Depth(p, i) + 1) = i
    <2>1. i \in DOMAIN p /\ Depth(p, i) \in Nat /\ Depth(p, j) \in Nat /\ Depth(p, i) < Depth(p, j)
        BY BeforeDef, DepthType, DepthGrows
    <2>2. PICK r \in 1..Depth(p, j) : r = Depth(p, i) + 1 /\ r - 1 = Depth(p, i)
        BY <2>1
    <2>3. ChainCell(p, j, r) \in Before(p, j) /\ Depth(p, ChainCell(p, j, r)) = Depth(p, i)
        BY <1>1, <2>2
    <2>4. ChainCell(p, j, r) = i
        BY <2>3, DepthInjective
    <2>. QED
        BY <2>2, <2>4
<1>. QED
    BY <1>1, <1>2

-----------------------------------------------------------------------------
\* Replacing the steps of a state key.
LEMMA WithSteps ==
    ASSUME NEW e, NEW x, NEW q, NEW r
    PROVE  /\ [[environment |-> e, session |-> x, steps |-> q] EXCEPT !.steps = r]
                = [environment |-> e, session |-> x, steps |-> r]
           /\ [environment |-> e, session |-> x, steps |-> q].steps = q
OBVIOUS

\* Keys are well typed, and only isolated computations have none.
LEMMA KeyTypes ==
    ASSUME NEW p, Plan(p), NEW id \in CellIdsOf(p)
    PROVE  /\ Step(CellOf(p, id)) \in Steps
           /\ IF IsIsolated(CellOf(p, id))
              THEN /\ InitialKey(CellOf(p, id)) = NoKey
                   /\ RequiredKey(p, id) = NoKey /\ ResultingKey(p, id) = NoKey
              ELSE /\ InitialKey(CellOf(p, id)) \in StateKey
                   /\ RequiredKey(p, id) \in StateKey /\ ResultingKey(p, id) \in StateKey
                   /\ ResultingKey(p, id) =
                        [RequiredKey(p, id) EXCEPT
                           !.steps = Append(RequiredKey(p, id).steps, Step(CellOf(p, id)))]
<1>. DEFINE j == IndexOf(p, id)
            cell == p[j]
<1>1. j \in DOMAIN p /\ CellOf(p, id) = cell /\ cell \in PlannedCell
    BY IndexOfId
<1>. HIDE DEF j
<1>2. \A i \in DOMAIN p : Step(p[i]) \in Steps
    BY PlanDomain DEF Step, Steps, PlannedCell
<1>3. CASE IsIsolated(cell)
    <2>1. RequiredKey(p, id) = NoKey
        BY <1>3 DEF RequiredKey, j
    <2>. QED
        BY <1>1, <1>2, <1>3, <2>1 DEF InitialKey, ResultingKey, Advance
<1>4. CASE ~ IsIsolated(cell)
    <2>1. cell.session \in Chains /\ cell.environment \in Environments
        BY <1>1, <1>4 DEF PlannedCell, IsIsolated
    <2>2. InitialKey(cell) \in StateKey
        BY <1>4, <2>1 DEF InitialKey, StateKey
    <2>. DEFINE chain == [r \in 1..Depth(p, j) |-> Step(p[ChainCell(p, j, r)])]
    <2>3. chain \in Seq(Steps)
        <3>1. \A r \in 1..Depth(p, j) : Step(p[ChainCell(p, j, r)]) \in Steps
            BY <1>1, <1>2, ChainCellIs, BeforeDef
        <3>2. Depth(p, j) \in Nat
            BY <1>1, DepthType
        <3>. QED
            BY <3>1, <3>2
    <2>4. RequiredKey(p, id) =
            [environment |-> cell.environment, session |-> cell.session, steps |-> chain]
        BY <1>4 DEF RequiredKey, j
    <2>. HIDE DEF chain
    <2>5. RequiredKey(p, id) \in StateKey
        BY <2>1, <2>3, <2>4 DEF StateKey
    <2>6. RequiredKey(p, id) # NoKey
        BY <2>5, PlanAssumption
    <2>7. ResultingKey(p, id) =
            [RequiredKey(p, id) EXCEPT !.steps = Append(RequiredKey(p, id).steps, Step(cell))]
        BY <1>1, <2>6 DEF ResultingKey, Advance
    <2>8. Append(chain, Step(cell)) \in Seq(Steps)
        BY <1>1, <1>2, <2>3
    <2>9. ResultingKey(p, id) \in StateKey
        <3>1. ResultingKey(p, id) =
                [environment |-> cell.environment, session |-> cell.session,
                 steps |-> Append(chain, Step(cell))]
            <4>. DEFINE R == [environment |-> cell.environment, session |-> cell.session,
                              steps |-> chain]
            <4>1. ResultingKey(p, id) = [R EXCEPT !.steps = Append(R.steps, Step(cell))]
                BY <2>4, <2>7
            <4>2. R.steps = chain
                OBVIOUS
            <4>3. ResultingKey(p, id) = [R EXCEPT !.steps = Append(chain, Step(cell))]
                BY <4>1, <4>2
            <4>. QED
                BY <4>3, WithSteps
        <3>. QED
            BY <2>1, <2>8, <3>1 DEF StateKey
    <2>. QED
        BY <1>1, <1>2, <1>4, <2>2, <2>5, <2>7, <2>9
<1>. QED
    BY <1>1, <1>3, <1>4

\* A cell starts in exactly the state its immediate predecessor leaves (keyed).
LEMMA NextKey ==
    ASSUME NEW p, Plan(p), NEW j \in DOMAIN p,
           NEW m \in Before(p, j), \A k \in Before(p, j) : k <= m
    PROVE  RequiredKey(p, p[j].cell_id) = ResultingKey(p, p[m].cell_id)
<1>1. /\ m \in DOMAIN p /\ Precedes(p, m, j)
      /\ ~ IsIsolated(p[j]) /\ p[m].session = p[j].session /\ ~ IsIsolated(p[m])
      /\ p[m].environment = p[j].environment
    BY BeforeDef DEF Precedes, IsIsolated, Plan, WellFormed
<1>2. /\ Before(p, j) = Before(p, m) \cup {m} /\ Depth(p, j) = Depth(p, m) + 1
      /\ Depth(p, m) \in Nat /\ Before(p, m) \subseteq Before(p, j)
    BY <1>1, LastBefore, DepthType
<1>. DEFINE before == [r \in 1..Depth(p, m) |-> Step(p[ChainCell(p, m, r)])]
            chain == [r \in 1..Depth(p, j) |-> Step(p[ChainCell(p, j, r)])]
<1>3. ChainCell(p, j, Depth(p, j)) = m
    BY <1>2, ChainCellIs
<1>4. \A r \in 1..Depth(p, m) : ChainCell(p, j, r) = ChainCell(p, m, r)
    <2>. SUFFICES ASSUME NEW r \in 1..Depth(p, m)
                  PROVE  ChainCell(p, j, r) = ChainCell(p, m, r)
        OBVIOUS
    <2>1. ChainCell(p, m, r) \in Before(p, m) /\ Depth(p, ChainCell(p, m, r)) = r - 1
        BY <1>1, ChainCellIs
    <2>2. r \in 1..Depth(p, j)
        BY <1>2
    <2>3. ChainCell(p, j, r) \in Before(p, j) /\ Depth(p, ChainCell(p, j, r)) = r - 1
        BY <2>2, ChainCellIs
    <2>. QED
        BY <1>2, <2>1, <2>3, DepthInjective
<1>5. chain = Append(before, Step(p[m]))
    <2>1. \A r \in 1..Depth(p, m) : chain[r] = before[r]
        BY <1>2, <1>4
    <2>2. chain[Depth(p, m) + 1] = Step(p[m])
        BY <1>2, <1>3
    <2>3. \A r \in 1..Depth(p, m) : Step(p[ChainCell(p, m, r)]) \in Steps
        BY <1>1, ChainCellIs, BeforeDef, PlanDomain DEF Step, Steps, PlannedCell
    <2>4. before \in Seq(Steps) /\ Len(before) = Depth(p, m)
        BY <1>2, <2>3
    <2>5. DOMAIN chain = 1..(Depth(p, m) + 1)
        BY <1>2
    <2>6. chain = [r \in DOMAIN chain |-> chain[r]]
        OBVIOUS
    <2>. HIDE DEF chain, before
    <2>. QED
        BY <1>2, <2>1, <2>2, <2>4, <2>5, <2>6
<1>6. /\ IndexOf(p, p[j].cell_id) = j /\ IndexOf(p, p[m].cell_id) = m
      /\ p[m].cell_id \in CellIdsOf(p) /\ CellOf(p, p[m].cell_id) = p[m]
    BY <1>1, IndexOfCell
<1>7. RequiredKey(p, p[j].cell_id) =
        [environment |-> p[j].environment, session |-> p[j].session, steps |-> chain]
    BY <1>1, <1>6 DEF RequiredKey
<1>8. RequiredKey(p, p[m].cell_id) =
        [environment |-> p[m].environment, session |-> p[m].session, steps |-> before]
    BY <1>1, <1>6 DEF RequiredKey
<1>. HIDE DEF chain, before
<1>9. ResultingKey(p, p[m].cell_id) =
        [environment |-> p[m].environment, session |-> p[m].session,
         steps |-> Append(before, Step(p[m]))]
    BY <1>1, <1>6, <1>8, KeyTypes
<1>. QED
    BY <1>1, <1>5, <1>7, <1>9

\* The first cell of a chain starts in the initial state (keyed).
LEMMA FirstKey ==
    ASSUME NEW p, Plan(p), NEW j \in DOMAIN p, Before(p, j) = {}
    PROVE  RequiredKey(p, p[j].cell_id) = InitialKey(p[j])
<1>1. IndexOf(p, p[j].cell_id) = j /\ Depth(p, j) = 0
    BY IndexOfCell, DepthType
<1>2. CASE IsIsolated(p[j])
    BY <1>1, <1>2 DEF RequiredKey, InitialKey
<1>3. CASE ~ IsIsolated(p[j])
    <2>1. [r \in 1..Depth(p, j) |-> Step(p[ChainCell(p, j, r)])] = <<>>
        BY <1>1
    <2>. QED
        BY <1>1, <1>3, <2>1 DEF RequiredKey, InitialKey
<1>. QED
    BY <1>2, <1>3

-----------------------------------------------------------------------------
\* A suffix stays in the plan, and so does an immediate predecessor.
LEMMA SuffixIds ==
    ASSUME NEW p, Plan(p), NEW id \in CellIdsOf(p)
    PROVE  /\ id \in Suffix(p, id) /\ Suffix(p, id) \subseteq CellIdsOf(p)
           /\ Predecessor(p, id) \in CellIdsOf(p) \cup {NoCell}
           /\ CellIdsOf(p) \subseteq CellIds
<1>1. CellIdsOf(p) \subseteq CellIds
    BY IndexOfId
<1>2. Predecessor(p, id) \in CellIdsOf(p) \cup {NoCell}
    <2>. DEFINE before == Before(p, IndexOf(p, id))
    <2>1. CASE before = {}
        BY <2>1 DEF Predecessor
    <2>2. CASE before # {}
        <3>1. \E i \in before : \A k \in before : k <= i
            BY <2>2, IndexOfId, HasLast
        <3>2. (CHOOSE i \in before : \A k \in before : k <= i) \in before
            BY <3>1
        <3>. QED
            BY <2>2, <3>2, BeforeDef DEF Predecessor, CellIdsOf
    <2>. QED
        BY <2>1, <2>2
<1>. QED
    BY <1>1, <1>2 DEF Suffix, CellIdsOf

\* The reconstruction of a cell's prefix can always start: some cell of the
\* prefix, or the cell itself, runs in the initial state (dispatch_ready).
LEMMA ReplayStarts ==
    ASSUME NEW p, Plan(p), NEW id \in CellIdsOf(p)
    PROVE  \E n \in CellIdsOf(p) :
              id \in Suffix(p, n) /\ RequiredKey(p, n) = InitialKey(CellOf(p, id))
<1>. DEFINE j == IndexOf(p, id)
<1>1. j \in DOMAIN p /\ p[j].cell_id = id /\ CellOf(p, id) = p[j]
    BY IndexOfId
<1>. HIDE DEF j
<1>2. CASE Before(p, j) = {}
    BY <1>1, <1>2, FirstKey, SuffixDef
<1>3. CASE Before(p, j) # {}
    <2>1. Before(p, j) \in SUBSET Nat
        BY BeforeDef, PlanDomain
    <2>2. PICK h \in Before(p, j) : \A k \in Before(p, j) : h <= k
        BY <1>3, <2>1, LeastNat
    <2>3. h \in DOMAIN p /\ Precedes(p, h, j)
        BY BeforeDef
    <2>4. Before(p, h) = {}
        <3>. SUFFICES ASSUME NEW k \in Before(p, h) PROVE FALSE
            OBVIOUS
        <3>1. k \in DOMAIN p /\ k < h /\ Precedes(p, k, j)
            BY <1>1, <2>3, BeforeDef, PrecedesOrder
        <3>2. h <= k /\ h \in Nat /\ k \in Nat
            BY <2>2, <2>3, <3>1, BeforeDef, PlanDomain
        <3>. QED
            BY <3>1, <3>2
    <2>5. /\ p[h].cell_id \in CellIdsOf(p) /\ IndexOf(p, p[h].cell_id) = h
          /\ RequiredKey(p, p[h].cell_id) = InitialKey(p[h])
        BY <2>3, <2>4, FirstKey, IndexOfCell
    <2>6. InitialKey(p[h]) = InitialKey(p[j])
        BY <1>1, <2>3 DEF InitialKey, Precedes, IsIsolated, Plan, WellFormed
    <2>7. id \in Suffix(p, p[h].cell_id)
        BY <2>3, <2>5, SuffixDef DEF j
    <2>. QED
        BY <1>1, <2>5, <2>6, <2>7
<1>. QED
    BY <1>2, <1>3

\* ... and can always continue after a cell c of that prefix (the expect in
\* dispatch_ready).
LEMMA ReplayContinues ==
    ASSUME NEW p, Plan(p), NEW id \in CellIdsOf(p), NEW c \in CellIdsOf(p) \ {id},
           id \in Suffix(p, c)
    PROVE  \E n \in CellIdsOf(p) :
              id \in Suffix(p, n) /\ RequiredKey(p, n) = ResultingKey(p, c)
<1>. DEFINE j == IndexOf(p, id)
            i == IndexOf(p, c)
            T == {k \in DOMAIN p : Precedes(p, i, k) /\ (k = j \/ Precedes(p, k, j))}
<1>1. j \in DOMAIN p /\ p[j].cell_id = id
    BY IndexOfId
<1>2. i \in DOMAIN p /\ p[i].cell_id = c
    BY IndexOfId
<1>3. Precedes(p, i, j)
    BY SuffixDef
<1>. HIDE DEF i, j
<1>4. T \in SUBSET Nat /\ T # {}
    BY <1>1, <1>3, PlanDomain
<1>5. PICK n \in T : \A k \in T : n <= k
    BY <1>4, LeastNat
<1>6. n \in DOMAIN p /\ i \in Before(p, n)
    BY <1>2, <1>5, BeforeDef
<1>7. ASSUME NEW k \in Before(p, n) PROVE k <= i
    <2>1. k \in DOMAIN p /\ Precedes(p, k, n) /\ k \in Nat /\ i \in Nat /\ n \in Nat
        BY <1>2, <1>6, BeforeDef, PlanDomain
    <2>. SUFFICES ASSUME i < k PROVE FALSE
        BY <2>1
    <2>2. Precedes(p, i, k)
        BY <1>2, <1>6, <2>1, BeforeDef, PrecedesOrder
    <2>3. Precedes(p, k, j)
        BY <1>1, <1>5, <2>1, PrecedesOrder
    <2>4. n <= k /\ k < n
        BY <1>5, <1>6, <2>1, <2>2, <2>3, PrecedesOrder
    <2>. QED
        BY <2>1, <2>4
<1>8. RequiredKey(p, p[n].cell_id) = ResultingKey(p, p[i].cell_id)
    BY <1>6, <1>7, NextKey
<1>9. p[n].cell_id \in CellIdsOf(p) /\ IndexOf(p, p[n].cell_id) = n
    BY <1>6, IndexOfCell
<1>10. id \in Suffix(p, p[n].cell_id)
    BY <1>1, <1>5, <1>9, SuffixDef DEF j
<1>. QED
    BY <1>2, <1>8, <1>9, <1>10

-----------------------------------------------------------------------------
(***************************************************************************)
(* preparation walks predecessor links; keys list the chain by depth.      *)
(***************************************************************************)
\* Two cells of a chain agree on what precedes both.
LEMMA ChainCellShared ==
    ASSUME NEW p, Plan(p), NEW j \in DOMAIN p, NEW i \in Before(p, j), NEW r \in 1..Depth(p, i)
    PROVE  ChainCell(p, j, r) = ChainCell(p, i, r)
<1>1. /\ i \in DOMAIN p /\ Depth(p, i) < Depth(p, j) /\ Before(p, i) \subseteq Before(p, j)
      /\ Depth(p, i) \in Nat /\ Depth(p, j) \in Nat
    BY DepthGrows, DepthType
<1>2. ChainCell(p, i, r) \in Before(p, i) /\ Depth(p, ChainCell(p, i, r)) = r - 1
    BY <1>1, ChainCellIs
<1>3. r \in 1..Depth(p, j)
    BY <1>1
<1>4. ChainCell(p, j, r) \in Before(p, j) /\ Depth(p, ChainCell(p, j, r)) = r - 1
    BY <1>3, ChainCellIs
<1>. QED
    BY <1>1, <1>2, <1>4, DepthInjective

\* The cells of j's chain before it, in order.
Prefix(p, j) == [r \in 1..Depth(p, j) |-> p[ChainCell(p, j, r)]]

\* The prefix of a cell is its predecessor's, and the predecessor.
LEMMA PrefixGrows ==
    ASSUME NEW p, Plan(p), NEW j \in DOMAIN p,
           NEW m \in Before(p, j), \A k \in Before(p, j) : k <= m
    PROVE  Prefix(p, j) = Append(Prefix(p, m), p[m])
<1>1. /\ m \in DOMAIN p /\ Depth(p, j) = Depth(p, m) + 1 /\ Depth(p, m) \in Nat
    BY BeforeDef, LastBefore, DepthType
<1>2. ChainCell(p, j, Depth(p, j)) = m
    BY <1>1, ChainCellIs
<1>3. \A r \in 1..Depth(p, m) : Prefix(p, j)[r] = Prefix(p, m)[r]
    BY <1>1, ChainCellShared DEF Prefix
<1>4. Prefix(p, j)[Depth(p, m) + 1] = p[m]
    BY <1>1, <1>2 DEF Prefix
<1>5. Prefix(p, m) \in Seq(PlannedCell) /\ Len(Prefix(p, m)) = Depth(p, m)
    <2>1. \A r \in 1..Depth(p, m) : p[ChainCell(p, m, r)] \in PlannedCell
        BY <1>1, ChainCellIs, BeforeDef, PlanDomain
    <2>. QED
        BY <1>1, <2>1 DEF Prefix
<1>6. /\ DOMAIN Prefix(p, j) = 1..(Depth(p, m) + 1)
      /\ Prefix(p, j) = [r \in DOMAIN Prefix(p, j) |-> Prefix(p, j)[r]]
    BY <1>1 DEF Prefix
<1>. QED
    BY <1>1, <1>3, <1>4, <1>5, <1>6

\* The predecessor link of a position: the last cell before it, if there is one.
LEMMA PredecessorAt ==
    ASSUME NEW p, Plan(p), NEW j \in DOMAIN p
    PROVE  \/ /\ Before(p, j) = {} /\ Predecessor(p, p[j].cell_id) = NoCell
           \/ \E m \in Before(p, j) :
                 /\ \A k \in Before(p, j) : k <= m
                 /\ m \in DOMAIN p /\ m < j
                 /\ Predecessor(p, p[j].cell_id) = p[m].cell_id /\ p[m].cell_id # NoCell
<1>1. IndexOf(p, p[j].cell_id) = j
    BY IndexOfCell
<1>2. CASE Before(p, j) = {}
    BY <1>1, <1>2 DEF Predecessor
<1>3. CASE Before(p, j) # {}
    <2>1. \E m \in Before(p, j) : \A k \in Before(p, j) : k <= m
        BY <1>3, HasLast
    <2>2. PICK m : m = CHOOSE i \in Before(p, j) : \A k \in Before(p, j) : k <= i
        OBVIOUS
    <2>3. m \in Before(p, j) /\ \A k \in Before(p, j) : k <= m
        BY <2>1, <2>2
    <2>4. Predecessor(p, p[j].cell_id) = p[m].cell_id
        BY <1>1, <1>3, <2>2 DEF Predecessor
    <2>5. m \in DOMAIN p /\ m < j
        BY <2>3, BeforeDef, PrecedesOrder
    <2>6. p[m].cell_id \in CellIds
        BY <2>5, PlanDomain DEF PlannedCell
    <2>. QED
        BY <2>3, <2>4, <2>5, <2>6, PlanAssumption
<1>. QED
    BY <1>2, <1>3

\* The walk along predecessor links lists the chain before a cell (preparation).
LEMMA WalkIs ==
    ASSUME NEW p, Plan(p)
    PROVE  \A j \in DOMAIN p : Walk(p)[j] = Prefix(p, j)
<1>. DEFINE From(f, j) == IF Predecessor(p, p[j].cell_id) = NoCell THEN <<>>
                          ELSE Append(f[IndexOf(p, Predecessor(p, p[j].cell_id))],
                                      CellOf(p, Predecessor(p, p[j].cell_id)))
            Walks(f) == f = [j \in DOMAIN p |-> From(f, j)]
            g == [j \in DOMAIN p |-> Prefix(p, j)]
<1>1. ASSUME NEW f, NEW j \in DOMAIN p, \A k \in DOMAIN p : k < j => f[k] = Prefix(p, k)
      PROVE  From(f, j) = Prefix(p, j)
    <2>1. CASE Before(p, j) = {} /\ Predecessor(p, p[j].cell_id) = NoCell
        <3>1. Depth(p, j) = 0
            BY <2>1, DepthType
        <3>. QED
            BY <2>1, <3>1 DEF Prefix
    <2>2. ASSUME NEW m \in Before(p, j), \A k \in Before(p, j) : k <= m,
                 m \in DOMAIN p, m < j,
                 Predecessor(p, p[j].cell_id) = p[m].cell_id, p[m].cell_id # NoCell
          PROVE  From(f, j) = Prefix(p, j)
        <3>1. IndexOf(p, p[m].cell_id) = m /\ CellOf(p, p[m].cell_id) = p[m]
            BY <2>2, IndexOfCell
        <3>2. From(f, j) = Append(f[m], p[m])
            BY <2>2, <3>1
        <3>3. f[m] = Prefix(p, m)
            BY <1>1, <2>2
        <3>. QED
            BY <2>2, <3>2, <3>3, PrefixGrows
    <2>. QED
        BY <2>1, <2>2, PredecessorAt
<1>2. Walk(p) = CHOOSE f : Walks(f)
    BY DEF Walk
<1>3. Walks(g)
    <2>1. \A j \in DOMAIN p : From(g, j) = g[j]
        BY <1>1
    <2>. QED
        BY <2>1
<1>4. PICK w : w = Walk(p) /\ Walks(w)
    BY <1>2, <1>3
<1>. DEFINE T == {j \in DOMAIN p : w[j] # Prefix(p, j)}
<1>5. T = {}
    <2>. SUFFICES ASSUME T # {} PROVE FALSE
        OBVIOUS
    <2>1. T \in SUBSET Nat
        BY PlanDomain
    <2>2. PICK j \in T : \A k \in T : j <= k
        BY <2>1, LeastNat
    <2>3. \A k \in DOMAIN p : k < j => w[k] = Prefix(p, k)
        BY <2>1, <2>2, PlanDomain
    <2>4. w[j] = From(w, j)
        BY <1>4, <2>2
    <2>5. From(w, j) = Prefix(p, j)
        BY <1>1, <2>2, <2>3
    <2>. QED
        BY <2>2, <2>4, <2>5
<1>. QED
    BY <1>4, <1>5

-----------------------------------------------------------------------------
(***************************************************************************)
(* Soundness of sessions.                                                  *)
(***************************************************************************)
Runners == [materialized : Keys, memory : Keys \cup {Dead, Dirty}]

\* An attempt of the plan: the computation of a cell of its target's prefix.
AttemptOf(a, plan) ==
    LET c == a.cell.cell_id
    IN  /\ c \in CellIdsOf(plan) /\ a.target \in CellIdsOf(plan)
        /\ a.target \in Suffix(plan, c)
        /\ a.cell = CellOf(plan, c)
        /\ a.required = RequiredKey(plan, c) /\ a.resulting = ResultingKey(plan, c)
        /\ a.replay <=> c # a.target

WorkIsCurrent(session, runner, plan) ==
    session.active # NoAttempt /\ ~ session.active.revoked =>
        /\ AttemptOf(session.active, plan)
        /\ runner.memory = session.active.required
        /\ session.active.replay => session.replay_target = session.active.target

StateIsVerified(session, runner) ==
    session.verified_state # NoKey /\ runner.materialized = session.verified_state =>
        runner.memory = session.verified_state

\* An interrupted reconstruction stands after a cell of the prefix.
ReplayInPrefix(session, plan) ==
    LET t == session.replay_target
    IN  session.active = NoAttempt /\ t # NoCell /\ session.verified_state # NoKey =>
           /\ t \in CellIdsOf(plan)
           /\ \E c \in CellIdsOf(plan) \ {t} :
                 t \in Suffix(plan, c) /\ session.verified_state = ResultingKey(plan, c)

SessionSound(session, runner, plan) ==
    /\ session \in Sessions /\ runner \in Runners
    /\ session.cleanup_pending => session.active = NoAttempt
    /\ WorkIsCurrent(session, runner, plan)
    /\ StateIsVerified(session, runner)
    /\ ReplayInPrefix(session, plan)

-----------------------------------------------------------------------------
(***************************************************************************)
(* Sessions.                                                               *)
(***************************************************************************)
\* The desired plan is well formed.
LEMMA DesiredIsPlan ==
    /\ \A p \in Plans : Plan(p)
    /\ desired \in Plans \cup {<<>>} => Plan(desired)
<1>1. Plan(<<>>)
    BY DEF Plan, WellFormed, Precedes
<1>. QED
    BY <1>1, CoordinatorAssumption DEF Plan

\* A session without active work whose state is unknown is sound for any plan
\* (terminate_obsolete, reject, and every failure path).
LEMMA IdleSound ==
    ASSUME NEW clean \in BOOLEAN, NEW t \in CellIds \cup {NoCell}, NEW plan,
           NEW runner \in {Quiesced, Unclean}
    PROVE  /\ SessionSound(Detached(clean), runner, plan)
           /\ SessionSound([Detached(clean) EXCEPT !.replay_target = t], runner, plan)
           /\ SessionSound(NewSession, runner, plan)
           /\ Detached(clean).active = NoAttempt /\ NewSession.active = NoAttempt
           /\ [Detached(clean) EXCEPT !.replay_target = t].active = NoAttempt
<1>1. runner \in Runners
    BY DEF Quiesced, Unclean, Runners, Keys
<1>2. Detached(clean) \in Sessions /\ NewSession \in Sessions
    BY DEF Detached, NewSession, Sessions, Keys
<1>3. ASSUME NEW session \in {Detached(clean), NewSession, [Detached(clean) EXCEPT !.replay_target = t]}
      PROVE  session \in Sessions /\ session.verified_state = NoKey /\ session.active = NoAttempt
    <2>1. /\ Detached(clean).verified_state = NoKey /\ Detached(clean).active = NoAttempt
          /\ NewSession.verified_state = NoKey /\ NewSession.active = NoAttempt
        BY DEF Detached, NewSession
    <2>. QED
        BY <1>2, <2>1 DEF Sessions
<1>4. ASSUME NEW session \in {Detached(clean), NewSession, [Detached(clean) EXCEPT !.replay_target = t]}
      PROVE  SessionSound(session, runner, plan)
    BY <1>1, <1>3 DEF SessionSound, WorkIsCurrent, StateIsVerified, ReplayInPrefix
<1>. QED
    BY <1>3, <1>4

\* Revoking work keeps a session sound, whatever the plan becomes (reconcile, retry).
LEMMA RevokedSound ==
    ASSUME NEW session, NEW runner, NEW old, NEW new,
           SessionSound(session, runner, old), session.active # NoAttempt
    PROVE  /\ SessionSound(Revoked(session), runner, new)
           /\ Revoked(session).active # NoAttempt /\ Revoked(session).active.revoked
           /\ Revoked(session).active.attempt_id = session.active.attempt_id
           /\ Revoked(session).cleanup_pending = session.cleanup_pending
<1>1. session \in Sessions /\ runner \in Runners /\ session.active \in Attempts
    BY DEF SessionSound, Sessions
<1>2. /\ Revoked(session).active = [session.active EXCEPT !.revoked = TRUE]
      /\ Revoked(session).verified_state = NoKey
      /\ Revoked(session).replay_target = NoCell
      /\ Revoked(session).cleanup_pending = session.cleanup_pending
      /\ Revoked(session) \in Sessions
    BY <1>1 DEF Revoked, Sessions, Keys, Attempts
<1>3. /\ Revoked(session).active \in Attempts
      /\ Revoked(session).active.revoked
      /\ Revoked(session).active.attempt_id = session.active.attempt_id
    BY <1>1, <1>2 DEF Attempts
<1>4. Revoked(session).active # NoAttempt
    BY <1>3, CoordinatorAssumption
<1>. QED
    BY <1>1, <1>2, <1>3, <1>4
    DEF SessionSound, WorkIsCurrent, StateIsVerified, ReplayInPrefix

\* What reconcile leaves of a session is sound for the new plan.
LEMMA RevisedSound ==
    ASSUME NEW session, NEW runner, NEW old, NEW new, SessionSound(session, runner, old)
    PROVE  /\ SessionSound(Revised(session), runner, new)
           /\ Revised(session).active = NoAttempt <=> session.active = NoAttempt
           /\ session.active # NoAttempt =>
                 /\ Revised(session).active.revoked
                 /\ Revised(session).active.attempt_id = session.active.attempt_id
           /\ Revised(session).cleanup_pending = session.cleanup_pending
<1>1. CASE session.active = NoAttempt
    <2>1. session \in Sessions /\ runner \in Runners /\ StateIsVerified(session, runner)
        BY DEF SessionSound
    <2>2. Revised(session) = [verified_state |-> session.verified_state, active |-> NoAttempt,
                              replay_target |-> NoCell,
                              cleanup_pending |-> session.cleanup_pending]
        BY <1>1, <2>1 DEF Revised, Sessions
    <2>3. Revised(session) \in Sessions
        BY <2>1, <2>2 DEF Sessions
    <2>. QED
        BY <1>1, <2>1, <2>2, <2>3 DEF SessionSound, WorkIsCurrent, StateIsVerified, ReplayInPrefix
<1>2. CASE session.active # NoAttempt
    BY <1>2, RevokedSound DEF Revised
<1>. QED
    BY <1>1, <1>2

-----------------------------------------------------------------------------
(***************************************************************************)
(* Dispatching.                                                            *)
(***************************************************************************)
\* Every session is sound with respect to the desired plan.
SessionsSound ==
    /\ DOMAIN runners = DOMAIN sessions
    /\ \A s \in DOMAIN sessions : SessionSound(sessions[s], runners[s], desired)

\* So is a session that does not exist yet.
LEMMA OpenedSound ==
    ASSUME SessionsSound, NEW s
    PROVE  SessionSound(Opened(s), RunnerOf(s), desired)
<1>1. CASE s \in DOMAIN sessions
    BY <1>1 DEF SessionsSound, Opened, RunnerOf
<1>2. CASE s \notin DOMAIN sessions
    BY <1>2, IdleSound DEF SessionsSound, Opened, RunnerOf
<1>. QED
    BY <1>1, <1>2

\* The physical cell of a dispatch exists and starts in the given state.
LEMMA PhysicalIs ==
    ASSUME Plan(desired), NEW id \in CellIdsOf(desired), NEW from,
           \E n \in CellIdsOf(desired) :
               id \in Suffix(desired, n) /\ RequiredKey(desired, n) = from
    PROVE  LET physical == Physical(id, from)
           IN  /\ physical \in CellIdsOf(desired) /\ id \in Suffix(desired, physical)
               /\ RequiredKey(desired, physical) = from
               /\ from = RequiredKey(desired, id) => physical = id
<1>1. CASE from = RequiredKey(desired, id)
    BY <1>1 DEF Physical, Suffix
<1>2. CASE from # RequiredKey(desired, id)
    <2>1. \E c \in CellIdsOf(desired) \ {id} :
             id \in Suffix(desired, c) /\ RequiredKey(desired, c) = from
        BY <1>2
    <2>. QED
        BY <1>2, <2>1 DEF Physical
<1>. QED
    BY <1>1, <1>2

\* The interpreter an attempt is handed to is in the state StartKey, and some
\* cell of the target's prefix starts there: the replay assertion cannot fail.
LEMMA StartIsKnown ==
    ASSUME SessionsSound, Plan(desired), NEW id \in CellIdsOf(desired), NEW s,
           Opened(s).active = NoAttempt
    PROVE  /\ \E n \in CellIdsOf(desired) :
                 id \in Suffix(desired, n) /\ RequiredKey(desired, n) = StartKey(id, s)
           /\ Executing(id, s).memory = StartKey(id, s)
           /\ StartKey(id, s) # RequiredKey(desired, id) =>
                 Dispatched(id, s).replay_target = id
<1>1. SessionSound(Opened(s), RunnerOf(s), desired)
    BY OpenedSound
<1>2. id \in CellIds /\ id # NoCell /\ id \in Suffix(desired, id)
    BY IndexOfId, PlanAssumption DEF Suffix
<1>3. CASE Ready(id, s)
    <2>1. ~ IsIsolated(CellOf(desired, id)) /\ Opened(s).verified_state = RequiredKey(desired, id)
          /\ RunnerOf(s).materialized = Opened(s).verified_state
        BY <1>3 DEF Ready
    <2>2. RequiredKey(desired, id) # NoKey
        BY <2>1, KeyTypes, PlanAssumption
    <2>3. RunnerOf(s).memory = Opened(s).verified_state
        BY <1>1, <2>1, <2>2 DEF SessionSound, StateIsVerified
    <2>. QED
        BY <1>2, <1>3, <2>1, <2>3 DEF Prepared, StartKey, Executing
<1>4. CASE ~ Ready(id, s) /\ ContinuingReplay(id, s)
    <2>1. Opened(s).replay_target = id /\ Opened(s).verified_state # NoKey
          /\ RunnerOf(s).materialized = Opened(s).verified_state
        BY <1>4 DEF ContinuingReplay
    <2>2. RunnerOf(s).memory = Opened(s).verified_state
        BY <1>1, <2>1 DEF SessionSound, StateIsVerified
    <2>3. PICK c \in CellIdsOf(desired) \ {id} :
             id \in Suffix(desired, c) /\ Opened(s).verified_state = ResultingKey(desired, c)
        BY <1>1, <1>2, <2>1 DEF SessionSound, ReplayInPrefix
    <2>. QED
        BY <1>4, <2>1, <2>2, <2>3, ReplayContinues DEF Prepared, StartKey, Executing, Dispatched
<1>5. CASE ~ Prepared(id, s)
    <2>1. StartKey(id, s) = InitialKey(CellOf(desired, id))
          /\ Executing(id, s).memory = StartKey(id, s)
        BY <1>5 DEF StartKey, Executing
    <2>2. IsIsolated(CellOf(desired, id)) => StartKey(id, s) = RequiredKey(desired, id)
        BY <2>1, KeyTypes
    <2>. QED
        BY <1>5, <2>1, <2>2, ReplayStarts DEF Dispatched
<1>. QED
    BY <1>3, <1>4, <1>5 DEF Prepared

\* A dispatched session is sound (dispatch_ready).
LEMMA DispatchedSound ==
    ASSUME SessionsSound, Plan(desired), NEW id \in CellIdsOf(desired), NEW s,
           Opened(s).active = NoAttempt, next_attempt \in Nat, revision \in Nat
    PROVE  /\ SessionSound(Dispatched(id, s), Executing(id, s), desired)
           /\ Dispatched(id, s).active # NoAttempt
           /\ Dispatched(id, s).active.attempt_id = next_attempt
           /\ Dispatched(id, s).active.target = id
<1>. DEFINE from == StartKey(id, s)
            physical == Physical(id, from)
            a == NewAttempt(id, physical)
<1>1. /\ physical \in CellIdsOf(desired) /\ id \in Suffix(desired, physical)
      /\ RequiredKey(desired, physical) = from
      /\ from = RequiredKey(desired, id) => physical = id
    BY StartIsKnown, PhysicalIs
<1>2. from \in Keys /\ ResultingKey(desired, physical) \in Keys
    BY <1>1, KeyTypes DEF Keys
<1>3. CellOf(desired, physical) \in PlannedCell /\ CellOf(desired, physical).cell_id = physical
      /\ id \in CellIds
    BY <1>1, IndexOfId
<1>. HIDE DEF physical, from
<1>4. a \in Attempts /\ ~ a.revoked
    BY <1>1, <1>2, <1>3 DEF NewAttempt, Attempts, Keys
<1>5. AttemptOf(a, desired) /\ a.required = from /\ a.target = id /\ a.attempt_id = next_attempt
    BY <1>1, <1>3 DEF NewAttempt, AttemptOf
<1>6. a.replay => from # RequiredKey(desired, id)
    BY <1>1 DEF NewAttempt
<1>7. a # NoAttempt
    BY <1>4, CoordinatorAssumption
<1>8. /\ Dispatched(id, s).active = a /\ Dispatched(id, s).verified_state = NoKey
      /\ Dispatched(id, s).cleanup_pending = FALSE
    BY DEF Dispatched, physical, from
<1>9. Dispatched(id, s).replay_target \in CellIds \cup {NoCell}
    BY <1>3, OpenedSound DEF Dispatched, SessionSound, Sessions
<1>10. Dispatched(id, s) \in Sessions
    <2>. DEFINE d == Dispatched(id, s)
    <2>1. d = [verified_state |-> d.verified_state, active |-> d.active,
               replay_target |-> d.replay_target, cleanup_pending |-> d.cleanup_pending]
        BY DEF Dispatched
    <2>2. d.verified_state \in Keys /\ d.active \in Attempts /\ d.cleanup_pending \in BOOLEAN
        BY <1>4, <1>8 DEF Keys
    <2>. HIDE DEF d
    <2>. QED
        BY <1>9, <2>1, <2>2 DEF Sessions, d
<1>11. Executing(id, s).memory = from
    BY StartIsKnown DEF from
<1>12. Executing(id, s) \in Runners
    <2>1. Executing(id, s) = [materialized |-> NoKey, memory |-> Executing(id, s).memory]
        BY DEF Executing
    <2>. QED
        BY <1>2, <1>11, <2>1 DEF Runners, Keys
<1>13. a.replay => Dispatched(id, s).replay_target = id
    BY <1>6, StartIsKnown DEF from
<1>. HIDE DEF a
<1>. QED
    BY <1>4, <1>5, <1>7, <1>8, <1>10, <1>11, <1>12, <1>13
    DEF SessionSound, WorkIsCurrent, StateIsVerified, ReplayInPrefix

\* A successful attempt leaves its session sound, and its output is the one of
\* a clean build (complete).
LEMMA ReleasedSound ==
    ASSUME NEW session, NEW runner, SessionSound(session, runner, desired), Plan(desired),
           session.active # NoAttempt, ~ session.active.revoked
    PROVE  /\ SessionSound(Released(session), AfterSuccess(runner, session.active), desired)
           /\ Released(session).active = NoAttempt
           /\ Released(session).cleanup_pending = session.cleanup_pending
           /\ ~ session.active.replay =>
                 Output(runner.memory, session.active.cell)
                    = CleanOutput(desired, session.active.target)
<1>. DEFINE a == session.active
            c == a.cell.cell_id
<1>1. /\ session \in Sessions /\ runner \in Runners /\ a \in Attempts
      /\ AttemptOf(a, desired) /\ runner.memory = a.required
      /\ a.replay => session.replay_target = a.target
    BY DEF SessionSound, WorkIsCurrent, Sessions
<1>2. /\ c \in CellIdsOf(desired) /\ a.cell = CellOf(desired, c)
      /\ a.required = RequiredKey(desired, c) /\ a.resulting = ResultingKey(desired, c)
      /\ a.target \in CellIdsOf(desired) /\ a.target \in Suffix(desired, c)
      /\ a.replay <=> c # a.target
    BY <1>1 DEF AttemptOf
<1>3. a.resulting = Advance(runner.memory, a.cell) /\ a.resulting \in Keys
    BY <1>1, <1>2, KeyTypes DEF ResultingKey, Keys
<1>4. /\ Released(session).active = NoAttempt
      /\ Released(session).verified_state = a.resulting
      /\ Released(session).replay_target = IF a.replay THEN a.target ELSE NoCell
      /\ Released(session).cleanup_pending = session.cleanup_pending
      /\ Released(session) \in Sessions
    BY <1>1, <1>3 DEF Released, Sessions
<1>5. AfterSuccess(runner, a) \in Runners
    BY <1>3 DEF AfterSuccess, Runners, Quiesced, Keys
<1>6. StateIsVerified(Released(session), AfterSuccess(runner, a))
    BY <1>3, <1>4 DEF StateIsVerified, AfterSuccess
<1>7. ReplayInPrefix(Released(session), desired)
    BY <1>2, <1>4 DEF ReplayInPrefix
<1>8. ~ a.replay => Output(runner.memory, a.cell) = CleanOutput(desired, a.target)
    BY <1>1, <1>2 DEF CleanOutput
<1>. HIDE DEF a
<1>. QED
    BY <1>4, <1>5, <1>6, <1>7, <1>8 DEF SessionSound, WorkIsCurrent, a

-----------------------------------------------------------------------------
(***************************************************************************)
(* Sessions stay sound.                                                    *)
(***************************************************************************)
\* The parts of the type invariant the sessions depend on.
PlanTyped ==
    /\ desired \in Plans \cup {<<>>}
    /\ revision \in Nat /\ next_attempt \in Nat \ {0}

\* Every action keeps every session sound.
LEMMA SessionsStep ==
    ASSUME PlanTyped, SessionsSound, Next
    PROVE  SessionsSound'
<1>. USE DEF SessionsSound
<1>0. Plan(desired) /\ next_attempt \in Nat /\ revision \in Nat
    BY DesiredIsPlan DEF PlanTyped
<1>1. ASSUME NEW plan \in Plans, NEW rev, Reconcile(plan, rev)
      PROVE  SessionsSound'
    BY <1>1, RevisedSound DEF Reconcile
<1>2. ASSUME NEW id \in CellIdsOf(desired), Retry(id)
      PROVE  SessionsSound'
    BY <1>2, RevokedSound DEF Retry, planVars
<1>3. ASSUME NEW i \in DOMAIN desired, DispatchCell(i)
      PROVE  SessionsSound'
    <2>. DEFINE id == desired[i].cell_id
                s == SessionFor(id)
    <2>1. /\ sessions' = Put(sessions, s, Dispatched(id, s))
          /\ runners' = Put(runners, s, Executing(id, s))
          /\ desired' = desired /\ Opened(s).active = NoAttempt
        BY <1>3 DEF DispatchCell, DispatchTurn, Dispatchable, Occupied, planVars
    <2>2. id \in CellIdsOf(desired)
        BY DEF CellIdsOf
    <2>. HIDE DEF id, s
    <2>3. SessionSound(Dispatched(id, s), Executing(id, s), desired)
        BY <1>0, <2>1, <2>2, DispatchedSound
    <2>. QED
        BY <2>1, <2>3 DEF Put
<1>4. ASSUME NEW i \in DOMAIN desired, NEW how, DispatchFails(i, how)
      PROVE  SessionsSound'
    <2>. DEFINE id == desired[i].cell_id
                s == SessionFor(id)
    <2>1. PICK confirmed \in BOOLEAN :
            /\ sessions' = Put(sessions, s,
                   [Detached(confirmed) EXCEPT
                       !.replay_target = IF how \in {"shutdown", "start"}
                                         THEN Opened(s).replay_target ELSE NoCell])
            /\ runners' = Put(runners, s, AfterShutdown(confirmed))
            /\ desired' = desired
        BY <1>4 DEF DispatchFails, Shutdowns, planVars
    <2>2. AfterShutdown(confirmed) \in {Quiesced, Unclean}
        BY DEF AfterShutdown
    <2>3. Opened(s).replay_target \in CellIds \cup {NoCell}
        BY OpenedSound DEF SessionSound, Sessions
    <2>4. SessionSound([Detached(confirmed) EXCEPT
                          !.replay_target = IF how \in {"shutdown", "start"}
                                            THEN Opened(s).replay_target ELSE NoCell],
                       AfterShutdown(confirmed), desired)
        BY <2>2, <2>3, IdleSound
    <2>. HIDE DEF s
    <2>. QED
        BY <2>1, <2>4 DEF Put
<1>5. ASSUME NEW s \in DOMAIN sessions, NEW clean \in BOOLEAN, Retire(s, clean), UNCHANGED desired
      PROVE  SessionsSound'
    <2>1. SessionSound(Detached(clean), AfterShutdown(clean), desired)
        BY IdleSound DEF AfterShutdown
    <2>. QED
        BY <1>5, <2>1 DEF Retire
<1>6. ASSUME NEW s \in DOMAIN sessions, ObserveEvent(s)
      PROVE  SessionsSound'
    <2>1. /\ sessions[s].active # NoAttempt /\ ~ sessions[s].active.revoked
          /\ sessions' = [sessions EXCEPT ![s].active.events = @ + 1]
          /\ runners' = runners /\ desired' = desired
        BY <1>6 DEF ObserveEvent, Current, HasActive, Active, planVars
    <2>. DEFINE session == sessions[s]
                new == sessions'[s]
    <2>2. session \in Sessions /\ session.active \in Attempts
        BY <2>1 DEF SessionSound, Sessions
    <2>3. /\ new.active = [session.active EXCEPT !.events = @ + 1]
          /\ new.verified_state = session.verified_state
          /\ new.replay_target = session.replay_target
          /\ new.cleanup_pending = session.cleanup_pending
          /\ new \in Sessions
        BY <2>1, <2>2 DEF Sessions, Attempts
    <2>4. new.active \in Attempts
        BY <2>2, <2>3 DEF Attempts
    <2>5. new.active # NoAttempt
        BY <2>4, CoordinatorAssumption
    <2>6. /\ new.active.cell = session.active.cell /\ new.active.required = session.active.required
          /\ new.active.resulting = session.active.resulting
          /\ new.active.target = session.active.target
          /\ new.active.replay = session.active.replay
        BY <2>2, <2>3 DEF Attempts
    <2>. HIDE DEF session, new
    <2>7. SessionSound(new, runners[s], desired)
        BY <2>1, <2>3, <2>5, <2>6
        DEF SessionSound, WorkIsCurrent, StateIsVerified, ReplayInPrefix, AttemptOf, session
    <2>. QED
        BY <2>1, <2>7 DEF new
<1>7. ASSUME NEW s \in DOMAIN sessions, CompleteSuccess(s)
      PROVE  SessionsSound'
    <2>1. SessionSound(Released(sessions[s]), AfterSuccess(runners[s], sessions[s].active), desired)
        BY <1>0, <1>7, ReleasedSound DEF CompleteSuccess, Current, HasActive, Active
    <2>. QED
        BY <1>7, <2>1 DEF CompleteSuccess, Active, planVars
<1>8. ASSUME NEW s \in DOMAIN sessions, TerminateSession(s)
      PROVE  SessionsSound'
    <2>1. SessionSound(NewSession, Quiesced, desired)
        BY IdleSound
    <2>. QED
        BY <1>8, <2>1 DEF TerminateSession, planVars
<1>9. ASSUME NEW s \in DOMAIN sessions, TerminateFails(s)
      PROVE  SessionsSound'
    <2>1. /\ sessions' = sessions /\ desired' = desired /\ Obsolete(s)
          /\ runners' = [runners EXCEPT ![s] = Unclean]
        BY <1>9 DEF TerminateFails, TerminateTurn, planVars
    <2>2. sessions[s].active = NoAttempt \/ sessions[s].active.revoked
        BY <2>1 DEF Obsolete, Active, HasActive, SessionSound
    <2>3. SessionSound(sessions[s], Unclean, desired)
        BY <2>2 DEF SessionSound, WorkIsCurrent, StateIsVerified, Unclean, Runners, Keys
    <2>. QED
        BY <2>1, <2>3
<1>10. ASSUME NEW s \in DOMAIN sessions, RunnerCrashes(s)
      PROVE  SessionsSound'
    <2>1. SessionSound(sessions[s], Quiesced, desired)
        BY <1>10 DEF RunnerCrashes, HasActive, Active, SessionSound, WorkIsCurrent,
                     StateIsVerified, Quiesced, Runners, Keys
    <2>. QED
        BY <1>10, <2>1 DEF RunnerCrashes, planVars
<1>11. ASSUME NEW s \in DOMAIN sessions,
              \/ \E attempt \in 0..next_attempt : RejectForeign(s, attempt)
              \/ RejectRevoked(s)
              \/ \E fault \in Faults : RejectCurrent(s, fault)
              \/ \E status \in Failures : CompleteUnsuccessful(s, status)
       PROVE  SessionsSound'
    <2>1. \E clean \in BOOLEAN : Retire(s, clean) /\ UNCHANGED desired
        BY <1>11 DEF RejectForeign, RejectRevoked, RejectCurrent, CompleteUnsuccessful,
                     Shutdowns, planVars
    <2>. QED
        BY <1>5, <2>1
<1>12. ASSUME DispatchReturns \/ TerminateReturns
       PROVE  SessionsSound'
    BY <1>12 DEF DispatchReturns, TerminateReturns, planVars
<1>. QED
    BY <1>1, <1>2, <1>3, <1>4, <1>6, <1>7, <1>8, <1>9, <1>10, <1>11, <1>12
    DEF Next, Edit, Dispatch, Receive, Terminate

-----------------------------------------------------------------------------
(***************************************************************************)
(* Results.                                                                *)
(***************************************************************************)
StatesTyped ==
    /\ states \in [CellIdsOf(desired) -> CellStates]
    /\ DOMAIN diagnostics \subseteq CellIdsOf(desired)
    /\ \A id \in DOMAIN diagnostics : diagnostics[id] \in CellIds \cup {NoCell}

ResultsTyped ==
    /\ DOMAIN results \subseteq CellIdsOf(desired)
    /\ DOMAIN last_good \subseteq CellIdsOf(desired)
    /\ \A id \in DOMAIN results : results[id] \in Accepted
    /\ \A id \in DOMAIN last_good : last_good[id] \in Accepted
    /\ \A k \in DOMAIN committed : committed[k] \in Outputs

SucceededHasResult ==
    \A id \in DOMAIN states : states[id] = "Succeeded" => id \in DOMAIN results

ResultsSound ==
    StatesTyped /\ ResultsTyped /\ ResultsMatchCleanBuild /\ StoreIsSound /\ SucceededHasResult

\* Failing a target keeps progress and diagnostics typed, and makes no cell
\* succeed (fail_target).
LEMMA FailTargetTyped ==
    ASSUME StatesTyped, Plan(desired), NEW target \in CellIdsOf(desired),
           NEW status \in {"Failed", "Cancelled"}, FailTarget(target, status)
    PROVE  /\ states' \in [CellIdsOf(desired) -> CellStates]
           /\ DOMAIN diagnostics' \subseteq CellIdsOf(desired)
           /\ \A id \in DOMAIN diagnostics' : diagnostics'[id] \in CellIds \cup {NoCell}
           /\ \A id \in DOMAIN states' : states'[id] = "Succeeded" => states[id] = "Succeeded"
<1>1. Suffix(desired, target) \subseteq CellIdsOf(desired)
    BY SuffixIds
<1>2. \A c \in Suffix(desired, target) : Predecessor(desired, c) \in CellIds \cup {NoCell}
    BY <1>1, SuffixIds
<1>. QED
    BY <1>1, <1>2 DEF FailTarget, StatesTyped, CellStates, Overlay

\* Computations with the same keys have the same clean output (same_computation).
LEMMA SameCleanOutput ==
    ASSUME NEW old, NEW new, NEW id, SameComputation(old, new, id)
    PROVE  CleanOutput(old, id) = CleanOutput(new, id)
BY DEF SameComputation, CleanOutput, Output, Step, ExecutionKey

\* The output accepted from a session is typed and clean (complete).
LEMMA ProducedIsClean ==
    ASSUME SessionsSound, Plan(desired), NEW s \in DOMAIN sessions, CompleteSuccess(s)
    PROVE  /\ Active(s) \in Attempts /\ Active(s).target \in CellIdsOf(desired)
           /\ Produced(s) \in Outputs
           /\ ~ Active(s).replay => Produced(s) = CleanOutput(desired, Active(s).target)
<1>1. /\ SessionSound(sessions[s], runners[s], desired)
      /\ sessions[s].active # NoAttempt /\ ~ sessions[s].active.revoked
    BY DEF SessionsSound, CompleteSuccess, Current, HasActive, Active
<1>2. /\ Active(s) \in Attempts /\ AttemptOf(Active(s), desired)
      /\ runners[s].memory = Active(s).required
    BY <1>1 DEF SessionSound, WorkIsCurrent, Sessions, Active
<1>3. Active(s).required \in Keys /\ Active(s).cell \in PlannedCell
    BY <1>2 DEF Attempts, Keys
<1>4. Produced(s) \in Outputs
    BY <1>2, <1>3 DEF Produced, Output, Outputs, PlannedCell, Step, Steps
<1>5. ~ Active(s).replay => Produced(s) = CleanOutput(desired, Active(s).target)
    BY <1>1, ReleasedSound DEF Produced, Active
<1>. QED
    BY <1>2, <1>4, <1>5 DEF AttemptOf

\* Every action keeps results and store records clean-build outputs.
LEMMA ResultsStep ==
    ASSUME PlanTyped, SessionsSound, ResultsSound, Next
    PROVE  ResultsSound'
<1>. USE DEF ResultsSound
<1>0. Plan(desired) /\ next_attempt \in Nat /\ revision \in Nat
    BY DesiredIsPlan DEF PlanTyped
<1>1. ASSUME NEW plan \in Plans, NEW rev, Reconcile(plan, rev)
      PROVE  ResultsSound'
    <2>1. /\ desired' = plan /\ results' = Only(results, Kept(plan))
          /\ last_good' = Only(Fallbacks(DOMAIN results \ Kept(plan)), CellIdsOf(plan))
          /\ states' = [id \in CellIdsOf(plan) |->
                          IF id \in Kept(plan) THEN "Succeeded" ELSE "Pending"]
          /\ diagnostics' = <<>> /\ committed' = committed
        BY <1>1 DEF Reconcile
    <2>2. Kept(plan) \subseteq DOMAIN results \cap CellIdsOf(plan)
        BY DEF Kept
    <2>3. StatesTyped' /\ SucceededHasResult'
        BY <2>1, <2>2 DEF StatesTyped, SucceededHasResult, CellStates, Only
    <2>4. ResultsTyped'
        BY <2>1, <2>2 DEF ResultsTyped, Only, Fallbacks, Overlay
    <2>5. ResultsMatchCleanBuild'
        <3>. SUFFICES ASSUME NEW id \in DOMAIN results'
                      PROVE  results'[id].output = CleanOutput(plan, id)
            BY <2>1 DEF ResultsMatchCleanBuild
        <3>1. id \in Kept(plan) /\ id \in DOMAIN results /\ results'[id] = results[id]
            BY <2>1, <2>2 DEF Only
        <3>2. SameComputation(desired, plan, id)
            BY <3>1 DEF Kept
        <3>. QED
            BY <3>1, <3>2, SameCleanOutput DEF ResultsMatchCleanBuild
    <2>6. StoreIsSound'
        BY <2>1 DEF StoreIsSound
    <2>. QED
        BY <2>3, <2>4, <2>5, <2>6
<1>2. ASSUME NEW id \in CellIdsOf(desired), Retry(id)
      PROVE  ResultsSound'
    <2>1. /\ desired' = desired /\ results' = Without(results, Suffix(desired, id))
          /\ last_good' = Fallbacks(Suffix(desired, id))
          /\ diagnostics' = Without(diagnostics, Suffix(desired, id))
          /\ states' = [c \in DOMAIN states |->
                          IF c \in Suffix(desired, id) THEN "Pending" ELSE states[c]]
          /\ committed' = committed
        BY <1>2 DEF Retry, planVars
    <2>2. StatesTyped' /\ SucceededHasResult'
        BY <2>1 DEF StatesTyped, SucceededHasResult, CellStates, Without
    <2>3. ResultsTyped'
        BY <2>1 DEF ResultsTyped, Without, Fallbacks, Overlay, Only
    <2>4. ResultsMatchCleanBuild' /\ StoreIsSound'
        BY <2>1 DEF ResultsMatchCleanBuild, StoreIsSound, Without
    <2>. QED
        BY <2>2, <2>3, <2>4
<1>3. ASSUME NEW id \in CellIdsOf(desired), NEW status \in {"Failed", "Cancelled"},
             FailTarget(id, status), UNCHANGED <<desired, resultVars>>
      PROVE  ResultsSound'
    BY <1>0, <1>3, FailTargetTyped
    DEF StatesTyped, ResultsTyped, SucceededHasResult, ResultsMatchCleanBuild, StoreIsSound,
        resultVars
<1>4. ASSUME UNCHANGED <<desired, resultVars, stateVars>>
      PROVE  ResultsSound'
    BY <1>4
    DEF StatesTyped, ResultsTyped, SucceededHasResult, ResultsMatchCleanBuild, StoreIsSound,
        resultVars, stateVars
<1>5. ASSUME NEW i \in DOMAIN desired, DispatchCell(i)
      PROVE  ResultsSound'
    <2>1. /\ states' = [states EXCEPT ![desired[i].cell_id] = "Running"]
          /\ UNCHANGED <<desired, resultVars, diagnostics>>
        BY <1>5 DEF DispatchCell, planVars
    <2>. QED
        BY <2>1 DEF StatesTyped, ResultsTyped, SucceededHasResult, ResultsMatchCleanBuild,
                    StoreIsSound, resultVars, CellStates
<1>6. ASSUME NEW i \in DOMAIN desired, NEW how, DispatchFails(i, how)
      PROVE  ResultsSound'
    <2>1. FailTarget(desired[i].cell_id, "Failed") /\ UNCHANGED <<desired, resultVars>>
        BY <1>6 DEF DispatchFails, planVars
    <2>2. desired[i].cell_id \in CellIdsOf(desired)
        BY DEF CellIdsOf
    <2>. QED
        BY <1>3, <2>1, <2>2
<1>7. ASSUME NEW s \in DOMAIN sessions, CompleteSuccess(s)
      PROVE  ResultsSound'
    <2>. DEFINE t == Active(s).target
                accepted == [attempt_id |-> Active(s).attempt_id,
                             events |-> Active(s).events, output |-> Produced(s)]
    <2>1. /\ Active(s) \in Attempts /\ t \in CellIdsOf(desired) /\ Produced(s) \in Outputs
          /\ ~ Active(s).replay => Produced(s) = CleanOutput(desired, t)
          /\ desired' = desired
        BY <1>0, <1>7, ProducedIsClean DEF CompleteSuccess, planVars
    <2>2. CASE Active(s).replay
        <3>1. states' = [states EXCEPT ![t] = "Pending"] /\ UNCHANGED <<resultVars, diagnostics>>
            BY <1>7, <2>2 DEF CompleteSuccess, AcceptReplay
        <3>. QED
            BY <2>1, <3>1 DEF StatesTyped, ResultsTyped, SucceededHasResult,
                              ResultsMatchCleanBuild, StoreIsSound, resultVars, CellStates
    <2>3. CASE ~ Active(s).replay
        <3>1. /\ states' = [states EXCEPT ![t] = "Succeeded"]
              /\ diagnostics' = Without(diagnostics, {t})
              /\ last_good' = Without(last_good, {t})
              /\ results' = Put(results, t, accepted)
              /\ committed' = IF Publishes(s)
                              THEN Put(committed, ExecutionKey(desired, t), Produced(s))
                              ELSE committed
            BY <1>7, <2>3 DEF CompleteSuccess, AcceptResult
        <3>2. accepted \in Accepted /\ accepted.output = CleanOutput(desired, t)
            BY <2>1, <2>3 DEF Accepted, Attempts
        <3>. HIDE DEF accepted, t
        <3>3. StatesTyped' /\ SucceededHasResult'
            BY <2>1, <3>1 DEF StatesTyped, SucceededHasResult, CellStates, Put, Without
        <3>4. ResultsTyped'
            BY <2>1, <3>1, <3>2 DEF ResultsTyped, Put, Without
        <3>5. ResultsMatchCleanBuild'
            BY <2>1, <3>1, <3>2 DEF ResultsMatchCleanBuild, Put
        <3>6. StoreIsSound'
            <4>1. CASE ~ Publishes(s)
                BY <3>1, <4>1 DEF StoreIsSound
            <4>2. CASE Publishes(s)
                <5>. DEFINE key == ExecutionKey(desired, t)
                <5>1. CellOf(desired, t).volatile_nonce = NoNonce
                    BY <4>2 DEF Publishes, t
                <5>2. Produced(s) =
                        [memory |-> key.required, environment |-> key.environment,
                         session |-> key.session,
                         step |-> [code |-> key.code, nonce |-> NoNonce]]
                    BY <2>1, <2>3, <5>1 DEF CleanOutput, Output, Step, ExecutionKey
                <5>3. committed' = Put(committed, key, Produced(s))
                    BY <3>1, <4>2
                <5>. HIDE DEF key
                <5>. QED
                    BY <5>2, <5>3 DEF StoreIsSound, Put
            <4>. QED
                BY <4>1, <4>2
        <3>. QED
            BY <3>3, <3>4, <3>5, <3>6
    <2>. QED
        BY <2>2, <2>3
<1>8. ASSUME NEW s \in DOMAIN sessions, HasActive(s), ~ Active(s).revoked
      PROVE  Active(s).target \in CellIdsOf(desired)
    BY <1>8 DEF SessionsSound, SessionSound, WorkIsCurrent, AttemptOf, HasActive, Active
<1>9. ASSUME NEW s \in DOMAIN sessions, NEW attempt, RejectForeign(s, attempt)
      PROVE  ResultsSound'
    <2>1. CASE Active(s).revoked
        BY <1>4, <1>9, <2>1 DEF RejectForeign, planVars
    <2>2. CASE ~ Active(s).revoked
        BY <1>3, <1>8, <1>9, <2>2 DEF RejectForeign, planVars
    <2>. QED
        BY <2>1, <2>2
<1>10. ASSUME NEW s \in DOMAIN sessions,
              \/ \E fault \in Faults : RejectCurrent(s, fault)
              \/ \E status \in Failures : CompleteUnsuccessful(s, status)
       PROVE  ResultsSound'
    <2>1. \E status \in {"Failed", "Cancelled"} :
            FailTarget(Active(s).target, status) /\ UNCHANGED <<desired, resultVars>>
        BY <1>10, CoordinatorAssumption DEF RejectCurrent, CompleteUnsuccessful, planVars
    <2>2. Active(s).target \in CellIdsOf(desired)
        BY <1>8, <1>10 DEF RejectCurrent, CompleteUnsuccessful, Current
    <2>. QED
        BY <1>3, <2>1, <2>2
<1>11. ASSUME NEW s \in DOMAIN sessions,
              \/ ObserveEvent(s) \/ RejectRevoked(s)
              \/ TerminateSession(s) \/ TerminateFails(s) \/ RunnerCrashes(s)
       PROVE  ResultsSound'
    <2>1. UNCHANGED <<desired, resultVars, stateVars>>
        BY <1>11 DEF ObserveEvent, RejectRevoked, TerminateSession, TerminateFails,
                     RunnerCrashes, planVars
    <2>. QED
        BY <1>4, <2>1
<1>12. ASSUME DispatchReturns \/ TerminateReturns
       PROVE  ResultsSound'
    BY <1>4, <1>12 DEF DispatchReturns, TerminateReturns, planVars
<1>. QED
    BY <1>1, <1>2, <1>5, <1>6, <1>7, <1>9, <1>10, <1>11, <1>12
    DEF Next, Edit, Dispatch, Receive, Terminate

-----------------------------------------------------------------------------
(***************************************************************************)
(* Scopes and session ids.                                                 *)
(***************************************************************************)
ScopesTyped ==
    /\ next_session \in Nat \ {0}
    /\ {Scope(desired[i]) : i \in DOMAIN desired} \subseteq DOMAIN session_ids
    /\ \A x \in DOMAIN session_ids : session_ids[x] \in 1..(next_session - 1)
    /\ DOMAIN sessions \subseteq 1..(next_session - 1)

\* A plan has finitely many scopes.
LEMMA FinitelyManyScopes ==
    ASSUME NEW p, Plan(p)
    PROVE  IsFiniteSet({Scope(p[i]) : i \in DOMAIN p})
<1>. DEFINE S == {Scope(p[i]) : i \in DOMAIN p}
            g == [i \in DOMAIN p |-> Scope(p[i])]
<1>1. g \in Surjection(DOMAIN p, S)
    BY DEF Surjection
<1>. QED
    BY <1>1, PlanDomain, FS_Surjection

\* The session a cell is dispatched to is that of its scope, or the next one.
LEMMA SessionForTyped ==
    ASSUME ScopesTyped, Plan(desired), NEW i \in DOMAIN desired,
           OpenScope(desired[i].cell_id)
    PROVE  /\ SessionFor(desired[i].cell_id) \in 1..(next_session' - 1)
           /\ next_session' \in Nat \ {0} /\ next_session <= next_session'
           /\ DOMAIN session_ids \subseteq DOMAIN session_ids'
           /\ \A x \in DOMAIN session_ids' : session_ids'[x] \in 1..(next_session' - 1)
<1>. DEFINE id == desired[i].cell_id
<1>1. CellOf(desired, id) = desired[i]
    BY IndexOfCell
<1>2. Scope(CellOf(desired, id)) \in DOMAIN session_ids
    BY <1>1 DEF ScopesTyped
<1>3. CASE NeedsFreshSession(id)
    BY <1>2, <1>3 DEF OpenScope, SessionFor, ScopesTyped, Put
<1>4. CASE ~ NeedsFreshSession(id)
    BY <1>2, <1>4 DEF OpenScope, SessionFor, ScopesTyped, scopeVars
<1>. QED
    BY <1>3, <1>4

\* Session ids stay below next_session: no two scopes are given one by mistake.
LEMMA ScopesStep ==
    ASSUME PlanTyped, ScopesTyped, Next
    PROVE  ScopesTyped'
<1>0. Plan(desired) /\ \A p \in Plans : Plan(p)
    BY DesiredIsPlan DEF PlanTyped
<1>1. ASSUME NEW plan \in Plans, NEW rev, Reconcile(plan, rev)
      PROVE  ScopesTyped'
    <2>. DEFINE missing == {Scope(plan[i]) : i \in DOMAIN plan} \ DOMAIN session_ids
                n == Cardinality(missing)
    <2>1. n \in Nat
        <3>. DEFINE S == {Scope(plan[i]) : i \in DOMAIN plan}
        <3>1. IsFiniteSet(S)
            BY <1>0, FinitelyManyScopes
        <3>2. missing \in SUBSET S
            OBVIOUS
        <3>. HIDE DEF S, missing
        <3>3. IsFiniteSet(missing)
            BY <3>1, <3>2, FS_Subset
        <3>. QED
            BY <3>3, FS_CardinalityType
    <2>2. PICK ids \in Numberings(missing) : session_ids' = Overlay(session_ids, ids)
        BY <1>1 DEF Reconcile
    <2>3. ids \in [missing -> next_session..(next_session + n - 1)]
        BY DEF Numberings
    <2>4. /\ next_session' = next_session + n /\ desired' = plan
          /\ DOMAIN sessions' = DOMAIN sessions
        BY <1>1 DEF Reconcile
    <2>5. {Scope(plan[i]) : i \in DOMAIN plan} \subseteq DOMAIN session_ids \cup missing
        OBVIOUS
    <2>. HIDE DEF n, missing
    <2>6. DOMAIN session_ids' = DOMAIN session_ids \cup missing
        BY <2>2, <2>3 DEF Overlay
    <2>7. \A x \in DOMAIN session_ids' : session_ids'[x] \in 1..(next_session' - 1)
        <3>. SUFFICES ASSUME NEW x \in DOMAIN session_ids'
                      PROVE  session_ids'[x] \in 1..(next_session' - 1)
            OBVIOUS
        <3>1. CASE x \in missing
            BY <2>1, <2>2, <2>3, <2>4, <3>1 DEF Overlay, ScopesTyped
        <3>2. CASE x \notin missing
            BY <2>1, <2>2, <2>3, <2>4, <2>6, <3>2 DEF Overlay, ScopesTyped
        <3>. QED
            BY <3>1, <3>2
    <2>. QED
        BY <2>1, <2>4, <2>5, <2>6, <2>7 DEF ScopesTyped
<1>2. ASSUME NEW i \in DOMAIN desired, OpenScope(desired[i].cell_id), UNCHANGED desired,
             DOMAIN sessions' = DOMAIN sessions \cup {SessionFor(desired[i].cell_id)}
      PROVE  ScopesTyped'
    BY <1>0, <1>2, SessionForTyped DEF ScopesTyped
<1>3. ASSUME NEW i \in DOMAIN desired,
             DispatchCell(i) \/ \E how : DispatchFails(i, how)
      PROVE  ScopesTyped'
    BY <1>2, <1>3 DEF DispatchCell, DispatchFails, Put, planVars
<1>4. ASSUME UNCHANGED <<desired, scopeVars>>, DOMAIN sessions' = DOMAIN sessions
      PROVE  ScopesTyped'
    BY <1>4 DEF ScopesTyped, scopeVars
<1>5. ASSUME \/ \E id \in CellIdsOf(desired) : Retry(id)
             \/ DispatchReturns \/ Receive \/ Terminate \/ TerminateReturns
             \/ \E s \in DOMAIN sessions : RunnerCrashes(s)
      PROVE  ScopesTyped'
    <2>1. UNCHANGED <<desired, scopeVars>> /\ DOMAIN sessions' = DOMAIN sessions
        BY <1>5 DEF Retry, DispatchReturns, Receive, ObserveEvent, RejectForeign, RejectRevoked,
            RejectCurrent, CompleteUnsuccessful, CompleteSuccess, Retire, Terminate,
            TerminateSession, TerminateFails, TerminateReturns, RunnerCrashes, planVars
    <2>. QED
        BY <1>4, <2>1
<1>. QED
    BY <1>1, <1>3, <1>5 DEF Next, Edit, Dispatch

-----------------------------------------------------------------------------
(***************************************************************************)
(* Attempts.                                                               *)
(***************************************************************************)
\* Membership in ActiveIds.
LEMMA ActiveIdsDef ==
    \A n : n \in ActiveIds <=>
        \E s \in DOMAIN sessions : HasActive(s) /\ Active(s).attempt_id = n
BY DEF ActiveIds

\* A step that neither starts nor ends an attempt.
LEMMA AttemptsKept ==
    ASSUME AttemptsAccountedFor, UNCHANGED attemptVars, DOMAIN sessions' = DOMAIN sessions,
           \A s \in DOMAIN sessions :
               /\ HasActive(s)' <=> HasActive(s)
               /\ HasActive(s) => Active(s)'.attempt_id = Active(s).attempt_id
    PROVE  AttemptsAccountedFor'
<1>1. ActiveIds' = ActiveIds
    BY DEF ActiveIds
<1>. QED
    BY <1>1 DEF AttemptsAccountedFor, attemptVars

\* A step that ends the attempt of one session and retires it.
LEMMA AttemptsRetired ==
    ASSUME AttemptsAccountedFor, UNCHANGED next_attempt, DOMAIN sessions' = DOMAIN sessions,
           NEW s \in DOMAIN sessions, HasActive(s), ~ HasActive(s)',
           retired' = retired \cup {Active(s).attempt_id},
           \A x \in DOMAIN sessions \ {s} : sessions'[x] = sessions[x]
    PROVE  AttemptsAccountedFor'
<1>1. \A x \in DOMAIN sessions \ {s} :
        (HasActive(x)' <=> HasActive(x)) /\ Active(x)' = Active(x)
    BY DEF HasActive, Active
<1>2. ActiveIds' = ActiveIds \ {Active(s).attempt_id}
    BY <1>1 DEF ActiveIds, AttemptsAccountedFor
<1>3. Active(s).attempt_id \in ActiveIds
    BY DEF ActiveIds
<1>. QED
    BY <1>1, <1>2, <1>3 DEF AttemptsAccountedFor

\* A step that starts an attempt in a free session.
LEMMA AttemptStarted ==
    ASSUME AttemptsAccountedFor, next_attempt \in Nat \ {0}, NEW s, NEW new,
           sessions' = Put(sessions, s, new), Opened(s).active = NoAttempt,
           new.active # NoAttempt, new.active.attempt_id = next_attempt,
           retired' = retired, next_attempt' = next_attempt + 1
    PROVE  AttemptsAccountedFor'
<1>1. /\ s \in DOMAIN sessions' /\ HasActive(s)' /\ Active(s)'.attempt_id = next_attempt
      /\ DOMAIN sessions' = DOMAIN sessions \cup {s}
      /\ s \in DOMAIN sessions => ~ HasActive(s)
      /\ \A x \in DOMAIN sessions \ {s} :
            (HasActive(x)' <=> HasActive(x)) /\ Active(x)' = Active(x)
    BY DEF Put, HasActive, Active, Opened
<1>2. ActiveIds' = ActiveIds \cup {next_attempt}
    BY <1>1 DEF ActiveIds
<1>3. next_attempt \notin ActiveIds /\ next_attempt \notin retired
    BY DEF AttemptsAccountedFor
<1>4. \A x, y \in DOMAIN sessions' :
        HasActive(x)' /\ HasActive(y)' /\ Active(x)'.attempt_id = Active(y)'.attempt_id => x = y
    BY <1>1, <1>3 DEF AttemptsAccountedFor, ActiveIds
<1>5. 1..(next_attempt' - 1) = 1..(next_attempt - 1) \cup {next_attempt}
    OBVIOUS
<1>. QED
    BY <1>2, <1>3, <1>4, <1>5 DEF AttemptsAccountedFor

\* A step that leaves a free session free, and may use up one attempt id.
LEMMA AttemptRefused ==
    ASSUME AttemptsAccountedFor, next_attempt \in Nat \ {0}, NEW s, NEW new,
           sessions' = Put(sessions, s, new), Opened(s).active = NoAttempt,
           new.active = NoAttempt,
           \/ UNCHANGED attemptVars
           \/ retired' = retired \cup {next_attempt} /\ next_attempt' = next_attempt + 1
    PROVE  AttemptsAccountedFor'
<1>1. /\ ~ HasActive(s)' /\ DOMAIN sessions' = DOMAIN sessions \cup {s}
      /\ s \in DOMAIN sessions => ~ HasActive(s)
      /\ \A x \in DOMAIN sessions \ {s} :
            (HasActive(x)' <=> HasActive(x)) /\ Active(x)' = Active(x)
    BY DEF Put, HasActive, Active, Opened
<1>2. ActiveIds' = ActiveIds
    BY <1>1 DEF ActiveIds
<1>3. next_attempt \notin ActiveIds
    BY DEF AttemptsAccountedFor
<1>4. 1..next_attempt = 1..(next_attempt - 1) \cup {next_attempt}
    OBVIOUS
<1>. QED
    BY <1>1, <1>2, <1>3, <1>4 DEF AttemptsAccountedFor, attemptVars

\* Every action keeps every dispatched attempt active in one session, or retired.
LEMMA AttemptsStep ==
    ASSUME PlanTyped, SessionsSound, AttemptsAccountedFor, Next
    PROVE  AttemptsAccountedFor'
<1>0. Plan(desired) /\ next_attempt \in Nat \ {0} /\ revision \in Nat
    BY DesiredIsPlan DEF PlanTyped
<1>1. ASSUME NEW plan \in Plans, NEW rev, Reconcile(plan, rev)
      PROVE  AttemptsAccountedFor'
    <2>1. \A s \in DOMAIN sessions :
            /\ Revised(sessions[s]).active = NoAttempt <=> sessions[s].active = NoAttempt
            /\ sessions[s].active # NoAttempt =>
                  Revised(sessions[s]).active.attempt_id = sessions[s].active.attempt_id
        BY RevisedSound DEF SessionsSound
    <2>. QED
        BY <1>1, <2>1, AttemptsKept DEF Reconcile, HasActive, Active
<1>2. ASSUME NEW id \in CellIdsOf(desired), Retry(id)
      PROVE  AttemptsAccountedFor'
    <2>1. \A s \in DOMAIN sessions : sessions[s].active # NoAttempt =>
            /\ Revoked(sessions[s]).active # NoAttempt
            /\ Revoked(sessions[s]).active.attempt_id = sessions[s].active.attempt_id
        BY RevokedSound DEF SessionsSound
    <2>. QED
        BY <1>2, <2>1, AttemptsKept DEF Retry, HasActive, Active
<1>3. ASSUME NEW i \in DOMAIN desired, DispatchCell(i)
      PROVE  AttemptsAccountedFor'
    <2>. DEFINE id == desired[i].cell_id
    <2>1. PICK s : s = SessionFor(id)
        OBVIOUS
    <2>2. PICK new : new = Dispatched(id, s)
        OBVIOUS
    <2>3. /\ sessions' = Put(sessions, s, new)
          /\ retired' = retired /\ next_attempt' = next_attempt + 1
          /\ Opened(s).active = NoAttempt
        BY <1>3, <2>1, <2>2 DEF DispatchCell, DispatchTurn, Dispatchable, Occupied
    <2>4. id \in CellIdsOf(desired)
        BY DEF CellIdsOf
    <2>. HIDE DEF id
    <2>5. new.active # NoAttempt /\ new.active.attempt_id = next_attempt
        BY <1>0, <2>2, <2>3, <2>4, DispatchedSound
    <2>. QED
        BY <1>0, <2>3, <2>5, AttemptStarted
<1>4. ASSUME NEW i \in DOMAIN desired, NEW how, DispatchFails(i, how)
      PROVE  AttemptsAccountedFor'
    <2>. DEFINE id == desired[i].cell_id
    <2>1. PICK s : s = SessionFor(id)
        OBVIOUS
    <2>2. PICK confirmed \in BOOLEAN, t \in CellIds \cup {NoCell} :
            sessions' = Put(sessions, s, [Detached(confirmed) EXCEPT !.replay_target = t])
        <3>1. Opened(s).replay_target \in CellIds \cup {NoCell}
            BY OpenedSound DEF SessionSound, Sessions
        <3>. QED
            BY <1>4, <2>1, <3>1 DEF DispatchFails, Shutdowns
    <2>3. /\ Opened(s).active = NoAttempt
          /\ \/ UNCHANGED attemptVars
             \/ retired' = retired \cup {next_attempt} /\ next_attempt' = next_attempt + 1
        BY <1>4, <2>1 DEF DispatchFails, DispatchTurn, Dispatchable, Occupied
    <2>4. PICK new : new = [Detached(confirmed) EXCEPT !.replay_target = t]
        OBVIOUS
    <2>5. new.active = NoAttempt
        BY <2>4 DEF Detached, NewSession
    <2>. QED
        BY <1>0, <2>2, <2>3, <2>4, <2>5, AttemptRefused
<1>5. ASSUME NEW s \in DOMAIN sessions, NEW clean \in BOOLEAN, HasActive(s),
             Retire(s, clean), UNCHANGED next_attempt
      PROVE  AttemptsAccountedFor'
    <2>1. Detached(clean).active = NoAttempt
        BY DEF Detached, NewSession
    <2>. QED
        BY <1>5, <2>1, AttemptsRetired DEF Retire, HasActive, Active
<1>6. ASSUME NEW s \in DOMAIN sessions,
             \/ \E attempt : RejectForeign(s, attempt)
             \/ RejectRevoked(s)
             \/ \E fault : RejectCurrent(s, fault)
             \/ \E status : CompleteUnsuccessful(s, status)
      PROVE  AttemptsAccountedFor'
    <2>1. \E clean \in BOOLEAN : Retire(s, clean) /\ HasActive(s) /\ UNCHANGED next_attempt
        BY <1>6 DEF RejectForeign, RejectRevoked, RejectCurrent, CompleteUnsuccessful,
                    Shutdowns, Current
    <2>. QED
        BY <1>5, <2>1
<1>7. ASSUME NEW s \in DOMAIN sessions, CompleteSuccess(s)
      PROVE  AttemptsAccountedFor'
    <2>1. Released(sessions[s]).active = NoAttempt
        BY <1>0, <1>7, ReleasedSound DEF SessionsSound, CompleteSuccess, Current, HasActive, Active
    <2>2. /\ HasActive(s) /\ ~ HasActive(s)' /\ UNCHANGED next_attempt
          /\ DOMAIN sessions' = DOMAIN sessions
          /\ retired' = retired \cup {Active(s).attempt_id}
          /\ \A x \in DOMAIN sessions \ {s} : sessions'[x] = sessions[x]
        BY <1>7, <2>1 DEF CompleteSuccess, Current, HasActive, Active
    <2>. QED
        BY <2>2, AttemptsRetired
<1>8. ASSUME NEW s \in DOMAIN sessions, TerminateSession(s)
      PROVE  AttemptsAccountedFor'
    <2>1. /\ ~ HasActive(s)' /\ UNCHANGED next_attempt /\ DOMAIN sessions' = DOMAIN sessions
          /\ \A x \in DOMAIN sessions \ {s} : sessions'[x] = sessions[x]
          /\ retired' = IF HasActive(s) THEN retired \cup {Active(s).attempt_id} ELSE retired
        BY <1>8 DEF TerminateSession, NewSession, HasActive, Active
    <2>2. CASE HasActive(s)
        BY <2>1, <2>2, AttemptsRetired
    <2>3. CASE ~ HasActive(s)
        <3>1. \A x \in DOMAIN sessions :
                (HasActive(x)' <=> HasActive(x)) /\ (HasActive(x) => Active(x)' = Active(x))
            BY <2>1, <2>3 DEF HasActive, Active
        <3>. QED
            BY <2>1, <2>3, <3>1, AttemptsKept DEF attemptVars
    <2>. QED
        BY <2>2, <2>3
<1>9. ASSUME NEW s \in DOMAIN sessions, ObserveEvent(s)
      PROVE  AttemptsAccountedFor'
    <2>. DEFINE new == sessions'[s]
    <2>1. /\ HasActive(s) /\ sessions' = [sessions EXCEPT ![s].active.events = @ + 1]
          /\ UNCHANGED attemptVars
        BY <1>9 DEF ObserveEvent, Current
    <2>2. sessions[s] \in Sessions /\ sessions[s].active \in Attempts
        BY <2>1 DEF SessionsSound, SessionSound, Sessions, HasActive, Active
    <2>3. new.active \in Attempts /\ new.active.attempt_id = sessions[s].active.attempt_id
        BY <2>1, <2>2 DEF Sessions, Attempts
    <2>4. new.active # NoAttempt
        BY <2>3, CoordinatorAssumption
    <2>5. \A x \in DOMAIN sessions \ {s} : sessions'[x] = sessions[x]
        BY <2>1
    <2>. QED
        BY <2>1, <2>3, <2>4, <2>5, AttemptsKept DEF HasActive, Active
<1>10. ASSUME UNCHANGED <<sessions, attemptVars>>
       PROVE  AttemptsAccountedFor'
    BY <1>10, AttemptsKept DEF HasActive, Active
<1>11. ASSUME \/ DispatchReturns \/ TerminateReturns
              \/ \E s \in DOMAIN sessions : TerminateFails(s) \/ RunnerCrashes(s)
       PROVE  AttemptsAccountedFor'
    BY <1>10, <1>11 DEF DispatchReturns, TerminateReturns, TerminateFails, RunnerCrashes
<1>. QED
    BY <1>1, <1>2, <1>3, <1>4, <1>6, <1>7, <1>8, <1>9, <1>11
    DEF Next, Edit, Dispatch, Receive, Terminate

-----------------------------------------------------------------------------
(***************************************************************************)
(* Slots.                                                                  *)
(***************************************************************************)
OccupiedIds == {s \in DOMAIN sessions : Occupied(sessions[s])}

\* Finitely many sessions exist, so the occupied ones can be counted.
LEMMA OccupiedIsFinite ==
    ASSUME ScopesTyped
    PROVE  IsFiniteSet(OccupiedIds) /\ RunningCount = Cardinality(OccupiedIds)
<1>1. OccupiedIds \in SUBSET (1..(next_session - 1))
    BY DEF OccupiedIds, ScopesTyped
<1>2. IsFiniteSet(1..(next_session - 1))
    BY FS_Interval DEF ScopesTyped
<1>. QED
    BY <1>1, <1>2, FS_Subset DEF OccupiedIds, RunningCount

\* A step that occupies no further session.
LEMMA SlotsKept ==
    ASSUME ScopesTyped, SlotsBounded, DOMAIN sessions' = DOMAIN sessions,
           \A s \in DOMAIN sessions : Occupied(sessions'[s]) => Occupied(sessions[s])
    PROVE  SlotsBounded'
<1>1. OccupiedIds' \in SUBSET OccupiedIds
    BY DEF OccupiedIds
<1>2. RunningCount' = Cardinality(OccupiedIds')
    BY DEF RunningCount, OccupiedIds
<1>3. IsFiniteSet(OccupiedIds) /\ RunningCount = Cardinality(OccupiedIds)
    BY OccupiedIsFinite
<1>4. Cardinality(OccupiedIds') <= Cardinality(OccupiedIds)
    BY <1>1, <1>3, FS_Subset
<1>5. Cardinality(OccupiedIds) \in Nat /\ Cardinality(OccupiedIds') \in Nat
    BY <1>1, <1>3, FS_Subset, FS_CardinalityType
<1>. QED
    BY <1>2, <1>3, <1>4, <1>5, CoordinatorAssumption DEF SlotsBounded

\* A step that occupies one more session, when a slot was free.
LEMMA SlotTaken ==
    ASSUME ScopesTyped, SlotFree, NEW s, NEW new, sessions' = Put(sessions, s, new)
    PROVE  SlotsBounded'
<1>1. OccupiedIds' \in SUBSET (OccupiedIds \cup {s})
    BY DEF OccupiedIds, Put
<1>2. RunningCount' = Cardinality(OccupiedIds')
    BY DEF RunningCount, OccupiedIds
<1>3. IsFiniteSet(OccupiedIds) /\ RunningCount = Cardinality(OccupiedIds)
    BY OccupiedIsFinite
<1>4. /\ IsFiniteSet(OccupiedIds \cup {s})
      /\ Cardinality(OccupiedIds \cup {s}) <= Cardinality(OccupiedIds) + 1
      /\ Cardinality(OccupiedIds) \in Nat
    <2>1. Cardinality(OccupiedIds) \in Nat
        BY <1>3, FS_CardinalityType
    <2>2. /\ IsFiniteSet(OccupiedIds \cup {s})
          /\ Cardinality(OccupiedIds \cup {s}) =
                IF s \in OccupiedIds THEN Cardinality(OccupiedIds)
                ELSE Cardinality(OccupiedIds) + 1
        BY <1>3, FS_AddElement
    <2>. QED
        BY <2>1, <2>2
<1>5. Cardinality(OccupiedIds') <= Cardinality(OccupiedIds \cup {s})
    BY <1>1, <1>4, FS_Subset
<1>6. Cardinality(OccupiedIds') \in Nat /\ Cardinality(OccupiedIds \cup {s}) \in Nat
    BY <1>1, <1>4, FS_Subset, FS_CardinalityType
<1>. QED
    BY <1>2, <1>3, <1>4, <1>5, <1>6, CoordinatorAssumption DEF SlotsBounded, SlotFree

\* Every action keeps the occupied sessions within the limit.
LEMMA SlotsStep ==
    ASSUME PlanTyped, SessionsSound, ScopesTyped, SlotsBounded, Next
    PROVE  SlotsBounded'
<1>1. ASSUME NEW plan \in Plans, NEW rev, Reconcile(plan, rev)
      PROVE  SlotsBounded'
    <2>1. \A s \in DOMAIN sessions : Occupied(Revised(sessions[s])) => Occupied(sessions[s])
        BY RevisedSound DEF SessionsSound, Occupied
    <2>. QED
        BY <1>1, <2>1, SlotsKept DEF Reconcile
<1>2. ASSUME NEW id \in CellIdsOf(desired), Retry(id)
      PROVE  SlotsBounded'
    <2>1. \A s \in DOMAIN sessions : Occupied(sessions'[s]) => Occupied(sessions[s])
        BY <1>2 DEF Retry, Occupied
    <2>. QED
        BY <1>2, <2>1, SlotsKept DEF Retry
<1>3. ASSUME NEW i \in DOMAIN desired,
             DispatchCell(i) \/ \E how : DispatchFails(i, how)
      PROVE  SlotsBounded'
    <2>1. PICK s : s = SessionFor(desired[i].cell_id)
        OBVIOUS
    <2>2. PICK new : sessions' = Put(sessions, s, new)
        BY <1>3, <2>1 DEF DispatchCell, DispatchFails
    <2>3. SlotFree
        BY <1>3 DEF DispatchCell, DispatchFails, DispatchTurn
    <2>. QED
        BY <2>2, <2>3, SlotTaken
<1>4. ASSUME NEW s \in DOMAIN sessions, Occupied(sessions[s]), DOMAIN sessions' = DOMAIN sessions,
             \A x \in DOMAIN sessions \ {s} : sessions'[x] = sessions[x]
      PROVE  SlotsBounded'
    BY <1>4, SlotsKept
<1>5. ASSUME NEW s \in DOMAIN sessions,
             \/ ObserveEvent(s)
             \/ \E attempt : RejectForeign(s, attempt)
             \/ RejectRevoked(s)
             \/ \E fault : RejectCurrent(s, fault)
             \/ \E status : CompleteUnsuccessful(s, status)
             \/ CompleteSuccess(s)
             \/ TerminateSession(s)
      PROVE  SlotsBounded'
    <2>1. Occupied(sessions[s])
        BY <1>5 DEF ObserveEvent, RejectForeign, RejectRevoked, RejectCurrent,
            CompleteUnsuccessful, CompleteSuccess, Current, TerminateSession, TerminateTurn,
            Obsolete, HasActive, Active, Occupied
    <2>2. /\ DOMAIN sessions' = DOMAIN sessions
          /\ \A x \in DOMAIN sessions \ {s} : sessions'[x] = sessions[x]
        BY <1>5 DEF ObserveEvent, RejectForeign, RejectRevoked, RejectCurrent,
            CompleteUnsuccessful, CompleteSuccess, Retire, TerminateSession
    <2>. QED
        BY <1>4, <2>1, <2>2
<1>6. ASSUME \/ DispatchReturns \/ TerminateReturns
             \/ \E s \in DOMAIN sessions : TerminateFails(s) \/ RunnerCrashes(s)
      PROVE  SlotsBounded'
    BY <1>6, SlotsKept DEF DispatchReturns, TerminateReturns, TerminateFails, RunnerCrashes
<1>. QED
    BY <1>1, <1>2, <1>3, <1>5, <1>6 DEF Next, Edit, Dispatch, Receive, Terminate

-----------------------------------------------------------------------------
(***************************************************************************)
(* The plan, the calls and the bounds.                                     *)
(***************************************************************************)
BoundsTyped ==
    /\ call \in [op : {"none", "dispatch", "terminate"}, at : Nat]
    /\ edits \in 0..MaxEdits /\ retries \in 0..MaxRetries /\ faults \in 0..MaxFaults

\* The plan, the counters and the looping call keep their types.
LEMMA BoundsStep ==
    ASSUME PlanTyped, ScopesTyped, BoundsTyped, Next
    PROVE  PlanTyped' /\ BoundsTyped'
<1>. USE CoordinatorAssumption
<1>1. ASSUME NEW plan \in Plans, NEW rev \in {revision, revision + 1}, Reconcile(plan, rev)
      PROVE  PlanTyped' /\ BoundsTyped'
    BY <1>1 DEF Reconcile, PlanTyped, BoundsTyped, attemptVars
<1>2. ASSUME NEW id, Retry(id)
      PROVE  PlanTyped' /\ BoundsTyped'
    BY <1>2 DEF Retry, PlanTyped, BoundsTyped, planVars, attemptVars
<1>3. ASSUME NEW i \in DOMAIN desired, DispatchCell(i)
      PROVE  PlanTyped' /\ BoundsTyped'
    <2>1. i \in Nat
        BY DesiredIsPlan, PlanDomain DEF PlanTyped
    <2>. QED
        BY <1>3, <2>1 DEF DispatchCell, PlanTyped, BoundsTyped, planVars, envVars
<1>4. ASSUME NEW n \in {0, 1}, NEW clean \in Shutdowns(n), UseFaults(n, clean),
             n = 1 => faults < MaxFaults
      PROVE  faults' \in 0..MaxFaults
    <2>1. MaxFaults \in Nat /\ faults \in 0..MaxFaults
        BY DEF BoundsTyped
    <2>2. faults + n <= MaxFaults
        BY <1>4, <2>1
    <2>3. CASE clean
        BY <1>4, <2>1, <2>2, <2>3 DEF UseFaults
    <2>4. CASE ~ clean
        <3>1. faults + n < MaxFaults
            BY <2>4 DEF Shutdowns
        <3>. QED
            BY <1>4, <2>1, <2>4, <3>1 DEF UseFaults
    <2>. QED
        BY <2>3, <2>4
<1>5. ASSUME NEW i, NEW how, DispatchFails(i, how)
      PROVE  PlanTyped' /\ BoundsTyped'
    <2>1. faults' \in 0..MaxFaults
        <3>1. PICK clean \in IF how = "invalid_start" THEN Shutdowns(1) ELSE {TRUE} :
                UseFaults(1, clean)
            BY <1>5 DEF DispatchFails
        <3>2. clean \in Shutdowns(1)
            BY <3>1 DEF Shutdowns
        <3>. QED
            BY <1>4, <1>5, <3>1, <3>2 DEF DispatchFails, CanFault
    <2>2. UNCHANGED <<planVars, envVars>> /\ call' = Returned
          /\ (next_attempt' = next_attempt \/ next_attempt' = next_attempt + 1)
        BY <1>5 DEF DispatchFails, attemptVars
    <2>. QED
        BY <2>1, <2>2 DEF PlanTyped, BoundsTyped, planVars, envVars, Returned
<1>6. ASSUME NEW s \in DOMAIN sessions, Receive
      PROVE  PlanTyped' /\ BoundsTyped'
    <2>1. faults' \in 0..MaxFaults
        BY <1>4, <1>6 DEF Receive, ObserveEvent, RejectForeign, RejectRevoked, RejectCurrent,
            CompleteUnsuccessful, CompleteSuccess, CanFault, BoundsTyped
    <2>2. UNCHANGED <<planVars, next_attempt, envVars, call>>
        BY <1>6 DEF Receive, ObserveEvent, RejectForeign, RejectRevoked, RejectCurrent,
            CompleteUnsuccessful, CompleteSuccess, attemptVars
    <2>. QED
        BY <2>1, <2>2 DEF PlanTyped, BoundsTyped, planVars, envVars
<1>7. ASSUME NEW s \in DOMAIN sessions,
             TerminateSession(s) \/ TerminateFails(s) \/ RunnerCrashes(s)
      PROVE  PlanTyped' /\ BoundsTyped'
    <2>1. s \in Nat
        BY DEF ScopesTyped
    <2>. QED
        BY <1>7, <2>1 DEF TerminateSession, TerminateFails, RunnerCrashes, CanFault, Returned,
            PlanTyped, BoundsTyped, planVars, envVars, attemptVars
<1>8. ASSUME DispatchReturns \/ TerminateReturns
      PROVE  PlanTyped' /\ BoundsTyped'
    BY <1>8 DEF DispatchReturns, TerminateReturns, Returned, PlanTyped, BoundsTyped,
        planVars, envVars, attemptVars
<1>. QED
    BY <1>1, <1>2, <1>3, <1>5, <1>6, <1>7, <1>8
    DEF Next, Edit, Dispatch, Receive, Terminate

-----------------------------------------------------------------------------
(***************************************************************************)
(* The inductive invariant and what follows from it.                       *)
(***************************************************************************)
IInv ==
    /\ PlanTyped /\ BoundsTyped
    /\ SessionsSound /\ ResultsSound
    /\ ScopesTyped /\ AttemptsAccountedFor /\ SlotsBounded

\* Before the first reconcile there is no plan, no session and no result.
LEMMA InitInvariant == Init => IInv
<1>. SUFFICES ASSUME Init PROVE IInv
    OBVIOUS
<1>. USE DEF Init
<1>1. DOMAIN desired = {} /\ CellIdsOf(desired) = {}
    BY DEF CellIdsOf
<1>2. PlanTyped /\ BoundsTyped
    BY CoordinatorAssumption DEF PlanTyped, BoundsTyped, Returned
<1>3. SessionsSound /\ ScopesTyped
    BY <1>1 DEF SessionsSound, ScopesTyped
<1>4. ResultsSound
    BY <1>1 DEF ResultsSound, StatesTyped, ResultsTyped, ResultsMatchCleanBuild, StoreIsSound,
        SucceededHasResult
<1>5. AttemptsAccountedFor
    BY DEF AttemptsAccountedFor, ActiveIds
<1>6. SlotsBounded
    <2>1. {s \in DOMAIN sessions : Occupied(sessions[s])} = {}
        OBVIOUS
    <2>. QED
        BY <2>1, FS_EmptySet, CoordinatorAssumption DEF SlotsBounded, RunningCount
<1>. QED
    BY <1>2, <1>3, <1>4, <1>5, <1>6 DEF IInv

\* The coordinator's inductive invariant holds for every set of plans, every
\* limit, every choice of faults and every bound.
THEOREM Invariance == Spec => []IInv
<1>1. IInv /\ [Next]_vars => IInv'
    <2>1. ASSUME IInv, Next PROVE IInv'
        BY <2>1, BoundsStep, SessionsStep, ResultsStep, ScopesStep, AttemptsStep, SlotsStep
        DEF IInv
    <2>2. ASSUME IInv, UNCHANGED vars PROVE IInv'
        <3>. USE <2>2 DEF vars, planVars, resultVars, stateVars, attemptVars, scopeVars, envVars
        <3>1. PlanTyped' /\ BoundsTyped' /\ SessionsSound' /\ ScopesTyped'
            BY DEF IInv, PlanTyped, BoundsTyped, SessionsSound, ScopesTyped
        <3>2. ResultsSound'
            BY DEF IInv, ResultsSound, StatesTyped, ResultsTyped, ResultsMatchCleanBuild,
                StoreIsSound, SucceededHasResult
        <3>3. AttemptsAccountedFor'
            BY DEF IInv, AttemptsAccountedFor, ActiveIds, HasActive, Active
        <3>4. SlotsBounded'
            BY DEF IInv, SlotsBounded, RunningCount
        <3>. QED
            BY <3>1, <3>2, <3>3, <3>4 DEF IInv
    <2>. QED
        BY <2>1, <2>2
<1>. QED
    BY <1>1, InitInvariant, PTL DEF Spec

\* Every variable keeps its type, and the maps that the code keeps in step keep
\* matching domains.
THEOREM TypeCorrect == Spec => []TypeOK
<1>1. IInv => TypeOK
    <2>. SUFFICES ASSUME IInv PROVE TypeOK
        OBVIOUS
    <2>1. \A s \in DOMAIN sessions : /\ sessions[s] \in Sessions
                                     /\ runners[s] \in [materialized : Keys,
                                                        memory : Keys \cup {Dead, Dirty}]
        BY DEF IInv, SessionsSound, SessionSound, Runners
    <2>2. retired \subseteq 1..(next_attempt - 1)
        BY DEF IInv, AttemptsAccountedFor
    <2>. QED
        BY <2>1, <2>2 DEF IInv, TypeOK, PlanTyped, BoundsTyped, SessionsSound, ScopesTyped,
            ResultsSound, StatesTyped, ResultsTyped
<1>. QED
    BY <1>1, Invariance, PTL

\* Whatever was edited, retried, interrupted or lost before, a result held for
\* the current plan is the output of a clean build of that plan (reconcile,
\* dispatch_ready, complete).
THEOREM ResultsCorrect == Spec => []ResultsMatchCleanBuild
BY Invariance, PTL DEF IInv, ResultsSound

\* The store only ever holds outputs of clean executions, never volatile ones
\* (complete).
THEOREM StoreCorrect == Spec => []StoreIsSound
BY Invariance, PTL DEF IInv, ResultsSound

\* A current attempt runs in an interpreter in the state it requires, and a
\* verified state the interpreter still claims is its real state
\* (dispatch_ready, complete).
THEOREM InterpretersVerified == Spec => []InterpreterStateIsVerified
<1>1. IInv => InterpreterStateIsVerified
    BY DEF IInv, SessionsSound, SessionSound, WorkIsCurrent, StateIsVerified,
           InterpreterStateIsVerified, HasActive, Active
<1>. QED
    BY <1>1, Invariance, PTL

\* Every attempt ever dispatched is active in one session or retired for good
\* (dispatch_ready, receive, complete, reject, terminate_obsolete).
THEOREM AttemptsCorrect == Spec => []AttemptsAccountedFor
BY Invariance, PTL DEF IInv

\* Running work and uncleaned runners never exceed max_concurrent (dispatch_ready).
THEOREM SlotsCorrect == Spec => []SlotsBounded
BY Invariance, PTL DEF IInv

\* The expect, unwrap and unreachable! of dispatch_ready, fail_target, complete
\* and cell_view are never reached.
THEOREM NoAssertionFails == Spec => []AssertionsHold
<1>1. IInv => AssertionsHold
    <2>. SUFFICES ASSUME IInv PROVE AssertionsHold
        OBVIOUS
    <2>1. Plan(desired) /\ SessionsSound /\ DOMAIN states = CellIdsOf(desired)
        BY DesiredIsPlan DEF IInv, PlanTyped, ResultsSound, StatesTyped
    <2>2. ASSUME NEW id \in DOMAIN states, NEW s, s = SessionFor(id),
                 Dispatchable(id), ContinuingReplay(id, s)
          PROVE  \E c \in CellIdsOf(desired) :
                    id \in Suffix(desired, c) /\ RequiredKey(desired, c) = Opened(s).verified_state
        <3>1. id \in CellIds
            BY <2>1, IndexOfId
        <3>2. /\ Opened(s).active = NoAttempt /\ Opened(s).replay_target = id
              /\ Opened(s).verified_state # NoKey
            BY <2>2 DEF Dispatchable, ContinuingReplay, Occupied
        <3>3. ReplayInPrefix(Opened(s), desired)
            BY <2>1, OpenedSound DEF SessionSound
        <3>4. PICK c \in CellIdsOf(desired) \ {id} :
                id \in Suffix(desired, c) /\ Opened(s).verified_state = ResultingKey(desired, c)
            BY <3>1, <3>2, <3>3, PlanAssumption DEF ReplayInPrefix
        <3>. QED
            BY <2>1, <3>4, ReplayContinues
    <2>3. \A s \in CurrentSessions : Active(s).target \in CellIdsOf(desired)
        BY <2>1 DEF CurrentSessions, HasActive, Active, SessionsSound, SessionSound,
                    WorkIsCurrent, AttemptOf
    <2>. QED
        BY <2>2, <2>3 DEF AssertionsHold, IInv, ResultsSound, SucceededHasResult
<1>. QED
    BY <1>1, Invariance, PTL

-----------------------------------------------------------------------------
(***************************************************************************)
(* The order of a chain, in terms of handles.                              *)
(***************************************************************************)
\* id comes later than c in the chain of c.
Behind(p, c, id) == id # c /\ id \in Suffix(p, c)

\* Behind is the order of positions in a chain (chain_predecessors).
LEMMA BehindDef ==
    ASSUME NEW p, Plan(p), NEW c \in CellIdsOf(p), NEW id \in CellIdsOf(p)
    PROVE  /\ Behind(p, c, id) <=> Precedes(p, IndexOf(p, c), IndexOf(p, id))
           /\ c = id <=> IndexOf(p, c) = IndexOf(p, id)
<1>1. /\ IndexOf(p, c) \in DOMAIN p /\ p[IndexOf(p, c)].cell_id = c
      /\ IndexOf(p, id) \in DOMAIN p /\ p[IndexOf(p, id)].cell_id = id
    BY IndexOfId
<1>. QED
    BY <1>1, SuffixDef, PrecedesOrder DEF Behind

\* The cells behind a cell, and those before it, are linearly ordered.
LEMMA BehindOrder ==
    ASSUME NEW p, Plan(p), NEW c \in CellIdsOf(p), NEW d \in CellIdsOf(p),
           NEW e \in CellIdsOf(p)
    PROVE  /\ ~ Behind(p, c, c)
           /\ Behind(p, c, d) => ~ Behind(p, d, c)
           /\ Behind(p, c, d) /\ Behind(p, d, e) => Behind(p, c, e)
           /\ Behind(p, c, e) /\ Behind(p, d, e) /\ c # d => Behind(p, c, d) \/ Behind(p, d, c)
           /\ Behind(p, c, d) /\ Behind(p, c, e) /\ d # e => Behind(p, d, e) \/ Behind(p, e, d)
<1>. DEFINE i == IndexOf(p, c)
            j == IndexOf(p, d)
            k == IndexOf(p, e)
<1>1. /\ i \in DOMAIN p /\ j \in DOMAIN p /\ k \in DOMAIN p
      /\ c = d <=> i = j
      /\ d = e <=> j = k
    BY IndexOfId, BehindDef
<1>2. /\ Behind(p, c, c) <=> Precedes(p, i, i)
      /\ Behind(p, c, d) <=> Precedes(p, i, j)
      /\ Behind(p, d, c) <=> Precedes(p, j, i)
      /\ Behind(p, d, e) <=> Precedes(p, j, k)
      /\ Behind(p, c, e) <=> Precedes(p, i, k)
      /\ Behind(p, e, d) <=> Precedes(p, k, j)
    BY BehindDef
<1>. HIDE DEF i, j, k
<1>3. /\ i < j \/ i = j \/ j < i
      /\ j < k \/ j = k \/ k < j
    BY <1>1, PrecedesOrder
<1>. QED
    BY <1>1, <1>2, <1>3, PrecedesOrder

\* A chain is stateful and has one scope; its cells stand in document order.
LEMMA BehindScope ==
    ASSUME NEW p, Plan(p), NEW c \in CellIdsOf(p), NEW id \in CellIdsOf(p), Behind(p, c, id)
    PROVE  /\ ~ IsIsolated(CellOf(p, c)) /\ ~ IsIsolated(CellOf(p, id))
           /\ Scope(CellOf(p, c)) = Scope(CellOf(p, id))
           /\ IndexOf(p, c) < IndexOf(p, id)
<1>1. Precedes(p, IndexOf(p, c), IndexOf(p, id))
    BY BehindDef
<1>2. CellOf(p, c) = p[IndexOf(p, c)] /\ CellOf(p, id) = p[IndexOf(p, id)]
    BY DEF CellOf
<1>. QED
    BY <1>1, <1>2 DEF Precedes, IsIsolated, Scope

\* The immediate predecessor is the last cell a cell is behind, if there is one.
LEMMA PredecessorIs ==
    ASSUME NEW p, Plan(p), NEW id \in CellIdsOf(p), NEW before, before = Predecessor(p, id)
    PROVE  /\ before # NoCell => before \in CellIdsOf(p) /\ Behind(p, before, id)
           /\ \A c \in CellIdsOf(p) : Behind(p, c, id) =>
                 before # NoCell /\ (c = before \/ Behind(p, c, before))
<1>. DEFINE j == IndexOf(p, id)
<1>1. j \in DOMAIN p /\ p[j].cell_id = id
    BY IndexOfId
<1>. HIDE DEF j
<1>2. CASE Before(p, j) = {}
    <2>1. before = NoCell
        BY <1>2 DEF Predecessor, j
    <2>2. ASSUME NEW c \in CellIdsOf(p), Behind(p, c, id) PROVE FALSE
        <3>1. IndexOf(p, c) \in DOMAIN p /\ Precedes(p, IndexOf(p, c), j)
            BY <2>2, IndexOfId, BehindDef DEF j
        <3>. QED
            BY <1>2, <3>1, BeforeDef
    <2>. QED
        BY <2>1, <2>2
<1>3. CASE Before(p, j) # {}
    <2>1. \E m \in Before(p, j) : \A k \in Before(p, j) : k <= m
        BY <1>1, <1>3, HasLast
    <2>2. PICK m : m = CHOOSE i \in Before(p, j) : \A k \in Before(p, j) : k <= i
        OBVIOUS
    <2>3. m \in Before(p, j) /\ \A k \in Before(p, j) : k <= m
        BY <2>1, <2>2
    <2>4. before = p[m].cell_id
        BY <1>3, <2>2 DEF Predecessor, j
    <2>5. m \in DOMAIN p /\ Precedes(p, m, j) /\ before \in CellIdsOf(p) /\ IndexOf(p, before) = m
        BY <2>3, <2>4, BeforeDef, IndexOfCell
    <2>6. before # NoCell /\ Behind(p, before, id)
        BY <2>5, BehindDef, IndexOfId, PlanAssumption DEF j
    <2>7. ASSUME NEW c \in CellIdsOf(p), Behind(p, c, id), c # before
          PROVE  Behind(p, c, before)
        <3>1. IndexOf(p, c) \in Before(p, j)
            BY <2>7, IndexOfId, BehindDef, BeforeDef DEF j
        <3>2. IndexOf(p, c) <= m /\ IndexOf(p, c) # m
            BY <2>3, <2>5, <2>7, <3>1, BehindDef
        <3>3. IndexOf(p, c) \in DOMAIN p /\ Precedes(p, IndexOf(p, c), j) /\ IndexOf(p, c) < m
            BY <2>5, <3>1, <3>2, BeforeDef, PlanDomain
        <3>. QED
            BY <1>1, <2>5, <3>3, PrecedesOrder, BehindDef
    <2>. QED
        BY <2>5, <2>6, <2>7
<1>. QED
    BY <1>2, <1>3

\* Among the cells with a property that a cell is behind, one comes first.
LEMMA FirstOf ==
    ASSUME NEW p, Plan(p), NEW id \in CellIdsOf(p), NEW T \in SUBSET CellIdsOf(p), T # {},
           \A c \in T : Behind(p, c, id)
    PROVE  \E c \in T : \A d \in CellIdsOf(p) : Behind(p, d, c) => d \notin T
<1>. DEFINE I == {IndexOf(p, c) : c \in T}
<1>1. I \in SUBSET Nat /\ I # {}
    BY IndexOfId, PlanDomain
<1>2. PICK i \in I : \A k \in I : i <= k
    BY <1>1, LeastNat
<1>3. PICK c \in T : i = IndexOf(p, c)
    OBVIOUS
<1>4. ASSUME NEW d \in T, Behind(p, d, c) PROVE FALSE
    <2>1. IndexOf(p, d) < i
        BY <1>3, <1>4, BehindScope
    <2>2. i <= IndexOf(p, d) /\ i \in Nat /\ IndexOf(p, d) \in Nat
        BY <1>1, <1>2
    <2>. QED
        BY <2>1, <2>2
<1>. QED
    BY <1>4

-----------------------------------------------------------------------------
(***************************************************************************)
(* The invariant.                                                          *)
(***************************************************************************)
Broken == {"Failed", "Cancelled", "Blocked"}

\* What may follow what along a chain: behind a broken cell only cells that
\* are blocked or wait, before a running cell only successes.
ChainShape ==
    \A c, id \in CellIdsOf(desired) : Behind(desired, c, id) =>
        /\ states[c] \in Broken => states[id] \in {"Blocked", "Pending"}
        /\ states[id] = "Running" => states[c] = "Succeeded"

\* Only a success, or a success whose prefix broke later, has a result.
ResultIsOfSuccess ==
    \A id \in DOMAIN results : states[id] \in {"Succeeded", "Blocked"}

\* A dispatch_ready in progress has left nothing to dispatch behind it.
PassedOver ==
    call.op = "dispatch" =>
        \A i \in DOMAIN desired : i <= call.at => ~ Dispatchable(desired[i].cell_id)

\* A fallback is held only while there is no result.
ShownOnce == DOMAIN results \cap DOMAIN last_good = {}

\* Work in progress was dispatched for the latest revision.
WorkIsOfRevision == \A s \in CurrentSessions : Active(s).source_revision = revision

WorkInv ==
    /\ RunningIsAttempted /\ ChainShape /\ BlockedHasCause /\ ResultIsOfSuccess
    /\ PassedOver /\ ShownOnce /\ WorkIsOfRevision

-----------------------------------------------------------------------------
(***************************************************************************)
(* Work starts in the order of its chain.                                  *)
(***************************************************************************)
\* Every cell that id is behind has succeeded.
PrefixDone(id) ==
    \A c \in CellIdsOf(desired) : Behind(desired, c, id) => states[c] = "Succeeded"

\* What the invariant says of the desired plan.
LEMMA PlanKnown ==
    ASSUME IInv
    PROVE  /\ Plan(desired) /\ next_attempt \in Nat \ {0} /\ revision \in Nat
           /\ DOMAIN states = CellIdsOf(desired)
           /\ \A id \in CellIdsOf(desired) : states[id] \in CellStates
           /\ \A id \in CellIdsOf(desired) :
                 Scope(CellOf(desired, id)) \in DOMAIN session_ids
<1>1. Plan(desired)
    BY DesiredIsPlan DEF IInv, PlanTyped
<1>2. \A id \in CellIdsOf(desired) : Scope(CellOf(desired, id)) \in DOMAIN session_ids
    BY <1>1, IndexOfId DEF IInv, ScopesTyped
<1>. QED
    BY <1>1, <1>2 DEF IInv, PlanTyped, ResultsSound, StatesTyped

\* The cells of one chain share their session (session_ids, dispatch_ready).
LEMMA SharedSession ==
    ASSUME Plan(desired), NEW c \in CellIdsOf(desired), NEW id \in CellIdsOf(desired),
           Behind(desired, c, id)
    PROVE  /\ SessionFor(c) = SessionFor(id)
           /\ SessionFor(id) = session_ids[Scope(CellOf(desired, id))]
BY BehindScope DEF SessionFor, NeedsFreshSession

\* The session of a running cell is occupied.
LEMMA RunningOccupies ==
    ASSUME RunningIsAttempted, NEW id \in DOMAIN states, states[id] = "Running"
    PROVE  /\ session_ids[Scope(CellOf(desired, id))] \in CurrentSessions
           /\ Active(session_ids[Scope(CellOf(desired, id))]).target = id
           /\ Occupied(Opened(session_ids[Scope(CellOf(desired, id))]))
<1>1. PICK s \in CurrentSessions : Active(s).target = id
    BY DEF RunningIsAttempted
<1>2. session_ids[Scope(CellOf(desired, id))] = s
    BY <1>1 DEF RunningIsAttempted
<1>. QED
    BY <1>1, <1>2 DEF CurrentSessions, HasActive, Active, Opened, Occupied

\* The loop reaches a cell only when its whole prefix has succeeded, although it
\* asks for the immediate predecessor alone (dispatch_ready).
LEMMA DispatchIsReady ==
    ASSUME IInv, WorkInv, NEW i \in DOMAIN desired, DispatchTurn(i)
    PROVE  PrefixDone(desired[i].cell_id)
<1>. DEFINE id == desired[i].cell_id
            T == {c \in CellIdsOf(desired) : Behind(desired, c, id) /\ states[c] # "Succeeded"}
<1>0. /\ Plan(desired) /\ DOMAIN states = CellIdsOf(desired)
      /\ \A c \in CellIdsOf(desired) : states[c] \in CellStates
    BY PlanKnown
<1>1. id \in CellIdsOf(desired) /\ IndexOf(desired, id) = i
    BY <1>0, IndexOfCell
<1>2. /\ states[id] = "Pending" /\ ~ Occupied(Opened(SessionFor(id)))
      /\ Predecessor(desired, id) # NoCell => states[Predecessor(desired, id)] = "Succeeded"
    BY DEF DispatchTurn, Dispatchable
<1>. HIDE DEF id
<1>. SUFFICES ASSUME T # {} PROVE FALSE
    BY DEF PrefixDone, id
<1>3. PICK c \in T : \A d \in CellIdsOf(desired) : Behind(desired, d, c) => d \notin T
    BY <1>0, <1>1, FirstOf
<1>4. c \in CellIdsOf(desired) /\ Behind(desired, c, id) /\ states[c] # "Succeeded"
    BY <1>3
<1>5. \A d \in CellIdsOf(desired) : Behind(desired, d, c) => states[d] = "Succeeded"
    BY <1>0, <1>1, <1>3, <1>4, BehindOrder
<1>6. ~ Occupied(Opened(SessionFor(c))) /\ SessionFor(c) = session_ids[Scope(CellOf(desired, c))]
    BY <1>0, <1>1, <1>2, <1>4, SharedSession, BehindScope
<1>7. CASE states[c] = "Running"
    BY <1>0, <1>4, <1>6, <1>7, RunningOccupies DEF WorkInv
<1>8. CASE states[c] = "Pending"
    <2>1. Dispatchable(c)
        BY <1>0, <1>4, <1>5, <1>6, <1>8, PredecessorIs DEF Dispatchable
    <2>2. PICK k : k = IndexOf(desired, c)
        OBVIOUS
    <2>3. k \in DOMAIN desired /\ desired[k].cell_id = c /\ k < i
        BY <1>0, <1>1, <1>4, <2>2, IndexOfId, BehindScope
    <2>4. ~ At("dispatch") < k
        BY <2>1, <2>3 DEF DispatchTurn
    <2>5. call.at \in Nat /\ k \in Nat /\ k >= 1
        BY <1>0, <2>3, PlanDomain DEF IInv, BoundsTyped
    <2>6. call.op = "dispatch" /\ k <= call.at
        BY <2>4, <2>5 DEF At
    <2>. QED
        BY <2>1, <2>3, <2>6 DEF WorkInv, PassedOver
<1>9. CASE states[c] \in Broken
    <2>1. PICK before : before = Predecessor(desired, id)
        OBVIOUS
    <2>2. /\ before # NoCell /\ before \in CellIdsOf(desired)
          /\ c = before \/ Behind(desired, c, before)
        BY <1>0, <1>1, <1>4, <2>1, PredecessorIs
    <2>3. states[before] = "Succeeded"
        BY <1>2, <2>1, <2>2
    <2>. QED
        BY <1>4, <1>9, <2>2, <2>3 DEF WorkInv, ChainShape, Broken
<1>. QED
    BY <1>0, <1>4, <1>7, <1>8, <1>9 DEF CellStates, Broken

\* So has the prefix of a cell some current attempt works for.
LEMMA RunningIsReady ==
    ASSUME IInv, WorkInv, NEW s \in CurrentSessions
    PROVE  /\ Active(s).target \in CellIdsOf(desired)
           /\ states[Active(s).target] = "Running" /\ PrefixDone(Active(s).target)
<1>1. Active(s).target \in DOMAIN states /\ states[Active(s).target] = "Running"
    BY DEF WorkInv, RunningIsAttempted
<1>. QED
    BY <1>1, PlanKnown DEF WorkInv, ChainShape, PrefixDone

-----------------------------------------------------------------------------
(***************************************************************************)
(* What a step does to the progress of cells.                              *)
(***************************************************************************)
Starts(id) ==
    /\ states[id] = "Pending"
    /\ states' = [states EXCEPT ![id] = "Running"]
    /\ UNCHANGED <<desired, resultVars, diagnostics>>

Fails(id) ==
    /\ states[id] \in {"Pending", "Running"}
    /\ \E status \in {"Failed", "Cancelled"} : FailTarget(id, status)
    /\ UNCHANGED <<desired, resultVars>>

Finishes(id) ==
    /\ states[id] = "Running"
    /\ \E s \in CurrentSessions : Active(s).target = id /\ CompleteSuccess(s)

Rests == UNCHANGED <<desired, resultVars, stateVars>>

\* Every step edits, retries, or moves at most one cell, whose prefix is done.
LEMMA StepKinds ==
    ASSUME IInv, WorkInv, Next
    PROVE  \/ \E plan \in Plans, rev \in {revision, revision + 1} : Reconcile(plan, rev)
           \/ \E id \in CellIdsOf(desired) : Retry(id)
           \/ \E id \in CellIdsOf(desired) :
                 PrefixDone(id) /\ (Starts(id) \/ Fails(id) \/ Finishes(id))
           \/ Rests
<1>0. Plan(desired)
    BY PlanKnown
<1>1. ASSUME NEW i \in DOMAIN desired, DispatchCell(i) \/ \E how : DispatchFails(i, how)
      PROVE  \E id \in CellIdsOf(desired) : PrefixDone(id) /\ (Starts(id) \/ Fails(id))
    <2>1. PICK id : id = desired[i].cell_id
        OBVIOUS
    <2>2. id \in CellIdsOf(desired)
        BY <1>0, <2>1, IndexOfCell
    <2>3. DispatchTurn(i)
        BY <1>1 DEF DispatchCell, DispatchFails
    <2>4. PrefixDone(id) /\ states[id] = "Pending"
        BY <2>1, <2>3, DispatchIsReady DEF DispatchTurn, Dispatchable
    <2>5. CASE DispatchCell(i)
        BY <2>1, <2>2, <2>4, <2>5 DEF DispatchCell, Starts, planVars
    <2>6. CASE \E how : DispatchFails(i, how)
        BY <2>1, <2>2, <2>4, <2>6 DEF DispatchFails, Fails, planVars
    <2>. QED
        BY <1>1, <2>5, <2>6
<1>2. ASSUME NEW s \in CurrentSessions, NEW status \in {"Failed", "Cancelled"},
             FailTarget(Active(s).target, status), UNCHANGED <<desired, resultVars>>
      PROVE  \E id \in CellIdsOf(desired) : PrefixDone(id) /\ Fails(id)
    BY <1>2, RunningIsReady DEF Fails
<1>3. ASSUME NEW s \in DOMAIN sessions, NEW attempt, RejectForeign(s, attempt)
      PROVE  Rests \/ \E id \in CellIdsOf(desired) : PrefixDone(id) /\ Fails(id)
    <2>1. CASE Active(s).revoked
        BY <1>3, <2>1 DEF RejectForeign, Rests, planVars
    <2>2. CASE ~ Active(s).revoked
        BY <1>2, <1>3, <2>2 DEF RejectForeign, CurrentSessions, planVars
    <2>. QED
        BY <2>1, <2>2
<1>4. ASSUME NEW s \in DOMAIN sessions,
             \/ \E fault \in Faults : RejectCurrent(s, fault)
             \/ \E status \in Failures : CompleteUnsuccessful(s, status)
      PROVE  \E id \in CellIdsOf(desired) : PrefixDone(id) /\ Fails(id)
    <2>1. \E status \in {"Failed", "Cancelled"} :
            FailTarget(Active(s).target, status) /\ UNCHANGED <<desired, resultVars>>
        BY <1>4, CoordinatorAssumption DEF RejectCurrent, CompleteUnsuccessful, planVars
    <2>2. s \in CurrentSessions
        BY <1>4 DEF RejectCurrent, CompleteUnsuccessful, Current, CurrentSessions
    <2>. QED
        BY <1>2, <2>1, <2>2
<1>5. ASSUME NEW s \in DOMAIN sessions, CompleteSuccess(s)
      PROVE  \E id \in CellIdsOf(desired) : PrefixDone(id) /\ Finishes(id)
    <2>1. s \in CurrentSessions
        BY <1>5 DEF CompleteSuccess, Current, CurrentSessions
    <2>. QED
        BY <1>5, <2>1, RunningIsReady DEF Finishes
<1>6. ASSUME \/ DispatchReturns \/ TerminateReturns
             \/ \E s \in DOMAIN sessions :
                   ObserveEvent(s) \/ RejectRevoked(s) \/ TerminateSession(s)
                   \/ TerminateFails(s) \/ RunnerCrashes(s)
      PROVE  Rests
    BY <1>6 DEF DispatchReturns, TerminateReturns, ObserveEvent, RejectRevoked,
        TerminateSession, TerminateFails, RunnerCrashes, Rests, planVars
<1>. QED
    BY <1>1, <1>3, <1>4, <1>5, <1>6 DEF Next, Edit, Dispatch, Receive, Terminate

\* Where a plan is kept, finishing changes the state of its cell alone.
LEMMA FinishedIs ==
    ASSUME NEW id, Finishes(id)
    PROVE  /\ UNCHANGED desired
           /\ \/ /\ states' = [states EXCEPT ![id] = "Pending"]
                 /\ UNCHANGED <<resultVars, diagnostics>>
              \/ /\ states' = [states EXCEPT ![id] = "Succeeded"]
                 /\ diagnostics' = Without(diagnostics, {id})
                 /\ last_good' = Without(last_good, {id})
                 /\ \E r : results' = Put(results, id, r)
BY DEF Finishes, CompleteSuccess, AcceptReplay, AcceptResult, planVars

-----------------------------------------------------------------------------
(***************************************************************************)
(* Progress along a chain.                                                 *)
(***************************************************************************)
\* Every action keeps the shape of chains: a failure blocks what follows, and
\* nothing starts behind it.
LEMMA ShapeStep ==
    ASSUME IInv, WorkInv, Next
    PROVE  ChainShape'
<1>0. /\ Plan(desired) /\ DOMAIN states = CellIdsOf(desired)
      /\ ChainShape
    BY PlanKnown DEF WorkInv
<1>1. ASSUME NEW plan \in Plans, NEW rev, Reconcile(plan, rev)
      PROVE  ChainShape'
    <2>1. desired' = plan /\ \A id \in CellIdsOf(plan) : states'[id] \in {"Succeeded", "Pending"}
        BY <1>1 DEF Reconcile
    <2>. QED
        BY <2>1 DEF ChainShape, Broken
<1>2. ASSUME NEW id \in CellIdsOf(desired), Retry(id)
      PROVE  ChainShape'
    <2>1. /\ desired' = desired
          /\ \A c \in CellIdsOf(desired) : states'[c] =
                IF c = id \/ Behind(desired, id, c) THEN "Pending" ELSE states[c]
        BY <1>0, <1>2, SuffixIds DEF Retry, planVars, Behind
    <2>2. ASSUME NEW c \in CellIdsOf(desired), NEW e \in CellIdsOf(desired), Behind(desired, c, e)
          PROVE  /\ states'[c] \in Broken => states'[e] \in {"Blocked", "Pending"}
                 /\ states'[e] = "Running" => states'[c] = "Succeeded"
        <3>1. c = id \/ Behind(desired, id, c) => Behind(desired, id, e)
            BY <1>0, <2>2, BehindOrder
        <3>. QED
            BY <1>0, <2>1, <2>2, <3>1 DEF ChainShape, Broken
    <2>. QED
        BY <2>1, <2>2 DEF ChainShape
<1>3. ASSUME NEW id \in CellIdsOf(desired), PrefixDone(id), Fails(id)
      PROVE  ChainShape'
    <2>1. PICK status \in {"Failed", "Cancelled"} :
            /\ desired' = desired
            /\ \A c \in CellIdsOf(desired) : states'[c] =
                  IF c = id THEN status
                  ELSE IF Behind(desired, id, c) THEN "Blocked" ELSE states[c]
        BY <1>0, <1>3 DEF Fails, FailTarget, Behind
    <2>2. ASSUME NEW c \in CellIdsOf(desired), NEW e \in CellIdsOf(desired), Behind(desired, c, e)
          PROVE  /\ states'[c] \in Broken => states'[e] \in {"Blocked", "Pending"}
                 /\ states'[e] = "Running" => states'[c] = "Succeeded"
        <3>1. CASE c = id \/ Behind(desired, id, c)
            <4>1. Behind(desired, id, e) /\ e # id
                BY <1>0, <2>2, <3>1, BehindOrder DEF Behind
            <4>. QED
                BY <2>1, <4>1
        <3>2. CASE c # id /\ ~ Behind(desired, id, c)
            <4>1. e = id \/ Behind(desired, id, e) => Behind(desired, c, id)
                BY <1>0, <2>2, <3>2, BehindOrder
            <4>2. Behind(desired, c, id) => states[c] = "Succeeded"
                BY <1>3 DEF PrefixDone
            <4>. QED
                BY <1>0, <2>1, <2>2, <3>2, <4>1, <4>2 DEF ChainShape, Broken
        <3>. QED
            BY <3>1, <3>2
    <2>. QED
        BY <2>1, <2>2 DEF ChainShape
<1>4. ASSUME NEW id \in CellIdsOf(desired), PrefixDone(id), Starts(id) \/ Finishes(id)
      PROVE  ChainShape'
    <2>1. /\ desired' = desired /\ states[id] \in {"Pending", "Running"}
          /\ \E new \in {"Running", "Pending", "Succeeded"} : states' = [states EXCEPT ![id] = new]
          /\ states'[id] = "Running" => states[id] = "Pending"
        BY <1>0, <1>4, FinishedIs DEF Starts, Finishes
    <2>2. ASSUME NEW c \in CellIdsOf(desired), NEW e \in CellIdsOf(desired), Behind(desired, c, e)
          PROVE  /\ states'[c] \in Broken => states'[e] \in {"Blocked", "Pending"}
                 /\ states'[e] = "Running" => states'[c] = "Succeeded"
        <3>1. c # e
            BY <2>2 DEF Behind
        <3>2. Behind(desired, c, id) => states[c] = "Succeeded"
            BY <1>4 DEF PrefixDone
        <3>. QED
            BY <1>0, <2>1, <2>2, <3>1, <3>2 DEF ChainShape, Broken
    <2>. QED
        BY <2>1, <2>2 DEF ChainShape
<1>5. ASSUME Rests
      PROVE  ChainShape'
    BY <1>0, <1>5 DEF Rests, ChainShape, stateVars
<1>. QED
    BY <1>1, <1>2, <1>3, <1>4, <1>5, StepKinds

\* Every action keeps a cause for every blocked cell, named by its diagnostics.
LEMMA BlockedStep ==
    ASSUME IInv, WorkInv, Next
    PROVE  BlockedHasCause'
<1>. DEFINE Caused(id) ==
              states[id] = "Blocked" =>
                 LET before == Predecessor(desired, id)
                 IN  /\ before # NoCell
                     /\ states[before] \in {"Failed", "Cancelled", "Blocked"}
                     /\ id \in DOMAIN diagnostics /\ diagnostics[id] = before
            Own(id) ==
              states[id] \in {"Failed", "Cancelled"} <=>
                 id \in DOMAIN diagnostics /\ diagnostics[id] = NoCell
<1>0. /\ Plan(desired) /\ DOMAIN states = CellIdsOf(desired)
      /\ \A id \in CellIdsOf(desired) : Caused(id) /\ Own(id)
    BY PlanKnown DEF WorkInv, BlockedHasCause
<1>1. ASSUME NEW plan \in Plans, NEW rev, Reconcile(plan, rev)
      PROVE  BlockedHasCause'
    <2>1. /\ \A id \in DOMAIN states' : states'[id] \in {"Succeeded", "Pending"}
          /\ DOMAIN diagnostics' = {}
        BY <1>1 DEF Reconcile
    <2>. QED
        BY <2>1 DEF BlockedHasCause
<1>2. ASSUME NEW id \in CellIdsOf(desired), Retry(id)
      PROVE  BlockedHasCause'
    <2>1. /\ desired' = desired /\ DOMAIN states' = CellIdsOf(desired)
          /\ diagnostics' = Without(diagnostics, Suffix(desired, id))
          /\ \A c \in CellIdsOf(desired) : states'[c] =
                IF c \in Suffix(desired, id) THEN "Pending" ELSE states[c]
        BY <1>0, <1>2 DEF Retry, planVars
    <2>2. ASSUME NEW c \in CellIdsOf(desired)
          PROVE  Caused(c)' /\ Own(c)'
        <3>1. PICK before : before = Predecessor(desired, c)
            OBVIOUS
        <3>2. before # NoCell => before \in CellIdsOf(desired) /\ Behind(desired, before, c)
            BY <1>0, <3>1, PredecessorIs
        <3>3. before # NoCell /\ before \in Suffix(desired, id) => c \in Suffix(desired, id)
            BY <1>0, <3>2, BehindOrder DEF Behind
        <3>. QED
            BY <1>0, <2>1, <3>1, <3>2, <3>3 DEF Without
    <2>. QED
        BY <2>1, <2>2 DEF BlockedHasCause
<1>3. ASSUME NEW id \in CellIdsOf(desired), Fails(id)
      PROVE  BlockedHasCause'
    <2>1. PICK status \in {"Failed", "Cancelled"} :
            /\ desired' = desired /\ DOMAIN states' = CellIdsOf(desired)
            /\ \A c \in CellIdsOf(desired) : states'[c] =
                  IF c = id THEN status
                  ELSE IF c \in Suffix(desired, id) THEN "Blocked" ELSE states[c]
            /\ diagnostics' = Overlay(diagnostics,
                  [c \in Suffix(desired, id) |->
                      IF c = id THEN NoCell ELSE Predecessor(desired, c)])
        BY <1>0, <1>3 DEF Fails, FailTarget
    <2>2. /\ DOMAIN diagnostics' = DOMAIN diagnostics \cup Suffix(desired, id)
          /\ \A c \in DOMAIN diagnostics' : diagnostics'[c] =
                IF c \in Suffix(desired, id)
                THEN IF c = id THEN NoCell ELSE Predecessor(desired, c)
                ELSE diagnostics[c]
        BY <2>1 DEF Overlay
    <2>3. ASSUME NEW c \in CellIdsOf(desired)
          PROVE  Caused(c)' /\ Own(c)'
        <3>1. PICK before : before = Predecessor(desired, c)
            OBVIOUS
        <3>2. before # NoCell => before \in CellIdsOf(desired) /\ Behind(desired, before, c)
            BY <1>0, <3>1, PredecessorIs
        <3>3. before # NoCell /\ before \in Suffix(desired, id) => c \in Suffix(desired, id) \ {id}
            BY <1>0, <3>2, BehindOrder DEF Behind
        <3>4. c \in Suffix(desired, id) \ {id} =>
                before # NoCell /\ before \in Suffix(desired, id)
            BY <1>0, <3>1, <3>2, PredecessorIs, SuffixIds DEF Behind
        <3>5. id \in Suffix(desired, id)
            BY <1>0, SuffixIds
        <3>6. CASE c \in Suffix(desired, id)
            BY <2>1, <2>2, <3>1, <3>2, <3>4, <3>5, <3>6
        <3>7. CASE c \notin Suffix(desired, id)
            BY <1>0, <2>1, <2>2, <3>1, <3>2, <3>3, <3>5, <3>7
        <3>. QED
            BY <3>6, <3>7
    <2>. QED
        BY <2>1, <2>3 DEF BlockedHasCause
<1>4. ASSUME NEW id \in CellIdsOf(desired), Starts(id) \/ Finishes(id)
      PROVE  BlockedHasCause'
    <2>1. /\ desired' = desired /\ states[id] \in {"Pending", "Running"}
          /\ \E new \in {"Running", "Pending", "Succeeded"} : states' = [states EXCEPT ![id] = new]
          /\ diagnostics' = diagnostics \/ diagnostics' = Without(diagnostics, {id})
        BY <1>0, <1>4, FinishedIs DEF Starts, Finishes
    <2>2. ASSUME NEW c \in CellIdsOf(desired)
          PROVE  Caused(c)' /\ Own(c)'
        <3>1. PICK before : before = Predecessor(desired, c)
            OBVIOUS
        <3>2. before # NoCell => before \in CellIdsOf(desired)
            BY <1>0, <3>1, PredecessorIs
        <3>3. CASE c = id
            BY <1>0, <2>1, <3>3 DEF Without
        <3>4. CASE c # id
            BY <1>0, <2>1, <3>1, <3>2, <3>4 DEF Without
        <3>. QED
            BY <3>3, <3>4
    <2>. QED
        BY <1>0, <2>1, <2>2 DEF BlockedHasCause
<1>5. ASSUME Rests
      PROVE  BlockedHasCause'
    BY <1>5 DEF WorkInv, Rests, BlockedHasCause, stateVars
<1>. QED
    BY <1>1, <1>2, <1>3, <1>4, <1>5, StepKinds

\* Every action keeps results with their successes only: a cell that is yet to
\* run, or that failed itself, has none (retry, fail_target, complete).
LEMMA ResultIsOfSuccessStep ==
    ASSUME IInv, WorkInv, Next
    PROVE  ResultIsOfSuccess'
<1>0. /\ DOMAIN states = CellIdsOf(desired) /\ DOMAIN results \subseteq CellIdsOf(desired)
      /\ ResultIsOfSuccess
    BY PlanKnown DEF WorkInv, IInv, ResultsSound, ResultsTyped
<1>1. ASSUME NEW plan \in Plans, NEW rev, Reconcile(plan, rev)
      PROVE  ResultIsOfSuccess'
    <2>1. /\ DOMAIN results' \subseteq Kept(plan) /\ Kept(plan) \subseteq CellIdsOf(plan)
          /\ states' = [id \in CellIdsOf(plan) |->
                          IF id \in Kept(plan) THEN "Succeeded" ELSE "Pending"]
        BY <1>1 DEF Reconcile, Only, Kept
    <2>. QED
        BY <2>1 DEF ResultIsOfSuccess
<1>2. ASSUME NEW id \in CellIdsOf(desired), Retry(id)
      PROVE  ResultIsOfSuccess'
    BY <1>0, <1>2 DEF Retry, Without, ResultIsOfSuccess
<1>3. ASSUME NEW id \in CellIdsOf(desired), Fails(id)
      PROVE  ResultIsOfSuccess'
    BY <1>0, <1>3 DEF Fails, FailTarget, ResultIsOfSuccess, resultVars
<1>4. ASSUME NEW id \in CellIdsOf(desired), Starts(id) \/ Finishes(id)
      PROVE  ResultIsOfSuccess'
    <2>1. states[id] \in {"Pending", "Running"}
        BY <1>4 DEF Starts, Finishes
    <2>2. \/ /\ \E new : states' = [states EXCEPT ![id] = new]
             /\ results' = results
          \/ /\ states' = [states EXCEPT ![id] = "Succeeded"]
             /\ DOMAIN results' = DOMAIN results \cup {id}
        BY <1>4, FinishedIs DEF Starts, Put, resultVars
    <2>. QED
        BY <1>0, <2>1, <2>2 DEF ResultIsOfSuccess
<1>5. ASSUME Rests
      PROVE  ResultIsOfSuccess'
    BY <1>0, <1>5 DEF Rests, ResultIsOfSuccess, resultVars, stateVars
<1>. QED
    BY <1>1, <1>2, <1>3, <1>4, <1>5, StepKinds

\* Every action keeps a cell's stale fallback only while it has no result
\* (reconcile, retry, complete).
LEMMA ShownOnceStep ==
    ASSUME IInv, WorkInv, Next
    PROVE  ShownOnce'
<1>0. DOMAIN results \cap DOMAIN last_good = {}
    BY DEF WorkInv, ShownOnce
<1>1. ASSUME NEW plan \in Plans, NEW rev, Reconcile(plan, rev)
      PROVE  ShownOnce'
    <2>1. /\ DOMAIN results' \subseteq Kept(plan) /\ Kept(plan) \subseteq DOMAIN results
          /\ DOMAIN last_good' \subseteq
                DOMAIN last_good \cup (DOMAIN results \ Kept(plan))
        BY <1>1 DEF Reconcile, Only, Fallbacks, Overlay, Kept
    <2>. QED
        BY <1>0, <2>1 DEF ShownOnce
<1>2. ASSUME NEW id \in CellIdsOf(desired), Retry(id)
      PROVE  ShownOnce'
    BY <1>0, <1>2 DEF Retry, Without, Fallbacks, Overlay, Only, ShownOnce
<1>3. ASSUME NEW id, Starts(id) \/ Fails(id) \/ Finishes(id) \/ Rests
      PROVE  ShownOnce'
    <2>1. \/ results' = results /\ last_good' = last_good
          \/ /\ DOMAIN results' = DOMAIN results \cup {id}
             /\ DOMAIN last_good' = DOMAIN last_good \ {id}
        BY <1>3, FinishedIs DEF Starts, Fails, Rests, Put, Without, resultVars
    <2>. QED
        BY <1>0, <2>1 DEF ShownOnce
<1>. QED
    BY <1>1, <1>2, <1>3, StepKinds

-----------------------------------------------------------------------------
(***************************************************************************)
(* What a step does to the current attempts.                               *)
(***************************************************************************)
\* The current attempts after a step are the former ones in the sessions of S.
Continues(S) ==
    /\ CurrentSessions' = S /\ S \subseteq CurrentSessions
    /\ \A s \in S : /\ Active(s)'.target = Active(s).target
                    /\ Active(s)'.source_revision = Active(s).source_revision

\* Membership in CurrentSessions.
LEMMA CurrentDef ==
    \A s : s \in CurrentSessions <=>
        /\ s \in DOMAIN sessions
        /\ sessions[s].active # NoAttempt /\ ~ sessions[s].active.revoked
BY DEF CurrentSessions, HasActive, Active

\* A step that leaves the active attempts of S alone, and no other session with
\* current work.
LEMMA ContinuesWith ==
    ASSUME NEW S, S \subseteq CurrentSessions, S \subseteq DOMAIN sessions',
           \A s \in S : sessions'[s].active = sessions[s].active,
           \A s \in DOMAIN sessions' \ S :
              sessions'[s].active = NoAttempt \/ sessions'[s].active.revoked
    PROVE  Continues(S)
<1>1. \A s \in S : sessions[s].active # NoAttempt /\ ~ sessions[s].active.revoked
    BY CurrentDef
<1>2. CurrentSessions' = S
    BY <1>1 DEF CurrentSessions, HasActive, Active
<1>. QED
    BY <1>2 DEF Continues, Active

\* An edit revokes all work in progress (reconcile).
LEMMA ReconcileRevokes ==
    ASSUME SessionsSound, NEW plan, NEW rev, Reconcile(plan, rev)
    PROVE  CurrentSessions' = {}
<1>1. \A s \in DOMAIN sessions :
        Revised(sessions[s]).active = NoAttempt \/ Revised(sessions[s]).active.revoked
    BY RevisedSound DEF SessionsSound
<1>. QED
    BY <1>1 DEF Reconcile, CurrentSessions, HasActive, Active

\* A retry revokes the work for the cells it affects (retry).
LEMMA RetryRevokes ==
    ASSUME SessionsSound, NEW id, Retry(id)
    PROVE  Continues({s \in CurrentSessions : Active(s).target \notin Suffix(desired, id)})
<1>. DEFINE S == {s \in CurrentSessions : Active(s).target \notin Suffix(desired, id)}
<1>1. /\ DOMAIN sessions' = DOMAIN sessions
      /\ \A s \in DOMAIN sessions : sessions'[s] =
            IF /\ sessions[s].active # NoAttempt
               /\ sessions[s].active.target \in Suffix(desired, id)
            THEN Revoked(sessions[s]) ELSE sessions[s]
    BY DEF Retry
<1>2. \A s \in DOMAIN sessions : sessions[s].active # NoAttempt =>
        Revoked(sessions[s]).active.revoked
    BY RevokedSound DEF SessionsSound
<1>3. \A s : s \in S <=> s \in CurrentSessions /\ sessions[s].active.target \notin Suffix(desired, id)
    BY DEF Active
<1>. HIDE DEF S
<1>4. S \subseteq CurrentSessions /\ S \subseteq DOMAIN sessions'
    BY <1>1, <1>3, CurrentDef
<1>5. \A s \in S : sessions'[s].active = sessions[s].active
    BY <1>1, <1>3, CurrentDef
<1>6. \A s \in DOMAIN sessions' \ S : sessions'[s].active = NoAttempt \/ sessions'[s].active.revoked
    BY <1>1, <1>2, <1>3, CurrentDef
<1>7. Continues(S)
    BY <1>4, <1>5, <1>6, ContinuesWith
<1>. QED
    BY <1>7 DEF S

\* A dispatch makes one attempt current, in a session that had none.
LEMMA DispatchAdds ==
    ASSUME SessionsSound, PlanTyped, NEW i \in DOMAIN desired, DispatchCell(i),
           NEW s, s = SessionFor(desired[i].cell_id)
    PROVE  /\ s \notin CurrentSessions /\ CurrentSessions' = CurrentSessions \cup {s}
           /\ Active(s)'.target = desired[i].cell_id /\ Active(s)'.source_revision = revision
           /\ \A x \in CurrentSessions : Active(x)' = Active(x)
<1>. DEFINE id == desired[i].cell_id
<1>1. s = SessionFor(id)
    OBVIOUS
<1>2. PICK new : new = Dispatched(id, s)
    OBVIOUS
<1>3. sessions' = Put(sessions, s, new) /\ Opened(s).active = NoAttempt
    BY <1>1, <1>2 DEF DispatchCell, DispatchTurn, Dispatchable, Occupied
<1>4. Plan(desired) /\ next_attempt \in Nat /\ revision \in Nat
    BY DesiredIsPlan DEF PlanTyped
<1>5. id \in CellIdsOf(desired)
    BY <1>4, IndexOfCell
<1>. HIDE DEF id
<1>6. new.active # NoAttempt /\ new.active.target = id
    BY <1>2, <1>3, <1>4, <1>5, DispatchedSound
<1>7. ~ new.active.revoked /\ new.active.source_revision = revision
    BY <1>2 DEF Dispatched, NewAttempt
<1>8. s \notin CurrentSessions
    BY <1>3, CurrentDef DEF Opened
<1>9. /\ s \in DOMAIN sessions' /\ sessions'[s] = new
      /\ DOMAIN sessions' = DOMAIN sessions \cup {s}
      /\ \A x \in DOMAIN sessions \ {s} : sessions'[x] = sessions[x]
    BY <1>3 DEF Put
<1>10. CurrentSessions' = CurrentSessions \cup {s}
    BY <1>6, <1>7, <1>8, <1>9 DEF CurrentSessions, HasActive, Active
<1>. QED
    BY <1>1, <1>6, <1>7, <1>8, <1>9, <1>10, CurrentDef DEF Active, id

\* A failed dispatch leaves the other current attempts alone.
LEMMA DispatchFailsKeeps ==
    ASSUME NEW i \in DOMAIN desired, NEW how, DispatchFails(i, how)
    PROVE  Continues(CurrentSessions)
<1>. DEFINE id == desired[i].cell_id
<1>1. PICK s : s = SessionFor(id)
    OBVIOUS
<1>2. PICK clean, t : sessions' = Put(sessions, s, [Detached(clean) EXCEPT !.replay_target = t])
    BY <1>1 DEF DispatchFails
<1>3. PICK new : new = [Detached(clean) EXCEPT !.replay_target = t]
    OBVIOUS
<1>4. new.active = NoAttempt
    BY <1>3 DEF Detached, NewSession
<1>5. Opened(s).active = NoAttempt
    BY <1>1 DEF DispatchFails, DispatchTurn, Dispatchable, Occupied
<1>6. s \notin CurrentSessions
    BY <1>5, CurrentDef DEF Opened
<1>7. /\ DOMAIN sessions' = DOMAIN sessions \cup {s} /\ sessions'[s] = new
      /\ \A x \in DOMAIN sessions \ {s} : sessions'[x] = sessions[x]
    BY <1>2, <1>3 DEF Put
<1>. QED
    BY <1>4, <1>6, <1>7, CurrentDef, ContinuesWith

\* The attempt that ends is no longer current, the others are.
LEMMA EndsOne ==
    ASSUME SessionsSound, NEW s \in DOMAIN sessions,
           \/ \E attempt : RejectForeign(s, attempt)
           \/ RejectRevoked(s)
           \/ \E fault : RejectCurrent(s, fault)
           \/ \E status : CompleteUnsuccessful(s, status)
           \/ CompleteSuccess(s)
           \/ TerminateSession(s)
    PROVE  Continues(CurrentSessions \ {s})
<1>1. \A clean : Detached(clean).active = NoAttempt /\ NewSession.active = NoAttempt
    BY DEF Detached, NewSession
<1>2. CompleteSuccess(s) => Released(sessions[s]).active = NoAttempt
    <2>1. sessions[s] \in Sessions
        BY DEF SessionsSound, SessionSound
    <2>. QED
        BY <2>1 DEF Released, Sessions
<1>3. /\ DOMAIN sessions' = DOMAIN sessions /\ sessions'[s].active = NoAttempt
      /\ \A x \in DOMAIN sessions \ {s} : sessions'[x] = sessions[x]
    BY <1>1, <1>2 DEF RejectForeign, RejectRevoked, RejectCurrent, CompleteUnsuccessful,
        CompleteSuccess, Retire, TerminateSession
<1>. QED
    BY <1>3, CurrentDef, ContinuesWith

\* Termination only ends work that was revoked before (terminate_obsolete).
LEMMA TerminatesObsolete ==
    ASSUME SessionsSound, NEW s \in DOMAIN sessions, TerminateSession(s)
    PROVE  s \notin CurrentSessions
BY DEF TerminateSession, TerminateTurn, Obsolete, CurrentSessions, HasActive, Active,
       SessionsSound, SessionSound

\* Every other step leaves the current attempts alone.
LEMMA WorkUntouched ==
    ASSUME SessionsSound,
           \/ DispatchReturns \/ TerminateReturns
           \/ \E s \in DOMAIN sessions : ObserveEvent(s) \/ TerminateFails(s) \/ RunnerCrashes(s)
    PROVE  Continues(CurrentSessions)
<1>1. CASE UNCHANGED sessions
    BY <1>1, CurrentDef, ContinuesWith
<1>2. ASSUME NEW s \in DOMAIN sessions, ObserveEvent(s)
      PROVE  Continues(CurrentSessions)
    <2>. DEFINE new == sessions'[s].active
                old == sessions[s].active
    <2>1. /\ old # NoAttempt /\ ~ old.revoked /\ DOMAIN sessions' = DOMAIN sessions
          /\ sessions' = [sessions EXCEPT ![s].active.events = @ + 1]
          /\ \A x \in DOMAIN sessions \ {s} : sessions'[x] = sessions[x]
        BY <1>2 DEF ObserveEvent, Current, HasActive, Active
    <2>2. sessions[s] \in Sessions /\ old \in Attempts
        BY <2>1 DEF SessionsSound, SessionSound, Sessions
    <2>3. /\ new \in Attempts /\ new.target = old.target /\ new.revoked = old.revoked
          /\ new.source_revision = old.source_revision
        BY <2>1, <2>2 DEF Sessions, Attempts
    <2>4. new # NoAttempt
        BY <2>3, CoordinatorAssumption
    <2>5. CurrentSessions' = CurrentSessions
        BY <2>1, <2>3, <2>4 DEF CurrentSessions, HasActive, Active
    <2>. QED
        BY <2>1, <2>3, <2>5, CurrentDef DEF Continues, Active
<1>. QED
    BY <1>1, <1>2 DEF DispatchReturns, TerminateReturns, TerminateFails, RunnerCrashes

-----------------------------------------------------------------------------
(***************************************************************************)
(* A running cell is worked for, by one attempt of the latest revision.    *)
(***************************************************************************)
\* Two current attempts that work for cells of one chain are the same.
LEMMA OneWorkerPerChain ==
    ASSUME IInv, WorkInv, NEW s \in CurrentSessions, NEW x \in CurrentSessions,
           Active(x).target \in Suffix(desired, Active(s).target)
    PROVE  x = s
<1>. DEFINE t == Active(s).target
            u == Active(x).target
<1>1. /\ Plan(desired) /\ t \in CellIdsOf(desired) /\ u \in CellIdsOf(desired)
      /\ session_ids[Scope(CellOf(desired, t))] = s
      /\ session_ids[Scope(CellOf(desired, u))] = x
    BY PlanKnown, RunningIsReady DEF WorkInv, RunningIsAttempted
<1>. HIDE DEF t, u
<1>2. u # t => Scope(CellOf(desired, t)) = Scope(CellOf(desired, u))
    BY <1>1, BehindScope DEF Behind, t, u
<1>. QED
    BY <1>1, <1>2

\* A step that ends at most the work whose cells it takes out of Running.
LEMMA RunningKept ==
    ASSUME IInv, WorkInv, NEW S, Continues(S), UNCHANGED desired,
           DOMAIN states' = DOMAIN states,
           \A s \in S : states'[Active(s).target] = "Running",
           \A id \in DOMAIN states : states'[id] = "Running" =>
              /\ states[id] = "Running"
              /\ session_ids[Scope(CellOf(desired, id))] \in S
              /\ session_ids'[Scope(CellOf(desired, id))] =
                    session_ids[Scope(CellOf(desired, id))]
    PROVE  RunningIsAttempted'
<1>1. RunningIsAttempted
    BY DEF WorkInv
<1>2. ASSUME NEW id \in DOMAIN states, states'[id] = "Running"
      PROVE  \E s \in S : Active(s).target = id
    BY <1>1, <1>2, RunningOccupies
<1>3. ASSUME NEW s \in S
      PROVE  /\ Active(s).target \in DOMAIN states
             /\ session_ids'[Scope(CellOf(desired, Active(s).target))] = s
    <2>1. s \in CurrentSessions /\ states'[Active(s).target] = "Running"
        BY DEF Continues
    <2>. QED
        BY <1>1, <2>1 DEF RunningIsAttempted
<1>. QED
    BY <1>2, <1>3 DEF RunningIsAttempted, Continues

\* Every action keeps each running cell and its attempt together: no attempt is
\* lost, and none works for a cell that is not running.
LEMMA RunningStep ==
    ASSUME IInv, WorkInv, Next
    PROVE  RunningIsAttempted'
<1>0. /\ Plan(desired) /\ DOMAIN states = CellIdsOf(desired)
      /\ RunningIsAttempted /\ SessionsSound /\ PlanTyped /\ ScopesTyped
    BY PlanKnown DEF WorkInv, IInv
<1>1. ASSUME NEW plan \in Plans, NEW rev, Reconcile(plan, rev)
      PROVE  RunningIsAttempted'
    <2>1. CurrentSessions' = {} /\ \A id \in DOMAIN states' : states'[id] # "Running"
        BY <1>0, <1>1, ReconcileRevokes DEF Reconcile
    <2>. QED
        BY <2>1 DEF RunningIsAttempted
<1>2. ASSUME NEW id \in CellIdsOf(desired), Retry(id)
      PROVE  RunningIsAttempted'
    <2>. DEFINE S == {s \in CurrentSessions : Active(s).target \notin Suffix(desired, id)}
    <2>1. /\ Continues(S) /\ UNCHANGED <<desired, session_ids>>
          /\ DOMAIN states' = DOMAIN states
          /\ \A c \in DOMAIN states : states'[c] =
                IF c \in Suffix(desired, id) THEN "Pending" ELSE states[c]
        BY <1>0, <1>2, RetryRevokes DEF Retry, planVars, scopeVars
    <2>2. \A s \in S : states'[Active(s).target] = "Running"
        BY <1>0, <2>1 DEF RunningIsAttempted
    <2>3. \A c \in DOMAIN states : states'[c] = "Running" =>
            states[c] = "Running" /\ session_ids[Scope(CellOf(desired, c))] \in S
        BY <1>0, <2>1, RunningOccupies
    <2>. HIDE DEF S
    <2>. QED
        BY <2>1, <2>2, <2>3, RunningKept
<1>3. ASSUME NEW i \in DOMAIN desired, DispatchCell(i)
      PROVE  RunningIsAttempted'
    <2>1. PICK id : id = desired[i].cell_id
        OBVIOUS
    <2>2. PICK s : s = SessionFor(id)
        OBVIOUS
    <2>3. /\ id \in CellIdsOf(desired) /\ desired' = desired
          /\ states' = [states EXCEPT ![id] = "Running"] /\ states[id] = "Pending"
          /\ OpenScope(id)
        BY <1>0, <1>3, <2>1, IndexOfCell
        DEF DispatchCell, DispatchTurn, Dispatchable, planVars
    <2>4. /\ CurrentSessions' = CurrentSessions \cup {s}
          /\ Active(s)'.target = id
          /\ \A x \in CurrentSessions : Active(x)' = Active(x) /\ Active(x).target # id
        BY <1>0, <1>3, <2>1, <2>2, <2>3, DispatchAdds DEF RunningIsAttempted
    <2>5. session_ids'[Scope(CellOf(desired, id))] = s
        BY <1>0, <2>2, <2>3, PlanKnown DEF OpenScope, SessionFor, Put, scopeVars
    <2>6. ASSUME NEW c \in CellIdsOf(desired), c # id
          PROVE  session_ids'[Scope(CellOf(desired, c))] = session_ids[Scope(CellOf(desired, c))]
        <3>1. CASE NeedsFreshSession(id)
            <4>1. CellOf(desired, id).cell_id = id /\ CellOf(desired, c).cell_id = c
                BY <1>0, <2>3, <2>6, IndexOfId
            <4>2. Scope(CellOf(desired, c)) # Scope(CellOf(desired, id))
                BY <2>6, <3>1, <4>1 DEF NeedsFreshSession, Scope, IsIsolated
            <4>3. Scope(CellOf(desired, c)) \in DOMAIN session_ids
                BY <2>6, PlanKnown
            <4>. QED
                BY <2>3, <3>1, <4>2, <4>3 DEF OpenScope, Put
        <3>2. CASE ~ NeedsFreshSession(id)
            BY <2>3, <3>2 DEF OpenScope, scopeVars
        <3>. QED
            BY <3>1, <3>2
    <2>7. ASSUME NEW c \in DOMAIN states', states'[c] = "Running"
          PROVE  \E x \in CurrentSessions' : Active(x)'.target = c
        BY <1>0, <2>3, <2>4, <2>7 DEF RunningIsAttempted
    <2>8. ASSUME NEW x \in CurrentSessions'
          PROVE  /\ Active(x)'.target \in DOMAIN states'
                 /\ states'[Active(x)'.target] = "Running"
                 /\ session_ids'[Scope(CellOf(desired, Active(x)'.target))] = x
        <3>1. CASE x \in CurrentSessions
            BY <1>0, <2>3, <2>4, <2>6, <3>1 DEF RunningIsAttempted
        <3>2. CASE x = s
            BY <1>0, <2>3, <2>4, <2>5, <3>2
        <3>. QED
            BY <2>4, <3>1, <3>2
    <2>. QED
        BY <2>3, <2>7, <2>8 DEF RunningIsAttempted
<1>4. ASSUME NEW i \in DOMAIN desired, NEW how, DispatchFails(i, how)
      PROVE  RunningIsAttempted'
    <2>1. PICK id : id = desired[i].cell_id
        OBVIOUS
    <2>2. /\ id \in CellIdsOf(desired) /\ desired' = desired /\ DOMAIN states' = DOMAIN states
          /\ \A c \in DOMAIN states : states'[c] =
                IF c = id THEN "Failed"
                ELSE IF c \in Suffix(desired, id) THEN "Blocked" ELSE states[c]
          /\ OpenScope(id) /\ ~ Occupied(Opened(SessionFor(id)))
          /\ states[id] = "Pending"
        BY <1>0, <1>4, <2>1, IndexOfCell
        DEF DispatchFails, DispatchTurn, Dispatchable, FailTarget, planVars
    <2>3. ASSUME NEW c \in CellIdsOf(desired), states[c] = "Running"
          PROVE  /\ c # id /\ c \notin Suffix(desired, id)
                 /\ session_ids'[Scope(CellOf(desired, c))] =
                       session_ids[Scope(CellOf(desired, c))]
        <3>1. c # id
            BY <2>2, <2>3
        <3>2. c \notin Suffix(desired, id)
            BY <1>0, <2>2, <2>3, <3>1, SharedSession, RunningOccupies DEF Behind
        <3>3. CASE NeedsFreshSession(id)
            <4>1. CellOf(desired, id).cell_id = id /\ CellOf(desired, c).cell_id = c
                BY <1>0, <2>2, IndexOfId
            <4>2. Scope(CellOf(desired, c)) # Scope(CellOf(desired, id))
                BY <3>1, <3>3, <4>1 DEF NeedsFreshSession, Scope, IsIsolated
            <4>3. Scope(CellOf(desired, c)) \in DOMAIN session_ids
                BY PlanKnown
            <4>. QED
                BY <2>2, <3>1, <3>2, <3>3, <4>2, <4>3 DEF OpenScope, Put
        <3>4. CASE ~ NeedsFreshSession(id)
            BY <2>2, <3>1, <3>2, <3>4 DEF OpenScope, scopeVars
        <3>. QED
            BY <3>3, <3>4
    <2>4. Continues(CurrentSessions)
        BY <1>4, DispatchFailsKeeps
    <2>5. \A s \in CurrentSessions : states'[Active(s).target] = "Running"
        BY <1>0, <2>2, <2>3 DEF RunningIsAttempted
    <2>6. \A c \in DOMAIN states : states'[c] = "Running" =>
            /\ states[c] = "Running" /\ session_ids[Scope(CellOf(desired, c))] \in CurrentSessions
            /\ session_ids'[Scope(CellOf(desired, c))] = session_ids[Scope(CellOf(desired, c))]
        BY <1>0, <2>2, <2>3, RunningOccupies
    <2>. QED
        BY <2>2, <2>4, <2>5, <2>6, RunningKept
<1>5. ASSUME NEW s \in DOMAIN sessions, Continues(CurrentSessions \ {s}),
             UNCHANGED <<desired, session_ids>>, DOMAIN states' = DOMAIN states,
             s \notin CurrentSessions => states' = states,
             s \in CurrentSessions =>
                /\ states'[Active(s).target] # "Running"
                /\ \A c \in DOMAIN states \ {Active(s).target} :
                      \/ states'[c] = states[c]
                      \/ states'[c] # "Running" /\ c \in Suffix(desired, Active(s).target)
      PROVE  RunningIsAttempted'
    <2>1. ASSUME NEW x \in CurrentSessions \ {s} PROVE states'[Active(x).target] = "Running"
        <3>1. Active(x).target \in DOMAIN states /\ states[Active(x).target] = "Running"
            BY <1>0 DEF RunningIsAttempted
        <3>2. s \in CurrentSessions => Active(x).target \notin Suffix(desired, Active(s).target)
            BY OneWorkerPerChain
        <3>3. s \in CurrentSessions => Active(s).target \in Suffix(desired, Active(s).target)
            BY <1>0, RunningIsReady, SuffixIds
        <3>. QED
            BY <1>5, <3>1, <3>2, <3>3
    <2>2. \A c \in DOMAIN states : states'[c] = "Running" =>
            /\ states[c] = "Running"
            /\ session_ids[Scope(CellOf(desired, c))] \in CurrentSessions \ {s}
        BY <1>0, <1>5, RunningOccupies
    <2>. QED
        BY <1>5, <2>1, <2>2, RunningKept
<1>6. ASSUME NEW s \in DOMAIN sessions,
             \/ \E attempt : RejectForeign(s, attempt)
             \/ RejectRevoked(s)
             \/ \E fault : RejectCurrent(s, fault)
             \/ \E status \in Failures : CompleteUnsuccessful(s, status)
             \/ CompleteSuccess(s)
             \/ TerminateSession(s)
      PROVE  RunningIsAttempted'
    <2>1. Continues(CurrentSessions \ {s})
        BY <1>0, <1>6, EndsOne
    <2>2. UNCHANGED <<desired, session_ids>> /\ DOMAIN states' = DOMAIN states
        BY <1>6 DEF RejectForeign, RejectRevoked, RejectCurrent, CompleteUnsuccessful,
            CompleteSuccess, AcceptReplay, AcceptResult, TerminateSession, FailTarget, planVars,
            stateVars, scopeVars
    <2>3. CASE s \notin CurrentSessions
        <3>1. states' = states
            BY <1>6, <2>3 DEF RejectForeign, RejectRevoked, RejectCurrent, CompleteUnsuccessful,
                CompleteSuccess, Current, TerminateSession, CurrentSessions, stateVars
        <3>. QED
            BY <1>5, <2>1, <2>2, <2>3, <3>1
    <2>4. CASE s \in CurrentSessions
        <3>1. Active(s).target \in DOMAIN states /\ ~ Active(s).revoked
            BY <1>0, <2>4 DEF RunningIsAttempted, CurrentSessions
        <3>2. ~ TerminateSession(s) /\ ~ RejectRevoked(s)
            BY <1>0, <2>4, <3>1, TerminatesObsolete DEF RejectRevoked
        <3>3. CASE CompleteSuccess(s)
            <4>1. \E new \in {"Pending", "Succeeded"} :
                    states' = [states EXCEPT ![Active(s).target] = new]
                BY <3>3 DEF CompleteSuccess, AcceptReplay, AcceptResult
            <4>. QED
                BY <1>5, <2>1, <2>2, <2>4, <3>1, <4>1
        <3>4. CASE ~ CompleteSuccess(s)
            <4>1. PICK status \in {"Failed", "Cancelled"} : FailTarget(Active(s).target, status)
                BY <1>6, <3>1, <3>2, <3>4, CoordinatorAssumption
                DEF RejectForeign, RejectCurrent, CompleteUnsuccessful
            <4>2. \A c \in DOMAIN states : states'[c] =
                    IF c = Active(s).target THEN status
                    ELSE IF c \in Suffix(desired, Active(s).target) THEN "Blocked" ELSE states[c]
                BY <4>1 DEF FailTarget
            <4>. QED
                BY <1>5, <2>1, <2>2, <2>4, <3>1, <4>2
        <3>. QED
            BY <3>3, <3>4
    <2>. QED
        BY <2>3, <2>4
<1>7. ASSUME \/ DispatchReturns \/ TerminateReturns
             \/ \E s \in DOMAIN sessions :
                   ObserveEvent(s) \/ TerminateFails(s) \/ RunnerCrashes(s)
      PROVE  RunningIsAttempted'
    <2>1. Continues(CurrentSessions)
        BY <1>0, <1>7, WorkUntouched
    <2>2. UNCHANGED <<desired, session_ids, states>>
        BY <1>7 DEF DispatchReturns, TerminateReturns, ObserveEvent, TerminateFails,
            RunnerCrashes, planVars, stateVars, scopeVars
    <2>3. \A s \in CurrentSessions : states[Active(s).target] = "Running"
        BY <1>0 DEF RunningIsAttempted
    <2>. QED
        BY <1>0, <2>1, <2>2, <2>3, RunningOccupies, RunningKept
<1>. QED
    BY <1>1, <1>2, <1>3, <1>4, <1>6, <1>7 DEF Next, Edit, Dispatch, Receive, Terminate

\* Every action keeps work in progress to the latest revision.
LEMMA RevisionStep ==
    ASSUME IInv, WorkInv, Next
    PROVE  WorkIsOfRevision'
<1>0. WorkIsOfRevision /\ SessionsSound /\ PlanTyped
    BY DEF WorkInv, IInv
<1>1. ASSUME NEW S, Continues(S), UNCHANGED revision
      PROVE  WorkIsOfRevision'
    BY <1>0, <1>1 DEF Continues, WorkIsOfRevision
<1>2. ASSUME NEW plan \in Plans, NEW rev, Reconcile(plan, rev)
      PROVE  WorkIsOfRevision'
    BY <1>0, <1>2, ReconcileRevokes DEF WorkIsOfRevision
<1>3. ASSUME NEW id \in CellIdsOf(desired), Retry(id)
      PROVE  WorkIsOfRevision'
    <2>1. PICK S : Continues(S)
        BY <1>0, <1>3, RetryRevokes
    <2>. QED
        BY <1>1, <1>3, <2>1 DEF Retry, planVars
<1>4. ASSUME NEW i \in DOMAIN desired, DispatchCell(i)
      PROVE  WorkIsOfRevision'
    <2>1. PICK s : s = SessionFor(desired[i].cell_id)
        OBVIOUS
    <2>. QED
        BY <1>0, <1>4, <2>1, DispatchAdds DEF DispatchCell, WorkIsOfRevision, planVars
<1>5. ASSUME NEW i \in DOMAIN desired, NEW how, DispatchFails(i, how)
      PROVE  WorkIsOfRevision'
    BY <1>1, <1>5, DispatchFailsKeeps DEF DispatchFails, planVars
<1>6. ASSUME NEW s \in DOMAIN sessions,
             \/ \E attempt : RejectForeign(s, attempt)
             \/ RejectRevoked(s)
             \/ \E fault : RejectCurrent(s, fault)
             \/ \E status : CompleteUnsuccessful(s, status)
             \/ CompleteSuccess(s)
             \/ TerminateSession(s)
      PROVE  WorkIsOfRevision'
    <2>1. UNCHANGED revision
        BY <1>6 DEF RejectForeign, RejectRevoked, RejectCurrent, CompleteUnsuccessful,
            CompleteSuccess, TerminateSession, planVars
    <2>. QED
        BY <1>0, <1>1, <1>6, <2>1, EndsOne
<1>7. ASSUME \/ DispatchReturns \/ TerminateReturns
             \/ \E s \in DOMAIN sessions :
                   ObserveEvent(s) \/ TerminateFails(s) \/ RunnerCrashes(s)
      PROVE  WorkIsOfRevision'
    <2>1. UNCHANGED revision
        BY <1>7 DEF DispatchReturns, TerminateReturns, ObserveEvent, TerminateFails,
            RunnerCrashes, planVars
    <2>. QED
        BY <1>0, <1>1, <1>7, <2>1, WorkUntouched
<1>. QED
    BY <1>2, <1>3, <1>4, <1>5, <1>6, <1>7 DEF Next, Edit, Dispatch, Receive, Terminate

\* Every action keeps the dispatch loop's promise: nothing it has passed over
\* can be dispatched before the call returns.
LEMMA PassedStep ==
    ASSUME IInv, WorkInv, Next
    PROVE  PassedOver'
<1>0. /\ Plan(desired) /\ DOMAIN states = CellIdsOf(desired)
      /\ PassedOver /\ ScopesTyped /\ SessionsSound /\ PlanTyped
      /\ next_attempt \in Nat /\ revision \in Nat
    BY PlanKnown DEF WorkInv, IInv
<1>1. ASSUME NEW i \in DOMAIN desired, DispatchCell(i)
      PROVE  PassedOver'
    <2>1. PICK id : id = desired[i].cell_id
        OBVIOUS
    <2>2. PICK s : s = SessionFor(id)
        OBVIOUS
    <2>3. /\ id \in CellIdsOf(desired) /\ desired' = desired
          /\ states' = [states EXCEPT ![id] = "Running"] /\ OpenScope(id)
          /\ sessions' = Put(sessions, s, Dispatched(id, s))
          /\ call' = [op |-> "dispatch", at |-> i]
          /\ Opened(s).active = NoAttempt
        BY <1>0, <1>1, <2>1, <2>2, IndexOfCell
        DEF DispatchCell, DispatchTurn, Dispatchable, Occupied, planVars
    <2>4. Occupied(Opened(s))'
        BY <1>0, <2>3, DispatchedSound DEF Opened, Occupied, Put
    <2>. SUFFICES ASSUME NEW j \in DOMAIN desired, j <= i
                  PROVE  ~ Dispatchable(desired[j].cell_id)'
        BY <2>3 DEF PassedOver
    <2>5. PICK c : c = desired[j].cell_id
        OBVIOUS
    <2>6. c \in CellIdsOf(desired) /\ (j = i <=> c = id)
        BY <1>0, <2>1, <2>5, IndexOfCell
    <2>7. CASE j = i
        BY <1>0, <2>3, <2>5, <2>6, <2>7 DEF Dispatchable
    <2>8. CASE j # i
        <3>1. i \in Nat /\ j \in Nat /\ j >= 1
            BY <1>0, PlanDomain
        <3>2. ~ Dispatchable(c)
            <4>1. DispatchTurn(i) /\ j < i
                BY <1>1, <2>8, <3>1 DEF DispatchCell
            <4>2. CASE At("dispatch") < j
                BY <2>5, <4>1, <4>2 DEF DispatchTurn
            <4>3. CASE ~ At("dispatch") < j
                <5>1. call.op = "dispatch" /\ ~ call.at < j
                    BY <3>1, <4>3 DEF At
                <5>2. call.at \in Nat
                    BY DEF IInv, BoundsTyped
                <5>. QED
                    BY <1>0, <2>5, <3>1, <5>1, <5>2 DEF PassedOver
            <4>. QED
                BY <4>2, <4>3
        <3>3. PICK before : before = Predecessor(desired, c)
            OBVIOUS
        <3>4. before # NoCell => before \in CellIdsOf(desired)
            BY <1>0, <2>6, <3>3, PredecessorIs
        <3>5. CASE states[c] # "Pending" \/ (before # NoCell /\ states[before] # "Succeeded")
            BY <1>0, <2>3, <2>5, <2>6, <2>8, <3>3, <3>4, <3>5 DEF Dispatchable
        <3>6. CASE Occupied(Opened(SessionFor(c)))
            <4>1. ~ IsIsolated(CellOf(desired, c))
                <5>1. SessionFor(c) \in DOMAIN sessions
                    BY <3>6 DEF Opened, Occupied, NewSession
                <5>2. next_session \notin DOMAIN sessions
                    BY <1>0 DEF ScopesTyped
                <5>. QED
                    BY <5>1, <5>2 DEF SessionFor, NeedsFreshSession
            <4>2. SessionFor(c) = session_ids[Scope(CellOf(desired, c))]
                BY <4>1 DEF SessionFor, NeedsFreshSession
            <4>3. SessionFor(c)' = session_ids'[Scope(CellOf(desired, c))]
                BY <2>3, <4>1 DEF SessionFor, NeedsFreshSession
            <4>4. session_ids'[Scope(CellOf(desired, c))] = session_ids[Scope(CellOf(desired, c))]
                <5>1. CASE NeedsFreshSession(id)
                    <6>1. Scope(CellOf(desired, c)) # Scope(CellOf(desired, id))
                        BY <4>1, <5>1 DEF NeedsFreshSession, Scope, IsIsolated
                    <6>2. Scope(CellOf(desired, c)) \in DOMAIN session_ids
                        BY <2>6, PlanKnown
                    <6>. QED
                        BY <2>3, <5>1, <6>1, <6>2 DEF OpenScope, Put
                <5>2. CASE ~ NeedsFreshSession(id)
                    BY <2>3, <5>2 DEF OpenScope, scopeVars
                <5>. QED
                    BY <5>1, <5>2
            <4>5. PICK x : x = SessionFor(c)
                OBVIOUS
            <4>6. Occupied(Opened(x))'
                BY <2>3, <2>4, <3>6, <4>5 DEF Opened, Put, Occupied
            <4>7. SessionFor(c)' = x
                BY <4>2, <4>3, <4>4, <4>5
            <4>. QED
                BY <2>3, <2>5, <4>6, <4>7 DEF Dispatchable
        <3>. QED
            BY <3>2, <3>3, <3>5, <3>6 DEF Dispatchable
    <2>. QED
        BY <2>7, <2>8
<1>2. ASSUME NEW s, RunnerCrashes(s)
      PROVE  PassedOver'
    BY <1>0, <1>2 DEF RunnerCrashes, PassedOver, Dispatchable, SessionFor, NeedsFreshSession,
        Opened, planVars, stateVars, scopeVars
<1>3. ASSUME call'.op # "dispatch"
      PROVE  PassedOver'
    BY <1>3 DEF PassedOver
<1>4. ASSUME \/ \E plan, rev : Reconcile(plan, rev)
             \/ \E id : Retry(id)
             \/ Receive
      PROVE  call'.op # "dispatch"
    <2>1. Idle /\ UNCHANGED call
        BY <1>4 DEF Reconcile, Retry, Receive, ObserveEvent, RejectForeign, RejectRevoked,
            RejectCurrent, CompleteUnsuccessful, CompleteSuccess, Current
    <2>. QED
        BY <2>1 DEF Idle
<1>5. ASSUME \/ \E i, how : DispatchFails(i, how)
             \/ DispatchReturns \/ Terminate \/ TerminateReturns
      PROVE  call'.op # "dispatch"
    <2>1. \/ call' = Returned
          \/ \E s : call' = [op |-> "terminate", at |-> s]
        BY <1>5 DEF DispatchFails, DispatchReturns, Terminate, TerminateSession,
            TerminateFails, TerminateReturns
    <2>. QED
        BY <2>1 DEF Returned
<1>. QED
    BY <1>1, <1>2, <1>3, <1>4, <1>5 DEF Next, Edit, Dispatch

-----------------------------------------------------------------------------
(***************************************************************************)
(* The inductive invariant and what follows from it.                       *)
(***************************************************************************)
\* Before the first reconcile nothing runs and nothing is held.
LEMMA InitWork == Init => WorkInv
<1>. SUFFICES ASSUME Init PROVE WorkInv
    OBVIOUS
<1>1. /\ DOMAIN desired = {} /\ CellIdsOf(desired) = {} /\ DOMAIN states = {}
      /\ DOMAIN results = {} /\ DOMAIN sessions = {} /\ CurrentSessions = {}
      /\ call.op # "dispatch"
    BY DEF Init, CellIdsOf, CurrentSessions, Returned
<1>. QED
    BY <1>1 DEF WorkInv, RunningIsAttempted, ChainShape, BlockedHasCause, ResultIsOfSuccess,
        PassedOver, ShownOnce, WorkIsOfRevision

\* The invariant of work in progress, for every set of plans, every limit, every
\* choice of faults and every bound.
THEOREM WorkInvariance == Spec => []WorkInv
<1>1. IInv /\ WorkInv /\ [Next]_vars => WorkInv'
    <2>1. ASSUME IInv, WorkInv, Next PROVE WorkInv'
        BY <2>1, RunningStep, ShapeStep, BlockedStep, ResultIsOfSuccessStep, PassedStep,
           ShownOnceStep, RevisionStep DEF WorkInv
    <2>2. ASSUME WorkInv, UNCHANGED vars PROVE WorkInv'
        <3>. USE <2>2 DEF vars, planVars, resultVars, stateVars, attemptVars, scopeVars, envVars
        <3>1. CurrentSessions' = CurrentSessions /\ \A s : Active(s)' = Active(s)
            BY DEF CurrentSessions, HasActive, Active
        <3>2. RunningIsAttempted' /\ WorkIsOfRevision'
            BY <3>1 DEF WorkInv, RunningIsAttempted, WorkIsOfRevision
        <3>3. ChainShape' /\ BlockedHasCause' /\ ResultIsOfSuccess' /\ ShownOnce'
            BY DEF WorkInv, ChainShape, BlockedHasCause, ResultIsOfSuccess, ShownOnce
        <3>4. PassedOver'
            BY DEF WorkInv, PassedOver, Dispatchable, SessionFor, NeedsFreshSession, Opened
        <3>. QED
            BY <3>2, <3>3, <3>4 DEF WorkInv
    <2>. QED
        BY <2>1, <2>2
<1>. QED
    BY <1>1, InitWork, Invariance, PTL DEF Spec

\* No attempt is lost and none races another: a cell is Running exactly while
\* one unrevoked attempt works for it, in the session of its scope
\* (reconcile, retry, dispatch_ready, complete, reject, terminate_obsolete).
THEOREM RunningAttempted == Spec => []RunningIsAttempted
BY WorkInvariance, PTL DEF WorkInv

\* A blocked cell's predecessor is broken and named by its diagnostics
\* (fail_target, retry).
THEOREM BlockedCaused == Spec => []BlockedHasCause
BY WorkInvariance, PTL DEF WorkInv

\* Work in progress has its whole chain prefix succeeded and no current result:
\* a failed prefix never executes its suffix, nothing is recomputed
\* (dispatch_ready).
THEOREM OnlyNeeded == Spec => []OnlyNeededWorkRuns
<1>1. IInv /\ WorkInv => OnlyNeededWorkRuns
    <2>. SUFFICES ASSUME IInv, WorkInv, NEW s \in CurrentSessions
                  PROVE  /\ Active(s).target \notin DOMAIN results
                         /\ \A c \in DOMAIN states \ {Active(s).target} :
                               Active(s).target \in Suffix(desired, c) => states[c] = "Succeeded"
        BY DEF OnlyNeededWorkRuns
    <2>1. states[Active(s).target] = "Running" /\ PrefixDone(Active(s).target)
        BY RunningIsReady
    <2>. QED
        BY <2>1, PlanKnown DEF PrefixDone, Behind, WorkInv, ResultIsOfSuccess
<1>. QED
    BY <1>1, Invariance, WorkInvariance, PTL

-----------------------------------------------------------------------------
(***************************************************************************)
(* What a step may do to results and fallbacks.                            *)
(***************************************************************************)
\* Outside edits, retries and acceptance, results and records stay as they are.
LEMMA ResultsUntouched ==
    ASSUME Next
    PROVE  \/ \E plan \in Plans, rev \in {revision, revision + 1} : Reconcile(plan, rev)
           \/ \E id \in CellIdsOf(desired) : Retry(id)
           \/ \E s \in CurrentSessions :
                 /\ CompleteSuccess(s) /\ ~ Active(s).replay /\ UNCHANGED desired
                 /\ AcceptResult(s, Active(s).target)
           \/ UNCHANGED <<desired, resultVars>>
<1>1. ASSUME NEW s \in DOMAIN sessions, CompleteSuccess(s)
      PROVE  \/ s \in CurrentSessions /\ ~ Active(s).replay /\ UNCHANGED desired
                /\ AcceptResult(s, Active(s).target)
             \/ UNCHANGED <<desired, resultVars>>
    BY <1>1 DEF CompleteSuccess, AcceptReplay, Current, CurrentSessions, planVars
<1>2. ASSUME \/ \E i, how : DispatchCell(i) \/ DispatchFails(i, how)
             \/ DispatchReturns \/ Terminate \/ TerminateReturns
             \/ \E s : RunnerCrashes(s)
      PROVE  UNCHANGED <<desired, resultVars>>
    BY <1>2 DEF DispatchCell, DispatchFails, DispatchReturns, Terminate, TerminateSession,
        TerminateFails, TerminateReturns, RunnerCrashes, planVars
<1>3. ASSUME NEW s, \/ ObserveEvent(s)
                    \/ \E attempt : RejectForeign(s, attempt)
                    \/ RejectRevoked(s)
                    \/ \E fault : RejectCurrent(s, fault)
                    \/ \E status : CompleteUnsuccessful(s, status)
      PROVE  UNCHANGED <<desired, resultVars>>
    BY <1>3 DEF ObserveEvent, RejectForeign, RejectRevoked, RejectCurrent,
        CompleteUnsuccessful, planVars
<1>. QED
    BY <1>1, <1>2, <1>3 DEF Next, Edit, Dispatch, Receive

\* Only the outcome of a current attempt of the latest revision, and no replay,
\* becomes a result or a record (receive, complete).
THEOREM AcceptanceCurrent == Spec => AcceptanceIsCurrent
<1>1. ASSUME IInv, WorkInv, Next PROVE AcceptsCurrentWork
    <2>1. ASSUME NEW plan, NEW rev, Reconcile(plan, rev)
          PROVE  AcceptsCurrentWork
        BY <2>1 DEF Reconcile, Only, AcceptsCurrentWork
    <2>2. ASSUME NEW id, Retry(id)
          PROVE  AcceptsCurrentWork
        BY <2>2 DEF Retry, Without, AcceptsCurrentWork
    <2>3. ASSUME NEW s \in CurrentSessions, ~ Active(s).replay, AcceptResult(s, Active(s).target)
          PROVE  AcceptsCurrentWork
        <3>. DEFINE t == Active(s).target
        <3>1. Active(s).cell.cell_id = t
            BY <1>1, <2>3, CurrentDef DEF IInv, SessionsSound, SessionSound, WorkIsCurrent,
                AttemptOf, Active
        <3>2. Active(s).source_revision = revision
            BY <1>1 DEF WorkInv, WorkIsOfRevision
        <3>3. Active(s).attempt_id \notin retired
            BY <1>1 DEF IInv, AttemptsAccountedFor, ActiveIds, CurrentSessions
        <3>4. /\ DOMAIN results' = DOMAIN results \cup {t}
              /\ results'[t].attempt_id = Active(s).attempt_id
              /\ \A id \in DOMAIN results \ {t} : results'[id] = results[id]
            BY <2>3 DEF AcceptResult, Put
        <3>. QED
            BY <2>3, <3>1, <3>2, <3>3, <3>4 DEF AcceptsCurrentWork
    <2>4. ASSUME UNCHANGED <<desired, resultVars>>
          PROVE  AcceptsCurrentWork
        BY <2>4 DEF AcceptsCurrentWork, resultVars
    <2>. QED
        BY <1>1, <2>1, <2>2, <2>3, <2>4, ResultsUntouched
<1>2. IInv /\ WorkInv /\ [Next]_vars => [AcceptsCurrentWork]_vars
    BY <1>1
<1>. QED
    BY <1>2, Invariance, WorkInvariance, PTL DEF Spec, AcceptanceIsCurrent

\* A cell's latest success stays visible while its handle is in the plan, as its
\* result or as a stale fallback, never both (reconcile, retry, complete).
THEOREM StaleSurvives == Spec => StaleOutputSurvives
<1>1. ASSUME IInv, WorkInv, Next PROVE KeepsLastSuccess
    <2>0. /\ ShownOnce' /\ DOMAIN results \cap DOMAIN last_good = {}
          /\ DOMAIN results \subseteq CellIdsOf(desired)
          /\ DOMAIN last_good \subseteq CellIdsOf(desired)
        BY <1>1, ShownOnceStep DEF WorkInv, ShownOnce, IInv, ResultsSound, ResultsTyped
    <2>1. ASSUME NEW plan, NEW rev, Reconcile(plan, rev)
          PROVE  KeepsLastSuccess
        BY <2>0, <2>1 DEF Reconcile, Kept, Only, Fallbacks, Overlay, KeepsLastSuccess, ShownOnce,
            Shown
    <2>2. ASSUME NEW id, Retry(id)
          PROVE  KeepsLastSuccess
        BY <2>0, <2>2 DEF Retry, Without, Only, Fallbacks, Overlay, KeepsLastSuccess, ShownOnce,
            Shown, planVars
    <2>3. ASSUME NEW s, AcceptResult(s, Active(s).target)
          PROVE  KeepsLastSuccess
        <3>1. PICK t : t = Active(s).target
            OBVIOUS
        <3>2. /\ DOMAIN results' = DOMAIN results \cup {t}
              /\ DOMAIN last_good' = DOMAIN last_good \ {t}
              /\ \A id \in DOMAIN last_good' : last_good'[id] = last_good[id]
            BY <2>3, <3>1 DEF AcceptResult, Put, Without
        <3>. QED
            BY <2>0, <3>2 DEF KeepsLastSuccess, ShownOnce, Shown
    <2>4. ASSUME UNCHANGED <<desired, resultVars>>
          PROVE  KeepsLastSuccess
        BY <2>0, <2>4 DEF KeepsLastSuccess, ShownOnce, Shown, resultVars
    <2>. QED
        BY <1>1, <2>1, <2>2, <2>3, <2>4, ResultsUntouched
<1>2. IInv /\ WorkInv /\ [Next]_vars => [KeepsLastSuccess]_vars
    BY <1>1
<1>. QED
    BY <1>2, Invariance, WorkInvariance, PTL DEF Spec, StaleOutputSurvives

-----------------------------------------------------------------------------
(***************************************************************************)
(* The coordinator implements LogicalResults.                              *)
(***************************************************************************)
\* The plan operators that LogicalResults uses are those of the coordinator.
LEMMA LogicalOperators ==
    ASSUME NEW p
    PROVE  /\ Logical!WellFormed(p) <=> WellFormed(p)
           /\ Logical!CellIdsOf(p) = CellIdsOf(p)
           /\ \A id : /\ Logical!CleanOutput(p, id) = CleanOutput(p, id)
                      /\ Logical!Suffix(p, id) = Suffix(p, id)
<1>1. /\ \A i, j : Logical!Precedes(p, i, j) <=> Precedes(p, i, j)
      /\ \A id : Logical!IndexOf(p, id) = IndexOf(p, id)
    BY DEF Logical!Precedes, Precedes, Logical!IsIsolated, IsIsolated, Logical!IndexOf, IndexOf
<1>2. \A j : Logical!Before(p, j) = Before(p, j)
    BY <1>1 DEF Logical!Before, Before
<1>3. \A j : Logical!Depth(p, j) = Depth(p, j)
    <2>1. \A S : Logical!Cardinality(S) = Cardinality(S)
        BY Zenon DEF Logical!Cardinality, Cardinality
    <2>. QED
        BY <1>2, <2>1 DEF Logical!Depth, Depth
<1>4. \A j, r : Logical!ChainCell(p, j, r) = ChainCell(p, j, r)
    BY <1>2, <1>3 DEF Logical!ChainCell, ChainCell
<1>5. \A cell : Logical!Step(cell) = Step(cell) /\ (Logical!IsIsolated(cell) <=> IsIsolated(cell))
    BY DEF Logical!Step, Step, Logical!IsIsolated, IsIsolated
<1>6. \A id : Logical!RequiredKey(p, id) = RequiredKey(p, id)
    <2>. SUFFICES ASSUME NEW id PROVE Logical!RequiredKey(p, id) = RequiredKey(p, id)
        OBVIOUS
    <2>1. PICK j : j = IndexOf(p, id)
        OBVIOUS
    <2>2. [r \in 1..Logical!Depth(p, j) |-> Logical!Step(p[Logical!ChainCell(p, j, r)])]
            = [r \in 1..Depth(p, j) |-> Step(p[ChainCell(p, j, r)])]
        BY <1>3, <1>4, <1>5
    <2>3. /\ Logical!IndexOf(p, id) = j
          /\ Logical!IsIsolated(p[j]) <=> IsIsolated(p[j])
        BY <1>1, <1>5, <2>1
    <2>. QED
        BY <2>1, <2>2, <2>3 DEF Logical!RequiredKey, RequiredKey
<1>7. \A id : Logical!CellOf(p, id) = CellOf(p, id)
    BY <1>1 DEF Logical!CellOf, CellOf
<1>8. \A id : Logical!CleanOutput(p, id) = CleanOutput(p, id)
    BY <1>5, <1>6, <1>7 DEF Logical!CleanOutput, CleanOutput, Logical!Output, Output
<1>9. \A id : Logical!Suffix(p, id) = Suffix(p, id)
    BY <1>1 DEF Logical!Suffix, Suffix
<1>. QED
    BY <1>1, <1>8, <1>9 DEF Logical!WellFormed, WellFormed, Logical!CellIdsOf, CellIdsOf

\* reconcile keeps a result exactly if a clean build gives the cell the same
\* output under both plans (same_computation).
LEMMA SameComputationIs ==
    ASSUME NEW old, NEW new, Plan(old), Plan(new), NEW id \in CellIdsOf(old) \cap CellIdsOf(new)
    PROVE  SameComputation(old, new, id) <=> CleanOutput(old, id) = CleanOutput(new, id)
<1>1. CellOf(old, id).cell_id = id /\ CellOf(new, id).cell_id = id
    BY IndexOfId
<1>2. ASSUME CleanOutput(old, id) = CleanOutput(new, id)
      PROVE  SameComputation(old, new, id)
    <2>1. /\ RequiredKey(old, id) = RequiredKey(new, id)
          /\ CellOf(old, id).environment = CellOf(new, id).environment
          /\ CellOf(old, id).session = CellOf(new, id).session
          /\ Step(CellOf(old, id)) = Step(CellOf(new, id))
        BY <1>2 DEF CleanOutput, Output
    <2>2. /\ CellOf(old, id).code = CellOf(new, id).code
          /\ CellOf(old, id).volatile_nonce = CellOf(new, id).volatile_nonce
        BY <2>1 DEF Step
    <2>3. ResultingKey(old, id) = ResultingKey(new, id)
        BY <2>1 DEF ResultingKey, Advance
    <2>4. Scope(CellOf(old, id)) = Scope(CellOf(new, id))
        BY <1>1, <2>1 DEF Scope, IsIsolated
    <2>. QED
        BY <2>1, <2>2, <2>3, <2>4 DEF SameComputation, ExecutionKey
<1>. QED
    BY <1>2, SameCleanOutput


\* Every step of the coordinator is a step of LogicalResults, or invisible to it.
LEMMA LogicalStep ==
    ASSUME IInv, WorkInv, Next
    PROVE  [Logical!Next]_Logical!vars
<1>0. /\ Plan(desired) /\ DOMAIN states = CellIdsOf(desired)
      /\ DOMAIN results \subseteq CellIdsOf(desired)
      /\ \A p \in Plans : Plan(p)
    BY PlanKnown, DesiredIsPlan DEF IInv, ResultsSound, ResultsTyped
<1>1. ASSUME NEW plan \in Plans, NEW rev, Reconcile(plan, rev)
      PROVE  Logical!Revise
    <2>1. desired' = plan /\ results' = Only(results, Kept(plan)) /\ Plan(plan)
        BY <1>0, <1>1 DEF Reconcile
    <2>2. Logical!WellFormed(desired')
        BY <2>1, LogicalOperators DEF Plan
    <2>3. Logical!Unchanged(plan) = Kept(plan)
        BY <1>0, <2>1, LogicalOperators, SameComputationIs DEF Logical!Unchanged, Kept
    <2>4. DOMAIN results' = Kept(plan) /\ \A id \in Kept(plan) : results'[id] = results[id]
        BY <2>1 DEF Only, Kept
    <2>5. Kept(plan) \subseteq DOMAIN results
        BY DEF Kept
    <2>. QED
        BY <2>1, <2>2, <2>3, <2>4, <2>5 DEF Logical!Revise
<1>2. ASSUME NEW id \in CellIdsOf(desired), Retry(id)
      PROVE  Logical!Discard(id)
    <2>1. desired' = desired /\ results' = Without(results, Suffix(desired, id))
        BY <1>2 DEF Retry, planVars
    <2>2. Logical!Suffix(desired, id) = Suffix(desired, id)
        BY LogicalOperators
    <2>. QED
        BY <2>1, <2>2 DEF Logical!Discard, Without
<1>3. ASSUME NEW s \in CurrentSessions, CompleteSuccess(s), ~ Active(s).replay,
             AcceptResult(s, Active(s).target), UNCHANGED desired
      PROVE  \E id \in CellIdsOf(desired) : Logical!Accept(id)
    <2>1. PICK t : t = Active(s).target
        OBVIOUS
    <2>2. t \in CellIdsOf(desired) /\ states[t] = "Running" /\ PrefixDone(t)
        BY <2>1, RunningIsReady
    <2>3. t \notin DOMAIN results
        BY <2>2 DEF WorkInv, ResultIsOfSuccess
    <2>4. ASSUME NEW c \in CellIdsOf(desired) \ {t}, t \in Logical!Suffix(desired, c)
          PROVE  c \in DOMAIN results
        <3>1. states[c] = "Succeeded"
            BY <2>2, <2>4, LogicalOperators DEF PrefixDone, Behind
        <3>. QED
            BY <1>0, <3>1 DEF IInv, ResultsSound, SucceededHasResult
    <2>5. Produced(s) = Logical!CleanOutput(desired, t)
        BY <1>0, <1>3, <2>1, CurrentDef, ProducedIsClean, LogicalOperators DEF IInv
    <2>6. /\ DOMAIN results' = DOMAIN results \cup {t}
          /\ results'[t].output = Produced(s)
          /\ \A c \in DOMAIN results : c # t => results'[c] = results[c]
        BY <1>3, <2>1 DEF AcceptResult, Put
    <2>7. Logical!CellIdsOf(desired) = CellIdsOf(desired)
        BY LogicalOperators
    <2>. QED
        BY <1>3, <2>2, <2>3, <2>4, <2>5, <2>6, <2>7 DEF Logical!Accept
<1>4. ASSUME UNCHANGED <<desired, resultVars>>
      PROVE  UNCHANGED Logical!vars
    BY <1>4 DEF Logical!vars, resultVars
<1>5. Logical!CellIdsOf(desired) = CellIdsOf(desired)
    BY LogicalOperators
<1>. QED
    BY <1>1, <1>2, <1>3, <1>4, <1>5, ResultsUntouched DEF Logical!Next

\* The coordinator implements its abstract promise: what it holds as results
\* only ever changes by an edit that keeps unchanged outputs, a retry of one
\* suffix, or one clean output after its whole prefix.
THEOREM Implementation == Spec => ImplementsLogicalResults
<1>1. Init => Logical!Init
    BY DEF Init, Logical!Init
<1>2. IInv /\ WorkInv /\ [Next]_vars => [Logical!Next]_Logical!vars
    <2>1. ASSUME UNCHANGED vars PROVE UNCHANGED Logical!vars
        BY <2>1 DEF vars, planVars, resultVars, Logical!vars
    <2>. QED
        BY <2>1, LogicalStep
<1>. QED
    BY <1>1, <1>2, Invariance, WorkInvariance, PTL DEF Spec, ImplementsLogicalResults, Logical!Spec

-----------------------------------------------------------------------------
(***************************************************************************)
(* Adapters that obey their contract, and code that does not fail.         *)
(***************************************************************************)
\* Where user code succeeds and idle interpreters may only die, nothing makes a
\* cell fail: an event that names neither the active attempt nor an ended one
\* does not exist, because every attempt ever dispatched is active or retired
\* (receive, reject, dispatch_ready).
THEOREM NoneFailsSpuriously ==
    ASSUME Failures = {}, Faults \subseteq {"crash"}
    PROVE  Spec => []NoSpuriousFailure
<1>1. Init => NoSpuriousFailure
    BY DEF Init, NoSpuriousFailure
<1>2. IInv /\ NoSpuriousFailure /\ [Next]_vars => NoSpuriousFailure'
    <2>1. ASSUME IInv, NoSpuriousFailure, Next
          PROVE  NoSpuriousFailure'
        <3>0. AttemptsAccountedFor /\ DOMAIN states = CellIdsOf(desired)
            BY <2>1, PlanKnown DEF IInv
        <3>1. ASSUME NEW plan, NEW rev, Reconcile(plan, rev)
              PROVE  NoSpuriousFailure'
            BY <3>1 DEF Reconcile, NoSpuriousFailure
        <3>2. ASSUME NEW id, Retry(id)
              PROVE  NoSpuriousFailure'
            BY <2>1, <3>2 DEF Retry, NoSpuriousFailure
        <3>3. ASSUME NEW i \in DOMAIN desired, DispatchCell(i)
              PROVE  NoSpuriousFailure'
            BY <2>1, <3>3 DEF DispatchCell, NoSpuriousFailure
        <3>4. ASSUME NEW i, NEW how \in {"shutdown", "start", "invalid_start", "execute"},
                     DispatchFails(i, how)
              PROVE  FALSE
            BY <3>4 DEF DispatchFails, CanFault
        <3>5. ASSUME NEW s \in DOMAIN sessions, NEW attempt \in 0..next_attempt,
                     RejectForeign(s, attempt)
              PROVE  FALSE
            <4>1. attempt \notin retired
                BY <3>5 DEF RejectForeign, Ignored
            <4>2. attempt \notin (1..(next_attempt - 1)) \ ActiveIds
                BY <3>0, <4>1 DEF AttemptsAccountedFor
            <4>3. CanFault("event")
                BY <3>5, <4>2 DEF RejectForeign
            <4>. QED
                BY <4>3 DEF CanFault
        <3>6. ASSUME NEW s, NEW fault \in Faults, RejectCurrent(s, fault)
              PROVE  FALSE
            <4>1. fault = "crash"
                OBVIOUS
            <4>2. ~ RejectionApplies(s, "crash")
                BY DEF RejectionApplies
            <4>. QED
                BY <3>6, <4>1, <4>2 DEF RejectCurrent
        <3>7. ASSUME NEW s, NEW status \in Failures, CompleteUnsuccessful(s, status)
              PROVE  FALSE
            OBVIOUS
        <3>8. ASSUME NEW s, CompleteSuccess(s)
              PROVE  NoSpuriousFailure'
            BY <2>1, <3>8 DEF CompleteSuccess, AcceptReplay, AcceptResult, NoSpuriousFailure
        <3>9. ASSUME \/ DispatchReturns \/ TerminateReturns
                     \/ \E s : ObserveEvent(s) \/ RejectRevoked(s) \/ TerminateSession(s)
                               \/ TerminateFails(s) \/ RunnerCrashes(s)
              PROVE  NoSpuriousFailure'
            <4>1. states' = states
                BY <3>9 DEF DispatchReturns, TerminateReturns, ObserveEvent, RejectRevoked,
                    TerminateSession, TerminateFails, RunnerCrashes, stateVars
            <4>. QED
                BY <2>1, <4>1 DEF NoSpuriousFailure
        <3>. QED
            BY <2>1, <3>1, <3>2, <3>3, <3>4, <3>5, <3>6, <3>7, <3>8, <3>9
            DEF Next, Edit, Dispatch, Receive, Terminate
    <2>2. ASSUME NoSpuriousFailure, UNCHANGED vars
          PROVE  NoSpuriousFailure'
        BY <2>2 DEF vars, stateVars, NoSpuriousFailure
    <2>. QED
        BY <2>1, <2>2
<1>. QED
    BY <1>1, <1>2, Invariance, PTL DEF Spec

-----------------------------------------------------------------------------
(***************************************************************************)
(* Attempt after attempt, dispatch_ready carries out what preparation      *)
(* lists: it finds the next physical cell by comparing state keys, and     *)
(* preparation by walking predecessor links.                               *)
(***************************************************************************)
\* The work preparation lists from a fresh interpreter, the target included.
Work(target) == Append(preparation(desired, target.cell_id, NoKey).prefix, target)

\* The state of an interpreter that has run the first n cells of the work.
After(target, work, n) ==
    IF IsIsolated(target) THEN NoKey
    ELSE [InitialKey(target) EXCEPT !.steps = [m \in 1..n |-> Step(work[m])]]

\* That work is the target's chain, in order, and then the target.
LEMMA WorkIs ==
    ASSUME Plan(desired), NEW j \in DOMAIN desired, NEW target, target = desired[j],
           NEW n, n = IF IsIsolated(target) THEN 0 ELSE Depth(desired, j)
    PROVE  /\ n \in Nat /\ DOMAIN Work(target) = 1..(n + 1)
           /\ Work(target)[n + 1] = target
           /\ \A r \in 1..n : Work(target)[r] = desired[ChainCell(desired, j, r)]
<1>. DEFINE prefix == preparation(desired, target.cell_id, NoKey).prefix
<1>1. /\ IndexOf(desired, target.cell_id) = j /\ CellOf(desired, target.cell_id) = target
      /\ target.cell_id \in CellIdsOf(desired) /\ Depth(desired, j) \in Nat
    BY IndexOfCell, DepthType
<1>2. CASE IsIsolated(target)
    <2>1. RequiredKey(desired, target.cell_id) = NoKey
        BY <1>1, <1>2, KeyTypes
    <2>2. prefix = <<>>
        BY <2>1 DEF preparation, Isolates
    <2>3. Work(target) = <<target>>
        BY <2>2 DEF Work
    <2>. QED
        BY <1>2, <2>3
<1>3. CASE ~ IsIsolated(target)
    <2>1. RequiredKey(desired, target.cell_id) # NoKey
        BY <1>1, <1>3, KeyTypes, PlanAssumption
    <2>2. prefix = Walk(desired)[j]
        BY <1>1, <2>1 DEF preparation
    <2>3. prefix = Prefix(desired, j)
        BY <2>2, WalkIs
    <2>4. n \in Nat /\ n = Depth(desired, j)
        BY <1>1, <1>3
    <2>5. \A r \in 1..n : desired[ChainCell(desired, j, r)] \in PlannedCell
        BY <2>4, ChainCellIs, BeforeDef, PlanDomain
    <2>6. /\ prefix \in Seq(PlannedCell) /\ Len(prefix) = n
          /\ \A r \in 1..n : prefix[r] = desired[ChainCell(desired, j, r)]
        BY <2>3, <2>4, <2>5 DEF Prefix
    <2>7. target \in PlannedCell /\ Work(target) = Append(prefix, target)
        BY PlanDomain DEF Work
    <2>. HIDE DEF prefix
    <2>. QED
        BY <2>4, <2>6, <2>7
<1>. QED
    BY <1>2, <1>3

\* What dispatch_ready has run for a target, replay after replay, is an initial
\* part of the work preparation lists for it, and the running cell is the next
\* of it (dispatch_ready, complete, preparation).
THEOREM WorkFollows == Spec => []WorkFollowsPreparation
<1>1. IInv => WorkFollowsPreparation
    <2>. SUFFICES ASSUME IInv, NEW s \in CurrentSessions
                  PROVE  LET target == CellOf(desired, Active(s).target)
                         IN  \E k \in DOMAIN Work(target) :
                                /\ Active(s).cell = Work(target)[k]
                                /\ runners[s].memory = After(target, Work(target), k - 1)
        BY DEF WorkFollowsPreparation, Work, After
    <2>. SUFFICES ASSUME NEW target, target = CellOf(desired, Active(s).target),
                         NEW work, work = Work(target)
                  PROVE  \E k \in DOMAIN work : /\ Active(s).cell = work[k]
                                                 /\ runners[s].memory = After(target, work, k - 1)
        OBVIOUS
    <2>0. Plan(desired)
        BY PlanKnown
    <2>1. PICK c : c = Active(s).cell.cell_id
        OBVIOUS
    <2>2. PICK t : t = Active(s).target
        OBVIOUS
    <2>3. /\ c \in CellIdsOf(desired) /\ t \in CellIdsOf(desired) /\ t \in Suffix(desired, c)
          /\ Active(s).cell = CellOf(desired, c)
          /\ runners[s].memory = RequiredKey(desired, c)
        BY <2>1, <2>2 DEF CurrentSessions, HasActive, Active, IInv, SessionsSound, SessionSound,
            WorkIsCurrent, AttemptOf
    <2>4. PICK i \in DOMAIN desired : i = IndexOf(desired, c)
        BY <2>0, <2>3, IndexOfId
    <2>5. PICK j \in DOMAIN desired : j = IndexOf(desired, t)
        BY <2>0, <2>3, IndexOfId
    <2>6. target = desired[j] /\ Active(s).cell = desired[i]
        BY <2>2, <2>3, <2>4, <2>5 DEF CellOf
    <2>7. i = j \/ i \in Before(desired, j)
        BY <2>0, <2>3, <2>4, <2>5, SuffixDef, BeforeDef
    <2>8. CASE IsIsolated(target)
        <3>1. i = j
            BY <2>6, <2>7, <2>8, BeforeDef DEF Precedes
        <3>2. 1 \in DOMAIN work /\ work[1] = target
            BY <2>0, <2>6, <2>8, WorkIs
        <3>3. runners[s].memory = NoKey
            BY <2>3, <2>4, <2>6, <2>8, <3>1 DEF RequiredKey
        <3>. QED
            BY <2>6, <2>8, <3>1, <3>2, <3>3 DEF After
    <2>9. CASE ~ IsIsolated(target)
        <3>1. /\ Depth(desired, i) \in Nat /\ Depth(desired, j) \in Nat
              /\ Depth(desired, i) <= Depth(desired, j)
              /\ i # j => Depth(desired, i) < Depth(desired, j)
              /\ desired[i].session = target.session
              /\ desired[i].environment = target.environment
            BY <2>0, <2>6, <2>7, DepthType, DepthGrows, BeforeDef DEF Precedes, Plan, WellFormed
        <3>2. PICK k \in Nat : k = Depth(desired, i) + 1
            BY <3>1
        <3>3. /\ DOMAIN work = 1..(Depth(desired, j) + 1)
              /\ work[Depth(desired, j) + 1] = target
              /\ \A r \in 1..Depth(desired, j) : work[r] = desired[ChainCell(desired, j, r)]
            BY <2>0, <2>6, <2>9, WorkIs
        <3>4. k \in DOMAIN work
            BY <3>1, <3>2, <3>3
        <3>5. work[k] = desired[i]
            <4>1. CASE i = j
                BY <2>6, <3>2, <3>3, <4>1
            <4>2. CASE i # j
                <5>1. ChainCell(desired, j, k) = i
                    BY <2>0, <2>7, <3>2, <4>2, ChainCellIs
                <5>2. k \in 1..Depth(desired, j)
                    BY <3>1, <3>2, <4>2
                <5>. QED
                    BY <3>3, <5>1, <5>2
            <4>. QED
                BY <4>1, <4>2
        <3>6. ASSUME NEW r \in 1..Depth(desired, i)
              PROVE  Step(desired[ChainCell(desired, i, r)]) = Step(work[r])
            <4>1. r \in 1..Depth(desired, j)
                BY <3>1
            <4>2. ChainCell(desired, j, r) = ChainCell(desired, i, r)
                BY <2>0, <2>7, ChainCellShared
            <4>. QED
                BY <3>3, <4>1, <4>2
        <3>7. 1..(k - 1) = 1..Depth(desired, i)
            BY <3>1, <3>2
        <3>8. [r \in 1..Depth(desired, i) |-> Step(desired[ChainCell(desired, i, r)])]
                = [n \in 1..(k - 1) |-> Step(work[n])]
            BY <3>6, <3>7
        <3>9. RequiredKey(desired, c) =
                [environment |-> target.environment, session |-> target.session,
                 steps |-> [n \in 1..(k - 1) |-> Step(work[n])]]
            <4>1. ~ IsIsolated(desired[i])
                BY <2>9, <3>1 DEF IsIsolated
            <4>. QED
                BY <2>4, <3>1, <3>8, <4>1 DEF RequiredKey
        <3>10. After(target, work, k - 1) =
                 [environment |-> target.environment, session |-> target.session,
                  steps |-> [n \in 1..(k - 1) |-> Step(work[n])]]
            <4>. DEFINE done == [n \in 1..(k - 1) |-> Step(work[n])]
            <4>1. After(target, work, k - 1) = [InitialKey(target) EXCEPT !.steps = done]
                BY <2>9 DEF After
            <4>2. InitialKey(target) = [environment |-> target.environment,
                                        session |-> target.session, steps |-> <<>>]
                BY <2>9 DEF InitialKey
            <4>. HIDE DEF done
            <4>3. After(target, work, k - 1) = [environment |-> target.environment,
                                                session |-> target.session, steps |-> done]
                BY <4>1, <4>2, WithSteps
            <4>. QED
                BY <4>3 DEF done
        <3>. QED
            BY <2>3, <2>6, <2>9, <3>4, <3>5, <3>9, <3>10
    <2>. QED
        BY <2>8, <2>9
<1>. QED
    BY <1>1, Invariance, PTL
=============================================================================
