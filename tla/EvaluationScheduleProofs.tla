---------------------- MODULE EvaluationScheduleProofs ----------------------
(***************************************************************************)
(* Proofs about EvaluationSchedule, for every set of well-formed plans and *)
(* every limit.  The queue's bookkeeping ("ready", "running") is related   *)
(* to the states it stands for by an inductive invariant whose key part is *)
(* ChainShape: a chain is a succeeded prefix, at most one cell at work or  *)
(* ended otherwise, and a rest that has not started.                       *)
(***************************************************************************)
EXTENDS EvaluationSchedule, TLAPS, FiniteSetTheorems, WellFoundedInduction

Begun == {"Running", "Succeeded", "Failed", "Cancelled"}

ChainShape ==
    \A i \in DOMAIN plan : states[i] \in Begun =>
        \A k \in Earlier(i) : states[k] = "Succeeded"

IInv == TypeOK /\ SlotsCounted /\ ChainShape /\ ReadyIsExact /\ FailureBlocksOwnSuffix

RunningSet == {i \in DOMAIN plan : states[i] = "Running"}

-----------------------------------------------------------------------------
\* A non-empty set of natural numbers has a least element.
LEMMA LeastNat ==
    ASSUME NEW T \in SUBSET Nat, T # {}
    PROVE  \E x \in T : \A y \in T : x <= y
<1>1. IsWellFoundedOn(OpToRel(<, Nat), Nat)
    BY NatLessThanWellFounded
<1>2. PICK x \in T : \A y \in T : ~ (<<y, x>> \in OpToRel(<, Nat))
    BY <1>1, WFMin
<1>3. \A y \in T : ~ (y < x)
    BY <1>2 DEF OpToRel
<1>4. \A y \in T : y \in Nat
    OBVIOUS
<1>5. \A y \in T : x <= y
    BY <1>3, <1>4
<1>. QED
    BY <1>5

Plan(p) == p \in Seq(PlannedCell) /\ WellFormed(p)

\* The positions of a plan are natural numbers, and finitely many.
LEMMA PlanDomain ==
    ASSUME NEW p, Plan(p)
    PROVE  /\ Len(p) \in Nat /\ DOMAIN p = 1..Len(p)
           /\ DOMAIN p \subseteq Nat /\ IsFiniteSet(DOMAIN p)
           /\ \A i \in DOMAIN p : p[i] \in PlannedCell
<1>1. p \in Seq(PlannedCell)
    BY DEF Plan
<1>2. /\ DOMAIN p = 1..Len(p) /\ Len(p) \in Nat
      /\ \A i \in DOMAIN p : p[i] \in PlannedCell
    BY <1>1
<1>. QED
    BY <1>2, FS_Interval

\* The order of a chain is a strict order, linear below each of its cells
\* (chain_predecessors).
LEMMA PrecedesOrder ==
    ASSUME NEW p, Plan(p), NEW i \in DOMAIN p, NEW j \in DOMAIN p, NEW k \in DOMAIN p
    PROVE  /\ ~ Precedes(p, i, i)
           /\ Precedes(p, i, j) => i < j /\ ~ Precedes(p, j, i)
           /\ Precedes(p, i, j) /\ Precedes(p, j, k) => Precedes(p, i, k)
           /\ Precedes(p, i, k) /\ Precedes(p, j, k) /\ i < j => Precedes(p, i, j)
           /\ Precedes(p, i, j) /\ Precedes(p, i, k) /\ j < k => Precedes(p, j, k)
           /\ i < j \/ i = j \/ j < i
<1>1. i \in Nat /\ j \in Nat /\ k \in Nat
    BY PlanDomain
<1>. QED
    BY <1>1 DEF Precedes, IsIsolated

\* The plans of the specification are well formed.
LEMMA PlansWellFormed == \A p \in Plans : Plan(p)
BY ScheduleAssumption DEF Plan

\* Membership in Earlier.
LEMMA EarlierDef ==
    ASSUME NEW i
    PROVE  \A k : k \in Earlier(i) <=> k \in DOMAIN plan /\ Precedes(plan, k, i)
BY DEF Earlier, Before

-----------------------------------------------------------------------------
\* Every cell starts pending; a chain's first cell starts ready (schedule).
LEMMA InitIInv == Init => IInv
<1>. SUFFICES ASSUME Init PROVE IInv
    OBVIOUS
<1>1. TypeOK
    BY DEF Init, TypeOK, ScheduledCellState
<1>2. RunningSet = {}
    BY DEF Init, RunningSet
<1>3. SlotsCounted
    <2>1. running = Cardinality(RunningSet)
        BY <1>2, FS_EmptySet DEF Init
    <2>2. running <= MaxConcurrent
        BY ScheduleAssumption DEF Init
    <2>. QED
        BY <2>1, <2>2 DEF SlotsCounted, RunningSet
<1>4. ChainShape
    BY DEF Init, ChainShape, Begun
<1>5. ReadyIsExact
    <2>1. \A i : Earlier(i) \subseteq DOMAIN plan
        BY EarlierDef
    <2>. QED
        BY <2>1 DEF Init, ReadyIsExact
<1>6. FailureBlocksOwnSuffix
    <2>1. \A i : Earlier(i) \subseteq DOMAIN plan
        BY EarlierDef
    <2>. QED
        BY <2>1 DEF Init, FailureBlocksOwnSuffix
<1>. QED
    BY <1>1, <1>3, <1>4, <1>5, <1>6 DEF IInv

\* Reserving a ready cell keeps the bookkeeping exact (reserve_next).
LEMMA ReserveIInv ==
    ASSUME IInv, NEW i \in DOMAIN plan, reserve_next(i)
    PROVE  IInv'
<1>. USE DEF IInv
<1>1. /\ plan' = plan /\ ready' = ready \ {i} /\ running' = running + 1
      /\ states' = [states EXCEPT ![i] = "Running"]
      /\ i \in ready /\ running < MaxConcurrent
    BY DEF reserve_next, NextReady, HasSlot
<1>2. states[i] = "Pending" /\ \A k \in Earlier(i) : states[k] = "Succeeded"
    BY <1>1 DEF ReadyIsExact
<1>3. plan \in Plans /\ states \in [DOMAIN plan -> ScheduledCellState] /\ running \in Nat
    BY DEF TypeOK
<1>4. /\ states' \in [DOMAIN plan -> ScheduledCellState]
      /\ states'[i] = "Running"
      /\ \A j \in DOMAIN plan \ {i} : states'[j] = states[j]
    BY <1>1, <1>3 DEF ScheduledCellState
<1>5. TypeOK'
    BY <1>1, <1>3, <1>4 DEF TypeOK
<1>6. SlotsCounted'
    <2>1. IsFiniteSet(RunningSet) /\ i \notin RunningSet
        BY <1>2, <1>3, PlansWellFormed, PlanDomain, FS_Subset DEF RunningSet
    <2>2. RunningSet' = RunningSet \cup {i}
        BY <1>1, <1>4 DEF RunningSet
    <2>3. Cardinality(RunningSet') = Cardinality(RunningSet) + 1
        BY <2>1, <2>2, FS_AddElement
    <2>. QED
        BY <1>1, <1>3, <2>3, ScheduleAssumption DEF SlotsCounted, RunningSet
<1>7. \A j : Earlier(j)' = Earlier(j) /\ Earlier(j) \subseteq DOMAIN plan /\ i \notin Earlier(i)
    <2>1. \A j : Earlier(j)' = Earlier(j)
        BY <1>1 DEF Earlier
    <2>. QED
        BY <1>3, <2>1, EarlierDef, PlansWellFormed, PrecedesOrder
<1>8. ChainShape'
    BY <1>1, <1>2, <1>4, <1>7 DEF ChainShape, Begun
<1>9. ReadyIsExact'
    BY <1>1, <1>2, <1>4, <1>7 DEF ReadyIsExact
<1>10. FailureBlocksOwnSuffix'
    BY <1>1, <1>2, <1>4, <1>7 DEF FailureBlocksOwnSuffix
<1>. QED
    BY <1>5, <1>6, <1>8, <1>9, <1>10

\* A success releases exactly the next cell of its own chain; any other outcome
\* blocks exactly the rest of it (complete).
LEMMA CompleteIInv ==
    ASSUME IInv, NEW i \in DOMAIN plan, NEW status \in Statuses, complete(i, status)
    PROVE  IInv'
<1>. USE DEF IInv
<1>1. /\ plan' = plan /\ running' = running - 1 /\ states[i] = "Running"
      /\ plan \in Plans /\ states \in [DOMAIN plan -> ScheduledCellState] /\ running \in Nat
    BY DEF complete, TypeOK
<1>2. \A k \in Earlier(i) : states[k] = "Succeeded"
    BY <1>1 DEF ChainShape, Begun
<1>3. SlotsCounted' /\ running' \in Nat
    <2>1. IsFiniteSet(RunningSet) /\ i \in RunningSet
        BY <1>1, PlansWellFormed, PlanDomain, FS_Subset DEF RunningSet
    <2>2. RunningSet' = RunningSet \ {i}
        <3>1. \A j \in DOMAIN plan :
                 states'[j] = "Running" <=> states[j] = "Running" /\ j # i
            <4>1. CASE status = "Succeeded"
                BY <1>1, <4>1 DEF complete
            <4>2. CASE status # "Succeeded"
                <5>1. \A j \in BlockedBy(i) : states[j] # "Running"
                    BY <1>1, EarlierDef DEF BlockedBy, ChainShape, Begun
                <5>. QED
                    BY <1>1, <4>2, <5>1 DEF complete, Statuses
            <4>. QED
                BY <4>1, <4>2
        <3>. QED
            BY <1>1, <3>1 DEF RunningSet
    <2>3. Cardinality(RunningSet') = Cardinality(RunningSet) - 1
        BY <2>1, <2>2, FS_RemoveElement
    <2>4. Cardinality(RunningSet) \in Nat /\ Cardinality(RunningSet) # 0
        BY <2>1, FS_CardinalityType, FS_EmptySet
    <2>. QED
        BY <1>1, <2>3, <2>4, ScheduleAssumption DEF SlotsCounted, RunningSet
<1>4. \A j : Earlier(j)' = Earlier(j) /\ Earlier(j) \subseteq DOMAIN plan
    <2>1. \A j : Earlier(j)' = Earlier(j)
        BY <1>1 DEF Earlier
    <2>. QED
        BY <2>1, EarlierDef
<1>5. \A j \in DOMAIN plan : i \in Earlier(j) =>
        j # i /\ states[j] = "Pending" /\ \A k \in Earlier(j) : states[k] # "Failed" /\ states[k] # "Cancelled"
    <2>. SUFFICES ASSUME NEW j \in DOMAIN plan, i \in Earlier(j)
                  PROVE  j # i /\ states[j] = "Pending" /\ \A k \in Earlier(j) : states[k] # "Failed" /\ states[k] # "Cancelled"
        OBVIOUS
    <2>1. j # i
        BY <1>1, EarlierDef, PlansWellFormed, PrecedesOrder
    <2>2. states[j] \notin Begun
        BY <1>1 DEF ChainShape
    <2>3. \A k \in Earlier(j) : states[k] # "Failed" /\ states[k] # "Cancelled"
        <3>. SUFFICES ASSUME NEW k \in Earlier(j), states[k] \in {"Failed", "Cancelled"} PROVE FALSE
            OBVIOUS
        <3>1. k \in DOMAIN plan /\ Precedes(plan, k, j) /\ Precedes(plan, i, j)
            BY EarlierDef
        <3>2. k \in Earlier(i) \/ i \in Earlier(k) \/ k = i
            BY <1>1, <3>1, PlansWellFormed, PrecedesOrder, EarlierDef
        <3>. QED
            BY <1>1, <1>2, <3>1, <3>2 DEF ChainShape, Begun
    <2>4. states[j] # "Blocked"
        BY <2>3 DEF FailureBlocksOwnSuffix
    <2>. QED
        BY <1>1, <2>1, <2>2, <2>3, <2>4 DEF ScheduledCellState, Begun, Statuses
<1>6. CASE status = "Succeeded"
    <2>1. /\ states' \in [DOMAIN plan -> ScheduledCellState] /\ states'[i] = "Succeeded"
          /\ \A j \in DOMAIN plan \ {i} : states'[j] = states[j]
          /\ ready' = ready \cup Successors(i)
        BY <1>1, <1>6 DEF complete, ScheduledCellState, Statuses
    <2>2. TypeOK'
        BY <1>1, <1>3, <2>1 DEF TypeOK, Successors
    <2>3. ChainShape'
        BY <1>1, <1>2, <1>4, <2>1 DEF ChainShape, Begun
    <2>4. FailureBlocksOwnSuffix'
        <3>. SUFFICES ASSUME NEW j \in DOMAIN plan
                      PROVE  states'[j] = "Blocked" <=>
                                \E k \in Earlier(j) : states'[k] \in {"Failed", "Cancelled"}
            BY <1>1, <1>4 DEF FailureBlocksOwnSuffix
        <3>1. CASE j = i
            BY <1>2, <1>4, <2>1, <3>1
        <3>2. CASE j # i
            BY <1>1, <1>4, <2>1, <3>2 DEF FailureBlocksOwnSuffix
        <3>. QED
            BY <3>1, <3>2
    <2>5. ReadyIsExact'
        <3>. SUFFICES ASSUME NEW j \in DOMAIN plan
                      PROVE  j \in ready' <=>
                                states'[j] = "Pending" /\ \A k \in Earlier(j) : states'[k] = "Succeeded"
            BY <1>1, <1>4, <2>2 DEF ReadyIsExact, TypeOK
        <3>1. CASE j \in Successors(i)
            <4>1. Precedes(plan, i, j) /\ i \in Earlier(j) /\ j # i
                BY <1>5, <3>1, EarlierDef DEF Successors
            <4>2. \A k \in Earlier(j) : k = i \/ k \in Earlier(i)
                <5>. SUFFICES ASSUME NEW k \in Earlier(j), k # i, k \notin Earlier(i) PROVE FALSE
                    OBVIOUS
                <5>1. k \in DOMAIN plan /\ Precedes(plan, k, j) /\ k < j
                    BY <1>1, EarlierDef, PlansWellFormed, PrecedesOrder
                <5>2. Precedes(plan, i, k)
                    BY <1>1, <4>1, <5>1, EarlierDef, PlansWellFormed, PrecedesOrder
                <5>3. j <= k
                    BY <3>1, <5>1, <5>2 DEF Successors
                <5>. QED
                    BY <1>1, <5>1, <5>3, PlansWellFormed, PlanDomain
            <4>. QED
                BY <1>2, <1>4, <1>5, <2>1, <3>1, <4>1, <4>2
        <3>2. CASE j \notin Successors(i) /\ i \notin Earlier(j)
            BY <1>1, <1>4, <2>1, <3>2 DEF ReadyIsExact
        <3>3. CASE j \notin Successors(i) /\ i \in Earlier(j)
            <4>1. PICK k \in DOMAIN plan : Precedes(plan, i, k) /\ ~ (j <= k)
                BY <3>3, EarlierDef DEF Successors
            <4>2. k \in Earlier(j) /\ i \in Earlier(k) /\ k # i
                <5>1. k < j /\ Precedes(plan, i, j)
                    BY <1>1, <3>3, <4>1, EarlierDef, PlansWellFormed, PlanDomain
                <5>2. Precedes(plan, k, j)
                    BY <4>1, <5>1 DEF Precedes, IsIsolated
                <5>. QED
                    BY <1>1, <4>1, <5>2, EarlierDef, PlansWellFormed, PrecedesOrder
            <4>3. states'[k] # "Succeeded" /\ j \notin ready
                BY <1>1, <1>5, <2>1, <3>3, <4>2 DEF ReadyIsExact
            <4>. QED
                BY <2>1, <3>3, <4>2, <4>3
        <3>. QED
            BY <3>1, <3>2, <3>3
    <2>. QED
        BY <1>3, <2>2, <2>3, <2>4, <2>5
<1>7. CASE status # "Succeeded"
    <2>1. /\ states'[i] = status /\ status \in {"Failed", "Cancelled"}
          /\ \A j \in DOMAIN plan : i \in Earlier(j) => states'[j] = "Blocked"
          /\ \A j \in DOMAIN plan : i \notin Earlier(j) /\ j # i => states'[j] = states[j]
          /\ ready' = ready
          /\ states' \in [DOMAIN plan -> ScheduledCellState]
        BY <1>1, <1>5, <1>7, EarlierDef DEF complete, BlockedBy, ScheduledCellState, Statuses
    <2>2. TypeOK'
        BY <1>1, <1>3, <2>1 DEF TypeOK
    <2>3. \A j \in DOMAIN plan : i \notin Earlier(j) =>
             \A k \in Earlier(j) : states'[k] = states[k]
        <3>1. \A j \in DOMAIN plan : \A k \in Earlier(j) : i \in Earlier(k) => i \in Earlier(j)
            BY <1>1, <1>4, EarlierDef, PlansWellFormed, PrecedesOrder
        <3>. QED
            BY <1>4, <2>1, <3>1
    <2>4. i \notin Earlier(i)
        BY <1>5
    <2>5. ChainShape'
        BY <1>1, <1>2, <1>4, <2>1, <2>3, <2>4 DEF ChainShape, Begun
    <2>6. FailureBlocksOwnSuffix'
        <3>. SUFFICES ASSUME NEW j \in DOMAIN plan
                      PROVE  states'[j] = "Blocked" <=>
                                \E k \in Earlier(j) : states'[k] \in {"Failed", "Cancelled"}
            BY <1>1, <1>4 DEF FailureBlocksOwnSuffix
        <3>1. CASE j = i
            BY <1>2, <2>1, <2>3, <2>4, <3>1
        <3>2. CASE i \in Earlier(j)
            BY <2>1, <3>2
        <3>3. CASE j # i /\ i \notin Earlier(j)
            BY <2>1, <2>3, <3>3 DEF FailureBlocksOwnSuffix
        <3>. QED
            BY <3>1, <3>2, <3>3
    <2>7. ReadyIsExact'
        <3>. SUFFICES ASSUME NEW j \in DOMAIN plan
                      PROVE  j \in ready <=>
                                states'[j] = "Pending" /\ \A k \in Earlier(j) : states'[k] = "Succeeded"
            BY <1>1, <1>4, <2>1, <2>2 DEF ReadyIsExact, TypeOK
        <3>1. CASE j = i
            BY <1>1, <2>1, <3>1 DEF ReadyIsExact
        <3>2. CASE i \in Earlier(j)
            BY <1>1, <2>1, <3>2 DEF ReadyIsExact
        <3>3. CASE j # i /\ i \notin Earlier(j)
            BY <2>1, <2>3, <3>3 DEF ReadyIsExact
        <3>. QED
            BY <3>1, <3>2, <3>3
    <2>. QED
        BY <1>3, <2>2, <2>5, <2>6, <2>7
<1>. QED
    BY <1>6, <1>7

-----------------------------------------------------------------------------
\* The inductive invariant holds in every reachable state, whatever the plan,
\* the limit and the outcomes.
THEOREM Invariance == Spec => []IInv
<1>1. Init => IInv
    BY InitIInv
<1>2. IInv /\ [Next]_vars => IInv'
    <2>. SUFFICES ASSUME IInv, [Next]_vars PROVE IInv'
        OBVIOUS
    <2>1. CASE Reserve
        BY <2>1, ReserveIInv DEF Reserve
    <2>2. CASE Complete
        BY <2>2, CompleteIInv DEF Complete
    <2>3. CASE UNCHANGED vars
        BY <2>3 DEF vars, IInv, TypeOK, SlotsCounted, ChainShape, ReadyIsExact,
                    FailureBlocksOwnSuffix, Earlier
    <2>. QED
        BY <2>1, <2>2, <2>3 DEF Next
<1>. QED
    BY <1>1, <1>2, PTL DEF Spec

\* A schedule without slots or ready cells in use has left no cell behind: the
\* first cell of a chain prefix that has not succeeded could always move.
LEMMA FinishedFromIInv == IInv => FinishedMeansTerminal
<1>. SUFFICES ASSUME IInv PROVE FinishedMeansTerminal
    OBVIOUS
<1>. USE DEF IInv
<1>1. plan \in Plans /\ states \in [DOMAIN plan -> ScheduledCellState] /\ running \in Nat
    BY DEF TypeOK
<1>2. running = 0 <=> RunningSet = {}
    <2>1. IsFiniteSet(RunningSet) /\ running = Cardinality(RunningSet)
        BY <1>1, PlansWellFormed, PlanDomain, FS_Subset DEF RunningSet, SlotsCounted
    <2>. QED
        BY <2>1, FS_EmptySet
<1>3. ASSUME is_finished, NEW i \in DOMAIN plan, states[i] \in {"Pending", "Running"}
      PROVE  FALSE
    <2>. DEFINE Open == {j \in {i} \cup Earlier(i) : states[j] # "Succeeded"}
    <2>1. i \in Open /\ Open \subseteq DOMAIN plan /\ Open \subseteq Nat
        BY <1>1, <1>3, PlansWellFormed, PlanDomain, EarlierDef
    <2>2. PICK j \in Open : \A k \in Open : j <= k
        BY <2>1, LeastNat
    <2>3. \A k \in Earlier(j) : states[k] = "Succeeded"
        <3>. SUFFICES ASSUME NEW k \in Earlier(j), states[k] # "Succeeded" PROVE FALSE
            OBVIOUS
        <3>1. k \in DOMAIN plan /\ Precedes(plan, k, j) /\ k < j /\ k \in Nat /\ j \in Nat
            BY <1>1, <2>1, EarlierDef, PlansWellFormed, PrecedesOrder, PlanDomain
        <3>2. k \in Earlier(i)
            BY <1>1, <2>1, <3>1, EarlierDef, PlansWellFormed, PrecedesOrder
        <3>. QED
            BY <2>2, <3>1, <3>2
    <2>4. states[j] # "Blocked"
        BY <2>1, <2>3 DEF FailureBlocksOwnSuffix
    <2>5. states[j] # "Pending"
        BY <1>3, <2>1, <2>3 DEF is_finished, ReadyIsExact
    <2>6. states[j] # "Running"
        BY <1>2, <1>3, <2>1 DEF is_finished, RunningSet
    <2>7. states[j] \in {"Failed", "Cancelled"}
        BY <1>1, <2>1, <2>4, <2>5, <2>6 DEF ScheduledCellState, Statuses
    <2>8. j # i /\ j \in Earlier(i)
        BY <1>3, <2>7
    <2>. QED
        BY <1>3, <2>7, <2>8 DEF FailureBlocksOwnSuffix
<1>4. ASSUME \A i \in DOMAIN plan : states[i] \notin {"Pending", "Running"}
      PROVE  is_finished
    <2>1. RunningSet = {}
        BY <1>4 DEF RunningSet
    <2>2. ready = {}
        BY <1>4 DEF ReadyIsExact
    <2>. QED
        BY <1>2, <2>1, <2>2 DEF is_finished
<1>. QED
    BY <1>3, <1>4 DEF FinishedMeansTerminal

\* The types, the slot counter, the ready set, the meaning of is_finished and
\* the isolation of failures, for every plan and limit.
THEOREM TypeCorrect == Spec => []TypeOK
BY Invariance, PTL DEF IInv

\* The slot counter is exact and never exceeds the limit (reserve_next, complete).
THEOREM SlotsCorrect == Spec => []SlotsCounted
BY Invariance, PTL DEF IInv

\* The ready set is exactly the cells that may run (schedule, complete).
THEOREM ReadyCorrect == Spec => []ReadyIsExact
BY Invariance, PTL DEF IInv

\* A failure or cancellation blocks the whole rest of its own chain, and
\* nothing else (complete).
THEOREM FailureIsolated == Spec => []FailureBlocksOwnSuffix
BY Invariance, PTL DEF IInv

\* is_finished never reports a schedule that still holds a runnable or running
\* cell, and always reports one that does not.
THEOREM FinishedCorrect == Spec => []FinishedMeansTerminal
BY Invariance, FinishedFromIInv, PTL

\* A slot always goes to the earliest cell of the document that could run.
THEOREM ReservedInDocumentOrder == Spec => DocumentOrder
<1>. DEFINE Ordered ==
        \A i \in DOMAIN plan : states[i] = "Pending" /\ states'[i] = "Running" =>
          \A j \in 1..(i - 1) :
             states[j] = "Pending" => \E k \in Earlier(j) : states[k] # "Succeeded"
<1>1. IInv /\ [Next]_vars => [Ordered]_vars
    <2>. SUFFICES ASSUME IInv, Next,
                         NEW i \in DOMAIN plan, states[i] = "Pending", states'[i] = "Running",
                         NEW j \in 1..(i - 1), states[j] = "Pending",
                         \A k \in Earlier(j) : states[k] = "Succeeded"
                  PROVE  FALSE
        OBVIOUS
    <2>1. plan \in Plans /\ plan \in Seq(PlannedCell) /\ i \in 1..Len(plan)
        BY ScheduleAssumption DEF IInv, TypeOK
    <2>2. j \in DOMAIN plan /\ j < i
        BY <2>1
    <2>3. j \in ready
        BY <2>2 DEF IInv, ReadyIsExact
    <2>4. ASSUME NEW n \in DOMAIN plan, reserve_next(n) PROVE FALSE
        <3>1. n = i
            BY <2>4 DEF reserve_next, IInv, TypeOK
        <3>2. i <= j
            BY <2>3, <2>4, <3>1 DEF reserve_next, NextReady
        <3>. QED
            BY <2>1, <2>2, <3>2
    <2>5. ASSUME NEW n \in DOMAIN plan, NEW status \in Statuses, complete(n, status) PROVE FALSE
        BY <2>5 DEF complete, Statuses, IInv, TypeOK
    <2>. QED
        BY <2>4, <2>5 DEF Next, Reserve, Complete
<1>. QED
    BY <1>1, Invariance, PTL DEF Spec, DocumentOrder
=============================================================================
