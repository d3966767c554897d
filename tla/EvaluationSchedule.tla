------------------------- MODULE EvaluationSchedule -------------------------
(***************************************************************************)
(* The pure reservation queue over one immutable plan: cells are reserved  *)
(* in document order within a global limit, a success releases the cell's  *)
(* own successor, a failure or cancellation blocks the rest of its chain.  *)
(* The schedule keeps "ready" and "running" incrementally; the properties  *)
(* relate them to the states they stand for.                               *)
(***************************************************************************)
EXTENDS EvaluationPlan

CONSTANTS Plans, MaxConcurrent

ASSUME ScheduleAssumption ==
    /\ Plans \subseteq {p \in Seq(PlannedCell) : WellFormed(p)}
    /\ MaxConcurrent \in Nat \ {0}

VARIABLES
    plan,      \* the borrowed plan
    states,    \* index -> scheduled state
    ready,     \* the indices that may be reserved
    running    \* the number of reserved slots

vars == <<plan, states, ready, running>>

\* Mutant (not part of the model): the next cell of the document follows.
SuccessorsInDocument(i) == {i + 1} \cap DOMAIN plan

\* The next cell of i's chain, if there is one.
Successors(i) ==
    {j \in DOMAIN plan : /\ Precedes(plan, i, j)
                         /\ \A k \in DOMAIN plan : Precedes(plan, i, k) => j <= k}

\* Chain predecessors of i, near and far.
Earlier(i) == Before(plan, i)

Init ==
    /\ plan \in Plans
    /\ states = [i \in DOMAIN plan |-> "Pending"]
    /\ ready = {i \in DOMAIN plan : Earlier(i) = {}}
    /\ running = 0

\* Mutants: ready cells count against the limit; any ready cell may be taken.
HasSlotCountingReady == running + Cardinality(ready) <= MaxConcurrent
NextReadyAny(i) == i \in ready

HasSlot == running < MaxConcurrent
NextReady(i) == i \in ready /\ \A j \in ready : i <= j

reserve_next(i) ==
    /\ HasSlot
    /\ NextReady(i)
    /\ ready' = ready \ {i}
    /\ states' = [states EXCEPT ![i] = "Running"]
    /\ running' = running + 1
    /\ UNCHANGED plan

\* Mutants: only the next cell is blocked; the rest of the document is.
BlockedByNext(i) == Successors(i)
BlockedByDocument(i) == {j \in DOMAIN plan : i < j /\ states[j] = "Pending"}

BlockedBy(i) == {j \in DOMAIN plan : Precedes(plan, i, j)}

complete(i, status) ==
    /\ i \in DOMAIN plan
    /\ states[i] = "Running"
    /\ running' = running - 1
    /\ IF status = "Succeeded"
       THEN /\ ready' = ready \cup Successors(i)
            /\ states' = [states EXCEPT ![i] = "Succeeded"]
       ELSE /\ ready' = ready
            /\ states' = [j \in DOMAIN plan |->
                            IF j = i THEN status
                            ELSE IF j \in BlockedBy(i) THEN "Blocked" ELSE states[j]]
    /\ UNCHANGED plan

Statuses == {"Succeeded", "Failed", "Cancelled"}

Reserve == \E i \in DOMAIN plan : reserve_next(i)
Complete == \E i \in DOMAIN plan : \E status \in Statuses : complete(i, status)

Next == Reserve \/ Complete

Spec == Init /\ [][Next]_vars

\* The caller keeps reserving, and every reserved cell is eventually completed.
FairSpec == Spec /\ WF_vars(Reserve) /\ WF_vars(Complete)

is_finished == running = 0 /\ ready = {}

-----------------------------------------------------------------------------
ScheduledCellState == {"Pending", "Running", "Blocked"} \cup Statuses

\* Every variable keeps its type.
TypeOK ==
    /\ plan \in Plans
    /\ states \in [DOMAIN plan -> ScheduledCellState]
    /\ ready \subseteq DOMAIN plan
    /\ running \in Nat

\* The incremental slot counter is the number of running cells, and within the
\* limit (reserve_next, complete).
SlotsCounted ==
    /\ running = Cardinality({i \in DOMAIN plan : states[i] = "Running"})
    /\ running <= MaxConcurrent

\* "ready" holds exactly the pending cells whose whole chain prefix succeeded.
ReadyIsExact ==
    ready = {i \in DOMAIN plan :
               /\ states[i] = "Pending"
               /\ \A k \in Earlier(i) : states[k] = "Succeeded"}

\* is_finished, computed from the counters alone, says that every cell
\* succeeded, failed, was cancelled or is blocked: no cell is stranded.
FinishedMeansTerminal ==
    is_finished <=> \A i \in DOMAIN plan : states[i] \notin {"Pending", "Running"}

\* A cell is blocked exactly when an earlier cell of its own chain failed or was
\* cancelled; other chains and isolated cells are untouched.
FailureBlocksOwnSuffix ==
    \A i \in DOMAIN plan :
        states[i] = "Blocked" <=>
            \E k \in Earlier(i) : states[k] \in {"Failed", "Cancelled"}

\* Slots go to the earliest cell that could run, in document order.
DocumentOrder ==
    [][\A i \in DOMAIN plan : states[i] = "Pending" /\ states'[i] = "Running" =>
          \A j \in 1..(i - 1) :
             states[j] = "Pending" =>
                \E k \in Earlier(j) : states[k] # "Succeeded"]_vars

\* Every schedule finishes, whatever the outcomes, and leaves no cell behind.
Finishes == <>[](is_finished /\ FinishedMeansTerminal)
=============================================================================
