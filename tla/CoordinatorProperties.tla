----------------------- MODULE CoordinatorProperties -----------------------
(***************************************************************************)
(* What the execution coordinator promises: its type, safety, action and   *)
(* liveness properties.                                                    *)
(***************************************************************************)
EXTENDS ExecutionCoordinator

Keys == StateKey \cup {NoKey}

Outputs ==
    [memory : Keys, environment : Environments, session : Chains \cup {Isolated},
     step : Steps]

Accepted == [attempt_id : Nat, events : Nat, output : Outputs]

Sessions ==
    [verified_state : Keys, active : Attempts \cup {NoAttempt},
     replay_target : CellIds \cup {NoCell}, cleanup_pending : BOOLEAN]

CellStates == {"Pending", "Running", "Succeeded", "Failed", "Cancelled", "Blocked"}

\* Every variable keeps its type, and the maps that the code keeps in step
\* have matching domains.
TypeOK ==
    /\ revision \in Nat /\ next_attempt \in Nat \ {0} /\ next_session \in Nat \ {0}
    /\ desired \in Plans \cup {<<>>}
    /\ states \in [CellIdsOf(desired) -> CellStates]
    /\ DOMAIN results \subseteq CellIdsOf(desired)
    /\ DOMAIN last_good \subseteq CellIdsOf(desired)
    /\ DOMAIN diagnostics \subseteq CellIdsOf(desired)
    /\ \A id \in DOMAIN results : results[id] \in Accepted
    /\ \A id \in DOMAIN last_good : last_good[id] \in Accepted
    /\ \A id \in DOMAIN diagnostics : diagnostics[id] \in CellIds \cup {NoCell}
    /\ {Scope(desired[i]) : i \in DOMAIN desired} \subseteq DOMAIN session_ids
    /\ \A x \in DOMAIN session_ids : session_ids[x] \in 1..(next_session - 1)
    /\ DOMAIN sessions \subseteq 1..(next_session - 1)
    /\ DOMAIN runners = DOMAIN sessions
    /\ \A s \in DOMAIN sessions : sessions[s] \in Sessions
    /\ \A s \in DOMAIN sessions :
          runners[s] \in [materialized : Keys, memory : Keys \cup {Dead, Dirty}]
    /\ retired \subseteq 1..(next_attempt - 1)
    /\ \A k \in DOMAIN committed : committed[k] \in Outputs
    /\ call \in [op : {"none", "dispatch", "terminate"}, at : Nat]
    /\ edits \in 0..MaxEdits /\ retries \in 0..MaxRetries /\ faults \in 0..MaxFaults

\* The current attempts: those whose completion may still change results.
CurrentSessions == {s \in DOMAIN sessions : HasActive(s) /\ ~ Active(s).revoked}

\* A cell is Running exactly while one unrevoked attempt works for it, in the
\* session of its scope: no lost attempt leaves a cell Running for ever, and
\* no two sessions race to produce one cell (coordinator.rs:396-469, 746-785).
RunningIsAttempted ==
    /\ \A id \in DOMAIN states : states[id] = "Running" =>
          \E s \in CurrentSessions : Active(s).target = id
    /\ \A s \in CurrentSessions :
          LET t == Active(s).target
          IN  /\ t \in DOMAIN states /\ states[t] = "Running"
              /\ session_ids[Scope(CellOf(desired, t))] = s

\* The assertions of the code cannot fail: a replay always finds its next
\* physical cell (expect in dispatch_ready), fail_target and complete find
\* their target (unwrap), and cell_view's unreachable! is unreachable.
AssertionsHold ==
    /\ \A id \in DOMAIN states :
          LET s == SessionFor(id)
          IN  Dispatchable(id) /\ ContinuingReplay(id, s) =>
                \E c \in CellIdsOf(desired) :
                    /\ id \in Suffix(desired, c)
                    /\ RequiredKey(desired, c) = Opened(s).verified_state
    /\ \A s \in CurrentSessions : Active(s).target \in CellIdsOf(desired)
    /\ \A id \in DOMAIN states : states[id] = "Succeeded" => id \in DOMAIN results

\* After any edits, retries and failures, every result held for the current
\* plan is the output a clean sequential build of that plan produces for the
\* cell (DESIGN.md, "General correctness criteria").
ResultsMatchCleanBuild ==
    \A id \in DOMAIN results : results[id].output = CleanOutput(desired, id)

\* A record in the store is the output of a clean execution of its key, and
\* no volatile cell's own output is ever published.
StoreIsSound ==
    \A k \in DOMAIN committed :
        committed[k] = [memory |-> k.required, environment |-> k.environment,
                        session |-> k.session,
                        step |-> [code |-> k.code, nonce |-> NoNonce]]

\* An attempt only ever runs in an interpreter that is really in the state
\* the attempt requires, and a key the coordinator reports as materialized is
\* the interpreter's real state (runner.rs contract, materialized_state_key).
InterpreterStateIsVerified ==
    \A s \in DOMAIN sessions :
        /\ HasActive(s) /\ ~ Active(s).revoked =>
              runners[s].memory = Active(s).required
        /\ /\ sessions[s].verified_state # NoKey
           /\ runners[s].materialized = sessions[s].verified_state
           => runners[s].memory = sessions[s].verified_state

\* What dispatch_ready has executed in a session it works in, attempt after
\* attempt and across edits, is always an initial part of the work that
\* preparation (keys.rs:236) lists for the target from a fresh interpreter, and
\* the running cell is the next of it; the two never consult each other.
WorkFollowsPreparation ==
    \A s \in CurrentSessions :
        LET target == CellOf(desired, Active(s).target)
            work == Append(preparation(desired, target.cell_id, NoKey).prefix, target)
            After(k) == IF IsIsolated(target) THEN NoKey
                        ELSE [InitialKey(target) EXCEPT
                                 !.steps = [n \in 1..(k - 1) |-> Step(work[n])]]
        IN  \E k \in DOMAIN work : Active(s).cell = work[k] /\ runners[s].memory = After(k)

\* Active attempts and runners whose cleanup failed never exceed the limit
\* (running_count against max_concurrent).
SlotsBounded == RunningCount <= MaxConcurrent

\* Every attempt id ever dispatched is either retired or active in exactly one
\* session, so a late event of an ended attempt can only be ignored.
AttemptsAccountedFor ==
    /\ retired \cup ActiveIds = 1..(next_attempt - 1)
    /\ retired \cap ActiveIds = {}
    /\ \A s, x \in DOMAIN sessions :
          HasActive(s) /\ HasActive(x) /\ Active(s).attempt_id = Active(x).attempt_id
              => s = x

\* A blocked cell's immediate predecessor did fail, was cancelled or is itself
\* blocked, and the diagnostics name it; cells that may still run have none.
BlockedHasCause ==
    \A id \in DOMAIN states :
        /\ states[id] = "Blocked" =>
              LET before == Predecessor(desired, id)
              IN  /\ before # NoCell
                  /\ states[before] \in {"Failed", "Cancelled", "Blocked"}
                  /\ id \in DOMAIN diagnostics /\ diagnostics[id] = before
        /\ states[id] \in {"Failed", "Cancelled"} <=>
              id \in DOMAIN diagnostics /\ diagnostics[id] = NoCell

\* Work in progress for a cell has its whole chain prefix succeeded and no
\* current result of its own: a failed prefix never executes its suffix, and
\* valid results are never recomputed (DESIGN.md, Cases 1, 3 and 6).
OnlyNeededWorkRuns ==
    \A s \in CurrentSessions :
        LET t == Active(s).target
        IN  /\ t \notin DOMAIN results
            /\ \A c \in DOMAIN states \ {t} :
                  t \in Suffix(desired, c) => states[c] = "Succeeded"

\* What is held for a cell: its result, or else its stale fallback.
Shown(id) == IF id \in DOMAIN results THEN results[id] ELSE last_good[id]

KeepsLastSuccess ==
    /\ DOMAIN results' \cap DOMAIN last_good' = {}
    /\ \A id \in (DOMAIN results \cup DOMAIN last_good) \cap CellIdsOf(desired') :
          /\ id \in DOMAIN results' \cup DOMAIN last_good'
          /\ id \in DOMAIN last_good' => last_good'[id] = Shown(id)

\* Once a cell has succeeded, its latest success stays visible for as long as
\* its handle stays in the plan: as its result, or else as a stale fallback;
\* never both (cell_view, DESIGN.md "Invalidation and retries retain ...").
StaleOutputSurvives == [][KeepsLastSuccess]_vars

\* While adapters obey the contract and code does not fail, no interleaving of
\* edits, retries, forced cleanup, late events and dying idle interpreters
\* makes a cell fail (the ignored events of receive, coordinator.rs).
NoSpuriousFailure ==
    \A id \in DOMAIN states : states[id] \notin {"Failed", "Cancelled", "Blocked"}

AcceptsCurrentWork ==
    /\ \A id \in DOMAIN results' :
          \/ id \in DOMAIN results /\ results'[id] = results[id]
          \/ \E s \in CurrentSessions :
                /\ Active(s).target = id /\ Active(s).cell.cell_id = id
                /\ Active(s).source_revision = revision
                /\ results'[id].attempt_id = Active(s).attempt_id
                /\ results'[id].attempt_id \notin retired
    /\ committed' # committed =>
          \E s \in CurrentSessions :
                Active(s).source_revision = revision /\ ~ Active(s).replay

\* Logical results and the store change only through an attempt that was
\* dispatched for the current revision, was not revoked since, and was not a
\* replay (DESIGN.md, Case 5).
AcceptanceIsCurrent == [][AcceptsCurrentWork]_vars

\* A cell behind one that failed, was cancelled or is blocked.
Stranded(id) ==
    \E c \in DOMAIN states \ {id} :
        id \in Suffix(desired, c) /\ states[c] \in {"Failed", "Cancelled", "Blocked"}

Settled ==
    /\ RunningCount = 0
    /\ \A id \in DOMAIN states :
          /\ states[id] # "Running"
          /\ states[id] = "Pending" => Stranded(id)

\* Once edits, retries and faults stop, work settles: no slot stays occupied
\* and the only cells left Pending are those behind a failed cell.
WorkSettles == <>[]Settled

Logical == INSTANCE LogicalResults
    WITH outputs <- [id \in DOMAIN results |-> results[id].output]

\* The coordinator implements LogicalResults: sessions, replays, revocations,
\* failures and rejected completions are invisible in what it holds as results.
ImplementsLogicalResults == Logical!Spec

-----------------------------------------------------------------------------
(***************************************************************************)
(* Statements of the documentation the code does not keep (see README).    *)
(***************************************************************************)
\* "A blocked suffix is visibly failed" (view.rs:25), unless it shows output
\* explicitly marked stale.
BlockedIsVisiblyFailed ==
    \A id \in DOMAIN states :
        states[id] = "Blocked" =>
            CellView(id, FALSE) \in {"Failed", "StaleLastKnownGood"}

\* "Failure in one stateful session blocks its suffix" (DESIGN.md:1918).
FailureBlocksSuffix ==
    \A id \in DOMAIN states : states[id] \in {"Failed", "Cancelled"} =>
        \A c \in Suffix(desired, id) \ {id} : states[c] = "Blocked"
=============================================================================
