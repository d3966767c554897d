------------------------ MODULE ExecutionCoordinator ------------------------
(***************************************************************************)
(* The effect boundary of tractate: one coordinator reconciles successive  *)
(* keyed plans, dispatches cells to interpreter adapters ("runners"), and  *)
(* decides which of their completions become logical results.              *)
(*                                                                         *)
(* The coordinator is exclusively borrowed, so its calls never overlap.    *)
(* Calls that loop with early returns (dispatch_ready, terminate_obsolete) *)
(* take one step per iteration and hold "call" until they return; poll is  *)
(* the sequence of receive calls for the events its runners hand over.     *)
(*                                                                         *)
(* A runner is external code.  What it may do is the adapter contract of   *)
(* runner.rs plus the faults in Faults; its field "memory" is the state    *)
(* the interpreter is really in, which the coordinator never reads.        *)
(***************************************************************************)
EXTENDS EvaluationPlan

CONSTANTS
    Plans,            \* the plans an editing session may produce
    MaxConcurrent,    \* the global concurrency limit
    WithStore,        \* whether results are published to an ExecutionStore
    Failures,         \* how user code may end other than by success
    Faults,           \* the adapter and store faults that may happen
    NoAttempt,        \* a session without active work
    Dead, Dirty,      \* an interpreter that is gone, or in an unknown state
    MaxEdits, MaxRetries, MaxFaults, MaxEvents  \* bounds of the environment

FaultKinds ==
    {"shutdown", "start", "invalid_start", "execute", "crash", "event",
     "stage", "references", "prepare", "accept", "materialized", "isolated",
     "commit"}

Attempts ==
    [attempt_id : Nat, source_revision : Nat, cell : PlannedCell,
     required : StateKey \cup {NoKey}, resulting : StateKey \cup {NoKey},
     target : CellIds, replay : BOOLEAN, events : Nat, revoked : BOOLEAN]

ASSUME CoordinatorAssumption ==
    /\ NoAttempt \notin Attempts
    /\ Plans \subseteq {p \in Seq(PlannedCell) : WellFormed(p)}
    /\ MaxConcurrent \in Nat \ {0}
    /\ WithStore \in BOOLEAN
    /\ Failures \subseteq {"Failed", "Cancelled"}
    /\ Faults \subseteq FaultKinds
    /\ {MaxEdits, MaxRetries, MaxFaults, MaxEvents} \subseteq Nat

VARIABLES
    revision,      \* the latest reconciled revision, 0 before the first
    desired,       \* the plan reconciled at that revision
    states,        \* scheduled state of every desired cell
    results,       \* accepted executions of current computations
    last_good,     \* superseded successes kept as explicit stale fallbacks
    diagnostics,   \* NoCell for a cell's own failure, else its blocking predecessor
    session_ids,   \* scope -> session id
    sessions,      \* session id -> the coordinator's view of a runner
    runners,       \* session id -> the runner itself
    retired,       \* attempts that can never be accepted
    next_attempt,
    next_session,
    committed,     \* execution key -> output published in the store
    call,          \* the looping call in progress
    edits, retries, faults   \* how much of the environment's bounds is used

planVars == <<revision, desired>>
resultVars == <<results, last_good, committed>>
stateVars == <<states, diagnostics>>
attemptVars == <<retired, next_attempt>>
scopeVars == <<session_ids, next_session>>
envVars == <<edits, retries>>
vars == <<planVars, resultVars, stateVars, attemptVars, scopeVars, envVars,
          sessions, runners, call, faults>>

-----------------------------------------------------------------------------
(***************************************************************************)
(* Helpers.                                                                *)
(***************************************************************************)
\* Function updates that may grow or shrink the domain, as map inserts do.
Put(f, k, v) == [x \in DOMAIN f \cup {k} |-> IF x = k THEN v ELSE f[x]]
Without(f, S) == [x \in DOMAIN f \ S |-> f[x]]
Overlay(f, g) == [x \in DOMAIN f \cup DOMAIN g |-> IF x \in DOMAIN g THEN g[x] ELSE f[x]]
Only(f, S) == [x \in DOMAIN f \cap S |-> f[x]]

Scope(cell) ==
    IF IsIsolated(cell) THEN <<Isolated, cell.cell_id>> ELSE <<cell.session, NoCell>>

NewSession ==
    [verified_state |-> NoKey, active |-> NoAttempt,
     replay_target |-> NoCell, cleanup_pending |-> FALSE]

Occupied(session) == session.active # NoAttempt \/ session.cleanup_pending

RunningCount == Cardinality({s \in DOMAIN sessions : Occupied(sessions[s])})

\* A session after its work ended; "clean" says the runner confirmed shutdown.
Detached(clean) == [NewSession EXCEPT !.cleanup_pending = ~ clean]

\* The runner after shutdown, and after a command that failed.
Quiesced == [materialized |-> NoKey, memory |-> Dead]
Unclean == [materialized |-> NoKey, memory |-> Dirty]
AfterShutdown(clean) == IF clean THEN Quiesced ELSE Unclean

Idle == call.op = "none"
Returned == [op |-> "none", at |-> 0]
\* op may take its next iteration; At is the last index or id it handled.
InCall(op) == call.op \in {"none", op}
At(op) == IF call.op = op THEN call.at ELSE 0

CanFault(kind) == kind \in Faults /\ faults < MaxFaults

\* Whether a shutdown succeeds, after n faults of the same step.
Shutdowns(n) ==
    {TRUE} \cup (IF "shutdown" \in Faults /\ faults + n < MaxFaults THEN {FALSE} ELSE {})
UseFaults(n, clean) == faults' = faults + n + (IF clean THEN 0 ELSE 1)

-----------------------------------------------------------------------------
Init ==
    /\ revision = 0 /\ desired = <<>>
    /\ states = <<>> /\ results = <<>> /\ last_good = <<>> /\ diagnostics = <<>>
    /\ session_ids = <<>> /\ sessions = <<>> /\ runners = <<>>
    /\ retired = {} /\ next_attempt = 1 /\ next_session = 1
    /\ committed = <<>>
    /\ call = Returned
    /\ edits = 0 /\ retries = 0 /\ faults = 0

(***************************************************************************)
(* reconcile                                                               *)
(***************************************************************************)
\* Mutants (not part of the model): reuse decided without the state keys, or
\* without the volatile nonce.
SameComputationByCode(old, new, id) ==
    /\ Scope(CellOf(old, id)) = Scope(CellOf(new, id))
    /\ CellOf(old, id).code = CellOf(new, id).code

SameComputationIgnoringNonce(old, new, id) ==
    /\ ExecutionKey(old, id) = ExecutionKey(new, id)
    /\ ResultingKey(old, id) = ResultingKey(new, id)

SameComputation(old, new, id) ==
    /\ ExecutionKey(old, id) = ExecutionKey(new, id)
    /\ RequiredKey(old, id) = RequiredKey(new, id)
    /\ ResultingKey(old, id) = ResultingKey(new, id)
    /\ CellOf(old, id).volatile_nonce = CellOf(new, id).volatile_nonce
    /\ Scope(CellOf(old, id)) = Scope(CellOf(new, id))
    /\ CellOf(old, id).code = CellOf(new, id).code

\* Results that stay valid when the plan becomes new.
Kept(new) ==
    {id \in DOMAIN results \cap CellIdsOf(desired) \cap CellIdsOf(new) :
        SameComputation(desired, new, id)}

\* Ids for the scopes met first: consecutive, stateful scopes first.
Numberings(scopes) ==
    {f \in [scopes -> next_session..(next_session + Cardinality(scopes) - 1)] :
        /\ \A x, y \in scopes : f[x] = f[y] => x = y
        /\ \A x, y \in scopes : x[1] # Isolated /\ y[1] = Isolated => f[x] < f[y]}

\* Revoking work in progress; interruption is best effort and not modelled further.
Revoked(session) ==
    [session EXCEPT !.active.revoked = TRUE, !.verified_state = NoKey,
                    !.replay_target = NoCell]

\* Mutant: an idle session remembers the cell it was being rebuilt for.
RevisedKeepingReplayTarget(session) ==
    IF session.active = NoAttempt THEN session ELSE Revoked(session)

\* What a new plan leaves of a session.
Revised(session) ==
    IF session.active = NoAttempt THEN [session EXCEPT !.replay_target = NoCell]
    ELSE Revoked(session)

\* Mutant: superseded results are dropped.
FallbacksForgotten(dropped) == last_good

\* The stale fallbacks once the results of the cells in dropped are superseded.
Fallbacks(dropped) == Overlay(last_good, Only(results, dropped))

Reconcile(plan, rev) ==
    /\ Idle
    /\ edits < MaxEdits
    /\ rev \in {revision, revision + 1} \ {0}
    /\ ~ (rev = revision /\ plan = desired)
    /\ LET missing == {Scope(plan[i]) : i \in DOMAIN plan} \ DOMAIN session_ids
       IN  /\ \E ids \in Numberings(missing) : session_ids' = Overlay(session_ids, ids)
           /\ next_session' = next_session + Cardinality(missing)
           /\ results' = Only(results, Kept(plan))
           /\ last_good' = Only(Fallbacks(DOMAIN results \ Kept(plan)), CellIdsOf(plan))
           /\ states' = [id \in CellIdsOf(plan) |->
                           IF id \in Kept(plan) THEN "Succeeded" ELSE "Pending"]
    /\ diagnostics' = <<>>
    /\ sessions' = [s \in DOMAIN sessions |-> Revised(sessions[s])]
    /\ desired' = plan /\ revision' = rev
    /\ edits' = edits + 1
    /\ UNCHANGED <<runners, attemptVars, committed, call, retries, faults>>

(***************************************************************************)
(* retry                                                                   *)
(***************************************************************************)
Retry(id) ==
    /\ Idle
    /\ retries < MaxRetries
    /\ id \in CellIdsOf(desired)
    /\ LET affected == Suffix(desired, id)
       IN  /\ results' = Without(results, affected)
           /\ last_good' = Fallbacks(affected)
           /\ diagnostics' = Without(diagnostics, affected)
           /\ states' = [c \in DOMAIN states |->
                           IF c \in affected THEN "Pending" ELSE states[c]]
           /\ sessions' = [s \in DOMAIN sessions |->
                             IF /\ sessions[s].active # NoAttempt
                                /\ sessions[s].active.target \in affected
                             THEN Revoked(sessions[s])
                             ELSE sessions[s]]
    /\ retries' = retries + 1
    /\ UNCHANGED <<planVars, runners, attemptVars, scopeVars, committed, call,
                   edits, faults>>

(***************************************************************************)
(* fail_target: the target fails and its whole chain suffix is blocked.    *)
(***************************************************************************)
\* Mutant: every blocked cell names the cell that failed, not its predecessor.
FailTargetNamingRoot(target, status) ==
    LET suffix == Suffix(desired, target)
    IN  /\ states' = [c \in DOMAIN states |->
                        IF c = target THEN status
                        ELSE IF c \in suffix THEN "Blocked" ELSE states[c]]
        /\ diagnostics' = Overlay(diagnostics,
              [c \in suffix |-> IF c = target THEN NoCell ELSE target])

FailTarget(target, status) ==
    LET suffix == Suffix(desired, target)
    IN  /\ states' = [c \in DOMAIN states |->
                        IF c = target THEN status
                        ELSE IF c \in suffix THEN "Blocked" ELSE states[c]]
        /\ diagnostics' = Overlay(diagnostics,
              [c \in suffix |-> IF c = target THEN NoCell ELSE Predecessor(desired, c)])

(***************************************************************************)
(* dispatch_ready                                                          *)
(***************************************************************************)
\* An isolated cell gets a session of its own for every execution.
NeedsFreshSession(id) ==
    /\ IsIsolated(CellOf(desired, id))
    /\ session_ids[Scope(CellOf(desired, id))] \in DOMAIN sessions

SessionFor(id) ==
    IF NeedsFreshSession(id) THEN next_session ELSE session_ids[Scope(CellOf(desired, id))]

Opened(s) == IF s \in DOMAIN sessions THEN sessions[s] ELSE NewSession
RunnerOf(s) == IF s \in DOMAIN runners THEN runners[s] ELSE Quiesced

\* Mutant: the predecessor's state is not consulted.
DispatchableAnytime(id) ==
    /\ states[id] = "Pending"
    /\ ~ Occupied(Opened(SessionFor(id)))

Dispatchable(id) ==
    /\ states[id] = "Pending"
    /\ LET before == Predecessor(desired, id)
       IN  before # NoCell => states[before] = "Succeeded"
    /\ ~ Occupied(Opened(SessionFor(id)))

\* Mutant: obsolete work gives up its slot before it has ended.
SlotFreeOfObsolete ==
    Cardinality({s \in DOMAIN sessions : /\ sessions[s].active # NoAttempt
                                         /\ ~ sessions[s].active.revoked}) < MaxConcurrent

SlotFree == RunningCount < MaxConcurrent

\* The loop reaches index i next.
DispatchTurn(i) ==
    /\ InCall("dispatch")
    /\ i \in DOMAIN desired /\ i > At("dispatch")
    /\ SlotFree
    /\ Dispatchable(desired[i].cell_id)
    /\ \A j \in DOMAIN desired :
          At("dispatch") < j /\ j < i => ~ Dispatchable(desired[j].cell_id)

\* Mutant: the adapter's claim is not checked.
ReadyByVerifiedState(id, s) ==
    /\ ~ IsIsolated(CellOf(desired, id))
    /\ Opened(s).verified_state = RequiredKey(desired, id)

\* The live interpreter already is where the target starts.
Ready(id, s) ==
    /\ ~ IsIsolated(CellOf(desired, id))
    /\ Opened(s).verified_state = RequiredKey(desired, id)
    /\ RunnerOf(s).materialized = RequiredKey(desired, id)

\* The live interpreter is part-way through reconstructing the target's prefix.
ContinuingReplay(id, s) ==
    /\ Opened(s).replay_target = id
    /\ Opened(s).verified_state # NoKey
    /\ RunnerOf(s).materialized = Opened(s).verified_state

Prepared(id, s) == Ready(id, s) \/ ContinuingReplay(id, s)

\* Mutant: a replay takes any cell of the prefix for its next one.
PhysicalAnywhere(id, verified) ==
    IF verified = RequiredKey(desired, id) THEN id
    ELSE CHOOSE c \in CellIdsOf(desired) \ {id} : id \in Suffix(desired, c)

\* The cell to run physically: the target, or the prefix cell that starts here.
Physical(id, verified) ==
    IF verified = RequiredKey(desired, id) THEN id
    ELSE CHOOSE c \in CellIdsOf(desired) \ {id} :
            id \in Suffix(desired, c) /\ RequiredKey(desired, c) = verified

\* Mutant: the fresh session id is not consumed.
OpenScopeReusingId(id) ==
    IF NeedsFreshSession(id)
    THEN /\ session_ids' = Put(session_ids, Scope(CellOf(desired, id)), next_session)
         /\ next_session' = next_session
    ELSE UNCHANGED scopeVars

OpenScope(id) ==
    IF NeedsFreshSession(id)
    THEN /\ session_ids' = Put(session_ids, Scope(CellOf(desired, id)), next_session)
         /\ next_session' = next_session + 1
    ELSE UNCHANGED scopeVars

\* The state the attempt starts in: the live interpreter's, or the initial one.
StartKey(id, s) ==
    IF Prepared(id, s) THEN Opened(s).verified_state ELSE InitialKey(CellOf(desired, id))

NewAttempt(id, physical) ==
    [attempt_id |-> next_attempt, source_revision |-> revision,
     cell |-> CellOf(desired, physical),
     required |-> RequiredKey(desired, physical),
     resulting |-> ResultingKey(desired, physical),
     target |-> id, replay |-> physical # id, events |-> 0, revoked |-> FALSE]

\* The session once it works for id.
Dispatched(id, s) ==
    [verified_state |-> NoKey,
     active |-> NewAttempt(id, Physical(id, StartKey(id, s))),
     replay_target |-> IF Prepared(id, s) THEN Opened(s).replay_target
                       ELSE IF IsIsolated(CellOf(desired, id)) THEN NoCell ELSE id,
     cleanup_pending |-> FALSE]

\* Its runner: kept, or shut down and started in the initial state; then executing.
Executing(id, s) ==
    [materialized |-> NoKey,
     memory |-> IF Prepared(id, s) THEN RunnerOf(s).memory ELSE StartKey(id, s)]

\* Start the interpreter if needed and hand it one attempt.
DispatchCell(i) ==
    /\ DispatchTurn(i)
    /\ LET id == desired[i].cell_id
           s == SessionFor(id)
       IN  /\ sessions' = Put(sessions, s, Dispatched(id, s))
           /\ runners' = Put(runners, s, Executing(id, s))
           /\ states' = [states EXCEPT ![id] = "Running"]
           /\ OpenScope(id)
    /\ next_attempt' = next_attempt + 1
    /\ call' = [op |-> "dispatch", at |-> i]
    /\ UNCHANGED <<planVars, resultVars, diagnostics, retired, envVars, faults>>

\* A runner command fails, or start breaks its protocol: the call returns Err.
DispatchFails(i, how) ==
    /\ DispatchTurn(i)
    /\ CanFault(how)
    /\ LET id == desired[i].cell_id
           s == SessionFor(id)
       IN  /\ how # "execute" => ~ Prepared(id, s)
           /\ \E clean \in IF how = "invalid_start" THEN Shutdowns(1) ELSE {TRUE} :
                LET confirmed == how = "invalid_start" /\ clean
                IN  /\ sessions' = Put(sessions, s,
                         [Detached(confirmed) EXCEPT
                             !.replay_target = IF how \in {"shutdown", "start"}
                                               THEN Opened(s).replay_target ELSE NoCell])
                    /\ runners' = Put(runners, s, AfterShutdown(confirmed))
                    /\ UseFaults(1, clean)
           /\ FailTarget(id, "Failed")
           /\ OpenScope(id)
           /\ IF how = "execute"
              THEN /\ retired' = retired \cup {next_attempt}
                   /\ next_attempt' = next_attempt + 1
              ELSE UNCHANGED attemptVars
    /\ call' = Returned
    /\ UNCHANGED <<planVars, resultVars, envVars>>

DispatchReturns ==
    /\ call.op = "dispatch"
    /\ \A i \in DOMAIN desired : ~ DispatchTurn(i)
    /\ call' = Returned
    /\ UNCHANGED <<planVars, resultVars, stateVars, attemptVars, scopeVars, envVars,
                   sessions, runners, faults>>

(***************************************************************************)
(* receive                                                                 *)
(***************************************************************************)
Active(s) == sessions[s].active
HasActive(s) == Active(s) # NoAttempt
\* Mutant: revocation is not checked before acceptance.
CurrentEvenIfRevoked(s) == Idle /\ HasActive(s)

Current(s) == Idle /\ HasActive(s) /\ ~ Active(s).revoked

\* Mutant: the attempt id is not recorded as retired.
RetireUnrecorded(s, clean) ==
    /\ UNCHANGED retired
    /\ sessions' = [sessions EXCEPT ![s] = Detached(clean)]
    /\ runners' = [runners EXCEPT ![s] = AfterShutdown(clean)]

\* Take the active attempt, retire it, and shut the runner down.
Retire(s, clean) ==
    /\ retired' = retired \cup {Active(s).attempt_id}
    /\ sessions' = [sessions EXCEPT ![s] = Detached(clean)]
    /\ runners' = [runners EXCEPT ![s] = AfterShutdown(clean)]

\* An Output or Artifact event that passes validation (and staging).
ObserveEvent(s) ==
    /\ Current(s)
    /\ Active(s).events < MaxEvents
    /\ sessions' = [sessions EXCEPT ![s].active.events = @ + 1]
    /\ UNCHANGED <<planVars, resultVars, stateVars, attemptVars, scopeVars, envVars,
                   runners, call, faults>>

ActiveIds == {Active(s).attempt_id : s \in {x \in DOMAIN sessions : HasActive(x)}}

\* Mutant: late events of retired attempts are protocol errors.
IgnoredNever(attempt) == FALSE

Ignored(attempt) == attempt \in retired

\* An event of another attempt: ignored if that attempt is retired.  Attempts
\* that ended may always deliver late; others only if the adapter is broken.
RejectForeign(s, attempt) ==
    /\ Idle /\ HasActive(s)
    /\ attempt # Active(s).attempt_id
    /\ ~ Ignored(attempt)
    /\ LET n == IF attempt \in (1..(next_attempt - 1)) \ ActiveIds THEN 0 ELSE 1
       IN  /\ n = 1 => CanFault("event")
           /\ \E clean \in Shutdowns(n) : Retire(s, clean) /\ UseFaults(n, clean)
    /\ IF Active(s).revoked THEN UNCHANGED stateVars
       ELSE FailTarget(Active(s).target, "Failed")
    /\ UNCHANGED <<planVars, resultVars, next_attempt, scopeVars, envVars, call>>

\* A revoked attempt completes: its outcome is dropped.
RejectRevoked(s) ==
    /\ Idle /\ HasActive(s) /\ Active(s).revoked
    /\ \E clean \in Shutdowns(0) : Retire(s, clean) /\ UseFaults(0, clean)
    /\ UNCHANGED <<planVars, resultVars, stateVars, next_attempt, scopeVars, envVars, call>>

\* Mutant: volatile results are published too.
PublishesVolatile(s) == WithStore /\ ~ Active(s).replay

\* Whether the current attempt's success is committed to the store.
Publishes(s) ==
    /\ WithStore /\ ~ Active(s).replay
    /\ CellOf(desired, Active(s).target).volatile_nonce = NoNonce

\* Which faults can still reject the current attempt of s.
RejectionApplies(s, fault) ==
    CASE fault \in {"event", "references", "accept", "materialized"} -> TRUE
      [] fault \in {"stage", "prepare"} -> WithStore
      [] fault = "isolated" -> Active(s).resulting = NoKey
      [] fault = "commit" -> Publishes(s)
      [] OTHER -> FALSE

\* A current attempt fails validation, staging or one step of acceptance.
RejectCurrent(s, fault) ==
    /\ Current(s)
    /\ CanFault(fault)
    /\ RejectionApplies(s, fault)
    /\ \E clean \in Shutdowns(1) : Retire(s, clean) /\ UseFaults(1, clean)
    /\ FailTarget(Active(s).target, "Failed")
    /\ UNCHANGED <<planVars, resultVars, next_attempt, scopeVars, envVars, call>>

\* A current attempt reports failure or cancellation.
CompleteUnsuccessful(s, status) ==
    /\ Current(s)
    /\ \E clean \in Shutdowns(0) : Retire(s, clean) /\ UseFaults(0, clean)
    /\ FailTarget(Active(s).target, status)
    /\ UNCHANGED <<planVars, resultVars, next_attempt, scopeVars, envVars, call>>

\* The output the interpreter really produced for its active attempt.
Produced(s) == Output(runners[s].memory, Active(s).cell)

\* The session after the success of its attempt, and its runner: an isolated one
\* is shut down, a stateful one now is in the resulting state.
Released(session) ==
    [session EXCEPT !.active = NoAttempt, !.verified_state = session.active.resulting,
                    !.replay_target = IF session.active.replay THEN @ ELSE NoCell]

AfterSuccess(runner, a) ==
    IF a.resulting = NoKey THEN Quiesced
    ELSE [materialized |-> a.resulting, memory |-> Advance(runner.memory, a.cell)]

AcceptReplay(t) ==
    /\ states' = [states EXCEPT ![t] = "Pending"]
    /\ UNCHANGED <<resultVars, diagnostics>>

AcceptResult(s, t) ==
    /\ states' = [states EXCEPT ![t] = "Succeeded"]
    /\ diagnostics' = Without(diagnostics, {t})
    /\ last_good' = Without(last_good, {t})
    /\ results' = Put(results, t, [attempt_id |-> Active(s).attempt_id,
                                   events |-> Active(s).events, output |-> Produced(s)])
    /\ committed' = IF Publishes(s)
                    THEN Put(committed, ExecutionKey(desired, t), Produced(s))
                    ELSE committed

\* A current attempt succeeds and passes every acceptance step.
CompleteSuccess(s) ==
    /\ Current(s)
    /\ retired' = retired \cup {Active(s).attempt_id}
    /\ sessions' = [sessions EXCEPT ![s] = Released(@)]
    /\ runners' = [runners EXCEPT ![s] = AfterSuccess(@, Active(s))]
    /\ IF Active(s).replay THEN AcceptReplay(Active(s).target)
       ELSE AcceptResult(s, Active(s).target)
    /\ UNCHANGED <<planVars, next_attempt, scopeVars, envVars, call, faults>>

(***************************************************************************)
(* terminate_obsolete                                                      *)
(***************************************************************************)
\* Mutant: a runner whose cleanup failed is not shut down again.
ObsoleteAttemptOnly(s) == HasActive(s) /\ Active(s).revoked

\* Mutant: work that was not revoked is terminated too.
ObsoleteIfActive(s) == sessions[s].cleanup_pending \/ HasActive(s)

Obsolete(s) ==
    \/ sessions[s].cleanup_pending
    \/ HasActive(s) /\ Active(s).revoked

TerminateTurn(s) ==
    /\ InCall("terminate")
    /\ s > At("terminate")
    /\ Obsolete(s)
    /\ \A x \in DOMAIN sessions : At("terminate") < x /\ x < s => ~ Obsolete(x)

TerminateSession(s) ==
    /\ TerminateTurn(s)
    /\ retired' = IF HasActive(s) THEN retired \cup {Active(s).attempt_id} ELSE retired
    /\ sessions' = [sessions EXCEPT ![s] = NewSession]
    /\ runners' = [runners EXCEPT ![s] = Quiesced]
    /\ call' = [op |-> "terminate", at |-> s]
    /\ UNCHANGED <<planVars, resultVars, stateVars, next_attempt, scopeVars, envVars, faults>>

\* The shutdown fails: the call returns Err and visits no later session.
TerminateFails(s) ==
    /\ TerminateTurn(s)
    /\ CanFault("shutdown")
    /\ runners' = [runners EXCEPT ![s] = Unclean]
    /\ faults' = faults + 1
    /\ call' = Returned
    /\ UNCHANGED <<planVars, resultVars, stateVars, attemptVars, scopeVars, envVars, sessions>>

TerminateReturns ==
    /\ call.op = "terminate"
    /\ \A s \in DOMAIN sessions : ~ TerminateTurn(s)
    /\ call' = Returned
    /\ UNCHANGED <<planVars, resultVars, stateVars, attemptVars, scopeVars, envVars,
                   sessions, runners, faults>>

-----------------------------------------------------------------------------
\* External: an idle interpreter dies, and its adapter drops its claim.
RunnerCrashes(s) ==
    /\ CanFault("crash")
    /\ ~ HasActive(s) /\ runners[s].memory \notin {Dead, Dirty}
    /\ runners' = [runners EXCEPT ![s] = Quiesced]
    /\ faults' = faults + 1
    /\ UNCHANGED <<planVars, resultVars, stateVars, attemptVars, scopeVars, envVars,
                   sessions, call>>
-----------------------------------------------------------------------------
Dispatch ==
    \E i \in DOMAIN desired :
        DispatchCell(i) \/ \E how \in {"shutdown", "start", "invalid_start", "execute"} :
                              DispatchFails(i, how)

Receive ==
    \E s \in DOMAIN sessions :
        \/ ObserveEvent(s)
        \/ \E attempt \in 0..next_attempt : RejectForeign(s, attempt)
        \/ RejectRevoked(s)
        \/ \E fault \in Faults : RejectCurrent(s, fault)
        \/ \E status \in Failures : CompleteUnsuccessful(s, status)
        \/ CompleteSuccess(s)

Terminate == \E s \in DOMAIN sessions : TerminateSession(s) \/ TerminateFails(s)

Edit == \E plan \in Plans, rev \in {revision, revision + 1} : Reconcile(plan, rev)

Next ==
    \/ Edit
    \/ \E id \in CellIdsOf(desired) : Retry(id)
    \/ Dispatch \/ DispatchReturns
    \/ Receive
    \/ Terminate \/ TerminateReturns
    \/ \E s \in DOMAIN sessions : RunnerCrashes(s)

Spec == Init /\ [][Next]_vars

(***************************************************************************)
(* Fairness: the caller keeps dispatching, polling and cleaning up, calls  *)
(* return, and code that runs eventually completes.  Nothing is assumed of *)
(* edits, retries, failures, or of a revoked attempt ever answering.       *)
(***************************************************************************)
Completes ==
    \E s \in DOMAIN sessions :
        \/ CompleteSuccess(s)
        \/ \E status \in Failures : CompleteUnsuccessful(s, status)
        \/ \E fault \in Faults : RejectCurrent(s, fault)

Fairness ==
    /\ WF_vars(Dispatch) /\ WF_vars(DispatchReturns)
    /\ WF_vars(Terminate) /\ WF_vars(TerminateReturns)
    /\ WF_vars(Completes)

FairSpec == Spec /\ Fairness

-----------------------------------------------------------------------------
(***************************************************************************)
(* cell_view: what a renderer is shown for a desired cell.                 *)
(***************************************************************************)
CellView(id, no_execute) ==
    IF id \in DOMAIN results THEN "Succeeded"
    ELSE IF id \in DOMAIN last_good THEN "StaleLastKnownGood"
    ELSE CASE states[id] = "Pending" -> IF no_execute THEN "Unavailable" ELSE "Pending"
           [] states[id] \in {"Failed", "Blocked"} -> "Failed"
           [] OTHER -> states[id]

IsFinished ==
    /\ RunningCount = 0
    /\ \A id \in DOMAIN states : states[id] \notin {"Pending", "Running"}

=============================================================================
