----------------------------- MODULE FakeRunner -----------------------------
(***************************************************************************)
(* The scripted runner: one logical session that accepts one attempt at a  *)
(* time and delivers the effects of its script by polling.  A command that *)
(* is rejected changes nothing, except that execute has taken its script.  *)
(*                                                                         *)
(* A state key stands for the codes run since the initial environment, so  *)
(* that it can be compared with workspace, the codes that really ran.      *)
(***************************************************************************)
EXTENDS Naturals, Sequences

CONSTANTS
    Attempts,       \* attempt identities
    Codes,          \* source of a cell
    Scripts,        \* scripts a test may supply
    MaxChain,       \* bound on the length of a state key
    MaxQueued,      \* bound on the queued scripts
    MaxIncarnation, \* the last incarnation there is
    None            \* an absent key, attempt or success

FakeScripts ==
    [steps : Seq({"Output", "Artifact", "Block"}),
     completion : {"Success", "Failure", "Crash"},
     ignore_interrupt : BOOLEAN]

\* Keys stand for the codes that were run, so they are sequences of codes; an
\* optional field that is present is a record.
OptionalKeys == {None} \cup Seq(Codes)
ActiveAttempts ==
    [attempt : Attempts, required : OptionalKeys, code : Codes, script : FakeScripts,
     events : Nat, blocked : BOOLEAN, revoked : BOOLEAN]
Successes == [attempt : Attempts, resulting : OptionalKeys]

ASSUME RunnerAssumption ==
    /\ MaxChain \in Nat
    /\ MaxIncarnation \in Nat
    /\ Scripts \subseteq FakeScripts
    /\ None \notin Seq(Codes) \cup ActiveAttempts \cup Successes

VARIABLES
    state,          \* FakeRunnerState
    materialized,   \* materialized_state_key
    incarnation,    \* of identity
    requests,       \* accepted attempts, in order
    active,         \* the active attempt, or None
    successful,     \* the provisional success, or None
    scripts,        \* scripts for the next executions
    delivered,      \* every event handed out by poll, in order
    outcomes,       \* every terminal outcome, in order
    workspace       \* codes that ran since the environment was fresh, or Spoiled

runnerVars == <<state, materialized, incarnation, requests, active, successful,
                scripts, delivered, outcomes, workspace>>

Fresh == <<>>
Spoiled == <<None>>
Initials == {None, Fresh}

EmptyScript == [steps |-> <<>>, completion |-> "Success", ignore_interrupt |-> FALSE]

\* Keys come from the keyed plan: a code extends the key it requires.
Resulting(required, code) == IF required = None THEN None ELSE Append(required, code)

StateKeys(length) == UNION {[1..n -> Codes] : n \in 0..length}

Requests ==
    {[attempt |-> a, own_session |-> own, required |-> r, code |-> c] :
        a \in Attempts, own \in BOOLEAN, c \in Codes,
        r \in {None} \cup StateKeys(MaxChain - 1)}

RunnerInit ==
    /\ state = "Stopped"
    /\ materialized = None
    /\ incarnation = 0
    /\ requests = <<>>
    /\ active = None
    /\ successful = None
    /\ scripts = <<>>
    /\ delivered = <<>>
    /\ outcomes = <<>>
    /\ workspace = Spoiled

start_incarnation(initial) ==
    /\ incarnation < MaxIncarnation
    /\ incarnation' = incarnation + 1
    /\ materialized' = initial
    /\ state' = "Idle"
    /\ workspace' = Fresh
    /\ UNCHANGED <<requests, active, successful, scripts, delivered, outcomes>>

start(initial) == state = "Stopped" /\ start_incarnation(initial)

restart(initial) == state \in {"Poisoned", "Crashed"} /\ start_incarnation(initial)

reset(initial) ==
    /\ state \in {"Idle", "Poisoned"}
    /\ materialized' = initial
    /\ state' = "Idle"
    /\ workspace' = Fresh
    /\ UNCHANGED <<incarnation, requests, active, successful, scripts, delivered, outcomes>>

\* Mutant: any predecessor will do.
AcceptsAnyPredecessor(request) ==
    /\ state = "Idle"
    /\ request.own_session
    /\ \A n \in DOMAIN requests : requests[n] # request.attempt

\* Mutant: an attempt may be dispatched again.
AcceptsAgain(request) ==
    /\ state = "Idle"
    /\ request.own_session
    /\ request.required = materialized

Accepts(request) ==
    /\ state = "Idle"
    /\ request.own_session
    /\ request.required = materialized
    /\ \A n \in DOMAIN requests : requests[n] # request.attempt

dispatch(request, script) ==
    /\ Accepts(request)
    /\ requests' = Append(requests, request.attempt)
    /\ active' = [attempt |-> request.attempt,
                  required |-> request.required,
                  code |-> request.code,
                  script |-> script,
                  events |-> 0, blocked |-> FALSE, revoked |-> FALSE]
    /\ materialized' = None
    /\ state' = "Running"
    /\ workspace' = Append(workspace, request.code)
    /\ UNCHANGED <<incarnation, successful, delivered, outcomes>>

\* The trait's entry: the script is taken from the queue before anything is
\* checked.
execute(request) ==
    /\ scripts' = IF scripts = <<>> THEN <<>> ELSE Tail(scripts)
    /\ LET script == IF scripts = <<>> THEN EmptyScript ELSE Head(scripts)
       IN  \/ dispatch(request, script)
           \/ /\ ~ Accepts(request)
              /\ UNCHANGED <<state, materialized, incarnation, requests, active, successful,
                             delivered, outcomes, workspace>>

queue_script(script) ==
    /\ Len(scripts) < MaxQueued
    /\ scripts' = Append(scripts, script)
    /\ UNCHANGED <<state, materialized, incarnation, requests, active, successful,
                   delivered, outcomes, workspace>>

\* Mutant: a success counts although its attempt was revoked.
CountsRevoked(status, crashed) == ~ crashed /\ status = "Success"

Counts(status, crashed) == ~ crashed /\ status = "Success" /\ ~ active.revoked

\* The active attempt ends.  Only code that ran to its end has a known effect.
finish(status, crashed) ==
    /\ active' = None
    /\ outcomes' = Append(outcomes, [attempt |-> active.attempt, status |-> status,
                                     events |-> active.events])
    /\ IF Counts(status, crashed)
       THEN /\ state' = "AwaitingAcceptance"
            /\ successful' = [attempt |-> active.attempt,
                              resulting |-> Resulting(active.required, active.code)]
       ELSE /\ state' = IF crashed THEN "Crashed" ELSE "Poisoned"
            /\ UNCHANGED successful
    /\ workspace' = IF status = "Success" THEN workspace ELSE Spoiled

Deliver(event) == delivered' = Append(delivered, event)

Completed(status, crashed) ==
    /\ finish(status, crashed)
    /\ Deliver([kind |-> "Complete", attempt |-> active.attempt, sequence |-> active.events])

Advanced == [active EXCEPT !.script.steps = Tail(active.script.steps)]

\* The next effect of the script, or its completion.
pollEffect ==
    LET steps == active.script.steps
        completion == active.script.completion
    IN  CASE steps = <<>> ->
                /\ Completed(CASE completion = "Success" -> "Success"
                               [] completion = "Failure" -> "Failure"
                               [] OTHER -> IF active.revoked THEN "Cancelled" ELSE "Failure",
                             completion = "Crash")
          [] OTHER ->
                /\ IF Head(steps) = "Block"
                   THEN active' = [Advanced EXCEPT !.blocked = TRUE] /\ UNCHANGED delivered
                   ELSE /\ Deliver([kind |-> Head(steps), attempt |-> active.attempt,
                                    sequence |-> active.events])
                        /\ active' = [Advanced EXCEPT
                              !.events = active.events + (IF Head(steps) = "Output" THEN 1 ELSE 0)]
                /\ UNCHANGED <<state, successful, outcomes, workspace>>

\* Mutant: a blocked attempt is not cancelled before its gate opens.
IsCancelledUnblocked ==
    active.revoked /\ ~ active.script.ignore_interrupt /\ ~ active.blocked

IsCancelled == active.revoked /\ ~ active.script.ignore_interrupt

poll ==
    /\ active # None
    /\ \/ IsCancelled /\ Completed("Cancelled", FALSE)
       \/ ~ IsCancelled /\ ~ active.blocked /\ pollEffect
    /\ UNCHANGED <<materialized, incarnation, requests, scripts>>

release(a) ==
    /\ state \in {"Running", "Interrupting"}
    /\ active.attempt = a
    /\ active.blocked
    /\ active' = [active EXCEPT !.blocked = FALSE]
    /\ UNCHANGED <<state, materialized, incarnation, requests, successful, scripts,
                   delivered, outcomes, workspace>>

interrupt ==
    /\ active # None
    /\ active' = [active EXCEPT !.revoked = TRUE]
    /\ state' = "Interrupting"
    /\ UNCHANGED <<materialized, incarnation, requests, successful, scripts,
                   delivered, outcomes, workspace>>

accept_success(a) ==
    /\ state = "AwaitingAcceptance"
    /\ successful.attempt = a
    /\ successful' = None
    /\ materialized' = successful.resulting
    /\ state' = "Idle"
    /\ UNCHANGED <<incarnation, requests, active, scripts, delivered, outcomes, workspace>>

discard_success(a) ==
    /\ state = "AwaitingAcceptance"
    /\ successful.attempt = a
    /\ successful' = None
    /\ state' = "Poisoned"
    /\ UNCHANGED <<materialized, incarnation, requests, active, scripts, delivered,
                   outcomes, workspace>>

shutdown ==
    /\ IF active = None THEN UNCHANGED <<active, outcomes>>
       ELSE /\ active' = None
            /\ outcomes' = Append(outcomes, [attempt |-> active.attempt, status |-> "Cancelled",
                                             events |-> active.events])
    /\ successful' = None
    /\ materialized' = None
    /\ state' = "Stopped"
    /\ workspace' = Spoiled
    /\ UNCHANGED <<incarnation, requests, scripts, delivered>>

RunnerNext ==
    \/ \E initial \in Initials : start(initial) \/ restart(initial) \/ reset(initial)
    \/ \E request \in Requests : execute(request)
    \/ \E script \in Scripts : queue_script(script)
    \/ poll
    \/ \E a \in Attempts : release(a) \/ accept_success(a) \/ discard_success(a)
    \/ interrupt
    \/ shutdown

\* The coordinator polls every active runner again and again; nobody is bound
\* to open a gate.
RunnerSpec == RunnerInit /\ [][RunnerNext]_runnerVars /\ WF_runnerVars(poll)
=============================================================================
