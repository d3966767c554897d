--------------------------- MODULE RunnerContract ---------------------------
(***************************************************************************)
(* What the ExecutionRunner trait promises of one interpreter, whatever    *)
(* the adapter: success is provisional until it is accepted, interruption  *)
(* revokes the active attempt for good, failure and revocation leave the   *)
(* interpreter unusable, and shutdown gives every claim up.                *)
(***************************************************************************)
EXTENDS Naturals

CONSTANTS
    Attempts,   \* attempt identities
    Keys,       \* state keys of stateful sessions
    None        \* no key, or no attempt

VARIABLES
    phase,      \* "stopped", "ready", "running", "provisional" or "unusable"
    key,        \* the interpreter state the runner vouches for
    attempt,    \* the running or provisional attempt
    revoked,    \* whether the running attempt was interrupted
    ended,      \* attempts whose terminal outcome was handed over
    incarnation

contractVars == <<phase, key, attempt, revoked, ended, incarnation>>

Phases == {"stopped", "ready", "running", "provisional", "unusable"}

ContractInit ==
    /\ phase = "stopped"
    /\ key = None
    /\ attempt = None
    /\ revoked = FALSE
    /\ ended = {}
    /\ incarnation = 0

\* Only a start, or the recovery of an unusable interpreter, is a new process.
Begin(initial) ==
    /\ phase \in {"stopped", "unusable"}
    /\ phase' = "ready"
    /\ key' = initial
    /\ incarnation' = incarnation + 1
    /\ UNCHANGED <<attempt, revoked, ended>>

Restore(initial) ==
    /\ phase \in {"ready", "unusable"}
    /\ phase' = "ready"
    /\ key' = initial
    /\ UNCHANGED <<attempt, revoked, ended, incarnation>>

Run(a) ==
    /\ phase = "ready"
    /\ a \notin ended
    /\ phase' = "running"
    /\ key' = None
    /\ attempt' = a
    /\ UNCHANGED <<revoked, ended, incarnation>>

Revoke ==
    /\ phase = "running"
    /\ revoked' = TRUE
    /\ UNCHANGED <<phase, key, attempt, ended, incarnation>>

Succeed ==
    /\ phase = "running"
    /\ ~ revoked
    /\ phase' = "provisional"
    /\ ended' = ended \cup {attempt}
    /\ UNCHANGED <<key, attempt, revoked, incarnation>>

\* Any other end, a success after revocation included.
Fail ==
    /\ phase = "running"
    /\ phase' = "unusable"
    /\ attempt' = None
    /\ revoked' = FALSE
    /\ ended' = ended \cup {attempt}
    /\ UNCHANGED <<key, incarnation>>

Accept(resulting) ==
    /\ phase = "provisional"
    /\ phase' = "ready"
    /\ key' = resulting
    /\ attempt' = None
    /\ UNCHANGED <<revoked, ended, incarnation>>

Discard ==
    /\ phase = "provisional"
    /\ phase' = "unusable"
    /\ attempt' = None
    /\ UNCHANGED <<key, revoked, ended, incarnation>>

\* Shutdown ends the running attempt.
Stop ==
    /\ phase' = "stopped"
    /\ key' = None
    /\ attempt' = None
    /\ revoked' = FALSE
    /\ ended' = ended \cup (IF phase = "running" THEN {attempt} ELSE {})
    /\ UNCHANGED incarnation

ContractNext ==
    \/ \E initial \in Keys \cup {None} :
          Begin(initial) \/ Restore(initial) \/ Accept(initial)
    \/ \E a \in Attempts : Run(a)
    \/ Revoke \/ Succeed \/ Fail \/ Discard \/ Stop

ContractSpec == ContractInit /\ [][ContractNext]_contractVars
=============================================================================
