--------------------------- MODULE RunnerAdapters ---------------------------
(***************************************************************************)
(* What holds of the two adapters a coordinator or a test may drive: the   *)
(* scripted runner and the R bridge.  One of them is in use.               *)
(***************************************************************************)
EXTENDS FakeRunner, RBridge, FiniteSets, Functions

VARIABLE adapter

adapterVars == <<adapter, runnerVars, bridgeVars>>

AdapterInit ==
    /\ adapter \in {"fake", "r"}
    /\ RunnerInit
    /\ BridgeInit

AdapterNext ==
    /\ UNCHANGED adapter
    /\ \/ adapter = "fake" /\ RunnerNext /\ UNCHANGED bridgeVars
       \/ adapter = "r" /\ BridgeNext /\ UNCHANGED runnerVars

\* The fairness of RunnerSpec and BridgeSpec.
AdapterSpec ==
    /\ AdapterInit
    /\ [][AdapterNext]_adapterVars
    /\ WF_adapterVars(adapter = "fake" /\ poll /\ UNCHANGED <<adapter, bridgeVars>>)
    /\ WF_adapterVars(adapter = "r" /\ StartStep /\ UNCHANGED <<adapter, runnerVars>>)

-----------------------------------------------------------------------------
RunnerStates == {"Stopped", "Idle", "Running", "Interrupting", "AwaitingAcceptance",
                 "Poisoned", "Crashed"}

\* The optional fields are present exactly in the states whose handlers
\* unwrap them (fake.rs release, accept_success and finish expect them).
AdapterTypeOK ==
    /\ state \in RunnerStates
    /\ (active # None) <=> state \in {"Running", "Interrupting"}
    /\ (successful # None) <=> state = "AwaitingAcceptance"
    /\ active # None => (active.revoked <=> state = "Interrupting")
    /\ incarnation \in 0..MaxIncarnation
    /\ child \in {"none", "starting", "connected", "listening", "silent", "exited", "reaped"}
    /\ (child = "none") <=> (host = "unstarted")
    /\ serving \in 0..calls

\* A key is claimed only for an interpreter that ran exactly the codes the
\* key stands for, and a keyed attempt runs on top of the state it required:
\* acceptance after interruption, failure, crash, discard or replayed commands
\* never vouches for a spoiled workspace.
VerifiedState ==
    /\ materialized # None => workspace = materialized
    /\ active # None /\ active.required # None => workspace = Append(active.required, active.code)
    /\ successful # None /\ successful.resulting # None => workspace = successful.resulting

\* The places of an attempt's outputs in the order of delivery.
OutputsOf(a) ==
    {n \in DOMAIN delivered : delivered[n].attempt = a /\ delivered[n].kind = "Output"}

\* An attempt is dispatched at most once over the life of the runner, ends at
\* most once, and poll delivers its outputs numbered from zero without a gap,
\* exactly as many as its outcome reports, and nothing of it after its end.
Transcript ==
    /\ IsInjective(requests)
    /\ \A m, n \in DOMAIN outcomes : outcomes[m].attempt = outcomes[n].attempt => m = n
    /\ \A m, n \in DOMAIN delivered :
          delivered[m].kind = "Complete" /\ delivered[n].attempt = delivered[m].attempt => n <= m
    /\ \A n \in DOMAIN outcomes :
          Cardinality(OutputsOf(outcomes[n].attempt)) = outcomes[n].events
    /\ \A n \in DOMAIN delivered :
          delivered[n].kind = "Output" =>
              delivered[n].sequence =
                  Cardinality({m \in OutputsOf(delivered[n].attempt) : m < n})

Phase ==
    CASE state = "Stopped" -> "stopped"
      [] state = "Idle" -> "ready"
      [] state \in {"Running", "Interrupting"} -> "running"
      [] state = "AwaitingAcceptance" -> "provisional"
      [] OTHER -> "unusable"

CurrentAttempt ==
    IF active # None THEN active.attempt
    ELSE IF successful # None THEN successful.attempt ELSE None

Contract == INSTANCE RunnerContract WITH
    Keys <- StateKeys(MaxChain),
    phase <- Phase,
    key <- materialized,
    attempt <- CurrentAttempt,
    revoked <- state = "Interrupting",
    ended <- {outcomes[n].attempt : n \in DOMAIN outcomes}

\* The scripted runner implements the contract of the trait, so that nothing
\* shown with it depends on more than the trait promises.
ImplementsContract == Contract!ContractSpec

\* Whatever gates a script holds, an interrupted attempt that is polled ends,
\* unless its script ignores interruption.
InterruptedWorkEnds ==
    (state = "Interrupting" /\ ~ active.script.ignore_interrupt) ~> active = None

-----------------------------------------------------------------------------
\* A call of evaluate reports an end its own request really had, never that of
\* an earlier request whose call failed, and the text it reports was printed by
\* its own request, or by requests whose calls failed just before it without
\* emptying the streams.
CallsReportTheirOwn ==
    \A c \in DOMAIN returned :
        returned[c].ok =>
            /\ <<c, returned[c].reply>> \in Range(ended)
            /\ \A r \in Range(returned[c].output) :
                  r <= c /\ \A failed \in r..(c - 1) : ~ returned[failed].ok

\* Start ends, even when R hangs or exits at any point before its greeting, and
\* it ends with a connected bridge or with a reaped R, unless it returned at one
\* of the two system calls whose failure abandons R (bridge.rs:55 and 61).
StartReturns ==
    host = "accepting" ~> host \in {"ready", "abandoned"} \/ child = "reaped"
=============================================================================
