------------------------ MODULE RunnerAdaptersProofs ------------------------
(***************************************************************************)
(* Theorems about the two adapters: the state keys of the scripted runner  *)
(* are true, its transcript is complete, it implements the contract of the *)
(* trait, and calls of the R bridge report what their own requests did.    *)
(***************************************************************************)
EXTENDS RunnerAdapters, SequenceTheorems, FiniteSetTheorems, TLAPS

-----------------------------------------------------------------------------
(***************************************************************************)
(* The inductive invariant of the scripted runner.                         *)
(***************************************************************************)
RunnerTyped ==
    /\ state \in RunnerStates
    /\ materialized \in OptionalKeys
    /\ incarnation \in 0..MaxIncarnation
    /\ requests \in Seq(Attempts)
    /\ active \in {None} \cup ActiveAttempts
    /\ successful \in {None} \cup Successes
    /\ scripts \in Seq(FakeScripts)
    /\ workspace \in Seq(Codes \cup {None})
    /\ active # None => active.required \in {None} \cup StateKeys(MaxChain - 1)
    /\ successful # None => successful.resulting \in {None} \cup StateKeys(MaxChain)

Ends == {"Success", "Failure", "Cancelled"}

\* The optional fields are present exactly where the handlers unwrap them; a
\* running attempt leaves no key behind.
FieldsMatchState ==
    /\ (active # None) <=> state \in {"Running", "Interrupting"}
    /\ (successful # None) <=> state = "AwaitingAcceptance"
    /\ active # None => (active.revoked <=> state = "Interrupting") /\ materialized = None

\* Outcomes belong to attempts that were accepted.
OutcomesRequested ==
    /\ active # None => active.attempt \in Range(requests)
    /\ \A n \in DOMAIN outcomes : outcomes[n].attempt \in Range(requests)

RunnerInv ==
    /\ RunnerTyped
    /\ FieldsMatchState
    /\ VerifiedState
    /\ outcomes \in Seq([attempt : Attempts, status : Ends, events : Nat])
    /\ OutcomesRequested

-----------------------------------------------------------------------------
(***************************************************************************)
(* The inductive invariant of the bridge.                                  *)
(***************************************************************************)
Results ==
    [ok : {FALSE}] \cup [ok : {TRUE}, reply : Replies, output : Seq(Nat \ {0})]

CallEnds == Nat \X Replies

BridgeTyped ==
    /\ host \in {"unstarted", "accepting", "negotiating", "ready", "reading",
                "failed", "abandoned", "dropped"}
    /\ child \in {"none", "starting", "connected", "listening", "silent", "exited", "reaped"}
    /\ (child = "none") <=> (host = "unstarted")
    /\ pending \in BOOLEAN
    /\ aligned \in BOOLEAN
    /\ calls \in Nat
    /\ commands \in Seq(Nat \ {0})
    /\ replies \in Seq(Replies \cup {"hello"})
    /\ serving \in Nat
    /\ output \in Seq(Nat \ {0})
    /\ ended \in Seq(CallEnds)
    /\ returned \in Seq(Results)

\* One call returns before the next begins.
CallsInOrder == Len(returned) = IF host = "reading" THEN calls - 1 ELSE calls

\* A request that is still to be served, or whose output is still to be read,
\* belongs to the current call or to calls that failed and all that followed.
Stale(r) == r <= calls /\ \A failed \in r..Len(returned) : ~ returned[failed].ok

LeftoversStale ==
    /\ \A n \in DOMAIN commands : Stale(commands[n])
    /\ serving # 0 => Stale(serving)
    /\ \A n \in DOMAIN output : Stale(output[n])

Greeted == child \notin {"none", "starting", "connected"}

Quiet == commands = <<>> /\ serving = 0

\* As long as reads begin at frames, the connection carries the greeting, then
\* at most one request or the reply to the current one.
OneExchange ==
    aligned =>
        /\ host \in {"unstarted", "accepting", "negotiating"} =>
              Quiet /\ (replies = <<>> \/ (replies = <<"hello">> /\ Greeted))
        /\ host = "ready" =>
              replies = <<>> /\ Greeted /\ (child = "listening" => Quiet)
        /\ host = "reading" =>
              /\ Greeted
              /\ \/ /\ replies = <<>>
                    /\ child = "listening" =>
                          \/ commands = <<calls>> /\ serving = 0
                          \/ commands = <<>> /\ serving = calls
                 \/ /\ Quiet
                    /\ \E reply \in Replies :
                          replies = <<reply>> /\ <<calls, reply>> \in Range(ended)

BridgeInv ==
    /\ BridgeTyped
    /\ CallsInOrder
    /\ LeftoversStale
    /\ OneExchange
    /\ CallsReportTheirOwn

IInv == RunnerInv /\ BridgeInv

-----------------------------------------------------------------------------
\* A key that stands for one more code is still within the bound.
LEMMA ResultingKey ==
    ASSUME NEW required \in {None} \cup StateKeys(MaxChain - 1), NEW code \in Codes
    PROVE  Resulting(required, code) \in {None} \cup StateKeys(MaxChain)
<1>1. CASE required = None
  BY <1>1 DEF Resulting
<1>2. CASE required # None
  <2>1. PICK n \in 0..(MaxChain - 1) : required \in [1..n -> Codes]
    BY <1>2 DEF StateKeys
  <2>2. n \in Nat /\ n + 1 \in 0..MaxChain /\ required \in Seq(Codes) /\ Len(required) = n
    BY <2>1, RunnerAssumption
  <2>3. Append(required, code) \in [1..(n + 1) -> Codes]
    BY <2>2, AppendProperties, LenProperties
  <2>. QED  BY <1>2, <2>2, <2>3 DEF Resulting, StateKeys
<1>. QED  BY <1>1, <1>2

\* Keys within the bound are keys.
LEMMA BoundedKeys ==
    /\ StateKeys(MaxChain - 1) \subseteq StateKeys(MaxChain)
    /\ StateKeys(MaxChain) \subseteq Seq(Codes)
    /\ Fresh \in StateKeys(MaxChain)
    /\ None \notin Seq(Codes)
<1>1. MaxChain \in Nat /\ None \notin Seq(Codes)
  BY RunnerAssumption
<1>2. StateKeys(MaxChain - 1) \subseteq StateKeys(MaxChain)
  <2>1. 0..(MaxChain - 1) \subseteq 0..MaxChain
    BY <1>1
  <2>. QED  BY <2>1 DEF StateKeys
<1>3. StateKeys(MaxChain) \subseteq Seq(Codes)
  <2>. SUFFICES ASSUME NEW n \in 0..MaxChain, NEW key \in [1..n -> Codes] PROVE key \in Seq(Codes)
    BY DEF StateKeys
  <2>1. n \in Nat
    BY <1>1
  <2>. QED  BY <2>1
<1>4. Fresh \in StateKeys(MaxChain)
  <2>1. 0 \in 0..MaxChain /\ Fresh \in [1..0 -> Codes]
    BY <1>1 DEF Fresh
  <2>. QED  BY <2>1 DEF StateKeys
<1>. QED  BY <1>1, <1>2, <1>3, <1>4

\* Accepting one more attempt forgets none that was accepted.
LEMMA RangeOfAppend ==
    ASSUME NEW S, NEW seq \in Seq(S), NEW e \in S
    PROVE  /\ Range(Append(seq, e)) = Range(seq) \cup {e}
           /\ DOMAIN Append(seq, e) = DOMAIN seq \cup {Len(seq) + 1}
           /\ \A n \in DOMAIN seq : Append(seq, e)[n] = seq[n]
           /\ Append(seq, e)[Len(seq) + 1] = e
<1>1. /\ Append(seq, e) \in Seq(S)
      /\ DOMAIN seq = 1..Len(seq)
      /\ DOMAIN Append(seq, e) = 1..(Len(seq) + 1)
      /\ \A n \in 1..Len(seq) : Append(seq, e)[n] = seq[n]
      /\ Append(seq, e)[Len(seq) + 1] = e
      /\ Len(seq) \in Nat
  OBVIOUS
<1>2. DOMAIN Append(seq, e) = DOMAIN seq \cup {Len(seq) + 1}
  BY <1>1
<1>. QED  BY <1>1, <1>2 DEF Range

-----------------------------------------------------------------------------
\* A runner that was never started satisfies the invariant.
LEMMA RunnerInitial == RunnerInit => RunnerInv
<1>. SUFFICES ASSUME RunnerInit PROVE RunnerInv
  OBVIOUS
<1>1. RunnerTyped
  BY RunnerAssumption DEF RunnerInit, RunnerTyped, RunnerStates, OptionalKeys, Spoiled
<1>2. FieldsMatchState /\ VerifiedState /\ OutcomesRequested
  BY DEF RunnerInit, FieldsMatchState, VerifiedState, OutcomesRequested
<1>. QED  BY <1>1, <1>2 DEF RunnerInv, RunnerInit

\* A fresh process, or a fresh environment in the old one, is in the state of
\* an empty prefix whatever ran before.
LEMMA FreshStep ==
    ASSUME RunnerInv, NEW initial \in Initials,
           start(initial) \/ restart(initial) \/ reset(initial)
    PROVE  RunnerInv'
<1>1. /\ state' = "Idle"
      /\ materialized' = initial
      /\ workspace' = Fresh
      /\ incarnation' \in {incarnation, incarnation + 1}
      /\ incarnation' # incarnation => incarnation < MaxIncarnation
      /\ UNCHANGED <<requests, active, successful, scripts, outcomes>>
      /\ state \in {"Stopped", "Idle", "Poisoned", "Crashed"}
  BY DEF start, restart, reset, start_incarnation
<1>2. RunnerTyped'
  <2>1. incarnation' \in 0..MaxIncarnation
    BY <1>1, RunnerAssumption DEF RunnerInv, RunnerTyped
  <2>2. Fresh \in Seq(Codes) /\ Fresh \in Seq(Codes \cup {None})
    BY DEF Fresh
  <2>3. materialized' \in OptionalKeys /\ workspace' \in Seq(Codes \cup {None})
    BY <1>1, <2>2 DEF Initials, OptionalKeys
  <2>. QED  BY <1>1, <2>1, <2>3 DEF RunnerInv, RunnerTyped, RunnerStates
<1>3. active = None /\ successful = None
  BY <1>1 DEF RunnerInv, FieldsMatchState
<1>4. FieldsMatchState' /\ VerifiedState' /\ OutcomesRequested'
  BY <1>1, <1>3 DEF RunnerInv, FieldsMatchState, VerifiedState, OutcomesRequested, Initials
<1>. QED  BY <1>1, <1>2, <1>4 DEF RunnerInv

\* Whatever the script, an attempt that is accepted runs on the state it
\* requires, and the claim to a state is given up before it runs.
LEMMA DispatchStep ==
    ASSUME RunnerInv, NEW request \in Requests, NEW script \in FakeScripts,
           dispatch(request, script), scripts' \in Seq(FakeScripts)
    PROVE  RunnerInv'
<1>. DEFINE entry == [attempt |-> request.attempt, required |-> request.required,
                      code |-> request.code, script |-> script,
                      events |-> 0, blocked |-> FALSE, revoked |-> FALSE]
<1>1. /\ request.attempt \in Attempts
      /\ request.required \in {None} \cup StateKeys(MaxChain - 1)
      /\ request.code \in Codes
      /\ request.required = materialized
      /\ state = "Idle"
  BY DEF Requests, dispatch, Accepts
<1>2. /\ requests' = Append(requests, request.attempt)
      /\ active' = entry
      /\ materialized' = None
      /\ state' = "Running"
      /\ workspace' = Append(workspace, request.code)
      /\ UNCHANGED <<incarnation, successful, outcomes>>
  BY DEF dispatch
<1>3. entry \in ActiveAttempts /\ entry # None
  <2>1. request.required \in OptionalKeys
    BY <1>1, BoundedKeys DEF OptionalKeys
  <2>2. entry \in ActiveAttempts
    BY <1>1, <2>1 DEF ActiveAttempts
  <2>. QED  BY <2>2, RunnerAssumption
<1>4. RunnerTyped'
  <2>1. workspace' \in Seq(Codes \cup {None}) /\ requests' \in Seq(Attempts)
    BY <1>1, <1>2 DEF RunnerInv, RunnerTyped
  <2>2. entry.required = request.required
    OBVIOUS
  <2>. QED  BY <1>1, <1>2, <1>3, <2>1, <2>2
       DEF RunnerInv, RunnerTyped, RunnerStates, OptionalKeys
<1>5. FieldsMatchState' /\ VerifiedState'
  <2>1. successful = None
    BY <1>1 DEF RunnerInv, FieldsMatchState
  <2>2. entry.required # None => workspace' = Append(entry.required, entry.code)
    BY <1>1, <1>2 DEF RunnerInv, VerifiedState
  <2>. QED  BY <1>2, <1>3, <2>1, <2>2 DEF FieldsMatchState, VerifiedState
<1>6. OutcomesRequested'
  <2>1. Range(requests') = Range(requests) \cup {request.attempt}
    BY <1>1, <1>2, RangeOfAppend DEF RunnerInv, RunnerTyped
  <2>2. entry.attempt = request.attempt
    OBVIOUS
  <2>. QED  BY <1>2, <2>1, <2>2 DEF RunnerInv, OutcomesRequested
<1>. QED  BY <1>2, <1>4, <1>5, <1>6 DEF RunnerInv

\* execute takes a script from the queue in any case.
LEMMA ExecuteStep ==
    ASSUME RunnerInv, NEW request \in Requests, execute(request)
    PROVE  RunnerInv'
<1>. DEFINE script == IF scripts = <<>> THEN EmptyScript ELSE Head(scripts)
<1>1. scripts' \in Seq(FakeScripts) /\ script \in FakeScripts
  <2>1. EmptyScript \in FakeScripts
    BY DEF EmptyScript, FakeScripts
  <2>. QED  BY <2>1 DEF RunnerInv, RunnerTyped, execute
<1>2. CASE dispatch(request, script)
  BY <1>1, <1>2, DispatchStep
<1>3. CASE UNCHANGED <<state, materialized, incarnation, requests, active, successful,
                       delivered, outcomes, workspace>>
  BY <1>1, <1>3 DEF RunnerInv, RunnerTyped, FieldsMatchState, VerifiedState, OutcomesRequested
<1>. QED  BY <1>2, <1>3 DEF execute

\* The active attempt ends: only a success that nobody revoked is provisional,
\* and only code that ran to its end leaves a known workspace.
LEMMA FinishStep ==
    ASSUME RunnerInv, active # None, NEW status \in Ends,
           NEW crashed \in BOOLEAN, finish(status, crashed),
           UNCHANGED <<materialized, incarnation, requests, scripts>>
    PROVE  RunnerInv'
<1>. DEFINE success == [attempt |-> active.attempt,
                        resulting |-> Resulting(active.required, active.code)]
            outcome == [attempt |-> active.attempt, status |-> status, events |-> active.events]
<1>1. /\ active \in ActiveAttempts
      /\ active.required \in {None} \cup StateKeys(MaxChain - 1)
      /\ active.attempt \in Attempts /\ active.code \in Codes /\ active.events \in Nat
      /\ active.attempt \in Range(requests)
      /\ materialized = None /\ successful = None
  BY DEF RunnerInv, RunnerTyped, FieldsMatchState, OutcomesRequested, ActiveAttempts
<1>2. /\ active' = None
      /\ outcomes' = Append(outcomes, outcome)
      /\ \/ state' = "AwaitingAcceptance" /\ successful' = success
            /\ workspace' = workspace
         \/ state' \in {"Crashed", "Poisoned"} /\ successful' = None
      /\ workspace' \in {workspace, Spoiled}
  BY <1>1 DEF finish, Counts
<1>3. /\ success \in Successes /\ success # None
      /\ success.resulting \in {None} \cup StateKeys(MaxChain)
      /\ success.resulting # None =>
            active.required # None /\ success.resulting = Append(active.required, active.code)
  <2>1. success.resulting \in {None} \cup StateKeys(MaxChain)
    BY <1>1, ResultingKey
  <2>2. success \in Successes
    BY <1>1, <2>1, BoundedKeys DEF Successes, OptionalKeys
  <2>. QED  BY <2>1, <2>2, RunnerAssumption DEF Resulting
<1>4. RunnerTyped'
  <2>1. workspace' \in Seq(Codes \cup {None})
    <3>1. Spoiled \in Seq(Codes \cup {None})
      BY DEF Spoiled
    <3>. QED  BY <1>2, <3>1 DEF RunnerInv, RunnerTyped
  <2>. QED  BY <1>2, <1>3, <2>1 DEF RunnerInv, RunnerTyped, RunnerStates
<1>5. FieldsMatchState' /\ VerifiedState'
  BY <1>1, <1>2, <1>3 DEF RunnerInv, FieldsMatchState, VerifiedState
<1>6. /\ outcomes' \in Seq([attempt : Attempts, status : Ends, events : Nat])
      /\ OutcomesRequested'
  <2>1. outcome \in [attempt : Attempts, status : Ends, events : Nat]
    BY <1>1
  <2>2. /\ outcomes' \in Seq([attempt : Attempts, status : Ends, events : Nat])
        /\ DOMAIN outcomes' = DOMAIN outcomes \cup {Len(outcomes) + 1}
        /\ \A n \in DOMAIN outcomes : outcomes'[n] = outcomes[n]
        /\ outcomes'[Len(outcomes) + 1] = outcome
    BY <1>2, <2>1, RangeOfAppend, AppendProperties DEF RunnerInv
  <2>3. outcome.attempt = active.attempt
    OBVIOUS
  <2>. QED  BY <1>1, <1>2, <2>2, <2>3 DEF RunnerInv, OutcomesRequested
<1>. QED  BY <1>4, <1>5, <1>6 DEF RunnerInv

\* While an attempt runs on, only its script, its output count and its gate
\* and revocation change.
LEMMA RunningStep ==
    ASSUME RunnerInv, active # None, active' \in ActiveAttempts,
           active'.attempt = active.attempt,
           active'.required = active.required,
           active'.code = active.code,
           \/ state' = state /\ active'.revoked = active.revoked
           \/ state' = "Interrupting" /\ active'.revoked = TRUE,
           UNCHANGED <<materialized, incarnation, requests, successful, scripts, outcomes, workspace>>
    PROVE  RunnerInv'
<1>1. active' # None
  BY RunnerAssumption
<1>2. RunnerTyped'
  BY <1>1 DEF RunnerInv, RunnerTyped, RunnerStates
<1>3. FieldsMatchState' /\ VerifiedState' /\ OutcomesRequested'
  BY <1>1 DEF RunnerInv, FieldsMatchState, VerifiedState, OutcomesRequested
<1>. QED  BY <1>2, <1>3 DEF RunnerInv

\* A step of the script changes nothing of the attempt but its progress.
LEMMA EffectKeepsAttempt ==
    ASSUME RunnerInv, active # None, active.script.steps # <<>>, pollEffect
    PROVE  /\ active' \in ActiveAttempts
           /\ active'.attempt = active.attempt
           /\ active'.required = active.required
           /\ active'.code = active.code
           /\ active'.revoked = active.revoked
           /\ UNCHANGED <<state, successful, outcomes, workspace>>
<1>1. /\ active \in ActiveAttempts
      /\ active.script \in FakeScripts
      /\ active.script.steps \in Seq({"Output", "Artifact", "Block"})
  BY DEF RunnerInv, RunnerTyped, ActiveAttempts, FakeScripts
<1>2. Tail(active.script.steps) \in Seq({"Output", "Artifact", "Block"})
  BY <1>1
<1>3. /\ Advanced \in ActiveAttempts
      /\ Advanced.attempt = active.attempt
      /\ Advanced.required = active.required
      /\ Advanced.code = active.code
      /\ Advanced.revoked = active.revoked
      /\ Advanced.events = active.events
  BY <1>1, <1>2 DEF Advanced, ActiveAttempts, FakeScripts
<1>4. \/ active' = [Advanced EXCEPT !.blocked = TRUE]
      \/ \E printed \in {0, 1} : active' = [Advanced EXCEPT !.events = active.events + printed]
  BY DEF pollEffect
<1>5. /\ active' \in ActiveAttempts
      /\ active'.attempt = active.attempt
      /\ active'.required = active.required
      /\ active'.code = active.code
      /\ active'.revoked = active.revoked
  <2>1. CASE active' = [Advanced EXCEPT !.blocked = TRUE]
    BY <1>3, <2>1 DEF ActiveAttempts
  <2>2. ASSUME NEW printed \in {0, 1}, active' = [Advanced EXCEPT !.events = active.events + printed]
        PROVE  /\ active' \in ActiveAttempts
               /\ active'.attempt = active.attempt
               /\ active'.required = active.required
               /\ active'.code = active.code
               /\ active'.revoked = active.revoked
    <3>1. active.events + printed \in Nat
      BY <1>1 DEF ActiveAttempts
    <3>. QED  BY <1>3, <2>2, <3>1 DEF ActiveAttempts
  <2>. QED  BY <1>4, <2>1, <2>2
<1>6. UNCHANGED <<state, successful, outcomes, workspace>>
  BY DEF pollEffect
<1>. QED  BY <1>5, <1>6

\* Every outcome of poll: a cancellation, an effect or the completion.
LEMMA PollStep ==
    ASSUME RunnerInv, poll
    PROVE  RunnerInv'
<1>1. active # None /\ UNCHANGED <<materialized, incarnation, requests, scripts>>
  BY DEF poll
<1>2. ASSUME NEW status \in Ends, NEW crashed \in BOOLEAN, Completed(status, crashed)
      PROVE  RunnerInv'
  BY <1>1, <1>2, FinishStep DEF Completed
<1>3. CASE IsCancelled /\ Completed("Cancelled", FALSE)
  BY <1>2, <1>3 DEF Ends
<1>4. CASE pollEffect
  <2>1. CASE active.script.steps = <<>>
    <3>. DEFINE status == CASE active.script.completion = "Success" -> "Success"
                            [] active.script.completion = "Failure" -> "Failure"
                            [] OTHER -> IF active.revoked THEN "Cancelled" ELSE "Failure"
    <3>1. status \in Ends
      BY DEF Ends
    <3>2. Completed(status, active.script.completion = "Crash")
      BY <1>4, <2>1 DEF pollEffect
    <3>. QED  BY <1>2, <3>1, <3>2
  <2>2. CASE active.script.steps # <<>>
    <3>. QED  BY <1>1, <1>4, <2>2, EffectKeepsAttempt, RunningStep
  <2>. QED  BY <2>1, <2>2
<1>. QED  BY <1>3, <1>4 DEF poll

\* Interruption and the opening of a gate change the running attempt alone.
LEMMA SignalStep ==
    ASSUME RunnerInv, interrupt \/ (\E a \in Attempts : release(a))
    PROVE  RunnerInv'
<1>1. active # None
  BY DEF interrupt, release, RunnerInv, FieldsMatchState
<1>2. active \in ActiveAttempts
  BY <1>1 DEF RunnerInv, RunnerTyped
<1>3. CASE interrupt
  <2>1. /\ active' \in ActiveAttempts
        /\ active'.attempt = active.attempt /\ active'.required = active.required
        /\ active'.code = active.code /\ active'.revoked = TRUE
    BY <1>2, <1>3 DEF interrupt, ActiveAttempts
  <2>. QED  BY <1>1, <1>3, <2>1, RunningStep DEF interrupt
<1>4. CASE \E a \in Attempts : release(a)
  <2>1. /\ active' \in ActiveAttempts
        /\ active'.attempt = active.attempt /\ active'.required = active.required
        /\ active'.code = active.code /\ active'.revoked = active.revoked
    BY <1>2, <1>4 DEF release, ActiveAttempts
  <2>. QED  BY <1>1, <1>4, <2>1, RunningStep DEF release
<1>. QED  BY <1>3, <1>4

\* Acceptance turns the provisional key into the claim; discarding claims nothing new.
LEMMA AcceptStep ==
    ASSUME RunnerInv, NEW a \in Attempts, accept_success(a) \/ discard_success(a)
    PROVE  RunnerInv'
<1>1. /\ successful # None /\ successful \in Successes
      /\ successful.resulting \in OptionalKeys
      /\ active = None
  BY DEF accept_success, discard_success, RunnerInv, RunnerTyped, FieldsMatchState, Successes
<1>2. /\ successful' = None
      /\ state' \in {"Idle", "Poisoned"}
      /\ materialized' \in {materialized, successful.resulting}
      /\ UNCHANGED <<incarnation, requests, active, scripts, outcomes, workspace>>
  BY DEF accept_success, discard_success
<1>3. RunnerTyped'
  BY <1>1, <1>2 DEF RunnerInv, RunnerTyped, RunnerStates
<1>4. FieldsMatchState' /\ VerifiedState' /\ OutcomesRequested'
  BY <1>1, <1>2 DEF RunnerInv, FieldsMatchState, VerifiedState, OutcomesRequested
<1>. QED  BY <1>2, <1>3, <1>4 DEF RunnerInv

\* Shutdown gives up every claim.
LEMMA ShutdownStep ==
    ASSUME RunnerInv, shutdown
    PROVE  RunnerInv'
<1>. DEFINE outcome == [attempt |-> active.attempt, status |-> "Cancelled", events |-> active.events]
<1>1. /\ active' = None /\ successful' = None /\ materialized' = None
      /\ state' = "Stopped" /\ workspace' = Spoiled
      /\ outcomes' = IF active = None THEN outcomes ELSE Append(outcomes, outcome)
      /\ UNCHANGED <<incarnation, requests, scripts>>
  BY DEF shutdown
<1>2. RunnerTyped'
  <2>1. Spoiled \in Seq(Codes \cup {None})
    BY DEF Spoiled
  <2>. QED  BY <1>1, <2>1 DEF RunnerInv, RunnerTyped, RunnerStates, OptionalKeys
<1>3. FieldsMatchState' /\ VerifiedState'
  BY <1>1 DEF FieldsMatchState, VerifiedState
<1>4. outcomes' \in Seq([attempt : Attempts, status : Ends, events : Nat]) /\ OutcomesRequested'
  <2>1. CASE active = None
    BY <1>1, <2>1 DEF RunnerInv, OutcomesRequested
  <2>2. CASE active # None
    <3>1. active \in ActiveAttempts /\ active.attempt \in Range(requests)
      BY <2>2 DEF RunnerInv, RunnerTyped, OutcomesRequested
    <3>2. outcome \in [attempt : Attempts, status : Ends, events : Nat]
      BY <3>1 DEF ActiveAttempts, Ends
    <3>3. /\ outcomes' \in Seq([attempt : Attempts, status : Ends, events : Nat])
          /\ DOMAIN outcomes' = DOMAIN outcomes \cup {Len(outcomes) + 1}
          /\ \A n \in DOMAIN outcomes : outcomes'[n] = outcomes[n]
          /\ outcomes'[Len(outcomes) + 1] = outcome
      BY <1>1, <2>2, <3>2, RangeOfAppend, AppendProperties DEF RunnerInv
    <3>4. outcome.attempt = active.attempt
      OBVIOUS
    <3>. QED  BY <1>1, <3>1, <3>3, <3>4 DEF RunnerInv, OutcomesRequested
  <2>. QED  BY <2>1, <2>2
<1>. QED  BY <1>2, <1>3, <1>4 DEF RunnerInv

\* Every step of the runner preserves its invariant.
LEMMA RunnerStep == RunnerInv /\ [RunnerNext]_runnerVars => RunnerInv'
<1>. SUFFICES ASSUME RunnerInv, [RunnerNext]_runnerVars PROVE RunnerInv'
  OBVIOUS
<1>1. ASSUME NEW initial \in Initials, start(initial) \/ restart(initial) \/ reset(initial)
      PROVE  RunnerInv'
  BY <1>1, FreshStep
<1>2. ASSUME NEW request \in Requests, execute(request) PROVE RunnerInv'
  BY <1>2, ExecuteStep
<1>3. ASSUME NEW script \in Scripts, queue_script(script) PROVE RunnerInv'
  <2>1. scripts' \in Seq(FakeScripts)
    BY <1>3, RunnerAssumption DEF queue_script, RunnerInv, RunnerTyped
  <2>. QED  BY <1>3, <2>1 DEF queue_script, RunnerInv, RunnerTyped, FieldsMatchState,
            VerifiedState, OutcomesRequested
<1>4. ASSUME NEW a \in Attempts, release(a) \/ accept_success(a) \/ discard_success(a)
      PROVE  RunnerInv'
  BY <1>4, SignalStep, AcceptStep
<1>5. CASE UNCHANGED runnerVars
  BY <1>5 DEF runnerVars, RunnerInv, RunnerTyped, FieldsMatchState, VerifiedState, OutcomesRequested
<1>. QED  BY <1>1, <1>2, <1>3, <1>4, <1>5, PollStep, SignalStep, ShutdownStep DEF RunnerNext

-----------------------------------------------------------------------------
(***************************************************************************)
(* The scripted runner implements the contract of the trait.               *)
(***************************************************************************)
EndedAttempts == {outcomes[n].attempt : n \in DOMAIN outcomes}

\* One more outcome ends one more attempt.
LEMMA EndedGrows ==
    ASSUME RunnerInv, NEW outcome \in [attempt : Attempts, status : Ends, events : Nat],
           outcomes' = Append(outcomes, outcome)
    PROVE  EndedAttempts' = EndedAttempts \cup {outcome.attempt}
<1>1. /\ DOMAIN outcomes' = DOMAIN outcomes \cup {Len(outcomes) + 1}
      /\ \A n \in DOMAIN outcomes : outcomes'[n] = outcomes[n]
      /\ outcomes'[Len(outcomes) + 1] = outcome
  BY RangeOfAppend DEF RunnerInv
<1>. QED  BY <1>1 DEF EndedAttempts

\* Where phase and attempt stand, by the fields that are present.
LEMMA PhaseOf ==
    ASSUME RunnerInv
    PROVE  /\ Phase = "stopped" <=> state = "Stopped"
           /\ Phase = "ready" <=> state = "Idle"
           /\ Phase = "running" <=> active # None
           /\ Phase = "provisional" <=> successful # None
           /\ Phase = "unusable" <=> state \in {"Poisoned", "Crashed"}
           /\ active # None => CurrentAttempt = active.attempt
           /\ successful # None => CurrentAttempt = successful.attempt /\ active = None
           /\ state \in {"Stopped", "Idle", "Poisoned", "Crashed"} => CurrentAttempt = None
  BY DEF RunnerInv, RunnerTyped, RunnerStates, FieldsMatchState, Phase, CurrentAttempt

\* start, restart and reset are Begin and Restore.
LEMMA BeginRefines ==
    ASSUME RunnerInv, RunnerInv', NEW initial \in Initials,
           start(initial) \/ restart(initial) \/ reset(initial)
    PROVE  Contract!ContractNext
<1>1. /\ state \in {"Stopped", "Idle", "Poisoned", "Crashed"} /\ state' = "Idle"
      /\ materialized' = initial
      /\ UNCHANGED <<active, successful, outcomes>>
      /\ \/ state # "Idle" /\ incarnation' = incarnation + 1
         \/ state # "Stopped" /\ state # "Crashed" /\ incarnation' = incarnation
  BY DEF start, restart, reset, start_incarnation
<1>2. initial \in StateKeys(MaxChain) \cup {None}
  BY BoundedKeys DEF Initials
<1>3. Phase \in {"stopped", "ready", "unusable"} /\ Phase' = "ready"
  BY <1>1 DEF Phase
<1>4. CurrentAttempt' = CurrentAttempt
  BY <1>1 DEF CurrentAttempt
<1>5. EndedAttempts' = EndedAttempts
  BY <1>1 DEF EndedAttempts
<1>6. CASE state # "Idle" /\ incarnation' = incarnation + 1
  <2>1. Contract!Begin(initial)
    BY <1>1, <1>3, <1>4, <1>5, <1>6 DEF Contract!Begin, EndedAttempts, Phase
  <2>. QED  BY <1>2, <2>1 DEF Contract!ContractNext
<1>7. CASE state # "Stopped" /\ state # "Crashed" /\ incarnation' = incarnation
  <2>1. Contract!Restore(initial)
    BY <1>1, <1>3, <1>4, <1>5, <1>7 DEF Contract!Restore, EndedAttempts, Phase
  <2>. QED  BY <1>2, <2>1 DEF Contract!ContractNext
<1>. QED  BY <1>1, <1>6, <1>7

\* What the contract sees of the state stays as it is.
LEMMA Stutters ==
    ASSUME UNCHANGED <<state, materialized, incarnation, successful, outcomes>>,
           CurrentAttempt' = CurrentAttempt
    PROVE  UNCHANGED Contract!contractVars
  BY DEF Contract!contractVars, Phase

\* A dispatched attempt is a Run, a rejected one stutters.
LEMMA ExecuteRefines ==
    ASSUME RunnerInv, NEW request \in Requests, execute(request)
    PROVE  [Contract!ContractNext]_Contract!contractVars
<1>1. CASE UNCHANGED <<state, materialized, incarnation, requests, active, successful,
                       delivered, outcomes, workspace>>
  BY <1>1, Stutters DEF CurrentAttempt
<1>2. ASSUME NEW script, dispatch(request, script)
      PROVE  Contract!ContractNext
  <2>. DEFINE entry == [attempt |-> request.attempt, required |-> request.required,
                        code |-> request.code, script |-> script,
                        events |-> 0, blocked |-> FALSE, revoked |-> FALSE]
  <2>1. /\ state = "Idle" /\ state' = "Running" /\ materialized' = None
        /\ active' = entry
        /\ \A n \in DOMAIN requests : requests[n] # request.attempt
        /\ UNCHANGED <<incarnation, successful, outcomes>>
    BY <1>2 DEF dispatch, Accepts
  <2>2. request.attempt \notin EndedAttempts
    BY <2>1 DEF RunnerInv, OutcomesRequested, Range, EndedAttempts
  <2>3. active = None /\ successful = None
    BY <2>1 DEF RunnerInv, FieldsMatchState
  <2>4. CurrentAttempt' = request.attempt
    <3>1. entry # None
      BY <2>1, <1>2, ExecuteStep DEF RunnerInv, FieldsMatchState
    <3>. QED  BY <2>1, <3>1 DEF CurrentAttempt
  <2>5. request.attempt \in Attempts
    BY DEF Requests
  <2>6. Contract!Run(request.attempt)
    BY <2>1, <2>2, <2>4 DEF Contract!Run, EndedAttempts, Phase
  <2>. QED  BY <2>5, <2>6 DEF Contract!ContractNext
<1>. QED  BY <1>1, <1>2 DEF execute

\* A success counts for the contract exactly when it counts for the runner.
LEMMA FinishRefines ==
    ASSUME RunnerInv, active # None, NEW status \in Ends,
           NEW crashed \in BOOLEAN, finish(status, crashed),
           UNCHANGED <<materialized, incarnation, requests, scripts>>
    PROVE  Contract!ContractNext
<1>. DEFINE success == [attempt |-> active.attempt,
                        resulting |-> Resulting(active.required, active.code)]
            outcome == [attempt |-> active.attempt, status |-> status, events |-> active.events]
<1>1. /\ active \in ActiveAttempts /\ active.attempt \in Attempts
      /\ successful = None
      /\ state \in {"Running", "Interrupting"}
      /\ active.revoked <=> state = "Interrupting"
  BY DEF RunnerInv, RunnerTyped, FieldsMatchState, ActiveAttempts
<1>2. EndedAttempts' = EndedAttempts \cup {active.attempt}
  <2>1. outcome \in [attempt : Attempts, status : Ends, events : Nat]
    BY <1>1 DEF ActiveAttempts
  <2>2. outcomes' = Append(outcomes, outcome) /\ outcome.attempt = active.attempt
    BY DEF finish
  <2>. QED  BY <2>1, <2>2, EndedGrows
<1>3. Phase = "running" /\ CurrentAttempt = active.attempt
  BY PhaseOf
<1>4. active' = None
  BY DEF finish
<1>5. CASE Counts(status, crashed)
  <2>1. state' = "AwaitingAcceptance" /\ successful' = success
    BY <1>5 DEF finish
  <2>2. success # None
    BY <2>1, FinishStep DEF RunnerInv, FieldsMatchState
  <2>3. CurrentAttempt' = active.attempt /\ Phase' = "provisional"
    BY <1>4, <2>1, <2>2 DEF CurrentAttempt, Phase
  <2>4. state # "Interrupting" /\ state' # "Interrupting"
    BY <1>1, <1>5, <2>1 DEF Counts
  <2>5. Contract!Succeed
    BY <1>2, <1>3, <2>3, <2>4 DEF Contract!Succeed, EndedAttempts
  <2>. QED  BY <2>5 DEF Contract!ContractNext
<1>6. CASE ~ Counts(status, crashed)
  <2>1. state' \in {"Crashed", "Poisoned"} /\ successful' = None
    BY <1>1, <1>6 DEF finish
  <2>2. CurrentAttempt' = None /\ Phase' = "unusable"
    BY <1>4, <2>1 DEF CurrentAttempt, Phase
  <2>3. Contract!Fail
    BY <1>2, <1>3, <2>1, <2>2 DEF Contract!Fail, EndedAttempts
  <2>. QED  BY <2>3 DEF Contract!ContractNext
<1>. QED  BY <1>5, <1>6

\* poll is Succeed or Fail when the attempt ends, and stutters otherwise.
LEMMA PollRefines ==
    ASSUME RunnerInv, poll
    PROVE  [Contract!ContractNext]_Contract!contractVars
<1>1. active # None /\ UNCHANGED <<materialized, incarnation, requests, scripts>>
  BY DEF poll
<1>2. ASSUME NEW status \in Ends, NEW crashed \in BOOLEAN, Completed(status, crashed)
      PROVE  Contract!ContractNext
  BY <1>1, <1>2, FinishRefines DEF Completed
<1>3. CASE IsCancelled /\ Completed("Cancelled", FALSE)
  BY <1>2, <1>3 DEF Ends
<1>4. CASE pollEffect
  <2>1. CASE active.script.steps = <<>>
    <3>. DEFINE status == CASE active.script.completion = "Success" -> "Success"
                            [] active.script.completion = "Failure" -> "Failure"
                            [] OTHER -> IF active.revoked THEN "Cancelled" ELSE "Failure"
    <3>1. status \in Ends
      BY DEF Ends
    <3>2. Completed(status, active.script.completion = "Crash")
      BY <1>4, <2>1 DEF pollEffect
    <3>. QED  BY <1>2, <3>1, <3>2
  <2>2. CASE active.script.steps # <<>>
    <3>1. UNCHANGED <<state, successful, outcomes>> /\ active'.attempt = active.attempt
      BY <1>1, <1>4, <2>2, EffectKeepsAttempt
    <3>2. active' # None
      BY <1>1, <3>1, PollStep DEF RunnerInv, FieldsMatchState
    <3>3. CurrentAttempt' = CurrentAttempt
      BY <1>1, <3>1, <3>2 DEF CurrentAttempt
    <3>. QED  BY <1>1, <3>1, <3>3, Stutters
  <2>. QED  BY <2>1, <2>2
<1>. QED  BY <1>3, <1>4 DEF poll

\* interrupt is Revoke; an opened gate stutters.
LEMMA SignalRefines ==
    ASSUME RunnerInv, interrupt \/ (\E a \in Attempts : release(a))
    PROVE  [Contract!ContractNext]_Contract!contractVars
<1>1. active # None /\ active \in ActiveAttempts /\ state \in {"Running", "Interrupting"}
  BY DEF interrupt, release, RunnerInv, FieldsMatchState, RunnerTyped
<1>2. active' # None
  BY <1>1, SignalStep DEF RunnerInv, FieldsMatchState, interrupt, release
<1>3. active'.attempt = active.attempt
  BY <1>1 DEF interrupt, release, ActiveAttempts
<1>4. CurrentAttempt' = CurrentAttempt
  BY <1>1, <1>2, <1>3 DEF CurrentAttempt
<1>5. CASE interrupt
  <2>1. Phase = "running" /\ Phase' = "running"
    BY <1>1, <1>5 DEF Phase, interrupt
  <2>2. Contract!Revoke
    BY <1>4, <1>5, <2>1 DEF Contract!Revoke, interrupt
  <2>. QED  BY <2>2 DEF Contract!ContractNext
<1>6. CASE \E a \in Attempts : release(a)
  BY <1>4, <1>6, Stutters DEF release
<1>. QED  BY <1>5, <1>6

\* Acceptance is Accept and discarding is Discard.
LEMMA AcceptRefines ==
    ASSUME RunnerInv, NEW a \in Attempts, accept_success(a) \/ discard_success(a)
    PROVE  Contract!ContractNext
<1>1. /\ state = "AwaitingAcceptance"
      /\ active = None /\ active' = None /\ successful' = None
      /\ UNCHANGED <<incarnation, outcomes>>
  BY DEF accept_success, discard_success, RunnerInv, FieldsMatchState
<1>2. successful.resulting \in StateKeys(MaxChain) \cup {None}
  BY <1>1 DEF RunnerInv, RunnerTyped, FieldsMatchState
<1>3. Phase = "provisional" /\ CurrentAttempt' = None
  BY <1>1 DEF Phase, CurrentAttempt
<1>4. CASE accept_success(a)
  <2>1. Contract!Accept(successful.resulting)
    BY <1>1, <1>3, <1>4 DEF Contract!Accept, accept_success, Phase
  <2>. QED  BY <1>2, <2>1 DEF Contract!ContractNext
<1>5. CASE discard_success(a)
  <2>1. Contract!Discard
    BY <1>1, <1>3, <1>5 DEF Contract!Discard, discard_success, Phase
  <2>. QED  BY <2>1 DEF Contract!ContractNext
<1>. QED  BY <1>4, <1>5

\* shutdown is Stop.
LEMMA ShutdownRefines ==
    ASSUME RunnerInv, shutdown
    PROVE  Contract!ContractNext
<1>. DEFINE outcome == [attempt |-> active.attempt, status |-> "Cancelled", events |-> active.events]
<1>1. /\ active' = None /\ successful' = None /\ materialized' = None /\ state' = "Stopped"
      /\ outcomes' = IF active = None THEN outcomes ELSE Append(outcomes, outcome)
      /\ UNCHANGED incarnation
  BY DEF shutdown
<1>2. Phase' = "stopped" /\ CurrentAttempt' = None
  BY <1>1 DEF Phase, CurrentAttempt
<1>3. EndedAttempts' =
        EndedAttempts \cup (IF Phase = "running" THEN {CurrentAttempt} ELSE {})
  <2>1. CASE active = None
    BY <1>1, <2>1, PhaseOf DEF EndedAttempts
  <2>2. CASE active # None
    <3>1. outcome \in [attempt : Attempts, status : Ends, events : Nat]
      BY <2>2 DEF RunnerInv, RunnerTyped, ActiveAttempts, Ends
    <3>2. EndedAttempts' = EndedAttempts \cup {outcome.attempt}
      BY <1>1, <2>2, <3>1, EndedGrows
    <3>3. outcome.attempt = active.attempt
      OBVIOUS
    <3>. QED  BY <2>2, <3>2, <3>3, PhaseOf
  <2>. QED  BY <2>1, <2>2
<1>4. Contract!Stop
  BY <1>1, <1>2, <1>3 DEF Contract!Stop, EndedAttempts
<1>. QED  BY <1>4 DEF Contract!ContractNext

\* Every step of the runner is a step of the contract or stutters.
LEMMA StepRefines ==
    RunnerInv /\ [RunnerNext]_runnerVars => [Contract!ContractNext]_Contract!contractVars
<1>. SUFFICES ASSUME RunnerInv, [RunnerNext]_runnerVars
              PROVE  [Contract!ContractNext]_Contract!contractVars
  OBVIOUS
<1>1. RunnerInv'
  BY RunnerStep
<1>2. ASSUME NEW initial \in Initials, start(initial) \/ restart(initial) \/ reset(initial)
      PROVE  Contract!ContractNext
  BY <1>1, <1>2, BeginRefines
<1>3. ASSUME NEW script \in Scripts, queue_script(script)
      PROVE  UNCHANGED Contract!contractVars
  BY <1>3, Stutters DEF queue_script, CurrentAttempt
<1>4. ASSUME NEW a \in Attempts, release(a) \/ accept_success(a) \/ discard_success(a)
      PROVE  [Contract!ContractNext]_Contract!contractVars
  BY <1>4, SignalRefines, AcceptRefines
<1>5. CASE UNCHANGED runnerVars
  BY <1>5, Stutters DEF runnerVars, CurrentAttempt
<1>. QED  BY <1>2, <1>3, <1>4, <1>5, ExecuteRefines, PollRefines, SignalRefines, ShutdownRefines
     DEF RunnerNext

-----------------------------------------------------------------------------
\* A bridge that was never started satisfies the invariant.
LEMMA BridgeInitial == BridgeInit => BridgeInv
<1>. SUFFICES ASSUME BridgeInit PROVE BridgeInv
  OBVIOUS
<1>1. BridgeTyped
  <2>1. \A S : <<>> \in Seq(S)
    OBVIOUS
  <2>. QED  BY <2>1 DEF BridgeInit, BridgeTyped
<1>2. CallsInOrder /\ LeftoversStale /\ OneExchange /\ CallsReportTheirOwn
  BY DEF BridgeInit, CallsInOrder, LeftoversStale, OneExchange, CallsReportTheirOwn, Quiet
<1>. QED  BY <1>1, <1>2 DEF BridgeInv

\* Starting, dropping and the failures of R touch no call and no output.
LEMMA CallsUntouched ==
    ASSUME BridgeInv,
           UNCHANGED <<commands, output, calls, ended, returned>>,
           serving' \in {0, serving},
           (host' = "reading") <=> (host = "reading")
    PROVE  CallsInOrder' /\ LeftoversStale' /\ CallsReportTheirOwn'
<1>1. CallsInOrder'
  BY DEF BridgeInv, CallsInOrder
<1>2. LeftoversStale'
  BY DEF BridgeInv, LeftoversStale, Stale
<1>3. CallsReportTheirOwn'
  BY DEF BridgeInv, CallsReportTheirOwn
<1>. QED  BY <1>1, <1>2, <1>3

\* The steps that send and read nothing.
LEMMA StartStepKeeps ==
    ASSUME BridgeInv,
           \/ spawn \/ accept \/ give_up \/ abandon \/ drop_unfinished \/ drop
           \/ connect \/ hang \/ exit
    PROVE  BridgeInv'
<1>1. /\ UNCHANGED <<commands, replies, aligned, output, calls, ended, returned>>
      /\ serving' \in {0, serving}
      /\ (host' = "reading") <=> (host = "reading")
  BY DEF spawn, accept, give_up, abandon, drop_unfinished, drop, connect, hang, exit
<1>2. CallsInOrder' /\ LeftoversStale' /\ CallsReportTheirOwn'
  BY <1>1, CallsUntouched
<1>3. BridgeTyped'
  <2>1. /\ host' \in {"unstarted", "accepting", "negotiating", "ready", "reading",
                      "failed", "abandoned", "dropped"}
        /\ child' \in {"none", "starting", "connected", "listening", "silent", "exited", "reaped"}
        /\ (child' = "none") <=> (host' = "unstarted")
        /\ pending' \in BOOLEAN
    BY DEF BridgeInv, BridgeTyped, spawn, accept, give_up, abandon, drop_unfinished, drop,
           connect, hang, exit, kill_and_wait, Alive
  <2>. QED  BY <1>1, <2>1 DEF BridgeInv, BridgeTyped
<1>4. OneExchange'
  <2>1. CASE spawn \/ accept
    BY <1>1, <2>1 DEF BridgeInv, OneExchange, Quiet, Greeted, spawn, accept, BridgeTyped
  <2>2. CASE give_up \/ abandon \/ drop_unfinished \/ drop
    BY <2>2 DEF OneExchange, give_up, abandon, drop_unfinished, drop
  <2>3. CASE connect
    BY <1>1, <2>3 DEF BridgeInv, OneExchange, Quiet, Greeted, connect
  <2>4. CASE hang \/ exit
    <3>1. child' \in {"silent", "exited"} /\ host' = host
      BY <2>4 DEF hang, exit
    <3>. QED  BY <1>1, <3>1 DEF BridgeInv, OneExchange, Quiet, Greeted
  <2>. QED  BY <2>1, <2>2, <2>3, <2>4
<1>. QED  BY <1>2, <1>3, <1>4 DEF BridgeInv

\* The greeting is the only reply before the first request.
LEMMA GreetingStep ==
    ASSUME BridgeInv, greet \/ negotiate
    PROVE  BridgeInv'
<1>1. /\ UNCHANGED <<commands, aligned, serving, output, calls, ended, returned>>
      /\ (host' = "reading") <=> (host = "reading")
  BY DEF greet, negotiate
<1>2. CallsInOrder' /\ LeftoversStale' /\ CallsReportTheirOwn'
  BY <1>1, CallsUntouched
<1>3. CASE greet
  <2>1. replies' = Append(replies, "hello") /\ child = "connected" /\ child' = "listening"
        /\ host' = host /\ pending' = pending
    BY <1>3 DEF greet
  <2>2. replies' \in Seq(Replies \cup {"hello"})
    BY <2>1, AppendProperties DEF BridgeInv, BridgeTyped
  <2>3. BridgeTyped'
    BY <1>1, <2>1, <2>2 DEF BridgeInv, BridgeTyped
  <2>4. aligned /\ host \in {"unstarted", "accepting", "negotiating"} => replies' = <<"hello">>
    <3>1. aligned /\ host \in {"unstarted", "accepting", "negotiating"} => replies = <<>>
      BY <2>1 DEF BridgeInv, OneExchange, Greeted
    <3>2. Append(<<>>, "hello") = <<"hello">>
      OBVIOUS
    <3>. QED  BY <2>1, <3>1, <3>2
  <2>5. OneExchange'
    BY <1>1, <2>1, <2>4 DEF BridgeInv, OneExchange, Quiet, Greeted
  <2>. QED  BY <1>2, <2>3, <2>5 DEF BridgeInv
<1>4. CASE negotiate
  <2>1. replies' \in Seq(Replies \cup {"hello"})
    <3>1. replies \in Seq(Replies \cup {"hello"})
      BY DEF BridgeInv, BridgeTyped
    <3>2. replies' = replies \/ (replies # <<>> /\ replies' = Tail(replies))
      BY <1>4 DEF negotiate
    <3>. QED  BY <3>1, <3>2
  <2>2. BridgeTyped'
    BY <1>1, <1>4, <2>1 DEF BridgeInv, BridgeTyped, negotiate, kill_and_wait
  <2>3. host' = "ready" /\ aligned => replies' = <<>> /\ Greeted /\ Quiet /\ child' = child
    BY <1>4 DEF BridgeInv, OneExchange, negotiate
  <2>4. host' \in {"ready", "failed"}
    BY <1>4 DEF negotiate
  <2>5. OneExchange'
    BY <1>1, <2>3, <2>4 DEF OneExchange, Quiet, Greeted
  <2>. QED  BY <1>2, <2>2, <2>5 DEF BridgeInv
<1>. QED  BY <1>3, <1>4

\* Whatever is left over stays stale when a call fails.
LEMMA StaleGrows ==
    ASSUME BridgeTyped, NEW result \in Results, ~ result.ok,
           returned' = Append(returned, result), calls' \in Nat, calls <= calls',
           NEW r \in Nat \ {0}, Stale(r)
    PROVE  r <= calls' /\ \A failed \in r..Len(returned') : ~ returned'[failed].ok
<1>1. /\ Len(returned) \in Nat /\ Len(returned') = Len(returned) + 1
      /\ returned'[Len(returned) + 1] = result
      /\ \A n \in 1..Len(returned) : returned'[n] = returned[n]
      /\ calls \in Nat
  BY DEF BridgeTyped
<1>2. ASSUME NEW failed \in r..Len(returned') PROVE ~ returned'[failed].ok
  <2>1. failed = Len(returned) + 1 \/ failed \in r..Len(returned)
    BY <1>1
  <2>2. CASE failed = Len(returned) + 1
    BY <1>1, <2>2
  <2>3. CASE failed \in r..Len(returned)
    BY <1>1, <2>3 DEF Stale
  <2>. QED  BY <2>1, <2>2, <2>3
<1>. QED  BY <1>1, <1>2 DEF Stale

\* The elements of the queues are requests.
LEMMA QueuedRequests ==
    ASSUME BridgeTyped
    PROVE  /\ \A n \in DOMAIN commands : commands[n] \in Nat \ {0}
           /\ \A n \in DOMAIN output : output[n] \in Nat \ {0}
           /\ serving # 0 => serving \in Nat \ {0}
BY DEF BridgeTyped

\* A result that does not report success says nothing of any request.
LEMMA FailedCall ==
    ASSUME BridgeInv, NEW result \in Results, ~ result.ok,
           returned' = Append(returned, result), ended' = ended
    PROVE  returned' \in Seq(Results) /\ CallsReportTheirOwn'
<1>1. /\ returned' \in Seq(Results)
      /\ DOMAIN returned' = DOMAIN returned \cup {Len(returned) + 1}
      /\ \A n \in DOMAIN returned : returned'[n] = returned[n]
      /\ returned'[Len(returned) + 1] = result
      /\ DOMAIN returned = 1..Len(returned) /\ Len(returned) \in Nat
  BY RangeOfAppend, AppendProperties DEF BridgeInv, BridgeTyped
<1>2. ASSUME NEW c \in DOMAIN returned', returned'[c].ok
      PROVE  /\ <<c, returned'[c].reply>> \in Range(ended')
             /\ \A r \in Range(returned'[c].output) :
                   r <= c /\ \A failed \in r..(c - 1) : ~ returned'[failed].ok
  <2>1. c \in DOMAIN returned /\ returned'[c] = returned[c]
    BY <1>1, <1>2
  <2>2. <<c, returned[c].reply>> \in Range(ended)
    BY <1>2, <2>1 DEF BridgeInv, CallsReportTheirOwn
  <2>3. ASSUME NEW r \in Range(returned[c].output)
        PROVE  r <= c /\ \A failed \in r..(c - 1) : ~ returned'[failed].ok
    <3>1. r <= c /\ \A failed \in r..(c - 1) : ~ returned[failed].ok
      BY <1>2, <2>1, <2>3 DEF BridgeInv, CallsReportTheirOwn
    <3>2. r \in Nat \ {0}
      <4>1. returned[c] \in Results
        BY <2>1 DEF BridgeInv, BridgeTyped
      <4>2. returned[c].output \in Seq(Nat \ {0})
        BY <1>2, <2>1, <4>1 DEF Results
      <4>. QED  BY <2>3, <4>2 DEF Range
    <3>3. \A failed \in r..(c - 1) : failed \in DOMAIN returned
      BY <1>1, <2>1, <3>2
    <3>. QED  BY <1>1, <3>1, <3>3
  <2>. QED  BY <2>1, <2>2, <2>3
<1>. QED  BY <1>1, <1>2 DEF CallsReportTheirOwn

\* A request is written when nothing else is on its way, or the call fails.
LEMMA WriteStep ==
    ASSUME BridgeInv, write_frame
    PROVE  BridgeInv'
<1>1. /\ host = "ready" /\ calls' = calls + 1 /\ calls \in Nat
      /\ UNCHANGED <<child, pending, replies, aligned, serving, output, ended>>
      /\ Len(returned) = calls
  BY DEF write_frame, BridgeInv, BridgeTyped, CallsInOrder
<1>2. CASE host' = "reading" /\ commands' = Append(commands, calls') /\ UNCHANGED returned
  <2>1. /\ commands' \in Seq(Nat \ {0})
        /\ DOMAIN commands' = DOMAIN commands \cup {Len(commands) + 1}
        /\ \A n \in DOMAIN commands : commands'[n] = commands[n]
        /\ commands'[Len(commands) + 1] = calls'
    BY <1>1, <1>2, RangeOfAppend, AppendProperties DEF BridgeInv, BridgeTyped
  <2>2. BridgeTyped'
    BY <1>1, <1>2, <2>1 DEF BridgeInv, BridgeTyped
  <2>3. CallsInOrder' /\ CallsReportTheirOwn'
    <3>1. CallsInOrder'
      BY <1>1, <1>2 DEF CallsInOrder
    <3>2. CallsReportTheirOwn'
      BY <1>1, <1>2 DEF BridgeInv, CallsReportTheirOwn
    <3>. QED  BY <3>1, <3>2
  <2>4. \A failed \in calls'..Len(returned') : ~ returned'[failed].ok
    BY <1>1, <1>2
  <2>5. LeftoversStale'
    <3>1. \A r \in Nat \ {0} : Stale(r) =>
            r <= calls' /\ \A failed \in r..Len(returned') : ~ returned'[failed].ok
      BY <1>1, <1>2 DEF Stale
    <3>. QED  BY <1>1, <1>2, <2>1, <2>4, <3>1, QueuedRequests
         DEF BridgeInv, LeftoversStale, Stale
  <2>6. OneExchange'
    <3>1. aligned => replies = <<>> /\ Greeted /\ (child = "listening" => Quiet)
      BY <1>1 DEF BridgeInv, OneExchange
    <3>2. commands = <<>> => commands' = <<calls'>>
      BY <1>2
    <3>. QED  BY <1>1, <1>2, <3>1, <3>2 DEF OneExchange, Quiet, Greeted
  <2>. QED  BY <2>2, <2>3, <2>5, <2>6 DEF BridgeInv
<1>3. CASE UNCHANGED <<host, commands>> /\ returned' = Append(returned, [ok |-> FALSE])
  <2>1. [ok |-> FALSE] \in Results
    BY DEF Results
  <2>2. returned' \in Seq(Results) /\ CallsReportTheirOwn'
    BY <1>1, <1>3, <2>1, FailedCall
  <2>3. BridgeTyped'
    BY <1>1, <1>3, <2>2 DEF BridgeInv, BridgeTyped
  <2>4. CallsInOrder'
    BY <1>1, <1>3 DEF CallsInOrder, BridgeInv, BridgeTyped
  <2>5. LeftoversStale'
    <3>1. \A r \in Nat \ {0} : Stale(r) =>
            r <= calls' /\ \A failed \in r..Len(returned') : ~ returned'[failed].ok
      BY <1>1, <1>3, <2>1, StaleGrows DEF BridgeInv
    <3>. QED  BY <1>1, <1>3, <3>1, QueuedRequests DEF BridgeInv, LeftoversStale, Stale
  <2>6. OneExchange'
    BY <1>1, <1>3 DEF BridgeInv, OneExchange, Quiet, Greeted
  <2>. QED  BY <2>2, <2>3, <2>4, <2>5, <2>6 DEF BridgeInv
<1>. QED  BY <1>2, <1>3 DEF write_frame

\* A call that fails to read: the rest of the connection is as it was, but for
\* a reply that was consumed.
LEMMA ReadFailureStep ==
    ASSUME BridgeInv, host = "reading", host' = "ready",
           returned' = Append(returned, [ok |-> FALSE]),
           output' \in {output, <<>>},
           aligned' \in BOOLEAN,
           replies' \in Seq(Replies \cup {"hello"}),
           aligned' => /\ replies' = <<>>
                       /\ Greeted
                       /\ child = "listening" => Quiet,
           UNCHANGED <<child, pending, commands, serving, calls, ended>>
    PROVE  BridgeInv'
<1>1. [ok |-> FALSE] \in Results
  BY DEF Results
<1>2. output' \in Seq(Nat \ {0}) /\ \A n \in DOMAIN output' : n \in DOMAIN output /\ output'[n] = output[n]
  <2>1. output \in Seq(Nat \ {0})
    BY DEF BridgeInv, BridgeTyped
  <2>2. <<>> \in Seq(Nat \ {0}) /\ DOMAIN <<>> = {}
    OBVIOUS
  <2>3. CASE output' = output
    BY <2>1, <2>3
  <2>4. CASE output' = <<>>
    <3>1. DOMAIN output' = {}
      BY <2>2, <2>4
    <3>. QED  BY <2>2, <2>4, <3>1
  <2>. QED  BY <2>3, <2>4
<1>3. returned' \in Seq(Results) /\ CallsReportTheirOwn'
  BY <1>1, FailedCall
<1>4. BridgeTyped'
  BY <1>2, <1>3 DEF BridgeInv, BridgeTyped
<1>5. CallsInOrder'
  BY DEF CallsInOrder, BridgeInv, BridgeTyped
<1>6. LeftoversStale'
  <2>1. \A r \in Nat \ {0} : Stale(r) =>
          r <= calls' /\ \A failed \in r..Len(returned') : ~ returned'[failed].ok
    <3>1. BridgeTyped /\ calls' \in Nat /\ calls <= calls'
      BY DEF BridgeInv, BridgeTyped
    <3>. QED  BY <1>1, <3>1, StaleGrows
  <2>. QED  BY <1>2, <2>1, QueuedRequests DEF BridgeInv, LeftoversStale, Stale
<1>7. OneExchange'
  BY DEF OneExchange, Quiet, Greeted
<1>. QED  BY <1>3, <1>4, <1>5, <1>6, <1>7 DEF BridgeInv

\* A reply that is read while reads begin at frames is the reply to the current
\* call, and nothing else is on its way.
LEMMA ReplyStep ==
    ASSUME BridgeInv, host = "reading", host' = "ready", aligned, aligned' = aligned,
           replies # <<>>, replies' = Tail(replies), Head(replies) \in {"ok", "error"},
           returned' = Append(returned, [ok |-> TRUE, reply |-> Head(replies), output |-> output]),
           output' = <<>>,
           UNCHANGED <<child, pending, commands, serving, calls, ended>>
    PROVE  BridgeInv'
<1>. DEFINE result == [ok |-> TRUE, reply |-> Head(replies), output |-> output]
<1>1. PICK reply \in Replies :
         Greeted /\ Quiet /\ replies = <<reply>> /\ <<calls, reply>> \in Range(ended)
  BY DEF BridgeInv, OneExchange
<1>2. Head(replies) = reply /\ Tail(replies) = <<>>
  BY <1>1
<1>3. result \in Results /\ result.ok /\ result.reply = reply /\ result.output = output
  BY <1>2 DEF Results, BridgeInv, BridgeTyped
<1>4. /\ returned' \in Seq(Results)
      /\ DOMAIN returned' = DOMAIN returned \cup {Len(returned) + 1}
      /\ \A n \in DOMAIN returned : returned'[n] = returned[n]
      /\ returned'[Len(returned) + 1] = result
      /\ Len(returned') = Len(returned) + 1
      /\ DOMAIN returned = 1..Len(returned) /\ Len(returned) \in Nat
      /\ Len(returned) + 1 = calls
  <2>1. returned \in Seq(Results) /\ returned' = Append(returned, result)
    BY DEF BridgeInv, BridgeTyped
  <2>2. Len(returned) + 1 = calls
    BY DEF BridgeInv, BridgeTyped, CallsInOrder
  <2>. QED  BY <1>3, <2>1, <2>2, RangeOfAppend, AppendProperties
<1>5. BridgeTyped'
  BY <1>2, <1>4 DEF BridgeInv, BridgeTyped
<1>6. CallsInOrder' /\ LeftoversStale' /\ OneExchange'
  BY <1>1, <1>2, <1>4 DEF CallsInOrder, LeftoversStale, OneExchange, Quiet, Greeted
<1>7. CallsReportTheirOwn'
  <2>. SUFFICES ASSUME NEW c \in DOMAIN returned', returned'[c].ok
                PROVE  /\ <<c, returned'[c].reply>> \in Range(ended)
                       /\ \A r \in Range(returned'[c].output) :
                             r <= c /\ \A failed \in r..(c - 1) : ~ returned'[failed].ok
    BY DEF CallsReportTheirOwn
  <2>1. CASE c = calls
    <3>1. returned'[c] = result
      BY <1>4, <2>1
    <3>2. \A r \in Range(output) :
             r <= c /\ \A failed \in r..(c - 1) : failed \in DOMAIN returned /\ ~ returned[failed].ok
      <4>1. ASSUME NEW n \in DOMAIN output
            PROVE  /\ output[n] \in Nat \ {0}
                   /\ output[n] <= calls
                   /\ \A failed \in output[n]..Len(returned) : ~ returned[failed].ok
        BY <4>1, QueuedRequests DEF BridgeInv, LeftoversStale, Stale
      <4>2. ASSUME NEW r \in Range(output)
            PROVE  r <= c /\ \A failed \in r..(c - 1) : failed \in DOMAIN returned /\ ~ returned[failed].ok
        <5>1. PICK n \in DOMAIN output : r = output[n]
          BY <4>2 DEF Range
        <5>. QED  BY <1>4, <2>1, <4>1, <5>1
      <4>. QED  BY <4>2
    <3>. QED  BY <1>1, <1>3, <1>4, <2>1, <3>1, <3>2
  <2>2. CASE c \in DOMAIN returned
    <3>1. returned'[c] = returned[c]
      BY <1>4, <2>2
    <3>2. ASSUME NEW r \in Range(returned[c].output)
          PROVE  r <= c /\ \A failed \in r..(c - 1) : ~ returned'[failed].ok
      <4>1. returned[c] \in Results
        BY <2>2 DEF BridgeInv, BridgeTyped
      <4>2. returned[c].output \in Seq(Nat \ {0})
        BY <3>1, <4>1 DEF Results
      <4>3. r \in Nat \ {0}
        BY <3>2, <4>2 DEF Range
      <4>4. r <= c /\ \A failed \in r..(c - 1) : ~ returned[failed].ok
        BY <2>2, <3>1, <3>2 DEF BridgeInv, CallsReportTheirOwn
      <4>5. \A failed \in r..(c - 1) : failed \in DOMAIN returned
        BY <1>4, <2>2, <4>3
      <4>. QED  BY <1>4, <4>4, <4>5
    <3>. QED  BY <2>2, <3>1, <3>2 DEF BridgeInv, CallsReportTheirOwn
  <2>. QED  BY <1>4, <2>1, <2>2
<1>. QED  BY <1>5, <1>6, <1>7 DEF BridgeInv

\* Every way a call can end its read.
LEMMA ReadStep ==
    ASSUME BridgeInv, read_frame
    PROVE  BridgeInv'
<1>1. /\ host = "reading" /\ host' = "ready"
      /\ UNCHANGED <<child, pending, commands, serving, calls, ended>>
      /\ replies \in Seq(Replies \cup {"hello"})
  BY DEF read_frame, BridgeInv, BridgeTyped
<1>2. CASE aligned /\ StreamEnds /\ Fails(TRUE) /\ UNCHANGED replies
  <2>1. replies' = <<>> /\ Greeted /\ child # "listening"
    BY <1>1, <1>2 DEF StreamEnds, Alive, BridgeInv, OneExchange
  <2>. QED  BY <1>1, <1>2, <2>1, ReadFailureStep DEF Fails
<1>3. CASE ~ aligned /\ Fails(FALSE) /\ UNCHANGED replies
  BY <1>1, <1>3, ReadFailureStep DEF Fails
<1>4. ASSUME aligned, replies # <<>>, replies' = Tail(replies)
      PROVE  replies' = <<>> /\ Greeted /\ Quiet
  <2>1. PICK reply \in Replies : Greeted /\ Quiet /\ replies = <<reply>>
    BY <1>1, <1>4 DEF BridgeInv, OneExchange
  <2>2. Tail(<<reply>>) = <<>>
    OBVIOUS
  <2>. QED  BY <1>4, <2>1, <2>2
<1>5. CASE /\ aligned /\ replies # <<>> /\ replies' = Tail(replies)
           /\ Head(replies) \in {"ok", "error"}
  <2>1. CASE /\ aligned' = aligned
             /\ returned' = Append(returned, [ok |-> TRUE, reply |-> Head(replies), output |-> output])
             /\ output' = <<>>
    BY <1>1, <1>5, <2>1, ReplyStep
  <2>2. CASE FailsToDrain
    <3>1. replies' \in Seq(Replies \cup {"hello"}) /\ aligned' \in BOOLEAN
      BY <1>1, <1>5, <2>2 DEF FailsToDrain
    <3>. QED  BY <1>1, <1>4, <1>5, <2>2, <3>1, ReadFailureStep DEF FailsToDrain
  <2>. QED  BY <1>5, <2>1, <2>2 DEF read_frame, StreamEnds, Drained
<1>6. CASE /\ aligned /\ replies # <<>> /\ replies' = Tail(replies)
           /\ Head(replies) \notin {"ok", "error"}
           /\ Fails(Head(replies) # "oversized")
  <2>1. replies' \in Seq(Replies \cup {"hello"})
    BY <1>1, <1>6
  <2>. QED  BY <1>1, <1>4, <1>6, <2>1, ReadFailureStep DEF Fails
<1>. QED  BY <1>2, <1>3, <1>5, <1>6 DEF read_frame

-----------------------------------------------------------------------------
\* The shim takes the request off the connection.
LEMMA ReceiveStep ==
    ASSUME BridgeInv, receive
    PROVE  BridgeInv'
<1>1. /\ child = "listening" /\ serving = 0 /\ commands # <<>>
      /\ serving' = Head(commands) /\ commands' = Tail(commands)
      /\ UNCHANGED <<host, child, pending, replies, aligned, output, calls, ended, returned>>
      /\ commands \in Seq(Nat \ {0})
  BY DEF receive, BridgeInv, BridgeTyped
<1>2. /\ serving' \in Nat \ {0} /\ commands' \in Seq(Nat \ {0})
      /\ serving' = commands[1] /\ 1 \in DOMAIN commands
      /\ \A n \in DOMAIN commands' : n + 1 \in DOMAIN commands /\ commands'[n] = commands[n + 1]
  BY <1>1, HeadTailProperties
<1>3. BridgeTyped'
  BY <1>1, <1>2 DEF BridgeInv, BridgeTyped
<1>4. CallsInOrder' /\ CallsReportTheirOwn'
  BY <1>1 DEF BridgeInv, CallsInOrder, CallsReportTheirOwn
<1>5. LeftoversStale'
  BY <1>1, <1>2 DEF BridgeInv, LeftoversStale, Stale
<1>6. OneExchange'
  <2>1. aligned => \/ host = "reading" /\ replies = <<>> /\ commands = <<calls>>
                   \/ host \in {"failed", "abandoned", "dropped"}
    BY <1>1 DEF BridgeInv, BridgeTyped, OneExchange, Quiet
  <2>2. commands = <<calls>> => serving' = calls /\ commands' = <<>>
    BY <1>1
  <2>. QED  BY <1>1, <2>1, <2>2 DEF OneExchange, Greeted
<1>. QED  BY <1>3, <1>4, <1>5, <1>6 DEF BridgeInv

\* The shim prints for the request it serves.
LEMMA PrintStep ==
    ASSUME BridgeInv, print
    PROVE  BridgeInv'
<1>1. /\ serving # 0 /\ output' = Append(output, serving)
      /\ UNCHANGED <<host, child, pending, commands, replies, aligned, serving, calls, ended, returned>>
      /\ output \in Seq(Nat \ {0}) /\ serving \in Nat \ {0}
  BY DEF print, BridgeInv, BridgeTyped
<1>2. /\ output' \in Seq(Nat \ {0})
      /\ DOMAIN output' = DOMAIN output \cup {Len(output) + 1}
      /\ \A n \in DOMAIN output : output'[n] = output[n]
      /\ output'[Len(output) + 1] = serving
  BY <1>1, RangeOfAppend, AppendProperties
<1>3. BridgeTyped'
  BY <1>1, <1>2 DEF BridgeInv, BridgeTyped
<1>4. CallsInOrder' /\ CallsReportTheirOwn' /\ OneExchange'
  BY <1>1 DEF BridgeInv, CallsInOrder, CallsReportTheirOwn, OneExchange, Quiet, Greeted
<1>5. LeftoversStale'
  BY <1>1, <1>2 DEF BridgeInv, LeftoversStale, Stale
<1>. QED  BY <1>3, <1>4, <1>5 DEF BridgeInv

\* The shim answers the request it serves.
LEMMA SendStep ==
    ASSUME BridgeInv, NEW reply \in Replies, send(reply)
    PROVE  BridgeInv'
<1>1. /\ child = "listening" /\ serving # 0 /\ serving' = 0
      /\ replies' = Append(replies, reply)
      /\ ended' = Append(ended, <<serving, reply>>)
      /\ UNCHANGED <<host, child, pending, commands, aligned, output, calls, returned>>
      /\ replies \in Seq(Replies \cup {"hello"}) /\ ended \in Seq(CallEnds)
      /\ <<serving, reply>> \in CallEnds
  BY DEF send, BridgeInv, BridgeTyped, CallEnds
<1>2. /\ replies' \in Seq(Replies \cup {"hello"}) /\ ended' \in Seq(CallEnds)
      /\ Range(ended') = Range(ended) \cup {<<serving, reply>>}
  <2>1. replies' \in Seq(Replies \cup {"hello"})
    <3>1. reply \in Replies \cup {"hello"}
      OBVIOUS
    <3>. QED  BY <1>1, <3>1, AppendProperties
  <2>2. ended' \in Seq(CallEnds)
    BY <1>1, AppendProperties
  <2>3. Range(ended') = Range(ended) \cup {<<serving, reply>>}
    BY <1>1, RangeOfAppend
  <2>. QED  BY <2>1, <2>2, <2>3
<1>3. BridgeTyped'
  BY <1>1, <1>2 DEF BridgeInv, BridgeTyped
<1>4. CallsInOrder' /\ LeftoversStale'
  BY <1>1 DEF BridgeInv, CallsInOrder, LeftoversStale, Stale
<1>5. CallsReportTheirOwn'
  BY <1>1, <1>2 DEF BridgeInv, CallsReportTheirOwn
<1>6. OneExchange'
  <2>1. aligned => (host = "reading" /\ replies = <<>> /\ commands = <<>> /\ serving = calls)
                      \/ host \in {"failed", "abandoned", "dropped"}
    BY <1>1 DEF BridgeInv, BridgeTyped, OneExchange, Quiet
  <2>2. replies = <<>> => replies' = <<reply>>
    BY <1>1
  <2>. QED  BY <1>1, <1>2, <2>1, <2>2 DEF OneExchange, Greeted, Quiet
<1>. QED  BY <1>3, <1>4, <1>5, <1>6 DEF BridgeInv

\* Every step of the host and of R preserves the invariant of the bridge.
LEMMA BridgeStep == BridgeInv /\ [BridgeNext]_bridgeVars => BridgeInv'
<1>. SUFFICES ASSUME BridgeInv, [BridgeNext]_bridgeVars PROVE BridgeInv'
  OBVIOUS
<1>1. CASE \/ spawn \/ accept \/ give_up \/ abandon \/ drop_unfinished \/ drop
           \/ connect \/ hang \/ exit
  BY <1>1, StartStepKeeps
<1>2. CASE greet \/ negotiate
  BY <1>2, GreetingStep
<1>3. CASE write_frame
  BY <1>3, WriteStep
<1>4. CASE read_frame
  BY <1>4, ReadStep
<1>5. CASE receive
  BY <1>5, ReceiveStep
<1>6. CASE print
  BY <1>6, PrintStep
<1>7. ASSUME NEW reply \in Replies, send(reply)
      PROVE  BridgeInv'
  BY <1>7, SendStep
<1>8. CASE UNCHANGED bridgeVars
  BY <1>8 DEF bridgeVars, BridgeInv, BridgeTyped, CallsInOrder, LeftoversStale, Stale, OneExchange,
              Quiet, Greeted, CallsReportTheirOwn
<1>. QED  BY <1>1, <1>2, <1>3, <1>4, <1>5, <1>6, <1>7, <1>8
     DEF BridgeNext, HostNext, ShimNext, StartStep

-----------------------------------------------------------------------------
\* Whichever adapter is in use, the inductive invariant holds: of the other
\* one nothing changes.
THEOREM Invariance == AdapterSpec => []IInv
<1>1. AdapterInit => IInv
  BY RunnerInitial, BridgeInitial DEF AdapterInit, IInv
<1>2. IInv /\ [AdapterNext]_adapterVars => IInv'
  <2>. SUFFICES ASSUME IInv, [AdapterNext]_adapterVars PROVE IInv'
    OBVIOUS
  <2>1. [RunnerNext]_runnerVars /\ [BridgeNext]_bridgeVars
    BY DEF AdapterNext, adapterVars
  <2>. QED  BY <2>1, RunnerStep, BridgeStep DEF IInv
<1>. QED  BY <1>1, <1>2, PTL DEF AdapterSpec

\* The handlers that unwrap the active attempt and the provisional success find
\* them there, and R works on requests that were made.
THEOREM TypeCorrect == AdapterSpec => []AdapterTypeOK
<1>1. IInv => AdapterTypeOK
  BY DEF IInv, RunnerInv, RunnerTyped, FieldsMatchState, BridgeInv, BridgeTyped, LeftoversStale,
         Stale, AdapterTypeOK
<1>. QED  BY <1>1, Invariance, PTL

\* A state key that the scripted runner reports, requires or offers is that of
\* the codes that really ran in the workspace, whatever the scripts, the
\* interruptions and the order of the commands.
THEOREM StatesVerified == AdapterSpec => []VerifiedState
<1>1. IInv => VerifiedState
  BY DEF IInv, RunnerInv
<1>. QED  BY <1>1, Invariance, PTL

\* A call of the bridge's evaluate reports the end of its own request, and text
\* printed by it or by calls that failed since; no reply of an earlier request
\* is ever taken for it.
THEOREM RepliesCorrect == AdapterSpec => []CallsReportTheirOwn
<1>1. IInv => CallsReportTheirOwn
  BY DEF IInv, BridgeInv
<1>. QED  BY <1>1, Invariance, PTL

\* The scripted runner implements the contract of the ExecutionRunner trait.
THEOREM ContractImplemented == AdapterSpec => ImplementsContract
<1>1. AdapterInit => Contract!ContractInit
  <2>. SUFFICES ASSUME AdapterInit PROVE Contract!ContractInit
    OBVIOUS
  <2>1. /\ state = "Stopped" /\ active = None /\ successful = None /\ materialized = None
        /\ incarnation = 0 /\ outcomes = <<>>
    BY DEF AdapterInit, RunnerInit
  <2>. QED  BY <2>1 DEF Contract!ContractInit, Phase, CurrentAttempt
<1>2. IInv /\ [AdapterNext]_adapterVars => [Contract!ContractNext]_Contract!contractVars
  <2>1. [AdapterNext]_adapterVars => [RunnerNext]_runnerVars
    BY DEF AdapterNext, adapterVars
  <2>. QED  BY <2>1, StepRefines DEF IInv
<1>. QED  BY <1>1, <1>2, Invariance, PTL DEF AdapterSpec, ImplementsContract, Contract!ContractSpec

-----------------------------------------------------------------------------
(***************************************************************************)
(* What the scripted runner delivers.                                      *)
(***************************************************************************)
Events == [kind : {"Output", "Artifact", "Complete"}, attempt : Attempts, sequence : Nat]

\* Events belong to attempts that were accepted; the running attempt has not
\* ended, and as many of its outputs were delivered as it counts.
DeliveredSoFar ==
    /\ delivered \in Seq(Events)
    /\ \A n \in DOMAIN delivered : delivered[n].attempt \in Range(requests)
    /\ active # None =>
          /\ active.attempt \notin EndedAttempts
          /\ \A n \in DOMAIN delivered :
                delivered[n].attempt = active.attempt => delivered[n].kind # "Complete"
          /\ Cardinality(OutputsOf(active.attempt)) = active.events

TranscriptInv == DeliveredSoFar /\ Transcript

\* The outputs of an attempt are finitely many.
LEMMA OutputsFinite ==
    ASSUME delivered \in Seq(Events), NEW a
    PROVE  IsFiniteSet(OutputsOf(a))
<1>1. Len(delivered) \in Nat /\ DOMAIN delivered = 1..Len(delivered)
  OBVIOUS
<1>2. IsFiniteSet(1..Len(delivered))
  BY <1>1, FS_Interval
<1>. QED  BY <1>1, <1>2, FS_Subset DEF OutputsOf

\* One more event is one more output of its attempt, or none, and the last.
LEMMA OutputsGrow ==
    ASSUME delivered \in Seq(Events), NEW event \in Events, delivered' = Append(delivered, event)
    PROVE  /\ delivered' \in Seq(Events)
           /\ DOMAIN delivered' = DOMAIN delivered \cup {Len(delivered) + 1}
           /\ \A n \in DOMAIN delivered : delivered'[n] = delivered[n] /\ n < Len(delivered) + 1
           /\ delivered'[Len(delivered) + 1] = event
           /\ \A a : OutputsOf(a)' = IF event.attempt = a /\ event.kind = "Output"
                                     THEN OutputsOf(a) \cup {Len(delivered) + 1} ELSE OutputsOf(a)
           /\ \A a : Cardinality(OutputsOf(a)') =
                        IF event.attempt = a /\ event.kind = "Output"
                        THEN Cardinality(OutputsOf(a)) + 1 ELSE Cardinality(OutputsOf(a))
           /\ \A a : \A n \in DOMAIN delivered :
                 {m \in OutputsOf(a)' : m < n} = {m \in OutputsOf(a) : m < n}
           /\ \A a : {m \in OutputsOf(a)' : m < Len(delivered) + 1} = OutputsOf(a)
<1>1. /\ delivered' \in Seq(Events)
      /\ DOMAIN delivered' = DOMAIN delivered \cup {Len(delivered) + 1}
      /\ \A n \in DOMAIN delivered : delivered'[n] = delivered[n]
      /\ delivered'[Len(delivered) + 1] = event
  BY RangeOfAppend, AppendProperties
<1>2. /\ Len(delivered) \in Nat /\ DOMAIN delivered = 1..Len(delivered)
      /\ \A n \in DOMAIN delivered : n \in Nat /\ n < Len(delivered) + 1
      /\ Len(delivered) + 1 \notin DOMAIN delivered
  OBVIOUS
<1>3. ASSUME NEW a
      PROVE  OutputsOf(a)' = IF event.attempt = a /\ event.kind = "Output"
                             THEN OutputsOf(a) \cup {Len(delivered) + 1} ELSE OutputsOf(a)
  BY <1>1, <1>2 DEF OutputsOf
<1>4. ASSUME NEW a
      PROVE  /\ Cardinality(OutputsOf(a)') =
                   IF event.attempt = a /\ event.kind = "Output"
                   THEN Cardinality(OutputsOf(a)) + 1 ELSE Cardinality(OutputsOf(a))
             /\ \A n \in DOMAIN delivered :
                   {m \in OutputsOf(a)' : m < n} = {m \in OutputsOf(a) : m < n}
             /\ {m \in OutputsOf(a)' : m < Len(delivered) + 1} = OutputsOf(a)
  <2>1. PICK before : before = OutputsOf(a)
    OBVIOUS
  <2>2. IsFiniteSet(before) /\ before \subseteq DOMAIN delivered /\ Len(delivered) + 1 \notin before
    BY <1>2, <2>1, OutputsFinite DEF OutputsOf
  <2>3. OutputsOf(a)' = IF event.attempt = a /\ event.kind = "Output"
                        THEN before \cup {Len(delivered) + 1} ELSE before
    BY <1>3, <2>1
  <2>4. Cardinality(before \cup {Len(delivered) + 1}) = Cardinality(before) + 1
    BY <2>2, FS_AddElement
  <2>. QED  BY <1>2, <2>1, <2>2, <2>3, <2>4
<1>. QED  BY <1>1, <1>2, <1>3, <1>4

\* The claims of Transcript about outcomes, and about what was delivered.
OutcomesTrue ==
    /\ \A m, n \in DOMAIN outcomes : outcomes[m].attempt = outcomes[n].attempt => m = n
    /\ \A n \in DOMAIN outcomes :
          Cardinality(OutputsOf(outcomes[n].attempt)) = outcomes[n].events
DeliveriesTrue ==
    /\ \A m, n \in DOMAIN delivered :
          delivered[m].kind = "Complete" /\ delivered[n].attempt = delivered[m].attempt => n <= m
    /\ \A n \in DOMAIN delivered :
          delivered[n].kind = "Output" =>
              delivered[n].sequence =
                  Cardinality({m \in OutputsOf(delivered[n].attempt) : m < n})

\* An event of the running attempt, numbered by its count, keeps the order.
LEMMA DeliveryStep ==
    ASSUME DeliveredSoFar, DeliveriesTrue, active # None, NEW kind,
           NEW event \in Events,
           event = [kind |-> kind, attempt |-> active.attempt, sequence |-> active.events],
           delivered' = Append(delivered, event)
    PROVE  DeliveriesTrue'
<1>1. event.kind = kind /\ event.attempt = active.attempt /\ event.sequence = active.events
  OBVIOUS
<1>2. /\ DOMAIN delivered' = DOMAIN delivered \cup {Len(delivered) + 1}
      /\ \A n \in DOMAIN delivered : delivered'[n] = delivered[n] /\ n < Len(delivered) + 1
      /\ delivered'[Len(delivered) + 1] = event
      /\ \A a : \A n \in DOMAIN delivered :
            {m \in OutputsOf(a)' : m < n} = {m \in OutputsOf(a) : m < n}
      /\ \A a : {m \in OutputsOf(a)' : m < Len(delivered) + 1} = OutputsOf(a)
  BY OutputsGrow DEF DeliveredSoFar
<1>3. Len(delivered) + 1 \in Nat /\ DOMAIN delivered \subseteq Nat
  BY DEF DeliveredSoFar
<1>4. ASSUME NEW m \in DOMAIN delivered', NEW n \in DOMAIN delivered',
             delivered'[m].kind = "Complete", delivered'[n].attempt = delivered'[m].attempt
      PROVE  n <= m
  <2>1. CASE m = Len(delivered) + 1
    BY <1>2, <1>3, <2>1
  <2>2. CASE m \in DOMAIN delivered /\ n \in DOMAIN delivered
    BY <1>2, <1>4, <2>2 DEF DeliveriesTrue
  <2>3. CASE m \in DOMAIN delivered /\ n = Len(delivered) + 1
    <3>1. delivered[m].kind = "Complete" /\ delivered[m].attempt = active.attempt
      BY <1>1, <1>2, <1>4, <2>3
    <3>. QED  BY <2>3, <3>1 DEF DeliveredSoFar
  <2>. QED  BY <1>2, <2>1, <2>2, <2>3
<1>5. ASSUME NEW n \in DOMAIN delivered', delivered'[n].kind = "Output",
             NEW a, a = delivered'[n].attempt
      PROVE  delivered'[n].sequence = Cardinality({m \in OutputsOf(a)' : m < n})
  <2>1. CASE n \in DOMAIN delivered
    <3>1. delivered'[n] = delivered[n]
      BY <1>2, <2>1
    <3>2. delivered[n].sequence = Cardinality({m \in OutputsOf(a) : m < n})
      BY <1>5, <2>1, <3>1 DEF DeliveriesTrue
    <3>3. {m \in OutputsOf(a)' : m < n} = {m \in OutputsOf(a) : m < n}
      BY <1>2, <2>1
    <3>. QED  BY <3>1, <3>2, <3>3
  <2>2. CASE n = Len(delivered) + 1
    <3>1. delivered'[n] = event /\ {m \in OutputsOf(a)' : m < n} = OutputsOf(a)
      BY <1>2, <2>2
    <3>2. Cardinality(OutputsOf(active.attempt)) = active.events
      BY DEF DeliveredSoFar
    <3>. QED  BY <1>1, <1>5, <3>1, <3>2
  <2>. QED  BY <1>2, <2>1, <2>2
<1>. QED  BY <1>4, <1>5 DEF DeliveriesTrue, OutputsOf

\* A runner that was never started has delivered nothing.
LEMMA TranscriptInitial == RunnerInit => TranscriptInv
  BY DEF RunnerInit, TranscriptInv, DeliveredSoFar, Transcript, IsInjective

\* Steps that deliver nothing, end nothing and accept nothing.
LEMMA SilentStep ==
    ASSUME TranscriptInv, UNCHANGED <<requests, delivered, outcomes>>,
           active' # None =>
               /\ active # None
               /\ active'.attempt = active.attempt /\ active'.events = active.events
    PROVE  TranscriptInv'
<1>1. Transcript'
  BY DEF TranscriptInv, Transcript, OutputsOf
<1>2. \A a : OutputsOf(a)' = OutputsOf(a)
  BY DEF OutputsOf
<1>3. EndedAttempts' = EndedAttempts
  BY DEF EndedAttempts
<1>4. active' # None => OutputsOf(active'.attempt) = OutputsOf(active.attempt)
  OBVIOUS
<1>5. DeliveredSoFar'
  <2>1. CASE active' = None
    BY <2>1 DEF TranscriptInv, DeliveredSoFar
  <2>2. CASE active' # None
    BY <1>3, <2>2 DEF TranscriptInv, DeliveredSoFar, OutputsOf
  <2>. QED  BY <2>1, <2>2
<1>. QED  BY <1>1, <1>5 DEF TranscriptInv

\* An attempt that is accepted was never accepted before, so nothing of it was
\* delivered and it has not ended.
LEMMA DispatchDelivers ==
    ASSUME RunnerInv, TranscriptInv, NEW request \in Requests, NEW script, dispatch(request, script)
    PROVE  TranscriptInv'
<1>1. /\ request.attempt \in Attempts
      /\ \A n \in DOMAIN requests : requests[n] # request.attempt
      /\ requests' = Append(requests, request.attempt)
      /\ active'.attempt = request.attempt /\ active'.events = 0
      /\ UNCHANGED <<delivered, outcomes>>
  BY DEF dispatch, Accepts, Requests
<1>2. /\ DOMAIN requests' = DOMAIN requests \cup {Len(requests) + 1}
      /\ \A n \in DOMAIN requests : requests'[n] = requests[n]
      /\ requests'[Len(requests) + 1] = request.attempt
      /\ Range(requests') = Range(requests) \cup {request.attempt}
  BY <1>1, RangeOfAppend DEF RunnerInv, RunnerTyped
<1>3. IsInjective(requests')
  BY <1>1, <1>2 DEF TranscriptInv, Transcript, IsInjective
<1>4. Transcript'
  BY <1>1, <1>3 DEF TranscriptInv, Transcript, OutputsOf
<1>5. request.attempt \notin Range(requests)
  BY <1>1 DEF Range
<1>6. /\ request.attempt \notin EndedAttempts
      /\ \A n \in DOMAIN delivered : delivered[n].attempt # request.attempt
  BY <1>5 DEF RunnerInv, OutcomesRequested, EndedAttempts, TranscriptInv, DeliveredSoFar
<1>7. OutputsOf(request.attempt) = {}
  BY <1>6 DEF OutputsOf
<1>8. Cardinality(OutputsOf(request.attempt)) = 0
  BY <1>7, FS_EmptySet
<1>9. DeliveredSoFar'
  BY <1>1, <1>2, <1>6, <1>8 DEF TranscriptInv, DeliveredSoFar, EndedAttempts, OutputsOf
<1>. QED  BY <1>4, <1>9 DEF TranscriptInv

\* The running attempt ends with as many outputs as it counts.
LEMMA OutcomeStep ==
    ASSUME RunnerInv, TranscriptInv, active # None, NEW outcome,
           outcome \in [attempt : Attempts, status : Ends, events : Nat],
           outcome.attempt = active.attempt, outcome.events = active.events,
           outcomes' = Append(outcomes, outcome),
           \A a : Cardinality(OutputsOf(a)') = Cardinality(OutputsOf(a))
    PROVE  OutcomesTrue'
<1>1. /\ DOMAIN outcomes' = DOMAIN outcomes \cup {Len(outcomes) + 1}
      /\ \A n \in DOMAIN outcomes : outcomes'[n] = outcomes[n]
      /\ outcomes'[Len(outcomes) + 1] = outcome
  BY RangeOfAppend DEF RunnerInv
<1>2. \A n \in DOMAIN outcomes : outcomes[n].attempt # active.attempt
  BY DEF TranscriptInv, DeliveredSoFar, EndedAttempts
<1>3. \A m, n \in DOMAIN outcomes' : outcomes'[m].attempt = outcomes'[n].attempt => m = n
  BY <1>1, <1>2 DEF TranscriptInv, Transcript
<1>4. Cardinality(OutputsOf(active.attempt)) = active.events
  BY DEF TranscriptInv, DeliveredSoFar
<1>5. \A n \in DOMAIN outcomes :
          Cardinality(OutputsOf(outcomes[n].attempt)) = outcomes[n].events
  BY DEF TranscriptInv, Transcript
<1>6. ASSUME NEW n \in DOMAIN outcomes', NEW a, a = outcomes'[n].attempt
      PROVE  Cardinality(OutputsOf(a)') = outcomes'[n].events
  <2>1. Cardinality(OutputsOf(a)') = Cardinality(OutputsOf(a))
    OBVIOUS
  <2>2. Cardinality(OutputsOf(a)) = outcomes'[n].events
    BY <1>1, <1>4, <1>5, <1>6
  <2>. QED  BY <2>1, <2>2
<1>. QED  BY <1>3, <1>6 DEF OutcomesTrue, OutputsOf

\* The end of the running attempt is the last event of it.
LEMMA CompletionDelivers ==
    ASSUME RunnerInv, TranscriptInv, active # None, NEW status \in Ends, NEW crashed,
           Completed(status, crashed), requests' = requests
    PROVE  TranscriptInv'
<1>. DEFINE event == [kind |-> "Complete", attempt |-> active.attempt, sequence |-> active.events]
            outcome == [attempt |-> active.attempt, status |-> status, events |-> active.events]
<1>1. active.attempt \in Attempts /\ active.events \in Nat /\ active.attempt \in Range(requests)
  BY DEF RunnerInv, RunnerTyped, OutcomesRequested, ActiveAttempts
<1>2. /\ active' = None
      /\ outcomes' = Append(outcomes, outcome)
      /\ delivered' = Append(delivered, event)
  BY DEF Completed, Deliver, finish
<1>3. PICK last : last = event /\ last \in Events
  <2>1. event \in Events
    BY <1>1 DEF Events
  <2>. QED  BY <2>1
<1>4. last.kind = "Complete" /\ last.attempt = active.attempt
  BY <1>3
<1>5. /\ delivered' \in Seq(Events)
      /\ DOMAIN delivered' = DOMAIN delivered \cup {Len(delivered) + 1}
      /\ \A n \in DOMAIN delivered : delivered'[n] = delivered[n]
      /\ delivered'[Len(delivered) + 1] = last
      /\ \A a : Cardinality(OutputsOf(a)') = Cardinality(OutputsOf(a))
  BY <1>2, <1>3, <1>4, OutputsGrow DEF TranscriptInv, DeliveredSoFar
<1>6. DeliveriesTrue'
  BY <1>2, <1>3, DeliveryStep DEF TranscriptInv, Transcript, DeliveriesTrue
<1>7. OutcomesTrue'
  BY <1>1, <1>2, <1>5, OutcomeStep
<1>8. Transcript'
  BY <1>6, <1>7 DEF TranscriptInv, Transcript, DeliveriesTrue, OutcomesTrue
<1>9. DeliveredSoFar'
  BY <1>1, <1>2, <1>4, <1>5 DEF TranscriptInv, DeliveredSoFar
<1>. QED  BY <1>8, <1>9 DEF TranscriptInv

\* An effect of the script is an output, which the attempt counts, or none.
LEMMA EffectDelivers ==
    ASSUME RunnerInv, TranscriptInv, active # None, active.script.steps # <<>>, pollEffect,
           requests' = requests
    PROVE  TranscriptInv'
<1>1. /\ active.attempt \in Attempts /\ active.events \in Nat
      /\ active.attempt \in Range(requests)
      /\ Head(active.script.steps) \in {"Output", "Artifact", "Block"}
      /\ Advanced.events = active.events
      /\ Advanced \in ActiveAttempts
  <2>1. active \in ActiveAttempts /\ active.script \in FakeScripts
    BY DEF RunnerInv, RunnerTyped, ActiveAttempts
  <2>2. active.script.steps \in Seq({"Output", "Artifact", "Block"})
    BY <2>1 DEF FakeScripts
  <2>3. Tail(active.script.steps) \in Seq({"Output", "Artifact", "Block"})
    BY <2>2
  <2>4. Advanced.events = active.events /\ Advanced \in ActiveAttempts
    BY <2>1, <2>2, <2>3 DEF Advanced, ActiveAttempts, FakeScripts
  <2>5. active.attempt \in Attempts /\ active.events \in Nat
    BY <2>1 DEF ActiveAttempts
  <2>6. Head(active.script.steps) \in {"Output", "Artifact", "Block"}
    BY <2>2
  <2>. QED  BY <2>4, <2>5, <2>6 DEF RunnerInv, OutcomesRequested
<1>2. outcomes' = outcomes /\ active'.attempt = active.attempt
  BY EffectKeepsAttempt
<1>3. CASE Head(active.script.steps) = "Block"
  <2>1. UNCHANGED delivered /\ active' = [Advanced EXCEPT !.blocked = TRUE]
    BY <1>3 DEF pollEffect
  <2>2. active'.events = active.events
    BY <1>1, <2>1 DEF ActiveAttempts
  <2>. QED  BY <1>2, <2>1, <2>2, SilentStep
<1>4. CASE Head(active.script.steps) # "Block"
  <2>1. PICK kind : kind = Head(active.script.steps) /\ kind \in {"Output", "Artifact"}
    BY <1>1, <1>4
  <2>2. PICK event \in Events :
            event = [kind |-> kind, attempt |-> active.attempt, sequence |-> active.events]
    BY <1>1, <2>1 DEF Events
  <2>3. /\ delivered' = Append(delivered, event)
        /\ active' = [Advanced EXCEPT !.events = active.events + (IF kind = "Output" THEN 1 ELSE 0)]
    BY <1>4, <2>1, <2>2 DEF pollEffect, Deliver
  <2>4. active'.events = active.events + (IF kind = "Output" THEN 1 ELSE 0)
    BY <1>1, <2>3 DEF ActiveAttempts
  <2>5. event.kind = kind /\ event.attempt = active.attempt
    BY <2>2
  <2>6. /\ delivered' \in Seq(Events)
        /\ DOMAIN delivered' = DOMAIN delivered \cup {Len(delivered) + 1}
        /\ \A n \in DOMAIN delivered : delivered'[n] = delivered[n]
        /\ delivered'[Len(delivered) + 1] = event
        /\ \A a : Cardinality(OutputsOf(a)') = IF event.attempt = a /\ event.kind = "Output"
                                               THEN Cardinality(OutputsOf(a)) + 1
                                               ELSE Cardinality(OutputsOf(a))
    BY <2>3, OutputsGrow DEF TranscriptInv, DeliveredSoFar
  <2>7. DeliveriesTrue'
    BY <2>2, <2>3, DeliveryStep DEF TranscriptInv, Transcript, DeliveriesTrue
  <2>8. OutcomesTrue'
    <3>1. \A n \in DOMAIN outcomes : outcomes[n].attempt # active.attempt
      BY DEF TranscriptInv, DeliveredSoFar, EndedAttempts
    <3>2. ASSUME NEW n \in DOMAIN outcomes, NEW a, a = outcomes[n].attempt
          PROVE  Cardinality(OutputsOf(a)') = outcomes[n].events
      <4>1. Cardinality(OutputsOf(a)') = Cardinality(OutputsOf(a))
        BY <2>5, <2>6, <3>1, <3>2
      <4>. QED  BY <3>2, <4>1 DEF TranscriptInv, Transcript
    <3>. QED  BY <1>2, <3>2 DEF TranscriptInv, Transcript, OutcomesTrue, OutputsOf
  <2>9. Transcript'
    BY <2>7, <2>8 DEF TranscriptInv, Transcript, DeliveriesTrue, OutcomesTrue
  <2>10. DeliveredSoFar'
    <3>1. EndedAttempts' = EndedAttempts
      BY <1>2 DEF EndedAttempts
    <3>2. ASSUME NEW a, a = active'.attempt
          PROVE  Cardinality(OutputsOf(a)') = active'.events
      <4>1. Cardinality(OutputsOf(a)) = active.events
        BY <1>2, <3>2 DEF TranscriptInv, DeliveredSoFar
      <4>. QED  BY <1>1, <1>2, <2>4, <2>5, <2>6, <3>2, <4>1
    <3>3. \A n \in DOMAIN delivered' :
              /\ delivered'[n].attempt \in Range(requests')
              /\ delivered'[n].attempt = active'.attempt => delivered'[n].kind # "Complete"
      BY <1>1, <1>2, <2>1, <2>5, <2>6 DEF TranscriptInv, DeliveredSoFar
    <3>4. active'.attempt \notin EndedAttempts'
      BY <1>2, <3>1 DEF TranscriptInv, DeliveredSoFar
    <3>. QED  BY <2>6, <3>2, <3>3, <3>4 DEF DeliveredSoFar, OutputsOf
  <2>. QED  BY <2>9, <2>10 DEF TranscriptInv
<1>. QED  BY <1>3, <1>4

\* Every step of the runner keeps the transcript.
LEMMA TranscriptStep == RunnerInv /\ TranscriptInv /\ [RunnerNext]_runnerVars => TranscriptInv'
<1>. SUFFICES ASSUME RunnerInv, TranscriptInv, [RunnerNext]_runnerVars PROVE TranscriptInv'
  OBVIOUS
<1>1. ASSUME NEW initial \in Initials, start(initial) \/ restart(initial) \/ reset(initial)
      PROVE  TranscriptInv'
  BY <1>1, SilentStep DEF start, restart, reset, start_incarnation
<1>2. ASSUME NEW request \in Requests, execute(request) PROVE TranscriptInv'
  <2>1. PICK script : script = IF scripts = <<>> THEN EmptyScript ELSE Head(scripts)
    OBVIOUS
  <2>2. CASE dispatch(request, script)
    BY <2>2, DispatchDelivers
  <2>3. CASE UNCHANGED <<requests, active, delivered, outcomes>>
    BY <2>3, SilentStep
  <2>. QED  BY <1>2, <2>1, <2>2, <2>3 DEF execute
<1>3. ASSUME NEW script \in Scripts, queue_script(script) PROVE TranscriptInv'
  BY <1>3, SilentStep DEF queue_script
<1>4. ASSUME NEW a \in Attempts, accept_success(a) \/ discard_success(a) PROVE TranscriptInv'
  BY <1>4, SilentStep DEF accept_success, discard_success
<1>5. ASSUME interrupt \/ \E a \in Attempts : release(a) PROVE TranscriptInv'
  <2>1. active # None /\ active \in ActiveAttempts
    BY <1>5 DEF interrupt, release, RunnerInv, RunnerTyped, FieldsMatchState
  <2>2. active'.attempt = active.attempt /\ active'.events = active.events
    BY <1>5, <2>1 DEF interrupt, release, ActiveAttempts
  <2>. QED  BY <1>5, <2>1, <2>2, SilentStep DEF interrupt, release
<1>6. CASE poll
  <2>1. active # None /\ requests' = requests
    BY <1>6 DEF poll
  <2>2. ASSUME NEW status \in Ends, NEW crashed, Completed(status, crashed)
        PROVE  TranscriptInv'
    BY <2>1, <2>2, CompletionDelivers
  <2>3. CASE IsCancelled /\ Completed("Cancelled", FALSE)
    BY <2>2, <2>3 DEF Ends
  <2>4. CASE pollEffect /\ active.script.steps = <<>>
    <3>. DEFINE status == CASE active.script.completion = "Success" -> "Success"
                            [] active.script.completion = "Failure" -> "Failure"
                            [] OTHER -> IF active.revoked THEN "Cancelled" ELSE "Failure"
    <3>1. status \in Ends
      BY DEF Ends
    <3>2. Completed(status, active.script.completion = "Crash")
      BY <2>4 DEF pollEffect
    <3>. QED  BY <2>2, <3>1, <3>2
  <2>5. CASE pollEffect /\ active.script.steps # <<>>
    BY <2>1, <2>5, EffectDelivers
  <2>. QED  BY <1>6, <2>3, <2>4, <2>5 DEF poll
<1>7. CASE shutdown
  <2>1. CASE active = None
    BY <1>7, <2>1, SilentStep DEF shutdown
  <2>2. CASE active # None
    <3>1. PICK outcome : outcome = [attempt |-> active.attempt, status |-> "Cancelled",
                                    events |-> active.events]
      OBVIOUS
    <3>2. /\ active' = None /\ UNCHANGED <<requests, delivered>>
          /\ outcomes' = Append(outcomes, outcome)
      BY <1>7, <2>2, <3>1 DEF shutdown
    <3>3. active \in ActiveAttempts
      BY <2>2 DEF RunnerInv, RunnerTyped
    <3>4. outcome \in [attempt : Attempts, status : Ends, events : Nat]
      BY <3>1, <3>3 DEF ActiveAttempts, Ends
    <3>5. outcome.attempt = active.attempt /\ outcome.events = active.events
      BY <3>1
    <3>6. \A a : Cardinality(OutputsOf(a)') = Cardinality(OutputsOf(a))
      BY <3>2 DEF OutputsOf
    <3>7. OutcomesTrue'
      BY <2>2, <3>2, <3>4, <3>5, <3>6, OutcomeStep
    <3>8. Transcript'
      BY <3>2, <3>7 DEF TranscriptInv, Transcript, OutcomesTrue, OutputsOf
    <3>9. DeliveredSoFar'
      BY <3>2 DEF TranscriptInv, DeliveredSoFar
    <3>. QED  BY <3>8, <3>9 DEF TranscriptInv
  <2>. QED  BY <2>1, <2>2
<1>8. CASE UNCHANGED runnerVars
  BY <1>8, SilentStep DEF runnerVars
<1>. QED  BY <1>1, <1>2, <1>3, <1>4, <1>5, <1>6, <1>7, <1>8 DEF RunnerNext

\* An attempt is accepted at most once and ends at most once, and poll hands out
\* its outputs numbered from zero without a gap, as many as its outcome reports,
\* and nothing after its end: whatever the scripts and the order of commands,
\* over any number of incarnations.
THEOREM TranscriptsComplete == AdapterSpec => []Transcript
<1>1. AdapterInit => TranscriptInv
  BY TranscriptInitial DEF AdapterInit
<1>2. IInv /\ TranscriptInv /\ [AdapterNext]_adapterVars => TranscriptInv'
  <2>1. [AdapterNext]_adapterVars => [RunnerNext]_runnerVars
    BY DEF AdapterNext, adapterVars
  <2>. QED  BY <2>1, TranscriptStep DEF IInv
<1>3. TranscriptInv => Transcript
  BY DEF TranscriptInv
<1>. QED  BY <1>1, <1>2, <1>3, Invariance, PTL DEF AdapterSpec
=============================================================================
