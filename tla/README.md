# Verification of tractate

TLA+ models, TLC runs and TLAPS proofs for the Rust sources in this repository.
Paths below are relative to `src/src/`, the crate's source directory.

## 1. The system

tractate compiles Markdown presentations with executable cells. A pure,
synchronous compiler turns each edit of the source into an immutable snapshot
with a plan of desired computations. An execution coordinator owns interpreters
("runners") and decides which of their completions become results. Renderers
show slides together with a view of every cell's result and progress, and HTML
output is published as one directory.

### Inventory

| Component | State | Operations | What is hard |
|---|---|---|---|
| Execution coordinator (`execution/coordinator.rs`) | revision, desired plan, cell states, results, stale results, diagnostics, session ids, sessions, retired attempts | `reconcile`, `retry`, `dispatch_ready`, `receive`/`poll`, `terminate_obsolete`, views | edits and retries while code runs, late events, failing cleanup, replaying prefixes |
| Runner contract (`execution/runner.rs`) | identity, materialized state | `start`, `execute`, `poll`, `interrupt`, `accept_success`, `shutdown` | provisional success, failed commands, crashes |
| Fake runner (`execution/fake.rs`) | scripted state machine | the contract, scripts and gates | agreement with the contract |
| Execution store (`execution/store.rs`) | objects and records on disk, a lock | `open`, `stage`, `prepare`, `commit`, `load` | crashes between writes, corruption, two processes |
| Cell views (`execution/view.rs`) | none | `cell_view` | combining four sources of truth |
| Evaluation plan (`compiler/evaluation.rs`) | none | lowering of options, chain links | disabled and isolated cells |
| Keys (`compiler/evaluation/keys.rs`) | none | `keyed`, `preparation` | what must and must not enter a key |
| Schedule (`compiler/evaluation/schedule.rs`) | states, ready set, running counter | `schedule`, `reserve_next`, `complete` | incremental bookkeeping |
| Compiler (`compiler/state.rs`) | current snapshot | `update_source`, `snapshot` | handles that never move or repeat |
| Identity matching (`compiler/reuse.rs`, `reuse/identities.rs`, `document/identity.rs`) | handles of the previous revision | matching, allocation | duplicates, labels that stop being unique |
| Slide changes (`compiler/changes.rs`) | none | difference of two snapshots | moves and removals |
| Dependency graph (`compiler/queries.rs`) | recorded reads | `query`, `dependents` | completeness |
| Static HTML (`compiler/static_html.rs`) | fragment cache shared by snapshots | `prepare`, binding of fragments | rendering old snapshots after edits |
| HTML directory (`render/html/directory.rs`) | a directory | `write`, `publish` | atomic exchange, concurrent writers |
| R bridge (`execution/r/bridge.rs`, `shim.R`) | a child process and a stream | `start`, `evaluate`, drop | framing, deadlines, death of either side |
| One-shot build (`build.rs`) | none | `render_html` | never overwriting inputs |
| Options (`compiler/options.rs`, `validation.rs`, resolvers in `evaluation.rs` and `static_html.rs`) | none | declarations, validation, two resolvers | the resolvers must agree |
| Layout (`compiler.rs`), HTML content (`render/html/content.rs`) | none | slides of a document, lookups of a slide | what a slide depends on |
| Parser, source mapping, CLI | none | pure translations | string detail |

How they interact: the compiler hands an `EvaluationPlan` to the caller, who adds
resolved inputs (`keyed`) and calls `reconcile`. `dispatch_ready` starts runners
through the contract; their events come back through `poll` or `receive`.
Accepted successes go to memory and, when not volatile, to the store. Renderers
read `cell_view`. The coordinator is borrowed exclusively, so its calls never
overlap; the concurrency is between its calls and the interpreters, whose events
arrive late, twice or never, and which die on their own.

What makes the components correct:

* coordinator: a result held for the current plan is what a clean sequential
  build of that plan would produce, after any edits, retries, faults and late
  events; only current attempts change results; slots are bounded; work ends;
  the code's own assertions hold;
* schedule: the incremental sets say what the states say; every slot is used in
  document order; every schedule finishes;
* store: a record is complete and true, or absent, after any crash;
* compiler: a handle identifies one cell, for ever; change sets are enough to
  follow the slides; plans are what the schedule accepts;
* fragment cache: rendering any snapshot gives the output of a fresh render;
* adapters: a state key is claimed only for a workspace that is in that state;
  an answer belongs to its question; `start` reaps the child it
  does not hand out (it does not at two exits, see section 3);
* publication: a reader sees the old or the new directory, nothing unrelated and
  no input that a render could have found is removed, and a render's report agrees with what a reader sees.

## 2. Modules

| Module | Models | Uses |
|---|---|---|
| `EvaluationPlan` | plans, chains, keys, clean outputs: operators only | |
| `EvaluationSchedule` | the reservation queue and its properties | `EvaluationPlan` |
| `ExecutionCoordinator` | coordinator and runner contract | `EvaluationPlan` |
| `CoordinatorProperties` | what the coordinator promises | `ExecutionCoordinator`, `LogicalResults` |
| `LogicalResults` | abstract specification of the results a renderer may rely on | `EvaluationPlan` |
| `ExecutionStore` | the cache on disk and its properties | |
| `SourceDocument` | what one source document says: labels, diagnostics, options, layout, references | |
| `Compiler` | edits: matching, handles, snapshots, plans, change sets | `SourceDocument` |
| `StaticHtml` | decks: the shared fragment cache, recorded queries, and the specification | `Compiler` |
| `CompilerProperties` | what the compiler promises | `StaticHtml`, `EvaluationPlan` |
| `RunnerContract` | abstract specification of an interpreter behind `ExecutionRunner` | |
| `FakeRunner` | the scripted adapter | |
| `RBridge` | the R bridge and the R process with its shim | |
| `RunnerAdapters` | properties of both adapters | `FakeRunner`, `RBridge`, `RunnerContract` |
| `AtomicOutput` | abstract specification of rendering to a directory | |
| `HtmlDirectory` | a deck and its publication step by step | |
| `HtmlBuild` | one-shot renders, the user, and the properties of both | `HtmlDirectory`, `AtomicOutput` |
| `MC...` | small instances for TLC | |
| `EvaluationScheduleProofs` | theorems about the schedule | `EvaluationSchedule` |
| `CoordinatorProofs` | lemmas about chains and keys, theorems about the coordinator and its work, and the refinement of `LogicalResults` | `CoordinatorProperties` |
| `ExecutionStoreProofs` | theorems about the store | `ExecutionStore` |
| `RunnerAdaptersProofs` | theorems about both adapters, and the refinement of the contract | `RunnerAdapters` |
| `HtmlBuildProofs` | theorems about rendering to a directory, and its refinement | `HtmlBuild` |
| `SequenceFolds` | lemmas about folding a sequence from the left | |
| `CompilerProofs` | theorems about handles, change sets and plans | `CompilerProperties`, `SequenceFolds` |
| `StaticHtmlProofs` | theorems about decks and the fragment cache | `CompilerProofs`, `SequenceFolds` |

Definitions named "Mutant" in comments are not part of a model. Each is a
plausible mistake in the code, kept next to the definition it would replace, and
some run rejects it.

### Plans and keys

A plan is the sequence of enabled cells in document order. `session` stands for
the pair (language, session), and the predecessor of a cell is derived from it
as `evaluation.rs` and `chain_predecessors` do, so it is not stored.
SHA-256 is taken as injective: a state key is the initial environment, the chain
and the sequence of steps hashed into it; a step is code (standing for source and
computation digest) and volatile nonce. An execution key does not contain the
nonce, as in the code, which is why `same_computation` must compare it.
`CleanOutput` is what a cell produces in an interpreter that ran exactly its
prefix; an output records the interpreter state it was computed in, so outputs of
different histories differ. `preparation` is the replay that `keys.rs` describes; the
coordinator has its own way to find one, and `WorkFollowsPreparation` compares them.

### The coordinator

| Code | Actions |
|---|---|
| `reconcile` | `Reconcile` (obsolete revisions and repeated plans change nothing) |
| `retry` | `Retry` |
| `dispatch_ready` | `DispatchCell` per iteration that dispatches, `DispatchFails` for each error return, `DispatchReturns` |
| `receive`, `poll` | `ObserveEvent`, `RejectForeign`, `RejectRevoked`, `RejectCurrent`, `CompleteUnsuccessful`, `CompleteSuccess`; ignored events change nothing |
| `terminate_obsolete` | `TerminateSession` per session, `TerminateFails`, `TerminateReturns` |
| `cell_view`, `is_finished` | operators `CellView`, `IsFinished` |
| an idle interpreter dies | `RunnerCrashes` (environment) |

`call` holds the position of a looping call. While one is in progress no other
method runs, but an interpreter may die. `runners[s].materialized` is the
adapter's claim, which the code reads; `runners[s].memory` is the state the
interpreter is really in, which only properties read. A failed command leaves the
memory unknown (`Dirty`).

Left out of the model: output and artifact contents (an attempt counts its
events), validation of the individual fields of an event (any mismatch is the
fault `event`), interruption (best effort, and a revoked attempt may answer or
not), the lists of requests and reports that calls return, and exhaustion of the
`u64` counters.

### The store

| Code | Actions |
|---|---|
| `open`, drop, death of the process | `Open`, `Close` (in the middle of any call) |
| `stage` for an artifact event | `StageArtifact` |
| `prepare` | `BeginPrepare`, `PrepareObject` per artifact |
| `commit` | `BeginCommit`, `CheckObject` per artifact, `PublishRecord` |
| `load` | `BeginLoad`, `LoadObject` per artifact, `FinishLoad`; a miss changes nothing |
| an error return of any of them | `CallFails` |
| the file system | `FlushObject`, `FlushRecord`, `PowerLoss`, `DamageObject`, `DamageRecord` |

`objects` and `records` are what reading a path yields; `durable` is what a power
loss leaves. `atomic_write` flushes the data of a file before renaming it but
never flushes a directory, so each rename reaches the disk on its own, in any
order. A temporary file that stays behind is at no path that is ever read and is
not represented: `BeforeRename` says that a write which stops leaves its
destination alone. Loops over artifacts take them in any order. Damage to a record
covers loss, other bytes, another key's record, and records that are well
formed but refused; a forged record with matching digests is beyond what digests
detect. `accepted` and `latest` are history. Media types and the single fields
that `validate_outcome` compares are left out (`valid` stands for them), and so is
the volatile or replayed attempt that is prepared and never committed: any call
may end before it commits.

### The compiler

| Code | Definitions |
|---|---|
| `inspection`, `declarations`, option validation | `inspection`, `labels`, `OptionErrors` |
| the two option resolvers | `EvaluationOptions`, `DisplayOptions` |
| `build_presentation` | `build_presentation` |
| `match_identities`, `matches`, `semantic_nodes` | the same names; `FirstFit` is the loop that consumes candidates |
| allocation of handles | `Allocate`, `Labeled`, `Anonymous` |
| `updated`, `update_source_with_changes` | `updated`, action `Update` (with `update_source_with_changes`); an identical source changes nothing |
| `SlideChanges::between` | `between`; `Apply` is a consumer that sees change sets only |
| `lower` | `PlannedCells`, `plan`, `PlanErrors` |
| `DependencyGraph` | `dependencies`, `DeckDependencies`, `is_closed` |
| `prepare`, `compile_deck` | action `prepare`, `compile_deck`, `RenderSlides` |
| `CachedFragment`, `bind` | the same names, `IsReusable`, `Rebind` |

The state is the sequence of snapshots handed out (a caller may keep any of them),
their decks, and the one fragment cache they share behind a mutex, which makes
`prepare` one step. Parsing is the constant `Content`: what each block text lowers to,
with its cells, links, options and declared label. A block's text is its identity as
source, so equal texts are equal blocks, as for the code's comparison of sources and
structures. Handles of cells and of the blocks around them are modelled; a nested
block that holds no cell has none. Origins are a template or a revision with an
offset, which is what rebinding changes. What depends on one document alone is a
function on the names of the documents, so that TLC evaluates it once.

### The adapters

`FakeRunner` has one action per method of `FakeRunner` and of its `ExecutionRunner`
implementation. A call that is refused changes nothing, with one exception the model
keeps: `execute` takes a queued script before the command is checked. `workspace` is
what really ran in the interpreter, which no code reads; a state key stands for the
codes run since the initial environment, so the two can be compared.

`RBridge` has a host (`start`, `evaluate`, drop) and a child, the shim, over one
connection and the files behind the standard streams. R may end or fall silent at any
point. A reply is a frame of one of four kinds: success, an error message, a message
that is not UTF-8 (consumed, and an error), and a frame that is too long (its length is
consumed, and nothing after it can be read as a frame). The deadline of `start` is a
choice that may fall at any time; `evaluate` has none. System calls may fail: between
the spawn and the construction of the bridge a failed `set_nonblocking` or `try_wait`
returns and leaves R running (`abandon`), a failed `accept` reaps it (`give_up`), and
afterwards a failed `set_read_timeout` drops the bridge (`drop_unfinished`); a call of
`evaluate` may fail to write, or to read or empty the streams after a valid reply
(`FailsToDrain`). One of the two adapters is in use in a behaviour (`adapter`); they
never share state.

### Rendering to a directory

| Code | Actions |
|---|---|
| `render_html_with_options` up to the resources | `read_inputs` |
| `protect_inputs`, `HtmlDirectory::new` | `protect_inputs` (with `new`) |
| `write`: temporary directory, files, manifest | `make_staging`, `write_new` per file |
| `is_existing_output`, `renameat_with` | `inspect`, `renameat`, as two steps: others act in between |
| drop of the temporary directory | `drop` |
| death of the process | `crash` (staged files stay behind and are never looked at) |
| the user | `replace_output`, `save_input` |

A path is a sequence of names, a file's content is the render and path it was written
for, and a file system may fold names. Files are staged in any order (the code uses
the order of a map, on which nothing depends), the manifest last. Any file operation
may fail. Writers are not synchronised, although the documentation asks callers to
serialize them: the properties hold without. The user acts at any time, also between the
look for inputs, the inspection and the rename of a render. Two such acts do harm, and no
program can prevent it with these system calls: what replaces a deck that a render has
inspected is exchanged and removed, and an input that is saved into the output after the
render looked for inputs goes with the output. Two history variables record exactly the
renders this happened to (`overtaken`, `unaware`), and the properties exempt them and no
other: whatever appears where nothing was found is kept (the rename does not replace),
and neither other renders nor a user who only clears the output can cost an input.

## 3. Runs

| Run | Instance | Shows |
|---|---|---|
| `coordinator_chain` | one chain of up to 3 cells, 4 plans, 3 edits, 1 retry, 1 slot, failing code, 1 failing shutdown, with store | assertions cannot fail, only needed work runs, replays are what `preparation` lists, blocked cells have a cause, stale output survives, and `LogicalResults` is implemented |
| `coordinator_sessions` | 2 interleaved chains and an isolated cell, volatile cells, a change of environment, 3 plans, 2 edits, 1 retry, 2 slots, 1 crash of an idle interpreter, with store | results equal clean builds, also those loaded from the store, `Running` cells have exactly one current attempt, nothing fails |
| `coordinator_faults` | 2 plans of 2 cells, one of them volatile, every fault kind, 2 faults, 2 edits, 1 retry, 2 slots, cancelled attempts, 1 event per attempt, with store | types, claimed interpreter states, records of clean executions only, slots, attempts, acceptance, whichever step of an acceptance fails |
| `coordinator_liveness` | the same plans, 1 slot, 2 faults of 3 kinds, fairness | work settles |
| `coordinator_blocked_view` | the chain without faults | *violated*: finding 1 |
| `coordinator_retry_blocked` | one edit, one retry | *violated*: finding 2 |
| `schedule` | all plans of 4 cells over 2 chains and isolated cells, 2 slots, fairness | readiness and blocking are exact, document order, every schedule finishes and strands no cell |
| `store_faults` | 2 processes, 2 keys that share an object, aliases of equal bytes, an invalid outcome, 1 fault | loads return committed executions, the last commit is visible, prepared attempts show what they showed and are not refused |
| `compiler` | 9 documents over 18 block texts, any 2 edits, renders of any snapshot at any time | handles are unique, never reassigned and not lost; change sets suffice; plans fit the schedule; both option resolvers agree; every deck equals that of a clean build and records closed queries |
| `compiler_duplicates` | a cell copied out of a container to the place before it | *violated*: finding 3 |
| `runner_adapters` | scripted runner: 2 attempts, 2 incarnations, 3 scripts (blocking and uncooperative, cancellable, crashing); bridge: 3 evaluations, 4 kinds of reply, R that exits or hangs anywhere, failing system calls; fairness | claimed states are real, transcripts are complete, `RunnerContract` is implemented, replies and output belong to their calls, interrupted work ends, and start ends with a connected bridge or a reaped R, or at one of the two exits that abandon R |
| `html_publication` | 3 renders by 2 writers, 6 requests (aliases, collisions, refused paths, an input in the output), folding and not, crashes, failures, a user who acts at any time | `AtomicOutput` is implemented; unrelated things and inputs are removed only if the user put them where the render had already looked |

Bounds: `MaxEdits`, `MaxRetries`, `MaxFaults` and `MaxEvents` limit the
environment; the coordinator itself is unbounded. Three edits are what it takes
to leave a plan, let its work be superseded and come back to it. Three cells are
what a replay needs to have a beginning, a middle and a target; two slots and
three scopes make the limit bite. One fault in the chain runs meets every point
of a replay, two faults include a fault during the cleanup of the first. In the
store, one fault at any point of any call is what its checks guard against (the
proofs cover any number), and two contents and two aliases are the least that can
be merged or confused. In the schedule, four cells give a chain a successor to
release or block while another chain and an isolated cell compete for the slots.
Reuse
decisions look at one pair of plans at a time, and the proofs remove the bounds
for the invariants they cover.

In the compiler, only the preceding revision takes part in matching, so two edits show
every decision about one pair of revisions and what is left of the first in the third;
the nine documents insert, remove, move, repeat, relabel and nest the same blocks. Every
anonymous cell text of the passing run stands either in containers or outside of them,
never both; the violated run drops exactly that. `RepeatedCellsStandAlone` is the form in
which the theorems of section 4 assume it, and `MCCompiler` has TLC evaluate it: it holds
of the documents of the passing run and not of those of the violated one. In the adapters, a
second attempt shows what the first leaves behind and a second incarnation what a
restart forgets; of three evaluations the second and third can meet the leftovers of a
failed one (three attempts and four evaluations, 643,283 states, pass as well). Two
writers and three renders let a render be overtaken twice between its steps; the proofs
cover any number.

`CHECK_DEADLOCK FALSE` is set where the system may stop: an environment that has used
up its edits, a finished schedule, a bridge that was dropped, renders that are done.

Fairness: `FairSpec` assumes that the caller keeps calling `dispatch_ready`,
polling and `terminate_obsolete`, that these calls return, and that running code
completes in some way (`Completes`). The first three are the loop every caller
in the tests and documents writes. The last is the environment's part: the code
has no deadline of its own, so code that never ends keeps its slot. Nothing is
assumed about edits, retries, failures or a revoked attempt ever answering; that
is what `terminate_obsolete` is for. For the schedule, the caller keeps reserving
and completing. For the scripted runner, `WF(poll)`: the coordinator's `poll` asks every
active runner again and again; nobody is bound to open a gate, so a script may block
for ever. For the bridge, `WF` of the steps of `start`: its loop sleeps ten milliseconds
and gives up after ten seconds, and the greeting is read with a timeout; no system call
has to fail. Nothing is assumed of R, and nothing is claimed of `evaluate`, which waits without a deadline.

### Findings

1. `cell_view` chooses the visible state from the presence of a current result
   before it looks at progress. A cell that keeps its result across an edit which
   renames its predecessor's handle is still shown as succeeded, with the old
   diagnostics, after that predecessor failed and the cell is `Blocked`
   (`coordinator.rs:913`); `execution/view.rs:24-25` says a blocked suffix is
   visibly failed, with a diagnostic naming the predecessor.
2. `retry` on a blocked cell makes it and its suffix `Pending` and drops their
   diagnostics although the predecessor stays failed (`coordinator.rs:350-356`).
   The cells are never dispatched and `is_finished` stays false, while
   `DESIGN.md:1918-1919` says a failure blocks its suffix. A caller gets out of it
   by retrying the failed cell or reconciling an edit.
3. `match_identities` visits blocks in source order and each anonymous cell takes the
   first candidate with its text, whichever block the candidate came from
   (`identities.rs:97`). When a cell is copied from a container to the place before it,
   the copy takes the nested cell's handle and the nested cell gets no assignment.
   `matches` (`identities.rs:25-37`) checks only assigned handles, so the container's
   template is reused with the handle that was given away: two cells of one revision
   share it, and the plan is rejected as `DuplicateCell` (`schedule.rs:99-101`).
   `DESIGN.md:709-710` says "Matching consumes each candidate once in source order, so
   repeated content retains distinct handles."

Three things the models had to say that the documentation does not. `RBridge::start`
leaves R running, neither killed nor waited for, when `set_nonblocking` or `try_wait`
fails (`bridge.rs:55` and `:61`): the child is owned by nobody who drops it before
`bridge.rs:78`, whose comment says that from there on failures "also reap the process",
as the two error paths of the loop above it do by hand. `StartReturns` therefore exempts
these two exits by name (`host = "abandoned"`); without the exemption TLC finds the
leaked child in a few steps. An evaluation that
fails on an undecodable error message leaves its output for the next call
(`bridge.rs:99-106`), although `REvaluation` describes the text of "one evaluation", so
`CallsReportTheirOwn` allows output of the calls that failed just before. And `execute` of the
scripted runner takes a script even when it refuses the attempt.

## 4. Proofs

All theorems hold for every set of well-formed plans and every value of the
other constants, under the assumptions `PlanAssumption`, `CoordinatorAssumption`,
`ScheduleAssumption`, `StoreAssumption`, `RunnerAssumption`, `NamesAssumption`,
`BuildAssumption` and `DocumentAssumption`: sentinels differ from proper values, plans
are well formed (as `keyed` guarantees), the limit is positive, scripts and faults are
of known kinds, and blocks have the shape that lowering gives them (a cell block is its
own only cell and has no label of its own).

`EvaluationScheduleProofs`: the invariant `IInv` adds to the stated properties
`ChainShape`, that the states along a chain are successes, then at most one cell
that is ready, running or ended badly, then cells that are all pending or all
blocked. None of the stated invariants is inductive without it: whether the
successor released by `complete` may enter the ready set depends on everything
before it.

`CoordinatorProofs` first establishes what the operators on plans mean: indices and
handles correspond, the cells of a chain are ordered by depth, depth is a
bijection onto an initial segment, the required key of a cell is the resulting
key of the preceding cell of its chain, and hence a replay that stands after any
prefix cell always finds the next one (`ReplayContinues`). The invariant `IInv` consists of

* `SessionsSound`: for each session, an unrevoked attempt is a computation of the
  desired plan for a cell in its target's prefix, it runs in an interpreter in
  the state it requires, and an idle session that is rebuilding a target stands
  right after a cell of that target's prefix;
* `ResultsSound`: results and store records are clean-build outputs, and a
  succeeded cell has a result;
* `ScopesTyped`, `AttemptsAccountedFor`, `SlotsBounded`, `PlanTyped`,
  `BoundsTyped`.

`SessionsSound` is the heart: `ResultsMatchCleanBuild` alone is not inductive,
since what the next completion stores depends on the state of the interpreter it
ran in and on which plan it was dispatched for. Each conjunct has a lemma with a
step per action (`SessionsStep`, `ResultsStep`, `ScopesStep`, `AttemptsStep`,
`SlotsStep`, `BoundsStep`). From the invariant follow `TypeCorrect`,
`ResultsCorrect`, `StoreCorrect`, `InterpretersVerified`, `AttemptsCorrect`,
`SlotsCorrect` and `NoAssertionFails`.

A second invariant, `WorkInv`, builds on the first and says which work is in progress
and why: `RunningIsAttempted` and `BlockedHasCause` together with

* `ChainShape`: behind a cell that failed or is blocked, a chain has only blocked and
  pending cells, and before a running cell only successes;
* `ResultIsOfSuccess`: only a cell that succeeded, or whose prefix broke later, has a result;
* `PassedOver`: a `dispatch_ready` in progress leaves nothing to dispatch behind it;
* `ShownOnce` (a fallback is held only where there is no result) and `WorkIsOfRevision`.

`RunningIsAttempted` needs them all: two cells of a chain share one session
(`SharedSession`), so a second dispatch would replace the attempt of the first if both
could be ready, and it is the shape of the chain that excludes it (`OneWorkerPerChain`).
`dispatch_ready` asks for the immediate predecessor alone, which may have kept a success
while a cell before it is pending again; `DispatchIsReady` shows that the whole prefix is
done all the same, since the loop visits cells in document order and has left no earlier
one behind: `PassedOver`. `StepKinds` sorts the actions by what they do to the state of
one cell, so that `ShapeStep` and `BlockedStep` treat kinds of step and not every action.
`OnlyNeeded` and `AcceptanceCurrent` follow from these; `WorkFollows` compares the work
of each attempt with the replay that `keys.rs` describes, by showing that the walk over
the prefix yields the same sequence (`WorkIs`). `NoneFailsSpuriously` covers the
instances without failing code in which the only fault is the death of an idle
interpreter. `Implementation` is the
refinement of `LogicalResults`: `LogicalStep` maps each step to `Revise`, `Discard`,
`Accept` or a stutter.

`ExecutionStoreProofs`: the invariant `IInv` says that every record file, also the
one a power loss would bring back, is genuine (`RecordsGenuine`: if load would
accept it, it was committed), that a load in progress is on its way to a committed
execution (`LoadsSound`), that a prepared attempt is the normalized form of a
valid outcome (`CallsTyped`) whose objects are intact as far as it staged or
checked them (`AttemptsSound`), and that the last commit of a key is in place
(`LatestSound`). `LoadReturnsCommitted` needs all of it, because a load reads its
record long before its last object. `Stops` is shown to touch no file
(`StopsTouchesNothing`), and from that and `OneWriter` follows `WritersExclude`.
The theorems hold for any number of processes, keys, artifacts and faults.
`SingleWriter`, like `AcceptedPathsStage` of the publication and the types and counters
of the schedule, the store, the adapters and the publication, is proved and not checked by a run of
its own.

`HtmlBuildProofs`: the invariant `IInv` says, for each writer and each place in
`write`, what its temporary directory holds: nothing before, exactly the files that are
no longer `unwritten` while it is staged (`Staged`), a complete deck once it is
inspected, and the retired output, something unrelated only if the render was
`overtaken`, once it is published (`StagingOf`); that a render which is to exchange still
finds a deck at the destination or was `overtaken`, and that the deck which a render made
from a file in the output may replace, or has retired, holds no input unless the render
is `unaware` of it (`DestinationOf`); that running renders have distinct identities which have
reported nothing, and are committed exactly after their rename (`Identities`); and that
a deck at the destination is complete. `PublishesAtomically` is a refinement, proved by
mapping every step (`StepRefines`): only `renameat` changes what a reader sees, and it
does so in one step, which needs completeness of the staged deck from `IInv`. It holds for any number of writers, renders, names and any folding.

`RunnerAdaptersProofs`: the invariant `IInv` has one part for each adapter. For the
scripted runner it says which optional fields are present in which state, that a running
attempt leaves no key behind and that every outcome belongs to an accepted attempt; with
it each step maps to a step of `RunnerContract` or a stutter (`StepRefines`), which is
`ContractImplemented`. `TranscriptInv` adds to `Transcript` that the running attempt has
not ended and that its count is the number of its outputs handed out so far; an accepted
attempt starts from nothing because whatever was delivered or ended belongs to attempts
accepted before. For the bridge its heart is `OneExchange`: as long as reads begin
at frames, the connection carries the greeting, then the current request or its reply and
nothing else; after an oversized frame nothing is read any more. `LeftoversStale` says
that what is still to be served or read belongs to calls that failed and all that
followed, which is what `CallsReportTheirOwn` needs of the output a call drains.

`SequenceFolds` says what the code's loops leave behind. `FoldLeft` of the community
modules is, once expanded, a recursive function on sets of positions; `FoldSteps` turns
it into a sequence of intermediate results that starts with the base and proceeds by the
step, and `FoldInvariant` carries an invariant along it. The induction is over a *set* of
numbers, through the least element of its complement (`UpTo`), since the library's
induction theorems take an operator that no prover here can instantiate. Each loop of
the compiler gives the step and the invariant as constants of an instance.

`CompilerProofs` first says what the compiler's operators compute for every document:
flattening (`FlattenIs`), the cells of a document (`CellsOfIs`), its slides
(`PresentationIs`), the matching loop (`FirstFitIs`: every candidate is taken at most
once, in order), the assigned handles (`IdentitiesAre`), the templates of a revision
(`NodesAre`, `SlidesAre`, `UpdatedIs`). On these rest

* `PreviewCorrect`: `ApplyBetween` shows that a change set carries a consumer from one
  snapshot to the next, whatever the two are, so the invariant needs nothing but that
  the current snapshot is the last one;
* `HandlesStay`: the invariant `Lineage` says that every snapshot is sound (each block
  has a template of its text, every handle is a label's or below the counter), that
  counters never fall, and that an anonymous handle of two revisions is in all between.
  `HandlesAre` is the step: each handle of a new revision is a label's, one of the
  preceding revision, or counted out after every handle before it;
* `SlidesUnique`: a slide is named after the label of its first block (`OwnSlidesDiffer`),
  or takes a slide of the preceding revision that none before it has taken, or a handle
  beyond every handle of that revision, whose handles differ by the invariant
  (`LaidApart`);
* `HandlesUnique`: a handle that is not a label's comes from the template reused for the
  block, from a matched cell, or from the counter (`Origins`).
  Two slots with the same handle have it from one source (`ReusedApart`, `TakenApart`,
  `CountedApart`) or from different ones (`OriginsDiffer`), and each case contradicts
  the invariant that the templates of the preceding revision are `Distinct`: no handle in
  two slots of a domain, and a label's handle only where a label is declared. A label
  is granted to one slot of a document (`DeclaredOnce`, `LabelOwner`). `Descent` says that
  each snapshot is the update of the one before it;
* `PlansSchedulable`: the loop that links cells leaves in its map the last cell of every
  chain (`LinkedIs`), which is the predecessor `EvaluationPlan` defines by a quantifier
  (`LinksSchedule`), given that handles are unique;
* `HandlesStayWithCells`: matching pairs the cells of a text with candidates of that text
  until one side is used up (`PairedOff`), a pair keeps its handle (`HandleKept`), and the
  handle of a cell left over is a label's or new (`HandleFresh`); so the handles kept are
  as many as the smaller side has cells (`SmallerSide`).

The last three of these assume `RepeatedCellsStandAlone`: cells of one text in a
document are the only cells of blocks that repeat one text, so that a cell never takes a
handle out of a block that is reused as it is. Some condition is needed: finding 3 is a
counterexample to uniqueness, and to a valid plan, without it. This one speaks of each
document alone; documents may differ in any way from one revision to the next.

`StaticHtmlProofs` says what preparing a deck returns in each of its cases (`DeckIs`) and
what the slides are that a loop through the cache renders (`RenderedIs`). On these rest

* `QueriesClosed`: the invariant `Decks` says that each deck was compiled from its
  snapshot with a cache in which every fragment's reads follow from the policies and
  references stored with it (`CacheSound`). A fragment that is reused has the same
  policies and references as the snapshot it is reused for, so the reads it replays
  exist there (`DeckClosed`); this is what the check in `IsReusable` is for;
* `DecksAwaitThePlan`: `PassesAgree` compares the folds of the two option resolvers entry
  by entry in a document both accept, `PlanIs` says which cells a plan has;
* `DecksMatchCleanBuilds`, which says that no history shows in a deck. The property is
  not inductive: it says nothing of the cache, from which the next deck may be made. The
  invariant `GenuineDecks` (`DecksAreGenuine`) adds that every cached fragment is one
  that rendering gave for a slide *with the handle it is stored under, of some snapshot
  handed out*: not necessarily the one it is asked for, nor one with the same slides,
  since handles outlive revisions and old snapshots are rendered late. Three facts close
  the argument:
  - a fragment that `IsReusable` accepts for a slide, its origins moved, is what rendering
    the slide gives (`Reused`). The slides have blocks of the same templates
    (`ContinuesIs`), and cells and links are looked up with the same values as far as the
    first rendering read (`LookupsAre`), which is exactly as far as the second one would:
    both stop at the same block and the same link (`SlidesStop`). Rendering that fails has
    not read what comes after, and the comparison does not need it;
  - moving an origin finds the block it is in: blocks of a document follow one another
    without overlap (`StartsRise`), so the one recorded range that contains it is that of
    its own block (`Containing`), and its distance from the start of the block is the
    same in the new snapshot (`RebindIs`);
  - two snapshots of one source are seen alike whatever their history (`SameView`): they
    differ in anonymous handles only, a label names the same slides in both (`SameNames`),
    and the display policies that are found by handle are those of the place
    (`PoliciesAre`), because handles are unique. The clean build is one of the two.

`DecksMatchCleanBuilds` assumes `RepeatedCellsStandAlone` too: policies are looked up by
cell handle, so two cells of a revision with one handle would be shown alike.

Liveness under fairness (`WorkSettles`, `Finishes`, `InterruptedWorkEnds`,
`StartReturns`) is out of reach of the prover and stays with TLC.

## 5. What is left

Theorems to add: a weaker condition than `RepeatedCellsStandAlone`, which excludes more
documents than the ones finding 3 is about.

Compositions to add: the store under the coordinator, with `committed` as the history of
`ExecutionStore`; the coordinator over `RunnerContract` instead of its own runners.

Not modelled:

* the parser and the lowering of Markdown, byte offsets and line mapping, escaping and
  markup of HTML, the command line: translations of strings and trees whose risk is in
  the detail a model would leave out (`Content` and `Requests` stand for their results);
* values of options other than label, eval, echo, include and session;
* the discovery of an R installation (`execution/r.rs`), which reads the environment once;
* the data types of `execution.rs` and their serialization;
* exhaustion of the `u64` counters, and the vectors a failing `dispatch_ready` or `poll`
  loses.
