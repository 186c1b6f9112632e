# A TLA+ development of the Kortecx runtime

Kortecx runs workflows of *Motes* (content-addressed units of work). The truth
about a workflow is an append-only journal; everything else is a fold of it. This
directory models the part of the system that decides what happens to a Mote: the
journal and its projection, the coordinator with its leases, the workers with
their effects, the steps the coordinator settles itself (waits, conditional arms,
retried steps, the chains of turns and tool calls of a ReAct agent), and the
single-process drive loop with its crash recovery. Around that core it models the
parts of the gateway with a state of their own: the live tails of the journal and the
sidecars folded from it, the triggers that start runs, and the supervisor of hosted
Apps. TLC checks the models on small instances, TLAPS proves the central safety
properties for every workflow, fleet and sequence of requests.

Paths below are relative to `src/crates/`.

## 1. Inventory

### The parts, their state and their operations

| part | state | operations |
|---|---|---|
| journal (`kx-journal`) | the log; a unique index on (idempotency key, kind) for Committed, Repudiated, EffectStaged | append (a duplicate returns the old entry), append_batch, read, publish to the commit watch |
| projection (`kx-projection`) | per Mote a set of observed facts (`MoteInfo`), declared graph, reverse index, frontier | fold, classify (`state_of_id`), re-dispatch oracle, ready set, critic gate, cascade walk, replay, checkpoint-seeded replay |
| coordinator owner thread (`kx-coordinator/state.rs`, `reschedule.rs`, `repudiation.rs`) | projection; admission set and definitions (`Dispatch`); leases, crash-failed set and crash counts (`LeaseTracker`); parked launches, waits, timers, guards | register-run, submit, lease, commit (grouped), stage, dead-letter, repudiate, settle passes, recover |
| worker registry (`registry.rs`) | next id, last heartbeat per id | register, heartbeat, liveness |
| worker (`kx-worker`) | its id, attempts per Mote, in-flight map | register, heartbeat, lease loop, execute, stage, propose, retry, dead-letter |
| executor (`kx-executor`) | none of its own | run a pure Mote, a critic, an effect under one of three commit protocols; schedule the sibling critic |
| single-process runtime (`kx-runtime`) | projection, frontier, cadence counter, attempts; the sidecar file | recover, pick, dispatch, handle a failure, fold, checkpoint, seal |
| ReAct chains (`kx-coordinator/state.rs`, `react_shape.rs`) | the rounds of a chain in the journal; parked launches, pending reranks and open approvals in memory | anchor, drive, freeze a branch, materialize observations, ask for approval, rerank, advance, finalize, recover |
| commit watch (`kx-journal/watch.rs`) | the highest seq announced | publish after a transaction, subscribe, wait |
| live tails and sidecars (`kx-gateway` `live_tail.rs`, `ws.rs`, `capture.rs`; `kx-gateway-core/events.rs`) | per stream a cursor, a run attribution and a bounded queue; per sidecar its rows and watermark | open, catch up, follow, overflow, end, resume; backfill, fold, final fold |
| triggers (`kx-gateway` `triggers_store.rs`, `trigger_gateway.rs`, `cron.rs`, `webhook.rs`) | rows and fired keys in `triggers.db`; the ticker's snapshot and the token buckets in memory | register, deregister, submit, tick, webhook, count failures, disable |
| hosted Apps (`kx-gateway/hostsupervisor.rs`) | per App its state, generation, child, group and port; the list of allowed origins | start, rebuild, stop; the lifecycle task; kill |
| content store, memoizer, broker, warrants, tools, models, request surface, bindings, UI | content-addressed blobs, external effects, request surfaces | outside these models; `PROJECT.json` names each with the reason |

### How they interact

A client registers a run and submits Motes. Workers poll `LeaseWork`; serving it
first reaps the workers that fell silent (appends `Failed{WorkerCrashed}` for what
they held), then selects from the ready set and from the crash-failed set, then
records the leases. The worker runs the batch, stages an effect before firing it
when the pattern is StageThenCommit, proposes commits, and reports what it gives
up. The owner thread is the only journal writer and serves one command at a time;
the concurrency is between the processes, and in what an RPC that is late, lost or
answered to nobody finds when it is served. In the single-process runtime there is
one thread, and the concurrency is with the kill signal: the process can die
between any two appends.

Readers of the journal (streams, sidecars) run beside the writers and are only told
that it grew. Triggers are served by async request handlers and by one ticker task,
over one SQLite file; a submit is a sequence of awaits. The supervisor answers
requests at once and leaves the work to a task per start; requests, tasks and the
server processes meet at a mutex held for a few lines at a time.

### What is hard, and what must hold

* Leases, liveness and late proposals: a worker that is only slow is declared
  dead, its Mote goes to another, then both finish. One holder per Mote, results
  never overtake inputs, a Mote given up stays given up.
* Effects: an effect that may have fired must not be fired again, unless the
  journal knows of the intent (and the broker dedupes), and never for a tool of the
  AtLeastOnce class.
* Restart: leases, crash counts, definitions and ids live in memory; the journal
  keeps only the facts.
* Repudiation against running consumers.
* The critic exit gate, evaluated from what has been declared so far.
* Checkpoints: a sidecar that is stale, unsealed, lost or of another journal must
  not change what recovery computes.
* Parked steps: a wait, an untaken arm or a retried step has no worker to report on
  it. The settle passes must come back to it after a restart, a failed append or a
  duplicate submit, wait out its timer, and do each thing once.
* Retry budgets at their limits; the loop must end, and no Mote may be stranded.
* ReAct chains: every decision is re-derived from the journal on each drain. The turn
  that is in flight must be found again after a restart, a gated call must not reach a
  worker without its grant, budgets count batches, and a chain must not wedge.
* Streams: no lost wakeup, every entry once and in order across overflow, drop and
  resume, the right run on each, and a shutdown that ends them all.
* Triggers: one run per tick and one answer per event, under concurrent requests,
  restarts, failures between two awaits and a clock that is set back.
* Hosted Apps: a task that was overtaken must not revive a stopped App or leave a
  server behind.

`PROJECT.json` lists these as hazards, at the line where each bites.

## 2. Modules

| module | models | |
|---|---|---|
| `Projection` | the fold of each Mote entry, `state_of_id`, `can_redispatch`, ready set, promotion gate, cascade walk | operators only |
| `MoteLedger` | abstract: the fate of each Mote (open, committed once and after its inputs, failed for good, repudiated with its consumers) | specification |
| `Coordinator` | owner thread, lease tracker, registry: one operator per command | EXTENDS Projection |
| `Fleet` | coordinator + workers + clients + crashes, restarts and lost RPCs | EXTENDS Coordinator, refines MoteLedger |
| `Journal` | the log as a sequence, append with dedupe, replay, checkpoint seeding | EXTENDS Projection |
| `Engine` | `run_with_seams`, executor lifecycle, commit protocols, checkpoints, kills | EXTENDS Journal, refines MoteLedger |
| `ParkedSteps` | the settle passes for waits, arms and retried steps, their timers, a kill between any two appends | EXTENDS Projection |
| `ReactChain` | one ReAct chain, of its own or behind an agentic launch: passes, approvals, reranks, recovery | specification |
| `EventTail` | writers, commit watch, streams, clients, one folded sidecar | specification |
| `Triggers` | the trigger store, submit, the cron ticker, the webhook's buckets | specification |
| `HostedApp` | one hosted App: requests, lifecycle tasks, server processes | specification |
| `FleetProofs` | theorems about `Fleet`: types, causality, leases, write-ahead | EXTENDS Fleet, TLAPS |
| `FateProofs` | theorems about `Fleet`: effects, the critic gate, re-offers, the refinement | EXTENDS FleetProofs |
| `EngineProofs` | theorems about `Engine`, among them the refinement | EXTENDS Engine, TLAPS |
| `ParkedProofs` | theorems about `ParkedSteps` | EXTENDS ParkedSteps, TLAPS |
| `ReactProofs` | theorems about `ReactChain` | EXTENDS ReactChain, TLAPS |
| `EventTailProofs` | theorems about `EventTail` | EXTENDS EventTail, TLAPS |
| `TriggersProofs` | theorems about `Triggers` | EXTENDS Triggers, TLAPS |
| `HostedProofs` | theorems about `HostedApp` | EXTENDS HostedApp, TLAPS |
| `MCFleet`, `MCEngine`, `MCParked`, `MCReact`, `MCTail`, `MCTriggers` | small instances | |

### Coordinator and Fleet

A Mote's `MoteInfo` is a set of flags (`proj[m]`); the journal of the coordinator
is represented by what its fold gives. `leases` merges the two maps of the tracker,
`submitted`, `defs` and `declared` are the admission set, the definitions and the
scheduler's pending map. `live` abstracts the clock: `Timeout` is the moment a last
heartbeat leaves the window. Each handler is one action because the owner thread
serves one command at a time: `LeaseWork` is reap, selection and record together,
`DeadLetterFailure` is its three answers, `Repudiate` the whole cascade, `Restart`
what `recover` rebuilds and what it forgets. A run of commits is flushed in arrival
order; one `Commit` step per proposal is the same sequence. A duplicate commit
dedupes in the journal and is not folded, but still clears the tracking.

`Fleet` adds for each worker process and Mote how far it got (`task`), the attempt
counter, and how often the broker fired (`fired`, saturating at 2). `Class` is how
a worker runs a Mote: `Pure`, `Staged` (StageThenCommit) or `Direct` (any other
non-PURE pattern, dispatched without a hint). With `LossyRpc` every RPC can be lost
before it is served, or its answer afterwards. With `FalseDeaths` a running worker
can be timed out. `WorkersOutlive` tells remote workers (which survive a restart of
the coordinator and keep their ids) from the in-process pool of `kx serve`.
`CriticsFirst` is a client discipline, see section 6.

### ParkedSteps

The owner thread drains its inbox (`Serve`: any number of commands), then runs the
settle passes. `pc` is the position in the passes, in the order of
`run_settle_passes` and, within one, of `MoteId` (`Order`); `SettleStep` does the
next piece of work, which appends at most one entry, so `Restart` can come between
any two appends. `AppendError` is an append that fails, with what each pass does
then. `timers` is the journal's list of `TimerArmed`, which the journal does not
dedupe; `armed_timers` is the map in memory. `result` tells apart what the passes
tell apart in committed bytes: a selection, the SKIP and FAILED sentinels, anything
else. Workers are reduced to lease, staged intent, commit, dead letter and reap: a
world-mutating Mote commits only once it is staged (`StageEffect`), a lease asks the two
filters of `lease_ready` (`RedispatchAdmissible`, `AtLeastOnceStaged`), and `Restart`
re-admits every Mote the journal names, a staged attempt among them. The attempts of a
retried step are Motes of their own with fixed identities (`AttemptOf`), which
inherit its guard and arm keys and none of its edges, as in `attempt_mote`; two attempts
have different identities, because the launch and the number of the attempt are hashed
into them. Two restrictions of the model, stated as assumptions: a wait has no retry
policy of its own, and a Mote has one conditional parent at most.

### Journal and Engine

The log is a sequence, the seq of an entry its position, and the digest of a state
the state itself. Each append, the effect, the sidecar and the seal are separate
steps with `Crash` enabled between them; `Start` recovers from log and sidecar.
`ReplaceJournal` is a new run at the same path with the old sidecar beside it.
`DispatchFails` covers a failure at any point of a dispatch, before or after the
effect, with the class the failure policy gives it there.

### ReactChain

The owner thread as in `ParkedSteps`: it serves commands, then runs the passes, and
`pc` is the position in them; each pass step appends at most one entry, and with
`ok = FALSE` the append fails. `rounds` is the journal's list of `ReactRound` facts of
the chain, from which every pass derives where it stands (`Frontier`). The id of a turn
contains its instruction (`Texts`: re-prompted after a refusal, nudged near the budget),
because recovery finds the turn in flight only if it computes the same instruction.
`requested`, `granted` and `denied` are the approval facts, `reranking` and `reranked`
the rerank rounds; `output` holds what a turn's Mote committed, by Mote and so by
instruction; `defs` is what workers can be offered, and `ran` is the history of
the calls that a worker was given. An observation is staged before it commits
(`StageMote`); one of an AtLeastOnce tool is then never leased again, so a worker crash
or a restart after the stage leaves it to whoever still works on it. `slow` is a worker
that was reaped and may report all the same. A rerank is modelled once per turn. A chain of its
own (`kind = "run"`) is anchored by its client's submit; an agentic launch waits for its
input, is parked, anchored and finalized by the passes. Workers are the in-process pool.

### EventTail

An append is a transaction (`AppendBatch`, duplicates included) followed by a publish
outside it, so two writers can publish out of order. The watermark only grows, so its
value stands for the version of the watch channel. Each client follows a stream of one
run or of all of them: `Open` subscribes before the first read of the head, `SendFrame`
cuts a range into frames of `MaxFrame` deltas, and a full queue ends the stream with
RESOURCE_EXHAUSTED, after which the client resumes from its last `next_seq`. The
sidecar is the capture store: backfill, subscribe, fold on each advance, a last fold at
shutdown that may be aborted. A fold is one transaction, but `capture.rs` ignores the
result of every statement in it: `FoldStep` chooses which of them fail (the reads of the
watermark and of `run_meta`, each INSERT, each write of a registration, the stamp, the
write of the watermark) and commits the rest, `FoldFails` is a fold that is skipped as a
whole. `fold.lost` and `fold.torn` record what failed. A client starts at or below the head (`since_seq` beyond
it makes the first boundary frame move the cursor back). A behaviour is about one kind
of reader (`Readers`): they share nothing but the journal. `InOrder` lists a set of seqs
by their ranks, a form that the prover can reason about.

### Triggers

A submit is one process (`call[p]`) whose steps are the awaits of
`trigger_gateway.rs`: the duplicate check, bind and register the run, submit its Motes,
record the fire. Clients and the ticker run it concurrently; `SubmitFails` ends it at
any of them. The ticker takes a snapshot of the due rows and serves them in order:
watermark first, then the submit, then the failure counter. `Restart` loses the calls,
the snapshot and the buckets. The clock is an integer that may be set back; a schedule
is an interval or the multiples of a number. Derived keys are keys that no caller of
another trigger uses; a trigger keeps its kind; the binding of the payload and the
registration of the run are one step.

### HostedApp

A task, its server and its port carry the generation of the start that made them. Each
critical section of the mutex is a step, and so is each command of the lifecycle, which
succeeds or fails. `WaitReady` may time out at any moment: time is
not modelled, and a server may come up before or after the deadline. The kill in `finish_readiness` is a step of its own, after the
state write, because the code takes the lock twice. The lane (development or
production) is read once and is a choice at `TypeCheck`.

## 3. Runs

`triggers` and `event_tail` take two to three minutes, `react_chain` one to two,
`parked_branch` half a minute, the others seconds. Passing runs:

| run | workflow and environment | checks |
|---|---|---|
| `fleet_safety` | staged `a`, which may fail or be repudiated, feeds staged AtLeastOnce `b`; 2 workers, lost RPCs, false deaths, a restart of the coordinator with its pool | `CausalClosure`, `OneHolder`, `StagedBeforeFired`, `AtMostOnce`, `RefinesLedger` |
| `fleet_gate` | hint-less `a` that can fail, consumer `b`, critic `c` of `a`; lost RPCs, false deaths | `CriticGate`, `NoBlindRefire`, `NoneStranded` |
| `fleet_live` | a chain of two, 3 workers that may crash | `Resolves` |
| `engine_crash` | hint-less validated `a`, staged consumer `b`, critic `c`; `a` and `b` fail, with and without a retry policy; checkpoints every 2 entries, sidecar lost or of a replaced journal, up to 4 starts | `EffectsAccounted`, `RecoveryArmDead`, `ProjectionIsReplay`, `RefinesLedger`, `Terminates` |
| `parked_branch` | conditional `c` with the wait `w` and the plain step `e` as its arms, joined by `j` with two attempts; `e` (AtLeastOnce) and the attempts are staged; `c` may crash its worker, `e` and the attempts may fail, one append for `w` fails, one restart | `WaitedOut`, `OneTimer`, `LadderTruth`, `OneArm`, `Settled` |
| `react_chain` | up to 3 turns and 3 calls; a turn answers, is refused, proposes the gated AtLeastOnce `write`, the `retrieve`, or both; one fault anywhere (failed append, worker crash, restart, tool removed) | `InFlightIsOffered`, `BudgetKept`, `NoRefire`, `GateHeld`, `BackPressure`, `AnswerTruth`, `ChainSettles` |
| `event_tail` | 2 writers, a batch with duplicates, two runs, a fresh or an old journal, one client that may stop reading or drop, one fault (a read of the journal, a whole fold or a single statement of it) | `Delivered`, `NoLostWakeup`, `RowsTrue`, `CatchesUp`, `ShutdownDrains` |
| `triggers` | one cron and one webhook trigger, 2 clients with one event, an interval and a crontab schedule, three of: request, operator action, fault, restart, clock set back | `OneAnswer`, `CronOnce`, `NoSilentStop`, `RateBound`, `DueIsServed` |
| `hosted_app` | three starts and stops, any stage failing or overtaken, servers that exit or hang | `NoOrphan`, `RunningTruth`, `RestsUntilAsked`, `Settles` |

Each property of a passing run has a mutant of the code in `PROJECT.json` (a
dropped guard, an off-by-one, a swapped branch) under which the same run finds the
property violated. `LadderTruth`, `EffectsAccounted` and `Delivered` are conjunctions of
two named parts. The runs are for behaviour: the `TypeOK` of `Fleet`, `Engine`,
`ReactChain`, `EventTail`, `Triggers` and `HostedApp` is proved (section 4), that of the others documents
their state and is not among the listed checks. `RefinesLedger` contains that a Mote given up stays given up.

Runs that are expected to find a violation, each a disagreement between the code
and what a comment or document says of it (`findings` quotes the line):

| run | what TLC shows |
|---|---|
| `stale_dead_letter` | worker 1 fails `a` terminally, is timed out and reaped (`a` becomes crash-failed), then its dead-letter report is served: `a` is `Failed`, so the answer is the no-op, which clears `crash_failed`. Nothing offers `a` again. |
| `crash_kills_wait` | the worker of `a` crashes; the drain that reaps it also dead-letters the wait `w` behind `a`, because the pass takes `Failed` for final. `a` is re-offered and commits, `w` is lost. |
| `superseded_timeout` | a rebuild comes while the first task waits for its port; the second server is up and `Running`; the first task's deadline passes and `finish_readiness` kills whatever server the App has. The state stays `Running`. |

`NoneStranded` and `NoBlindRefire` are properties of a coordinator that does
not restart and (for `NoneStranded`) of Motes whose own execution does not give up
while being reaped: `fleet_gate` checks them there (sections 5 and 6 say what happens
elsewhere).

### Bounds

* Two or three Motes: the decision about a Mote reads its own facts and those of
  its parents, critics and consumers. A chain has a parent and a consumer; the
  judged triple has the smallest producer, consumer and critic.
* Two workers are needed for a take-over; in `fleet_safety` each process registers
  before or after the restart. Workers register once, so `MaxWorkers` bounds ids per
  incarnation.
* `RetryBudget` 2 (3 in `fleet_live`) and `WorkerMaxAttempts` 2 put every counter
  at its limit within a run; the code's 100 and 3 differ only in how long it takes.
  `fleet_live` has three workers of which two may crash, so the budget of 3 is
  never spent, as the code's is not by a fleet that recovers.
* `MaxLease` 1 in `fleet_gate` makes the selection choose; 2 elsewhere allows a batch.
* `Engine`: `MaxStarts` bounds kills, `Cadence` 2 places checkpoints inside and at
  the end of a run, `MaxLog` 20 is never reached (`Terminates` would fail there).
* `ParkedSteps`: one conditional with two arms and a join is the smallest graph with
  every kind of parked step; two attempts make one backoff. The clock only moves while
  a timer is armed and not due (nothing else reads it), so `MaxTime` 3 is more than the
  delays add up to (`Settled` would fail otherwise). A Mote crashes its worker once at
  most (`Reap`); `MaxErrors` 1 and `MaxRestarts` 1.
* `ReactChain`: three turns hold a call, its re-prompt and an answer; the budget of 3
  is reached by a batch of two and one more, the price ceiling by turns and calls
  together. One fault at any of the points is what the recovery code is written for;
  two would mostly repeat it.
* `EventTail`: a queue of 1 and frames of 1 make every second entry overflow or split a
  range. Four entries hold a registration, a commit, and a batch of two of which any may
  be a duplicate; two writers are enough for publishes out of order.
* `Triggers`: `Horizon` 2 has two ticks of the interval and one
  of the crontab. `MaxInputs` 3 lets any three of the environment's actions meet.
* `HostedApp`: three requests are a start, what overtakes it and what follows; four
  (1.2 million states) pass as well.
* Deadlock checking is off only where the system may stop: the engine's last start
  ends, a restarted fleet may run out of processes, a gateway may be shut down, and
  clients, operators and clocks have bounds.
* Symmetry over workers is used for safety only; ids are not symmetric and are not
  permuted.

### Fairness

`fleet_live` assumes weak fairness of each client call, of each worker's own steps
(its tasks are spawned and polled by the async runtime, and the pool polls again
when a batch ends), of heartbeats (a timer task), and of the timeout of a crashed
worker (the clock runs). Nothing is assumed of crashes. `FalseDeaths` and
`LossyRpc` are off there: with a network that may lose every call the code promises
no progress. `engine_crash` assumes that the process runs on and that a killed
process is started again; `Terminates` bounds the number of kills, not their place.

`parked_branch` assumes that the owner thread goes on (weak fairness of the steps of
the passes), that workers poll it (a drain happens, which is what fires due timers),
that the clock runs, and strong fairness of the client's re-submits and the workers'
leases and reports together: a command waits in the inbox while passes run, and the
inbox is served in order. The client's re-submit after a restart is what the code
calls "the one recovery mechanism for every step" (`state.rs:3571`). Nothing is
assumed of crashes, duplicate submits and restarts. `Settled` asks for an entry that ends
the step, a commit or a terminal failure, not for a crash that may be re-offered. It names
the three ways in which the code gives up a Mote the step depends on without such an entry
(`Stranded`, section 6), each of which the run reaches.

`react_chain` assumes the same of the owner thread and of the workers' and the client's
commands, and nothing of the operator or of a worker that was reaped, so `ChainSettles`
ends in an answer, a dead letter, a call that waits for approval or a staged AtLeastOnce
call that was cut off (`StuckStaged`, section 6); it is stated for behaviours without a
failed append and without a Mote lost to a crash, where the code leaves the chain to the
operator (`state.rs:4548`). `event_tail` assumes that a writer that has committed
publishes and that the spawned follower and fold tasks run; nothing of clients, new
writes, drops or the shutdown. `CatchesUp` is about a client that reads on and resumes,
which is a premise of the property (`ReadsOn`) and not of the specification;
`ShutdownDrains` holds for clients that do not read, with the one exception `HeldUp`
(section 6). `triggers` assumes that the ticker task and
the submit it awaits go on. `hosted_app` assumes that each lifecycle task goes on: its
commands end by `COMMAND_TIMEOUT`, its wait by `READINESS_TIMEOUT`; `tsc` has no timeout
and is assumed to end.

## 4. Proofs

`FleetProofs` proves for every finite or infinite set of Motes and workers, every
graph, every budget, and all environment switches, from the assumptions
`GraphAssumption`, `CoordinatorAssumption` and `FleetAssumption` (types of the
constants; AtLeastOnce Motes are staged; the id of an unregistered process is not an
id), all evaluated by TLC on every fleet run:

| theorem | states |
|---|---|
| `TypeCorrect` | `Spec => []TypeOK` |
| `Causality` | `Spec => []CausalClosure` |
| `ExclusiveLeases` | `Spec => []OneHolder` |
| `WriteAhead` | `Spec => []StagedBeforeFired` |

* `TypeOK` is inductive; it contains the bounds of the two counters. One lemma per
  command of the owner thread, one step per action.
* `CausalClosure` is not inductive: a proposal is admitted by submission alone, so
  nothing at the commit looks at the inputs. `CausalInv` adds that every Mote that is
  held, queued for re-offer or in a worker's hands has committed inputs. `WorkBegins`
  shows that work starts only from the ready set, which looks at the inputs, or
  continues earlier work; `CommitComesFromWork` that a commit comes from work;
  `FlagsPersist` that commits are never withdrawn (a repudiation adds a flag). A
  restart is harmless because workers that outlive it are still counted as work.
* `OneHolder` is inductive: only `LeaseWork` grants (`OnlyLeaseGrants`), and a grant
  asks about other holders after the reap, in the same step (`GrantIsExclusive`).
* `StagedBeforeFired` needs the worker that stands at the dispatch: `WriteAheadInv`
  says its intent is journaled too. `ReadyComesFromStage` and
  `FiredComesFromDispatch` are the two ways in.

`FateProofs` goes on with the same assumptions and the named hypotheses below. The runs of
section 3 satisfy them, and section 6 says what happens without them:

| theorem | hypothesis | states |
|---|---|---|
| `AtLeastOnceFiresOnce` | `PoolDiesWithCoordinator` | `Spec => []AtMostOnce` |
| `DirectMotesAreNotRefired` | `MaxRestarts = 0` | `Spec => []NoBlindRefire` |
| `CriticsGate` | `CriticsFirst` | `Spec => []CriticGate` |
| `CrashedMotesAreReoffered` | `MaxRestarts = 0`, PURE bodies do not fail | `Spec => []NoneStranded` |
| `FleetImplementsLedger` | `PoolDiesWithCoordinator` | `Spec => RefinesLedger` |

`PoolDiesWithCoordinator` (`~WorkersOutlive \/ MaxRestarts = 0`) is the deployment of
`kx serve`, whose workers are tasks of the coordinator's process, or a coordinator that
stays up. `MaxRestarts = 0` is a coordinator that stays up: the lease table and the
crash-failed set are in memory only.

* Every step changes the projection in one of five ways (`ProjSteps`), the work of a
  worker in one of a few (`TaskSteps` and the lemmas after it), the registry in three
  (`RegistrySteps`). The lemmas on single invariants are cases over these.
* `EffectInv` is what makes an effect unrepeatable: a worker that has begun an attempt
  which may not be repeated bars the Mote from every further lease, because it holds it
  or left a durable mark (`EngagedHolds`), no other worker is engaged in it
  (`EngagedOnce`), and who has fired stands past the dispatch (`FiredIsPast`).
* `GateInv` says that nothing is even worked on before its gate is open, and that the
  critics of a declared Mote are declared.
* `OfferInv` says of PURE Motes that a worker which fails them did not fail by itself and
  that a crashed one is tracked; only a reap makes one `Failed`, and it queues it.
* The refinement maps a Mote to the fate its flags give it. Each of the five changes of
  the projection is a step of the ledger or a stutter. `LedgerInv` adds to `CausalInv`
  that a repudiated Mote was committed, that what is offered is declared, and that a
  dead-lettered Mote is out of everyone's hands (`TerminalIsFinal`), so that no late
  commit revives it.

`EngineProofs` proves, for every workflow, submission order, policy and cadence, any number
of starts, kills and replaced journals, from `GraphAssumption` and `EngineAssumption` (types
of the constants; a validated Mote has a hint-less effect), evaluated by TLC on the engine
runs:

| theorem | hypothesis | states |
|---|---|---|
| `EngineTypeCorrect` | | `Spec => []TypeOK` |
| `DecidesFromReplay` | | `Spec => []ProjectionIsReplay` |
| `JournalAccountsForEffects` | | `Spec => []EffectsAccounted` |
| `RecoveryArmIsDead` | | `Spec => []RecoveryArmDead` |
| `EngineImplementsLedger` | `CriticsOnlyJudge` | `Spec => RefinesLedger` |

* The fold of the journal is a recursive function, about which the library's induction
  theorems say nothing here (they take an operator). `Climb` is induction over an interval
  with the *set* of the numbers reached, from the least element of a set of numbers. From it
  follow that the fold exists (`FoldExists`), that it may be taken up at any seq
  (`ReplayResumes`), and what one more entry makes of it (`ReplayAppend`).
* `ReplayInv` adds to `ProjectionIsReplay` that every seal in the journal holds the replay of
  the entries it names (`SealsTrue`). That is why recovery may trust any sidecar a seal
  vouches for, stale or of another run (`RecoveryIsReplay`); a fresh journal has no seal.
* `EffectInv` relates the journal to what the process is doing: an entry that the index
  dedupes was folded (`Reflected`), so an append that is skipped changes nothing; the flags
  of the engine's entries are `Tame`, so a hint-less Mote that was proposed is never
  `Pending` again; where the loop decides, at most seals are not folded (`InSync`); and a
  Mote that has fired left its mark before it did (`Accounted`). `RecoveryArmDead` follows
  from `Tame` and `InSync`: with its hint a Mote is not `Scheduled`.
* The refinement maps the replay of the journal to fates. `Causes` adds that the Mote being
  dispatched is open and has its inputs, and that a PURE Mote that was proposed has them,
  since the loop runs it again without a look. `CriticsOnlyJudge` says that a PURE critic of
  a validated Mote has no other input; section 6 says what happens otherwise.
* The bound on attempts in `TypeOK` needs `Budget`: a Mote whose attempts are used up has a
  dead letter or a result, which `handle_failure` looks for first.

`ParkedProofs` proves, for every set of steps, graph, ladder length, delay, failing
append and number of restarts, from `GraphAssumption`, `ParkedAssumption` and
`BackoffAssumption` (types of the constants, a wait is not a policied step, attempts have
identities of their own, one conditional parent, the backoff of an attempt is a number),
evaluated by TLC on the parked runs:

| theorem | hypothesis | states |
|---|---|---|
| `WaitsAreWaitedOut` | | `Spec => []WaitedOut` |
| `TimersAreJournaledOnce` | | `Spec => []OneTimer` |
| `LaddersTellTheTruth` | `AttemptsDoNotCrash` | `Spec => []LadderTruth` |
| `OneArmIsRun` | `Branching` | `Spec => []OneArm` |

* `WaitedOut` is not inductive: `fire_due_timers` commits a wait from the map in
  memory, without a look at the journal or at the parents. `ParkedInv` adds that
  every armed timer is in the journal (`ArmedIsJournaled`), that a wait's timer was
  journaled after its parents committed (`ArmedAfterParents`), and, in `Shapes`,
  that no worker holds a wait. A restart empties the map, which the invariant allows,
  and the passes fill it again from the folded timers only.
* `OneTimer` holds because both passes that arm look in the folded timers first, in
  the step that appends.
* Every step is of one of three kinds: it commits nothing and arms nothing
  (`QuietStep`), commits one Mote (`CommitStep`) or journals one timer (`ArmStep`).
  One lemma per pass shows which of the three its branches are.
* The ladders and the arms are about what is committed, and by whom: `StepFates` shows
  that a Mote is committed by a worker, by the skip pass, by its ladder or by its timer,
  and `ResultsStay` that this happens once. `OnceInv` adds who may be handed to a worker.
  A staged intent changes no result, and no wait is ever staged.
* `LadderInv`: an attempt that is lost stays lost (`SpentForGood`), the n-th attempt is
  known to the coordinator only if the one before it is lost (`ClimbedInOrder`) and its
  backoff was journaled (`BackedOff`), and the result of a policied step is what its
  attempts came to. The first fails when a crashed attempt counts as spent while it waits
  to be offered again, which `AttemptsDoNotCrash` excludes and section 6 describes.
* `ArmInv`: what is handed out or committed at the entry of an arm is of the arm its
  conditional selected (`EntriesChosen`). A lease asks for the verdict; a wait has no lease
  gate, so the argument is the order of the passes: the guard pass precedes the fire pass
  (`PassOrder`), and while a wait is still parked behind its guard it has no timer, or the
  pass that would fire it has gone by (`WaitsHeld`, `PassedUnarmed`). The attempts of an
  entry are never handed out at all. `Branching` states how arms are authored (the
  conditional is a plain step; the entry of an arm is guarded, consumes its conditional and
  no wait) and that the append which skips a wait does not fail; section 6 says what
  happens otherwise.

`ReactProofs` proves, for every model, set of tools, budget, batch width and sequence of
faults, from `ReactAssumption` (types of the constants; an answer of the model holds no
more calls than a batch, or is refused), evaluated by TLC on `react_chain`:

| theorem | hypothesis | states |
|---|---|---|
| `ReactTypeCorrect` | | `Spec => []TypeOK` |
| `GatedCallsAreGranted` | | `Spec => []GateHeld` |
| `LaunchesTellTheTruth` | | `Spec => []AnswerTruth` |
| `TurnsWaitForTheirCalls` | | `Spec => []BackPressure` |
| `TurnsInFlightAreOffered` | `Roomy` | `Spec => []InFlightIsOffered` |
| `CallsAreNotRefired` | | `Spec => [](faults["append"] <= 1 => NoRefire)` |
| `BudgetsAreKept` | | `Spec => [](faults["append"] <= 1 => BudgetKept)` |

* Every pass derives where it stands from the facts of the chain, so the base of all is
  `ChainInv`: the facts come in the order of their turns, a turn is opened by a Pending
  fact, a final branch is the last, and calls are worked on only of a turn whose committed
  output proposes them. Facts are only added (`Appendable` lists which), and a committed
  output never changes.
* `GrantInv` holds because only the materialize pass offers an observation, after the gate.
* `PressureInv` keeps, from pass to pass, how many calls of the turn were seen observed.
* `OfferedInv` says that every turn was recorded with the instruction that a restart would
  rebuild, although the facts it is rebuilt from have grown since. `Roomy` (both budgets
  above 1) excludes the first turn that is nudged, see section 6.
* `NoRefire` and `BudgetKept` relate what workers were given to what the facts say. A lost
  append is made up for at the next drain, while the output is still there; two lost
  appends for one turn are not, so both are proved up to one lost append, which is also
  what the run allows, and section 6 has the case of two. The budget is counted by an
  injection from the calls given out to the units that the facts count.

`TriggersProofs` proves, for any number of triggers, clients, requests, failures, restarts
and settings of the clock, from `TriggersAssumption` (types of the constants, cron and
webhook triggers are different, rates are positive), evaluated by TLC on `triggers`:

| theorem | states |
|---|---|
| `TriggersTypeCorrect` | `Spec => []TypeOK` |
| `EventsHaveOneAnswer` | `Spec => []OneAnswer` |
| `TicksRunOnce` | `Spec => []CronOnce` |
| `TriggersStopAloud` | `Spec => []NoSilentStop` |
| `BucketsAreBounded` | `Spec => []RateBound` |

* `AnswerInv`: what is answered is recorded, what is recorded is a complete run of its
  event, and a call past the bind has started the run it names. The record is
  insert-or-keep, so a concurrent second run is never answered with.
* `CronInv` has an argument for each half of `CronOnce`. While the clock was never set
  back, every tick that has run lies below the watermark of its row and of the ticker's
  snapshot (`ForwardInv`); while nothing failed, every run of a tick is recorded or the one
  the ticker is at (`SettledInv`), and the duplicate check finds it.
* `StopInv` follows the failure count through the snapshot, the submit and the two updates
  of the store, with the operator's changes in between.
* `RateInv` needs the division lemma: the refill rounds down, and what is cut off at the
  burst is lost, so tokens and admissions together never exceed the burst and the refill.

`EventTailProofs` proves, for any number of writers and clients, any entries, batches and old
journals, every queue and frame size, and any number of drops and failing reads, from
`EventTailAssumption` (types of the constants; queue and frame hold something; no run is
`NoRun`), evaluated by TLC on `event_tail`:

| theorem | states |
|---|---|
| `TailTypeCorrect` | `Spec => []TypeOK` |
| `NoWakeupIsLost` | `Spec => []NoLostWakeup` |
| `RowsAreTrue` | `Spec => []RowsTrue` |
| `EntriesAreDelivered` | `Spec => []Delivered` |

* The base, `BaseInv`, adds to the types that nobody is ahead of the log: not the watermark
  of the watch, no announcement, no cursor, frame or sidecar. Below the head the log never
  changes, so a range that was attributed or surfaced stays as it was (`RangesKept`), and
  an attribution may be advanced over a range in two steps (`RunCompose`).
* `WakeInv` looks at a follower from the read of the head on, not only while it waits: what
  lies past what it has read is published or in the hands of a writer that will publish
  it (`Announced`), and it has read at least what it has seen announced. A batch of
  duplicates announces an old seq, but then the log has not grown.
* `RowsTrue` speaks of a sidecar whose statements fail one by one: below the watermark only
  entries whose own INSERT failed are missing (`fold.lost`), whatever else failed; the rest,
  nothing above the watermark and the right run on each row, is for a sidecar whose
  attribution was read, stored and moved on with the watermark (`~fold.torn`). `SidecarInv`
  adds that the stored attribution is then the one at the watermark. A failed read of the
  watermark folds from the start and still arrives there (`FoldedRun`); a row without a run
  is stamped later, and only if no registration lies below it.
* `StreamInv` says that three things adjoin (`Adjoin`): what a client has printed, the
  frames in its channel, each from the `next_seq` of the one before it, and the range its
  follower sends next. A status is the last frame and its follower has returned. A cut
  range keeps the attribution of its start until the last frame of it is sent.
* `InOrder(S)` is the only ascending list of `S` (`ListsIsInOrder`), and the list of a range
  is the concatenation of those of its halves (`ListsConcat`). Both are proved by counting
  (an injection between finite sets of one size is onto), since induction over sequences is
  out of the prover's reach.

`HostedProofs` proves, for every number of requests, from `HostedAssumption`
(`MaxGeneration` is a number), evaluated by TLC on `hosted_app`:

| theorem | states |
|---|---|
| `TypeCorrect` | `Spec => []TypeOK` |
| `NoServerIsOrphaned` | `Spec => []NoOrphan` |
| `StoppedStaysStopped` | `Spec => RestsUntilAsked` |
| `RunningIsTrue` | `Spec => []RunningTruth` |

* The invariant `IInv` adds to the types that the App tracks nothing but the server of
  its own generation (`Tracks`), that a task past its spawn has a server (`Spawned`),
  that tasks of later generations do not exist (`Unborn`) and `AtRest`: the current task
  of a stopped or failed App has no write of the state left. The last is what makes
  `RestsUntilAsked` provable: `advance` looks at the generation only, so a task that
  failed must not come back to it.
* A request kills by the group the App tracks, and `NoOrphan` says that this is every
  server but one whose task stands between spawn and store; `Unborn` shows that this
  task is not the one the request makes. `TaskStepInv` covers all steps that neither
  spawn, store nor kill; the others have a lemma each.
* `RunInv` adds that the current task holds its port from the store on and its listing
  from the wait on (`Held`).

### Model-checked only

Liveness (`Resolves`, `Terminates`, `Settled`, `ChainSettles`, `CatchesUp`,
`ShutdownDrains`, `DueIsServed`, `Settles`) is out of the prover's reach. Every safety
property that a passing run checks is stated by a theorem, under the hypotheses above. These
are the limits of the theorems, and for each the runs check the same instance of it.

## 5. Findings

Three are defects by the code's own intent:

* `stale_dead_letter`: the no-op answer of `dead_letter_failure` resolves the tracking
  of a Mote that `reap_dead_workers` has just queued for re-offer;
* `crash_kills_wait`: the settle passes take a parent that is `Failed` until its
  re-offer for a parent that is lost;
* `superseded_timeout`: the deadline of a superseded lifecycle task kills the server of
  the run that superseded it (`kx-gateway/src/hostsupervisor.rs:623`), which stays
  reported as running.

## 6. Observations without a run

### Fleet, engine and parked steps

The first four follow from a property of the models in a circumstance the passing
runs exclude; the constants to change are given.

* After a restart a Mote with a `WorkerCrashed` entry is never offered again: it folds
  to `Failed`, and the crash-failed set is empty (`kx-coordinator/src/state.rs:1915`
  speaks of Motes "still `Pending`"). `NoneStranded` with `MaxRestarts` 1.
* After a restart a hint-less effect that had fired is fired again: the lease left no
  trace, and `redispatch_admissible` does not gate the ready set
  (`kx-coordinator/src/state.rs:1626`). `NoBlindRefire` with `MaxRestarts` 1.
* After a restart a late commit of a dead-lettered Mote is admitted: `recover` seeds
  the admission set with every Mote the journal names (`state.rs:611` says "from the
  already-committed Motes"). `RefinesLedger` with `MaxRestarts` 1 and
  `WorkersOutlive`.
* In the single-process loop a transient failure of a hint-less effect after its
  `Proposed` entry is never retried: the Mote is `Scheduled`, which the loop neither
  runs nor recovers (`kx-runtime/src/engine.rs:519` says "`pick_next` re-selects the
  still-ready Mote"). The definition `RetriesSpent` of `Engine` states the retry.
* An attempt whose worker crashed counts as spent while it is queued for re-offer, so
  the next attempt is minted and two run at a time; a ladder can be exhausted by
  crashes alone (`state.rs:3831` says "every attempt terminally failed").
  `LadderTruth` with an attempt in `Crashing`.
* The two guards of an arm do not cover a conditional that commits a sentinel: one with a
  retry policy that continues on error commits FAILED, `skip_guard_verdict` answers
  Undecided for both arms, and their waits fire (a plain step is held back for good). One
  of the authoring rules of `Branching` (section 4) excludes it.
* The crash budget does not bind staged Motes (`kx-coordinator/src/reschedule.rs:127`,
  "never lease it again"): a staged Mote folds to `Pending` after
  a `WorkerCrashed`, so the ready set offers it whatever its count.
* The critic gate is not a pure fold of the journal (`kx-projection/src/promotion.rs:6`):
  which critics a producer has comes from in-memory declarations. A consumer leased
  before the critic was submitted is not withheld. `CriticsFirst` states the
  submission order under which `CriticGate` holds.
* A crash-failed Mote is re-offered without looking at its parents again
  (`kx-coordinator/src/state.rs:743`); a parent can have been repudiated meanwhile.
* Worker ids start from 0 in every coordinator incarnation: a remote worker
  that outlives a restart can present an id another process was given.
* `redispatch_wm_mote` is never reached from the drive loop
  (`kx-runtime/src/engine.rs:957`): with the hint a Mote is `Pending`, not
  `Scheduled`, so it is run afresh. `RecoveryArmDead` checks this.
* A critic that consumes a further input can be picked before that input is
  committed: `schedule_sibling_critic` proposes it, and a `Scheduled` pure Mote is run
  whatever its parents are (`kx-runtime/src/engine.rs:432` says the picked Mote is in
  the ready set). `RefinesLedger` of `Engine` with a second parent of the critic;
  `CriticsOnlyJudge` (section 4) excludes it.
* A consumer that was leased when its input is repudiated commits afterwards and stays
  trusted: `flush_commits` (`state.rs:6958`) admits by submission alone. `GLOSSARY.md:83`
  says of a repudiation "nothing downstream trusts an invalidated input". The ledger
  that `RefinesLedger` is about therefore repudiates the consumers committed so far.
* `settle_skip_guards` (`state.rs:3946`) and `settle_policied_steps` drop the parked step
  even when their append failed (`state.rs:3587` says of a wait "Leave parked — the next
  drain retries the arm"). `Settled` is checked with failing appends of waits. A wait of
  the arm that was not taken is then no longer held by its guard: its parents are
  committed, the next passes arm its timer, and it fires, so that both arms run. `OneArm`
  with `<<"guard", w>>` in `Flaky`.
* An attempt that was staged before a restart is re-admitted by `recover`
  (`state.rs:630`) without a definition: it folds to `Pending`, which is no end,
  `settle_policied_steps` takes it for minted (`state.rs:3768`), and nothing offers it. The
  launch waits for good, although `state.rs:3669` says "a recovery re-park resumes exactly
  where the journal says it was". A staged AtLeastOnce Mote that a restart or a reap cut
  off is left stuck on purpose (`state.rs:1652`), and so is everything behind it; a Mote
  crash-failed before a restart is the first observation above. `Settled` names the three
  cases as `Stranded`.
* `attempt_mote` (`state.rs:3608`) strips the policy keys and the edges and keeps the arm
  key: the attempt of a retried step that is the entry of a conditional arm is never
  leased (`state.rs:3621` says "immediately leasable").

### ReAct chains

* `recover_react_chain` (`state.rs:5910`) renders turn 0 with the budget nudge when
  `max_tool_calls` or `max_turns` is 1, while the launch built it without: the id differs
  and the turn is never offered again after a restart. `InFlightIsOffered` holds for
  larger budgets.
* `finalize_agentic_launch` counts the launch as settled after a failed append; it is lost
  until a restart. If the append of the chain's Answer fails, the launch is dead-lettered,
  and after a restart the chain may still record its answer; `AnswerTruth` is stated
  without failed appends there.
* `write_react_anchor` failing after the first turn was admitted leaves a chain that a
  retried submit takes for a duplicate and never anchors.
* `decide_approval` reports success although its append failed.
* An observation of an AtLeastOnce tool that was staged and whose worker was reaped, or
  whose coordinator restarted, is never leased again (`state.rs:762`, `1646`). It stays
  `Pending`, so `progress_tool_batch` reports the turn as active on every drain: the chain
  stays open without a fact that says so, and without a request to the operator. Only the
  late report of a worker that was slow rather than dead moves it on. `ChainSettles` names
  the case as `StuckStaged`.
* When one call of a batch fails or is denied, its siblings stay leasable.
* When two appends of a branch of one turn fail, the chain goes on past a tool turn whose
  `Tool` fact is missing: the call it gave out is neither found by the duplicate check nor
  counted. `NoRefire` and `BudgetKept` with two failed appends and no retrieval.
* A `Rejected` fact that is lost advances the chain without the re-prompt. The branch that
  finds a duplicate among the successors is not reached.

### Streams and sidecars

* The sidecars are backfilled before their task subscribes (`kx-gateway/src/server.rs:1510`;
  `kx-journal/src/watch.rs:223` asks for the other order): a commit in between is folded
  only when another one comes. For the same reason a fold that failed is not "retried next
  tick" but at the next commit.
* A fold that fails as a whole is made up for. A statement that fails inside it is not:
  `kx-gateway/src/capture.rs:157` says "A read/store fault is logged and skipped (the next
  tick retries)", but a failed INSERT is neither logged nor retried (`capture.rs:225`) and
  the watermark moves past it (`capture.rs:282`), so the row is lost. A registration whose
  `run_meta` write failed (`capture.rs:207`), or a failed read of that row
  (`capture.rs:198`), stamps later rows with no run or an older one; a failed write of the
  watermark folds the same range again from an attribution that is ahead of it. One
  failing statement is enough for each; `RowsTrue` without `fold.lost` or without
  `fold.torn` is violated in `event_tail`.
* A shutdown can wait for a client that does not read. The follower selects on the
  shutdown while it waits for a commit, but the sends of a last status
  (`kx-gateway/src/live_tail.rs:154`, `262`, `277`, `305`, `318`) wait for a slot of the
  queue, which such a client never frees, and `RunningGateway::shutdown` has no timeout on
  the drain. `live_tail.rs:56` says that the flag makes "in-flight follow loops exit
  promptly". `ShutdownDrains` without `HeldUp`.
* The last fold at shutdown can be aborted. A run's own stream carries the entries of
  every run. A `since_seq` beyond the head moves the cursor back.

### Triggers

* The ticker's snapshot can overwrite the watermark of a schedule the operator has just
  registered, so the old schedule's next time delays the new one. A failure of the old registration
  is counted against the new row and may disable it.
* Two concurrent requests for one event start two runs, of which one is the answer to
  both (`trigger_gateway.rs:457` says so; the doc of `record_fire` says that a run is
  started only when the fire was not a duplicate).
* The idempotency key is not scoped by trigger: an event of one can be answered with the
  run of another. The two updates of `record_fire_failure` are not one transaction.
* A clock set back delays interval triggers and freezes the buckets; a crash between the
  watermark and the submit misses one tick, as documented.

### Hosted Apps

* `wait_ready` forgets the child it reaped and keeps its group id, although its comment
  says that Stop must not kill a reused pid. The timeout takes the lock twice, so even a
  current task can kill the server of a newer run.
* A rebuild of a running App leaves its old port among the allowed origins, and a Stop
  between the store and the listing leaves it there until the deadline.
* Outside the model: a superseded task can overwrite `.env.local`; a partial
  `node_modules` is taken for an installed one; a late revoke of Stop can drop the token of
  a newer start; `type_check` has no timeout; nothing watches a server after it was ready;
  a gateway that is killed leaves its servers running.

## 7. Plan

Done: the modules of section 2, the runs of section 3, the theorems of section 4. Next:

1. The worker's deadline and in-flight map (a deadline that abandons a running
   effect), the work cache in front of it.
2. The coordinator's group commit: a batch appended at once and folded entry by entry.
3. The executor's `redispatch_wm_mote` with its probe, as a component of its own.

## 8. Not modelled

Payloads, hashes and codecs (a result is present or not; a verdict is a Boolean
chosen by the environment); warrants and refusals; placement scores (any order of
candidates is allowed); topology shapers and the re-plan pass of the owner thread; the
chat-rag variant of a chain and failures of the content store; the polling mode of the
journal signal, the token tail and the join of ReAct turns in the capture store; the journal migration; operating-system sandboxing;
model execution; the gateway's request surface, bindings and user interface.

The definitions are mapped to some 9,000 lines of a repository of 225,000. The rest is,
for the most part, request handlers, provisioning, formatting, codecs, model runtimes and
a user interface: code that computes a value from a request, or makes a call, and whose
faults are not in the order of steps. A state model of it would be a transliteration.
