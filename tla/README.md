# Brokoli: a TLA+ verification of runs, attempts, recovery and scheduling

Brokoli executes pipelines: directed graphs of nodes (sources, transforms,
sinks, conditions, joins, waits) whose executions are *runs*. Several engine
processes share one SQL store; there is no other shared memory. This project
models the part of the system that decides **who executes what, how often, what
is recorded about it, and who hears of it**: the protocol of a node attempt, the
life of a run, recovery after a crash, the scheduling of nodes and of runs, the
resources a node draws on, and the reporting to agents and browsers.

Paths below are relative to the repository (`src/`).

## 1. The system

| Component | State | Operations | What is hard |
|---|---|---|---|
| Execution attempts (`store/sqlite.go`, `models/execution_attempt.go`) | one row per (run, node, instance, attempt): status, claimant, lease, fencing generation | create, claim, renew, ack, complete, fail | competing claims, expiry, tokens held across a stall |
| Run row (`store/sqlite.go`, `store/store.go`) | `runs.status`, `cancel_requested`, `parked_waits` | conditional claims and cancels; a blind `UpdateRun` | conditional and blind writes to the same column |
| Engine (`engine/engine.go`) | `Engine.active`, the concurrency slots, the job queue | accept, `ExecuteQueuedRun`, `CancelRun`, `ResumeRun`, `ResumeRunFromNode` | duplicate delivery, cancel against every phase |
| Runner (`engine/runner.go`) | runtime graph, outputs, context | wave loop, `executeNode`, retries, park, finalize | parallel nodes, first error wins, routing |
| Waits (`engine/wait.go`, `engine/scheduler.go`) | park rows | park, poll, wake, timeout | stale reads of the watcher |
| Recovery (`engine/recovery.go`, `recovery_requeue.go`, `projection.go`) | the event log | sweep, reconcile, finalize, re-queue, give up | telling a dead Runner from a silent one |
| Remote instances, artifacts (`engine/expansion.go`, `instance_worker.go`, `sql_artifact_store.go`) | instance attempts, job queue, artifacts | dispatch, poll, give up, execute, store, settle | redelivered jobs, late reports, deadlines |
| Leader (`store/postgres_leader.go`) | one row: holder, lease, generation; `isLeader` in each process | take over, renew, demote, release | answers late or lost, two leaders |
| Scheduler (`engine/scheduler.go`) | cron entries, callbacks, the unique index of scheduled runs | tick, gate, dispatch, re-register, catch up | late callbacks, failover, double dispatch |
| Connection pools (`engine/connection_pool.go`) | limit, slots in use, sleepers | acquire, release | edited limits, handlers that outlive their attempt |
| Code workers (`pkg/codeexec/pool.go`) | idle workers, a count, a queue | acquire, spawn, release, reap, close | the count at the cap, lost wakeups |
| Pagination checkpoints (`engine/pagination_checkpoint_store.go`) | a records file and a position file | append, rename, load, delete | crashes between and within writes |
| Pipelines (`api/handlers_pipeline.go`, `api/change_requests.go`, `engine/dependencies.go`) | definition, versions, requests, dependency rules | edit, rollback, propose, apply, decline, delete, gate, trigger | check and save are separate statements |
| Agent triggers (`api/agent_trigger_*.go`, `store/run_event_scan.go`) | event log, cursor, deliveries, feed positions | match, enqueue, send, retry, give up, read, acknowledge | commits out of id order, two dispatchers, lost answers |
| Realtime state (`pkg/sodp`) | versioned keys, delta logs, subscriptions | apply, delete, evict, broadcast, watch, resume | lost connections, a log that forgets, slow clients |
| Data plane, HTTP API, CLI, UI, notifications, incidents, lineage, log batching | | | not modelled (section 8) |

Processes meet in the store only. The job queue delivers at least once, and the
redispatch sweep enqueues every pending run again. `CancelRun` acts in three
ways: a durable intent on the row, a local call on the Runner, and a broadcast
that may be lost. A wait node ends the execution; a watcher in the leader later
wakes the run, which executes again and reuses what succeeded. The leader also
fires the cron entries and matches events to triggers; leadership is a lease, so
for a while two processes may both act as the leader.

What makes each part correct:

* an attempt has one holder at a time, and only the latest claim can complete it;
* at most one goroutine executes a run, and a cancelled run does not start;
* a run recorded as successful ran every node, through any crash;
* a node that writes outside Brokoli is not started again by recovery;
* every node runs after its upstream, and success means exactly the nodes ran
  that the decisions lead to;
* a wake or resume keeps decisions and repeats no work;
* an item's result is the one of the attempt that was waited for;
* leaders are told apart, a tick is not lost, and a catch-up that is cut short is
  taken up where it stopped;
* slots and workers are neither leaked nor lent twice, and nobody waits for ever;
* a resumed fetch has every record once;
* a stale change request is not applied, and dependencies stay acyclic;
* no event and no change of state is missed by those who asked for it.

`PROJECT.json` lists every component, and under `hazards` the places where one
of these could break in a way that a test would hardly reach.

## 2. Modules

| Module | Models | Uses |
|---|---|---|
| `AttemptStore` | the attempt row and its conditional updates, as pure operators | |
| `ExecutionAttempt` | one attempt under competing Runners, recovery passes and a clock | `AttemptStore` |
| `RunStore` | statuses of a run and the guards of its conditional updates | |
| `RunLifecycle` | one run: deliveries, wakes, watchers, cancellations, crashes | `RunStore` |
| `CrashRecovery` | one run whose process may die anywhere, and recovery | `AttemptStore`, `RunStore` |
| `DagScheduler` | `Runner.Execute`'s wave loop, and reuse across wakes and resumes | |
| `InstanceDispatch` | the items of a mapped node on remote workers | `AttemptStore` |
| `Leadership` | abstract: what the election promises the scheduler | |
| `LeaderElection` | the row, lease and clocks; implements `Leadership` | `Leadership` |
| `Scheduling` | cron, catch-up and dispatch on several instances | `Leadership` |
| `ConnectionPool` | a connection's slots and the attempts that wait for them | |
| `CodePool` | warm interpreters, their cap and their queue | |
| `PaginationCheckpoint` | a fetch, its two files, its crashes and resumes | |
| `ChangeRequests` | a pipeline's edits, versions and change requests | |
| `PipelineDependencies` | rules between pipelines, gate and trigger | |
| `AgentTriggers` | matching, sending and retrying of deliveries | |
| `AgentFeed` | an agent's reading of its feed | |
| `LiveState` | a key of the realtime state and its watchers | |
| `RunLifecycleProofs`, `CrashRecoveryProofs`, `DagSchedulerProofs`, `SchedulingProofs` | theorems on the module of that name | |
| `SharedRowsProofs` | theorems on `ExecutionAttempt`, `ChangeRequests`, `PipelineDependencies` and `InstanceDispatch` | `MCSharedRows` |
| `CoordinationProofs` | theorems on `LeaderElection` and `AgentFeed` | `MCCoordination` |
| `NodeResourcesProofs` | theorems on `ConnectionPool`, `CodePool` and `PaginationCheckpoint` | `MCNodeResources` |
| `ReportingProofs` | theorems on `AgentTriggers` and `LiveState` | `MCReporting` |
| `MC*` | constants for TLC, and unions of modules in one run | |

Operators under a comment "Faulty variant" are plausible mistakes in one
definition. They are no part of a specification: they serve to show that the
properties notice them.

Four `MC` modules (`MCSharedRows`, `MCNodeResources`, `MCCoordination`,
`MCReporting`) hold several modules that share no state. A variable `part` is
chosen in the initial state, only that part moves, and the others keep their
initial values: the state space is the sum of theirs and not the product. Each
property is about one part, and fairness is stated for the steps of each part.

### ExecutionAttempt

A Runner goes `idle -> created -> claiming -> claimed -> running -> returned ->
done`, the steps of `executeNode` that touch the row; `claiming` is the gap
between the UPDATE and the SELECT of `ClaimAttempt`, in which the generation it
reads may already be a later one. `Renew` is the tick of the renewal goroutine,
which lives until the attempt's context ends. `ListExpired` and `Reclaim` are
the two halves of `reconcileExecutionAttempts`. `granted` and `until` are
history: what the row really gave a Runner. Any Runner may stall between any two
steps, or die. `returning` is the store: Postgres' claim returns the generation
with the UPDATE, and there another process' sweep may put the run on offer while
this one executes it, so that two Runners of a run meet in one process;
`ExecuteQueuedRun` does not look at `Engine.active` first (divergence 11). SQLite
reads the generation with a second statement, and its one process sweeps for
itself.

### RunLifecycle

An `Exec` is a goroutine that may come to own a Runner: the delivery of a job, a
wake, or the local path of `runPipelineAsyncOpts`. Every store call of
`ExecuteQueuedRun`, `WakeParkedRun`, `parkRun`, `pollParkedWaits`,
`TimeoutParkedRun` and `CancelRun` is a step of its own, because another process
can act between any two of them. Conditional updates use the guards of
`RunStore`; `UpdateRun` writes whatever the row says. A wave of nodes returns
any outcome. The hooks for an external claim and for handing a wake to another
worker are nil in this repository and left out.

### CrashRecovery

The event log is kept as what `ProjectRun`, a left fold, has made of it. Nodes
run one after the other. A Runner's steps are the durable writes between which a
crash matters; the started event, the ack and the start of the handler are one
step, and so is a reconciliation (its inner race is `ExecutionAttempt`'s). Time
is three facts that only get older: a lease expires, the run is old enough, the
last genuine event is no longer recent. A Runner in the middle of a transition
keeps its log recent; one that waits for a slot or for a retry's back-off does
not. A pass that gives a run up closes the one NodeRun it blames, which is
logged, before it writes the run's row (`CloseDangling`): a death in between
leaves a definite failure for the next pass. Skipped nodes and failing store
calls within a pass are left out. A pending run may be claimed at any time.

### DagScheduler

Node `i` is the `i`-th of the pipeline's list, whose order is unrelated to the
edges. The scan over the list, with its repeated passes, is modelled node by
node; a wave's goroutines are admitted in the order of `ready` and complete in
any order; the first error counts in the order of completion; edges are released
after the whole wave. `rows` holds, for each run of a lineage, the statuses of a
node's rows; `saved` the condition results in its events; `settled` the nodes
whose attempt row is settled in the current run. A node's retries are one
execution, and two identical edges are one. Pipelines below IR 2.1 have no
conditional edges and are the pipelines without condition nodes. A process does
not die here.

### InstanceDispatch

The Runner creates and claims an attempt row for an item, enqueues a job that
carries its token, and polls the row until a deadline. A worker acknowledges,
executes, writes the artifact under (attempt, generation) with
`WriteArtifactFenced`, and settles the row; each is a step. A job that fails goes
back to the queue, one whose worker falls silent is delivered to another. The
Runner's process may die, and the run then executes again from attempt 0.

### Leadership, LeaderElection, Scheduling

`Leadership` says what the rest of the system may rely on: a generation is
granted to one instance, which learns of it and believes in it until it learns
otherwise or ends. Two may lead at once. `LeaderElection` has the row, a clock
that is read before the statement is sent, and statements that run late, fail,
or run with their answer lost; `ImplementsLeadership` is the refinement (the
row's generation is the highest granted one). `Scheduling` extends `Leadership`
and adds the cron entry of a pipeline in every process, ticks, callbacks that ask
who leads and dispatch later, re-registration as a removal and an addition, the
catch-up at boot, and the index that makes a scheduled run of an interval unique.
A catch-up goes through its slices one by one, from the oldest; a dispatch may
fail, and the rest goes on; the process may end in between. `promised` has the
slices that a catch-up set out to dispatch, until a dispatch of theirs fails, a
tick goes ahead of them, or a later catch-up finds them too many; `failed` has
those that failed. Without `catchup` at most one slice is owed, the one after the
newest run, if it is not a day old. Runs by hand are left out: fifty of them in a
row hide the newest slice from a catch-up.

### ConnectionPool, CodePool, PaginationCheckpoint

`ConnectionPool`: `Acquire` with its look at the count, its sleep on the
condition variable and its alarm when the context ends; the handler's goroutine,
which releases; the timeout, the grace period, the retry or the giving up of
`executeNode`. The limit is edited at any time.
`CodePool`: acquire takes an idle worker, reserves a place and spawns outside
the lock, overflows to a one-shot worker, or queues; release, the reaper, Close.
`PaginationCheckpoint`: pages are fetched in order; a save appends to the file of
records and renames the position over the old one; a write can tear, a call can
fail, the process can die between any two steps; a retry, a re-queued run or a
resume loads what there is. A torn row has no newline: the next append glues its
first row to it (`Glued`), and the file cannot be read any more.

### ChangeRequests, PipelineDependencies

A definition is the set of changes it contains. A save stores the row, then the
version, and applying a request checks, saves and settles, all without a lock;
an editor, a rollback and two appliers act in between. Each reading of the
version may fail, and then counts as 0. `PipelineDependencies` has
saves with their cycle check, deletions that refuse, decouple or cascade, the
gate of a dispatch and the fan-out of triggers at the end of a run.

### AgentTriggers, AgentFeed, LiveState

`AgentTriggers`: ids of events are drawn before their transactions commit. A pass
reads above the cursor and, again, a recent margin; records deliveries one by
one; moves the cursor; posts what is due. An event whose run or pipeline cannot
be read is passed over (`PassOver`), another failing statement ends the match and
leaves the cursor; the trigger may be removed, which leaves its deliveries. Two
dispatchers overlap when the lead changes during a pass. `AgentFeed`: matching passes and raised events read the
clock and record later; the agent reads pages and acknowledges by position, and
answers can be lost. `LiveState`: a key's value is the set of changes it is made
of; a change is applied under the store's lock and broadcast after it; a session
subscribes, reads the state and queues it in three steps; a resume reads the
deltas, subscribes and replays them. `raced` remembers a change that was
broadcast while a resume of the client was handled, or before an earlier one.

## 3. Runs

| Run | Expect | Shows |
|---|---|---|
| `SharedRows` | pass | attempts: exclusive lease, own token, truthful completion, settled is final. Items: the result used is the awaited attempt's and is on record. Requests: a stale one is not applied, decisions are not overwritten, what was applied is in the history. Dependencies: no cycle, no dangling rule |
| `RunLifecycle` | pass | one executor; a run on offer is unowned; cancelled on the queue never runs; an early cancel is not forgotten |
| `CrashRecovery` | pass | recorded success is true; nodes that write outside are started by one execution only, unless a re-queue was written too early |
| `CrashRecoveryOrphan` | pass | an orphan whose claim is logged is recovered |
| `DagScheduler` | pass | no stall, double resolution or missing decision; upstream first; ends as routed |
| `DagSchedulerReuse` | pass | decisions and work survive wakes and resumes; success is earned; Execute ends |
| `Scheduling` | pass | leaders' generations differ; a catch-up leaves no hole behind; a tick that fires on a leader gets its run |
| `NodeResources` | pass | slots are held by handlers, one handler per node, no lost wakeup; workers are counted and none outlives the pool, callers go on; a resumed fetch is exact |
| `Coordination` | pass | `LeaderElection` implements `Leadership`, a second leader only after a lapse, a leader is found again; the durable intent alone stops a Runner; an expansion ends without workers; an agent that reads gets everything and acknowledges nothing else |
| `Reporting` | pass | no event is missed; the deliveries of a trigger end and stay ended; a watching browser was handed every change |
| `RunLifecycleStranded` | violation | a waiting run may lose its park row |
| `DependencyTrigger` | violation | a trigger rule on `succeeded` is fired by an upstream that failed |

`CHECK_DEADLOCK FALSE` throughout: every run comes to an end at which nothing is
left to do, and the clock and the bounded counters stop. Every property of a
passing run has a mutant in `PROJECT.json`, a faulty variant of the code that
violates it.

### Bounds

* `SharedRows`. Attempts: three Runners, two of them in one process, both
  stores, a recovery pass, and time for two lease terms and more
  (`LeaseDuration = 1`, `MaxTime = 4`): a claim, its expiry, a second claim and
  the first Runner's late steps fit. Items: one, with a retry, a second
  execution and one redelivery. Requests: one, an editor and two appliers, four
  versions: the first, an edit, an apply and what overlaps it. Dependencies:
  three pipelines, three edits one at a time, enough for a cycle of three.
* `RunLifecycle`: three executions in two processes, so that a delivery, its
  duplicate and a wake coexist; one cancellation, one watcher, one crash.
  The theorems cover any number of each.
* `CrashRecovery`: two nodes that write outside; one retry, one re-queue, one
  crash. Two deliveries in different processes and a third that sweeps: a pass
  can decide to re-queue and write it after a node has started, and after a
  Runner that only waited. `early`, a history variable, remembers that. `CrashRecoveryOrphan` has two crashes, no retry and no user.
* `DagScheduler`: all 6073 valid pipelines of four plain, condition and join
  nodes; four are enough for a chain of skips listed against its order, a
  diamond, and a join behind a branch. `DagSchedulerReuse`: four pipelines that
  combine waits, branches and joins, with three runs in a lineage and a wake.
* `Scheduling`: two instances, two generations, three ticks, three boots, every
  mishap: a failover, a callback after the next tick and a catch-up of two slices
  that is cut short, overlaps it or is resumed by the other instance. The theorems
  about it have no bounds.
* `NodeResources`: two nodes on a connection with limit none or one and a retry
  each; three callers, two places, two sub-pools, workers that serve twice; three
  pages saved one by one, two resumes of one run, two faults.
* `Coordination`: two instances, a lease of one unit and statements up to two
  late, so that a lease lapses under a statement; two executions and a cancel;
  one item, two executions, one attempt with a retry; three deliveries of two
  writers and pages of two.
* `Reporting`: two events about two runs, two dispatchers, a margin of two units
  and transactions open for up to one, one mishap (a death, a failing statement or
  the trigger's removal); one browser that
  connects twice, two mutators, a log of two, a buffer of two, three changes: a
  resume, a log that has forgotten, a buffer that overflows, and broadcasts that
  overtake each other fit. `WatchInv` was also checked with three connections.

Type invariants (`TypeOK`, `LeadershipTypeOK`) are defined in every module and
can be added to any configuration; those of `ExecutionAttempt`, `RunLifecycle`,
`CrashRecovery`, `DagScheduler` and `LeaderElection` are proved.

### Fairness

* `RunLifecycle` (`IntentIsEnough`): weak fairness for the steps of each
  execution. Nodes return because every attempt has a timeout, and a slot is
  freed when a run ends. Nothing is assumed of messages, watchers or users; the
  polls of the intent belong to the execution's own loop. `FairEverywhere` adds
  the queue, the watchers and `CancelRun`.
* `CrashRecovery!FairSpec`: executions, sweeps and time go on. No crash and no
  cancellation is ever forced.
* `DagScheduler!FairSpec`: `Execute` goes on.
* `LeaderElection`: time passes, and every running instance keeps trying (its
  loop has a ticker); nothing is assumed of stops, boots or the database, and
  `LeaderReturns` is about times when the database answers.
* `InstanceDispatch`: the Runner's dispatch goroutines go on, because each wait
  has a deadline. Nothing is assumed of workers or the queue.
* `ConnectionPool`: goroutines run, timers and deferred releases happen; a
  handler may hang for ever. `CodePool`: a caller goes on and an execution ends,
  because it has a timer.
* `AgentTriggers`: tickers fire, time passes, transactions end; nothing is
  assumed of receivers. `AgentFeed`: the agent keeps reading (weak), and an
  answer gets through now and then (strong, since answers can be lost in
  between).

## 4. Proofs

TLAPS proves the following for every value of the constants that satisfies the
named assumptions. These say what kind of thing a constant is (a map from
executions to processes, a null value outside the sets, a positive lease term,
numbers for the bounds; `SharedRowsAssumption`: there are finitely many
pipelines; `ReportingAssumption`: a delta log has room for a delta) and, for
`DagScheduler`, that a pipeline passed the validation which `Execute` relies on
(`Valid`: no cycle, branches at condition nodes only, one input of a condition
and two of a join). Every inductive invariant was checked with TLC on the
configurations of section 3 before it was proved. Each invariant and each action
property that a run checks is stated by a theorem.

* **`SharedRowsProofs`, the attempt**: `TypeCorrect`, `LeaseIsExclusive`,
  `TokenIsAlwaysOwn`, `CompletedIsTrue`, `SettledStaysSettled`. The inductive
  invariant `IInv` adds to the properties that a process has one live Runner of
  the run, a queued row was never claimed, generations are granted once and not
  beyond the row's, the row's lease covers what its claimant was promised, and a
  Runner the row has moved on from is not its claimant (`SupersededElsewhere`).
  The last is why the token is safe: a Runner that read a later claimant's
  generation is stopped by the claimant test of `AckAttempt`. Where the claim's
  UPDATE returns the generation there is nothing to stop (`ReturnedIsOwn`), and two
  Runners of a process may meet. `LeaseExclusive`
  is not inductive without `LeaseCovers`: a renewal that moved the row's lease
  back would break a promise without any claim.
* **`SharedRowsProofs`, change requests**: `RequestsSettled`. `ChangeInv`: a
  request that has been made keeps what it proposed, and an apply stores that;
  what is settled as applied is in the history at its version; a request whose
  base is the latest version was compared with what is stored, unless a save has
  stored a definition and not yet its version. The last is what a conflict check
  by version numbers relies on, and what `raced`, `unversioned` and a base of 0
  take from it (divergence 25).
* **`SharedRowsProofs`, dependencies**: `DependenciesAreSound`. The walk up the
  rules is a recursive function that stops after as many steps as there are
  pipelines. `AboveIsLeast` shows that it has then found the least set closed
  under the rules: a step that adds nothing is the last (`WalkIsDone`, by the
  cardinality of what is left). With that, a cycle after a save goes through the
  pipeline that was saved, and looking up from that one alone is enough
  (`WalkFromOneIsEnough`); a deletion that takes rules away closes no cycle
  (`FewerRules`), and a cascade leaves nobody who depends on what is gone.
  `RequestIsCurrent` says that what a request has read still holds when it writes.
* **`SharedRowsProofs`, remote items**: `ItemsTakeTheirOwnResult`. `RunnerInv`
  says what the Runner may believe of the row at each place of its loop, `WorkIsClaimed`
  that every job in the queue and every delivery carries a generation that was
  granted, `WroteIsOnRecord` that a worker that is about to complete an attempt
  has a result of that attempt or a later one on record. Records and grants only
  grow (`Grows`, `KeepsRecord`), so a late worker takes nothing back; two frame
  lemmas (`RunnerFrame`, `ResultFrame`) reduce each action to that.
* **`RunLifecycleProofs`**: `TypeCorrect`, `RunIsExecutedOnce`,
  `ClaimableRunIsUnowned`, `CancelledOnQueueNeverRuns`,
  `EarlyCancelIsRemembered`. `OneExecutor` rests on `ClaimableIsUnowned`: a claim
  succeeds only on a pending or waiting run, and such a run has no owner.
  That in turn needs to know what a Runner is about to write by phase
  (`ResultOfPhase`: only the last step of a park makes the run claimable), and
  that blind writes by others are terminal. `QueuedNeverRan` and `NotYetRan`
  carry the two cancellation theorems.
* **`CrashRecoveryProofs`**: `RecoveryTypes`, `RecordedSuccessIsTrue`,
  `UnsafeNodesRunOnce`, for any pipeline and any number of processes, deliveries,
  passes, crashes and retries. `RecoveryInv` has two halves. `SuccessInv`: whoever
  says that a node or the run succeeded, the log, a Runner, a pass or the row, is
  right; it includes what a pass has concluded and not yet written. `RowsOK`,
  `StartsOK`, `OneSurvivor`: an execution that started a node holds the lease of
  its first attempt or has settled it, so that a second one cannot start the node
  while the first lives. `RequeueOK`: while no re-queue was early, a pending run
  has no live Runner, and the one that started a node which writes is the only
  one left. The proof attempt is what showed that the property, as it stood
  before, was false beyond the bounds of its run: see divergence 11.
* **`DagSchedulerProofs`**: `SchedulerTypes`, `RoutingNeverBreaks`,
  `RunsAfterUpstream`, `SuccessFollowsRouting`, `LineageKeepsBranch`,
  `LineageRepeatsNothing`, `SuccessWasEarned`, for every set of valid pipelines.
  Routing: the two counters of a node are the numbers of its unresolved and its
  active inputs, an edge is resolved by what became of its source (`GraphOK`),
  and a node is queued, executed or skipped for the reason the edges give
  (`RouteOK`). A scan that made no progress has found nothing to settle
  (`ScanOK`); with a pipeline that has no cycle there is then nothing left
  (`StalledIsDone`), which is why `Execute` never stalls. Reuse: `KeptOK` says
  that there is a set of nodes, closed under the decisions that led to it, which
  is reused with the decisions it had; a wake or a resume removes from it what is
  to be decided again, closed downstream (`AgainStep`). What was routed around
  before a park is routed around again (`SkipOK`). The order in which the rows of
  a node are read is left open.
* **`CoordinationProofs`, the election**: `LeaseIsRespected`, `ElectionRefinesLeadership` (the
  refinement of `Leadership`, step by step), `LeadersDiffer`. `ElectionInv`: the
  row names the instance that has the latest generation; its lease is what the
  holder's last renewal wrote, and whoever was overtaken had let its own lease
  pass (`LeaseOK`), because the clock is read before the statement is sent.
* **`CoordinationProofs`, the feed**: `FeedAcknowledgesTheRead`. `FeedInv`: as
  long as deliveries are recorded in the order of their instants, whatever is
  recorded and is not after the position that the agent has read to was handed to
  it (`HandedUpToCursor`), and a page in flight has the first deliveries behind
  its start (`PageIsFirst`).
* **`SchedulingProofs`**: `LeadersAreToldApart` (of everything that implements
  `Leadership`), `SchedulerKeepsLeadership` (`Scheduling` composed with it is
  still `Leadership`, a refinement for every value of the constants),
  `SchedulersAreToldApart`, `CatchUpLeavesNoHole` and `NoTickIsLost`.
  `GenerationsDiffer` becomes inductive when it also speaks of instances that
  hold a generation they have not learned of yet (`GenInv`). `OwedInv` is what the
  last one needs: an entry that has fired since it was registered has fired at
  the latest tick, and a slice that is owed and has no run is the latest, so the
  callback that asks late still dispatches it. `HoleInv` is what the catch-up
  needs: whoever is to dispatch a slice has every older one that is promised and
  has no run still before it (`HoldsOlder`), and one that is promised and was
  passed over is newer than whatever has a run (`PassedOver`).
* **`NodeResourcesProofs`**: `SlotsAreCounted`, `AttemptsDoNotOverlap`,
  `WorkersAreAccountedFor`, `FetchesAreExact`, from one invariant for each part.
  `ConnInv`: an attempt before the current one has no running handler, one after
  it nothing at all, and a limit that a node has read is one the connection has
  had. `CodeInv`: a channel in the queue belongs to one caller, who waits on it
  (a caller that is woken twice would be counted twice), and the workers are
  counted by their places in the lists, also through the reaper, which shifts
  them. `FetchInv`: a clean file holds exactly the first pages, as many as its
  position counts, unless a save or a delete is between its two halves, and then
  the run that is there is the only one at work on it. A file that can be read has
  no torn row in it, so that what is appended to it stays as it is (`GluedIs`); of
  one that cannot nothing is said, and nothing is loaded.

* **`ReportingProofs`, triggers**: `TriggersMissNothing`, for a margin greater than the
  longest transaction (`MaxOpen < Margin`) and passes that do not stall, the two
  conditions the code takes for granted (divergence 20); `TriggersKeepFinished`.
  `MatchInv` (`Asked`): an event committed before the current unit of time has been
  asked about, or passed over, once a whole match was made in it, is in the batch of a
  match under way, and one older than that was asked about or passed over in any
  case, as long as the trigger is there. `SendInv`: what a
  dispatcher is about to post is pending, unless another one has posted meanwhile.
* **`ReportingProofs`, the watch**: `WatchersAreCurrent`. `WatchInv`: the log goes up and has
  whatever the value is made of from its first delta on (`LogIsComplete`);
  `DeltasSince`, a recursive function, returns the later ones, all of them and in
  order (`DeltasAreSelected`). Whatever the value is made of is handed to a client that
  watches, queued for it, read for it, or yet to be broadcast (`NothingIsLost`).
  For a resume this is not enough: a version that the client will remember must
  come after all that is older (`SendInOrder`, `ReadInOrder`, `SeenIsHanded`). The
  attempt to prove it showed that the property needed the third exception of
  divergence 24.

The proofs have a lemma for the initial states, one for the types where needed,
and one for every action or group of actions that leaves the invariant intact in
the same way; frame lemmas (`MoveStep`, `CallerStep`, `FetchFrame`, `QuietStep`)
carry what an action does not touch. The library's induction over the naturals
takes an operator, which the provers cannot instantiate; `NaturalsFollow` gets it
for sets of naturals from their least elements (`WFMin`), and `WalkExists` and
`SelectionExists` show with it that the recursive functions are what they say.

Model-checked only is liveness (`IntentIsEnough`, `LoggedOrphanRecovered`, `ExecuteEnds`,
`LeaderIsFound`, `ItemsEnd`, `FeedIsRead`, `NodesAndCallersGoOn`, `DeliveriesEnd`): fairness and ENABLED are out of the prover's reach.

## 5. Divergences

TLC refutes the following statements of the code, its comments or its tests.
The first two are kept as runs.

1. `WaitingHasWaker` (`engine/scheduler.go:746`). The watcher reads the run as
   running; the run parks; the watcher deletes the new row as stale.
2. `TriggersInTargetState` of `PipelineDependencies` (`engine/engine.go:1023`).
   The fan-out looks at a rule's mode and not at its state
   (`models/dependency.go:26`: "when the dependency transitions into the target
   state"): a rule on `succeeded` is fired by an upstream that failed.

The others can be checked again by naming them in a configuration. Where a
property of a run has an exception, it is because of one of these.

3. `OrphanRecovered` in `CrashRecoveryOrphan.cfg` (`engine/recovery.go:357`). A
   crash between `ClaimPendingRun` and the claimed event: every sweep takes the
   run for pending, the redispatch sweep sees it running.
4. `ClaimNeverRefused` in `CrashRecovery.cfg` (`engine/runner.go:1054`). A
   re-queued run starts at attempt 0 and meets the settled rows of the
   interrupted execution.
5. `StallIsReal` in `DagSchedulerReuse.cfg` with `Pipelines <- OneBranch`
   (`engine/runner.go:536`). When the scan itself skips the last nodes the run
   fails as stalled with an empty list of unresolved nodes.
6. `DownstreamIsRerun` in `DagSchedulerReuse.cfg` with `Pipelines <- Chain`
   (`engine/engine.go:1672`). A run resumed from a node fails early; resuming it
   takes the nodes it did not reach from the older run.
7. `NoLiveLeaseReclaimed` in `SharedRows.cfg` (`engine/recovery.go:552`): a lease
   that recovery listed as expired is renewed before it is failed; "recovery must
   not steal that work".
8. `ParkedIsReclaimable` in `SharedRows.cfg` (`engine/runner.go:1533`): a renewal
   tick puts back the lease that the park dropped.
9. `CancelledStays` in `RunLifecycle.cfg` (`engine/engine.go:640`): the Runner's
   result lands after the cancelled status; "both record cancelled, whichever
   lands last".
10. `CancelConverges` in `RunLifecycle.cfg` under `FairEverywhere`
    (`engine/engine.go:1407`): a delivery that fails before its claim records
    failed over a recorded intent.
11. `OneLiveRunner` in `CrashRecovery.cfg` (`engine/recovery_requeue.go:187`): a
    Runner that waits for its slot or for a retry holds no lease and logs
    nothing, and is re-queued while it lives. `NoRiskInRequeue`
    (`engine/recovery_requeue.go:26`): a pass decides that no node has started,
    such a Runner starts one, and the re-queue is written; when its process then
    dies, another execution starts the node again. `UnsafeRunsOnce` states what
    is left: this takes an early re-queue and a death.
12. `FailedVerdictIsFinal` in `CrashRecovery.cfg` (`engine/recovery.go:424`): the
    failed attempt of a live run that is about to retry counts as definite.
13. `CancelNotRewritten` in `CrashRecovery.cfg` (`engine/recovery.go:431`): a
    failed node counts as a definite failure after a crash, whatever the cancel
    intent of the run: one that the cancel itself has stopped, and the one that
    a pass has closed when it dies before it writes the run's row
    (`engine/recovery.go:460`).
14. `SucceededIsReused` in `DagSchedulerReuse.cfg` with `Pipelines <- TwoWaits`
    and `MaxWakes = 3` (`engine/recovery.go:703`): a wait that parked and then
    succeeded has two rows for attempt 0, read without an order.
15. `LateJobIsDropped` of `InstanceDispatch` (`extensions/interfaces.go:373`): a
    refused completion is reported as a failure of the job, which is delivered
    again. `CompletedIsNotRepeated` (`engine/expansion.go:370`): the deadline
    passes between the worker's completion and the poll, and the retry executes
    the item again.
16. `WaitIsNotTimed` of `ConnectionPool` (`engine/runner.go:1148`): the attempt's
    deadline is set before the wait for a slot. `SucceededIsNotRetried`
    (`engine/runner.go:1254`): an answer within the grace period is dropped and
    the attempt retried.
17. `BlocksUntilASlotFrees` of `CodePool` under `FairSpec`
    (`pkg/codeexec/pool.go:124`): the reaper wakes nobody, and the turn of a
    caller that gave up is lost.
18. `ResumedResultIsExact` of `PaginationCheckpoint`
    (`engine/pagination_checkpoint_store.go:199`): a save appends behind rows that
    an interrupted save left, and the position then counts them in.
19. `NoSliceIsSkipped` of `Scheduling` with `MaxGen = 3`, `MaxSlots = 3`,
    `MaxCatchUp = 3`, `Mishaps = {}` (`engine/scheduler.go:148`): a tick between
    two leaders is nobody's, and the next catch-up starts behind it. The same
    happens to what a catch-up has not come to when a tick is dispatched beside
    it and the process ends: `NoHoleIsLeft` excepts that.
20. `NoEventIsMissed` of `AgentTriggers` with `MayStall = TRUE`
    (`api/agent_trigger_dispatch.go:40`): a pass can take longer than the margin.
    `DeliveredStays`: the answer to a deposed dispatcher is recorded over its
    successor's.
21. `EveryDeliveredWasHanded` of `AgentFeed`
    (`api/agent_trigger_deliveries.go:29`): an event raised during a matching
    pass is read first and acknowledges what the pass records after it.
22. `UnseenIsNotOverwritten` of `ChangeRequests` (`api/change_requests.go:15`):
    the base is the version at the creation of a request, not the one its author
    read; and check and save are separate statements.
23. `NeverACycle` of `PipelineDependencies` with two `Callers`
    (`engine/dependencies.go:155`): two saves pass the check before either is
    stored.
24. `ResumeLosesNothing` of `LiveState` (`pkg/sodp/server.go:538`): a resume reads
    the deltas before it subscribes, and a change broadcast in between is in
    neither; nor is one that is broadcast to a session that has subscribed again and
    not had its STATE_INIT, when the connection goes before that does. With two
    `Mutators`, and `pkg/sodp/server.go:580`, broadcasts can overtake each other,
    and the client resumes from the higher version. The Bridge is a single
    goroutine; open mode, in which sessions change state, is not.
    `EveryChangeIsHanded` states what is left.
25. `UnknownBaseIsRefused` of `ChangeRequests` (`api/change_requests.go:548`): the
    version of a pipeline whose list of versions cannot be read is 0. A request
    that is made at such a moment and applied at another is compared 0 with 0, and
    replaces whatever was saved in between. `AppliedVersionIsKnown`
    (`api/change_requests_test.go:150`): read after the save, the 0 is recorded as
    the version of the applied request.
26. `FailedSliceIsOnRecord` of `Scheduling` (`engine/scheduler.go:470`): "the
    failure is recorded on its run". When `RunPipelineOpts` fails before it has
    created the run there is none, and the next catch-up starts behind the slice.
27. `ClaimedIsOnDisk` of `PaginationCheckpoint`
    (`engine/pagination_checkpoint_store.go:103`): the position "never claims more
    records than are actually on disk". A save behind a torn row loses its first
    row in it and counts it. The comment at :135 has `ReadNDJSON` stop at a row
    that it cannot parse; it returns an error (`engine/ndjson_transfer.go:137`),
    and the checkpoint of a torn append is not loaded.
28. `EveryEventIsConsidered` of `AgentTriggers` (`api/agent_trigger_dispatch.go:278`):
    `match` goes on past an event whose run or pipeline cannot be read, and the
    cursor passes it. The margin makes up for it, unless that was its last pass.
29. `RemovedAreSkipped` of `AgentTriggers` under `FairSpec`
    (`api/agent_trigger_deliveries.go:224`): `Due` reads deliveries of triggers
    that exist, and removing one leaves its deliveries. They stay pending:
    `deliver` skips with "the trigger was removed" only those that `Due` has read
    before.

## 6. What could be wrong with the models

* One run, one attempt, one lineage, one pipeline or one key at a time:
  interactions of runs through slots are not seen, except where nodes of several
  runs share a connection.
* Clocks: `ExecutionAttempt` and `LeaderElection` have one clock for all
  processes; skew between processes is not modelled.
* Data is opaque: that a restored artifact is the right one is assumed.
* The parts of a union run do not interact. In the code they do so through the
  modelled rows only: `Scheduling` stands on `Leadership`, the others on
  `AttemptStore` and `RunStore`.
* SQL statements are atomic and see the latest committed row, as with SQLite or
  Postgres' default isolation for single statements. `store/postgres.go` repeats
  the statements of `store/sqlite.go`; the map names one of them.

## 7. Plan

Done: the modules of section 2, and a theorem for every safety property of a run.
What could come next:

1. the hazards that `PROJECT.json` lists without a property of their own, once the code
   decides what it promises there (divergences 3, 4, 18, 21, and 24 to 29);
2. Backfills, as a part of `Scheduling` with a list of intervals;
3. incidents and their single-statement transitions, as a part of `SharedRows`.

## 8. Not modelled

* **Node handlers and the data plane** (connectors, transforms, Arrow and NDJSON
  streams, SQL dialects): input, output and conversion. The models see a handler
  as an outcome.
* **HTTP API, CLI and UI**: requests are decoded, authorized and passed to the
  operations that are modelled.
* **Alerts, incidents, notifications, hooks, lineage, log batching**:
  consequences of terminal events, single conditional statements or best effort.
* **Backfills** (dispatches over a list of intervals), time zones, remote
  pagination (a single work order, dispatched as an item is), presence and calls
  in the realtime state, and the pruning of old rows.
* **Enterprise extension points** that are nil in this repository.

Most of the repository's lines are of these kinds. The share of lines that the
map covers is small for that reason, and because a definition is mapped to the
lines that decide something and not to the scanning, logging and formatting
around them.
