# NeoPi agent runtime: TLA+ models

NeoPi (`packages/coding-agent`) is a coding agent that runs many agents in one
process: a root session, the subagents it spawns, their background jobs, and the
messages between them. The difficult part of the program is not what one agent
says to a model but who owns what while agents are started, parked, revived,
killed and torn down concurrently. This directory models that part in TLA+,
checks it with TLC and proves its main invariants with TLAPS. All source paths
below are relative to `packages/coding-agent/src/`.

## 1. Inventory

| Component | State it keeps | Operations | What is hard |
| --- | --- | --- | --- |
| Agent registry (`registry/agent-registry.ts`) | id -> `AgentRef` (status, session, run generation) | `register`, `registerIfAvailable`, `reopen`, `attachSession`, `detachSession`, `setStatus`, `unregister` | every check is on the identity of a ref that may have been replaced |
| Agent lifecycle (`registry/agent-lifecycle.ts`) | `#adopted`, `#parks`, `#revivals`, `#reopens`, `disposedRoots`, timers | `adopt`, `park`, `ensureLive`, `release`, `disposeRoot`, `reclaimDeadCorpse` | each operation awaits in the middle, and any other may run there |
| Session construction and disposal (`sdk.ts`, `task/executor.ts`, `task/persisted-revive.ts`) | the session object and its claim on an id | `createAgentSession`, the dispose wrapper, the two revivers, `finalizeSubagentLifecycle` | failure after half of the state is published |
| Session lease (`session/session-lease.ts`) | OS gate, holder record, `heldLeases` | `acquireSessionLease`, `retain`, `release`, `inspectSessionLease` | several processes, death at any point, a record that outlives its writer |
| Spawn semaphore and provider cap (`task/parallel.ts`, `task/spawn-run.ts`, `task/provider-concurrency.ts`) | `#max`, `#current`, `#queue` | `acquire`, `release`, `resize`, abort of a waiter | the limit moves while callers wait, waiters are aborted |
| Async job manager (`async/job-manager.ts`) | jobs, deliveries, suppression, watches, timers | `register`, `cancel`, `watchJobs`, `consumeJobResults`, delivery with retry, eviction | a result must reach the owner once, although ids are reused |
| Yield queue (`session/yield-queue.ts`) | staged entries and their receipts | `enqueueWithReceipt`, `flush`, `drainLazy`, `clear` | an entry may become stale between staging and injection |
| IRC bus, agent awaits (`irc/bus.ts`, `registry/agent-awaits.ts`) | mailboxes, waiters, four tables of marks, holds | `send`, `wait`, `take`, `unansweredSends`, `blocksOn` | a message meets a revival, a waiter, a disposal; agents wait on one another |
| Wake turns and relays (`session/irc-bridge.ts`, `session/agent-session.ts`, `task/executor.ts`) | wake turns, observations, relays due | a message that wakes, steers or queues; `observeTurn`, the relay of a turn's output | the relay waits for jobs of the agent while somebody waits for the relay |
| Work pool (`task/workpool.ts`) | items, dispatch chain, workers and their queues, batches, the aggregate job | `push`, dispatch, `#spawn`, `#finishTurn`, `close` | an item moves between four places across awaits; a registration may be refused |
| Launch broker and presence (`launch/*.ts`) | sockets, daemon records, presence files | election; `#start`, `#stopRecord`, `#restart`, `#mode`, `#settle`, `#refreshDetached` | requests interleave at their awaits; processes outlive the broker; timers relaunch |
| Session storage (`session/session-storage.ts`, `session-manager.ts`) | transcript files, publish lock | append, publish, fork, move | mostly data; one publish lock |
| Agent session and loop, providers, TUI, native crates | - | - | large, mostly data and I/O |

The components interact like this. `task` acquires a permit of the spawn
semaphore, `createAgentSession` claims an id in the registry and a lease on the
transcript, and the executor hands the finished run to the lifecycle manager. A
message, the Hub or a tool asks the manager for the live session
(`ensureLive`), which may cancel a park, reopen a killed agent or revive a
parked one; revival runs `createAgentSession` again on the same ref. A kill, a
cancellation and the teardown of a root call `release`. Results of background
jobs travel from the job manager through the owner's yield queue into its
transcript.

What makes each component correct:

- lifecycle: the session handed out is the one attached to the ref the id
  resolves to; no live session is unreachable; a kill is final for its
  generation; one revival per ref; a torn down root leaves nothing alive but what
  nobody could tell was its own; every caller gets an answer;
- lease: one owner per file, counted references, a record that names the owner;
- semaphore: slots are neither leaked nor invented, nobody waits next to a free
  slot, the limit in force is respected;
- jobs: a result reaches the model at most once, and is never lost while its row
  is there; a result never crosses into another conversation;
- messages: nobody waits for a reply that cannot come, no two agents wait for
  each other, no end of a turn is missed, and no message is lost or doubled;
- work pool: a pushed item is held in one place, runs once and is reported; the
  workers stay within the limit; the pool drains;
- broker: a daemon name stands for one process, the one its record names; a
  timer that nobody holds never launches it again; what ended is settled.

`PROJECT.json` lists the hazards of this code line by line, with the properties
that cover each one.

## 2. Plan

Modules, in the order in which they were written. All seven exist; what each
leaves out is listed as the work that remains.

1. `AgentRegistry`, `AgentLifecycle` (+ `AgentLifecycleProofs`,
   `AgentLifecycleTypeProofs`). Left: a second id with a parent chain
   (`rootOf`), and the scan of persisted agents that reads the kill markers
   after a restart.
2. `FileOwner`, `SessionLease` (+ `SessionLeaseProofs`). Complete.
3. `Semaphore` (+ `SemaphoreProofs`). Left: the start gate of `SpawnRun` and
   `mapWithConcurrencyLimitAllSettled`.
4. `AsyncJobs` (+ `AsyncJobsProofs`): one job id with its rows, deliveries, retries, watches,
   evictions and reuse, and the owner's sink and yield queue. Left: the
   running-job cap, a session that is disposed or parked (dead letters), and an
   abstract specification, a mailbox in which each result is put once and read
   at most once.
5. `WorkPool` (+ `WorkPoolProofs`). Left: the second watcher of a batch's job
   (`workpool.ts:438`), which needs `AsyncJobs` beside it.
6. `ReplyWait` (+ `ReplyWaitProofs`): the bus, the awaits and the wake turns, as
   far as a wait for a reply depends on them. Left: mailboxes that buffer a
   failed hand-off, broadcasts, delivery that revives a parked agent through
   `AgentLifecycle`.
7. `DaemonRecord` (+ `DaemonRecordProofs`): one daemon name of the broker. Left:
   the broker's election and idle shutdown, presence files, completion
   notifications, the persistence queue and its crashes.
8. Not begun: the pause gate, the publish lock of session storage, and the
   compositions: the bus over the lifecycle, and a spawn (semaphore, lease,
   registry) end to end.

Theorem left beyond those of section 6: `NoOrphans` of the lifecycle across one
reopen of a killed agent.

## 3. Modules

### AgentRegistry and AgentLifecycle

One agent id. A ref is an object and every check of the code compares
identities, so refs are numbers handed out in order and a replaced ref keeps its
fields (stale work still holds it). `cur` is what the id resolves to. The
manager's maps have at most one entry for an id: `adopted`, `park`, `revival`,
`reopening`. `session` says what became of each session object, `claim` which
ref its dispose wrapper would unregister.

The program is single-threaded. An action is what runs between two awaits, and a
caller's position is the await it is at (`op[c].pc`):

| `pc` | where |
| --- | --- |
| `awaitKept`, `awaitPark` | `await park.promise` of `ensureLive`, with and without a cancelled park |
| `joinReopen`, `probe`, `unmark` | joining `#reopens`; `await factory(killed)`; `await removeAgentTombstone` |
| `joinRevival`, `cold` | joining `#revivals`; `await this.#persistedReviverFactory(ref)` |
| `open`, `construct`, `init` | in the reviver: before the claim, up to the attach, up to its return |
| `reject` | disposing a session that must not be handed out |
| `got` | `ensureLive` has resolved |

A continuation of a promise that has settled is a microtask and runs before any
I/O completes, hence `Quiet` in the guards of the actions that I/O enables. A
fresh call (a message, a kill) needs no I/O and may come in between.

Which root an agent belongs to is asked of the registry each time
(`registry.rootOf`, `Rooted`): `lineage` says where the registered parent links
lead, to the root, to an agent between that is not registered (`broken`, only
where `Nested`), or to a root that has forgotten its own ref (`gone`), which its
dispose wrapper does once `disposeRoot` is over (`RootLeaves`). A guard of the
teardown sees what the call looked up (`op[c].rooted`), what the adoption was
made with (`adopted.rooted`) or, for the executor, what it captured when the run
was spawned (`owner`); whoever found no root passes it (`Gone`), unless the
manager is disposed.

Abstractions: one id (no operation on one id reads the entry of another, apart
from `rootOf`), whose refs belong to one root, which is torn down once; after
`RootLeaves` another root that takes the same name is one whose descendants have no
known root; the manager that follows a disposed one is not followed, so an
adoption of an agent without a known root is there either refused or lost from
view; telemetry, history and display names are
left out; the injected factory and revivers answer nondeterministically; one
spawn of the id at a time; nobody calls a manager that is being disposed,
because `global()` never hands one out.

### FileOwner and SessionLease

Processes interleave system call by system call (`pc`), on the gate, which the
kernel frees at process death, and on the record, which outlives its writer.
`handles` are the `SessionLease` objects not yet released, `refs` the count the
code keeps. A lease whose gate could not be created (`"ungated"`) excludes
nobody, as the code says. `since` is the acquisition time that makes a record
recognisable; it is a per-process counter, and a dead pid is not reused.
`FileOwner` is the promise: one owner at a time.

### Semaphore

`acquire`, `release`, `resize` and the abort listener never yield, so each is
one action; `Acquire` and `Finish` contain the `resize` their users call first.
`RereadOnRelease` is TRUE for the spawn permit, which resizes on release as
well, FALSE for the provider cap, which does not.

### AsyncJobs

One id of the manager and the session that owns it. A generation is one job
registered under the id; `jobs[g]` is its object, `m` the manager's maps and
sets at that id: `row` is `#jobs.get(id)`, `suppressed`, `watched`, `consumed`
and `released` are the sets of these names, `timer` the eviction timer, `dlv[g]`
where the delivery of generation g is:

| `dlv[g]` | where |
| --- | --- |
| `queued`, `retry` | in `#deliveries`, due at once or backing off |
| `format` | the session's sink awaits the formatting of the text |
| `parked` | in the yield queue, the sink awaits the receipt |
| `drained` | in a thunk the agent loop holds |
| `built` | in a message that is neither committed nor discarded |

Each method of the manager is an operator from `m` to the next `m`, as the code
calls them from many places; the actions are the callers: the jobs' runs, the
tools (`wait`, cancel, a foreground command), the delivery loop, the agent loop
at its boundaries, the timers, a session transition, the cancellation of a
root's work. `epoch` is `#asyncDeliveryEpoch`. `shown` is history: in which
epochs the model was shown a result, by a tool's report or by an injected
message.

Assumptions: the retention of a row (minutes) is longer than a settled job's
waiter takes to wake up and than a delivery that is due waits for its first
attempt; the owner's session is neither disposed nor parked; only the owner's
own tool calls report the job. Deliveries are taken in any order, which
includes the code's. `PoolSpec` is the id of a work pool's aggregate job, which
the cancellation of a root's work evicts.

An id is reused. When a delivery of an earlier job is pending at that moment
(`over`), its markers and the new job's are the same, and the code makes no
promise that survives it: the properties about a result being shown once, lost
or consumed speak of the other jobs (`Clean`). Those about transitions speak of
all.

### WorkPool

One pool. `status` is the status of each item, numbered in the order of the
pushes; `chain` the items whose `#dispatch` is on `#dispatchChain`, `spawning`
says that the head of it awaits the id of a new worker (the one await of a
dispatch that lets other events in), `freshQueue` and the workers' `queue` are
where an item waits at the limit, `batches` the turns with their jobs, `poolJob`
the aggregate and `seen` how many batches it collected once drained. `Quiet`
says that a dispatch that awaits nothing runs to its end before the next event.

The limit `task.maxConcurrency` is a getter the dispatch reads each time, so
each dispatch sees any of `Limits`. Which idle or busy worker is chosen (by
context load, or in turn) is any of them. A registration is refused when other
jobs of the session fill `async.maxJobs`: `MaxFull` bounds how often. A worker
that does not come back idle from its turn (`finishDead`) is one that is gone,
was woken by a message, or whose yield contract could not be cleared. `stray`
is history: the items pushed while no aggregate waited for the drain, whose
report nobody promises.

### ReplyWait

Agents in a spawn tree. `mode` is what an agent does: `run`, `closing` (between
the bracket end of a run and its settlement), blocked in `wait` for a reply or
for jobs, or in an inline `task` call. `seq` is `#sendSeq`, the four `last*`
tables are the bus's marks (a message, a directed question, a progress note, the
result of a job), `hold` is `AgentAwaits.#holds`, `turn`, `obs` and `due` are the
monitored wake turn, the observation that outlives it and the relays it still
has to send, `subs` and `ended` what a reply wait listens to and the ends it
heard. Listeners of the registry and of the awaits run synchronously: a step
that changes a status or a hold leaves the reply waits that must look again in
`check`, and nothing else moves until they did.

`Parent` is the spawn tree, `Above` the agents above one in it: what the loop over
parents in `IrcBridge.deliver` finds. `ForestAssumption` says that nobody is above
itself, since an agent is there before it spawns another. `Reaches` is the recursive
function of `blocksOn` with its visited path, over pairs of an agent and a path. The
ms timestamps `blocksOn` compares are the order of the sends here. A queued
message says whether it asks: the relay of a turn's output and a progress note
wake and are read like any message, but their senders are no `wakeSources`, so
nothing is relayed back to them and the parent owns no job for it (`Wakers`). The 30
minutes' cap of a wait is `WaitCut`, which may come at any time and on which no
property relies. Left out: broadcasts, the operator, plan mode, advisors, failure notices,
mailbox buffering, waits of the eval tool. A message from an agent above that
steers a streaming child is delivered only outside its closing window, and read
at its next step. Cycles of three reply waits exist in the code as in the model
and end only by the cap.

### DaemonRecord

One name. `cur` is what `#records` says of it, `recs` the records started under
it: `gen` the generation, `det` and `policy` the parts of the spec that matter,
`pid` and `own` the pid and the process object, `armed` and `held` the relaunch
timers that are armed and the one the record keeps a handle of. `procs` is the
process of each generation: alive, dead but not heard, its settlement reading
the output, or told. A request is cut where it awaits: the refresh
(`look`), the death of what it terminates, the wait for the settlement, the log
files; `spawning` are the detached launches that await their output file.
`reserved` is `#startingNames`. `RecoveredThere` is the broker that starts again
and finds a detached daemon of the last one, which it knows by pid only.

`strayed` is history: a request was overtaken (the record it found stopped has
been launched again or replaced since), or a refresh or a stop met a detached
launch that awaits its output file. From then on the broker may have lost a
process, as section 5 tells, and the safety properties promise nothing.

Abstractions: "starting" and "ready" are running; a PTY is a process whose pid
is known at once; the refreshes `waitUntil` makes itself are those of the
monitor; two refreshes in a row of a replacing start are one. Assumptions:
`terminate` kills within its time, the streams of a process end with it, and the
time-out of a wait may come at any time after the kill.

## 4. Runs

| Run | Question | Bounds |
| --- | --- | --- |
| `lifecycle_kill` | do kills, reopens, revivals, parks and a respawn keep sessions reachable, answers current and kills final | 2 callers, 2 refs, 3 sessions, 1 further turn, one kill; an isolated run; a reviver that does not detach on failure; a direct child of the root (477,092 states) |
| `lifecycle_teardown` | do a guarded cancellation and the root's teardown leave nothing of a known root alive and nobody waiting | 2 callers, 1 ref, 2 sessions, one cancellation, one teardown, parent links that break and come back (457,198 states) |
| `session_lease` | single ownership, counted references, a truthful record, over crashes and failed I/O | 3 processes, 2 handles each, 2 claims each |
| `semaphore_spawn` | slots, queue and ceiling while the limit moves | 4 callers, limits -1, 0, 1, 2 |
| `async_jobs` | is a result shown once, not lost while its row is there, and kept out of later sessions | 2 jobs under the id, 2 session transitions |
| `async_transition` | what `evictCompletedJobs` says of a session transition and does not keep | 1 job, 1 transition |
| `work_pool` | is no item lost, doubled or left out of the report, do the workers stay within the limit, does the pool drain | 4 items, limits 1 and 2, one refused registration; fresh and kept agents (390,031 states) |
| `workpool_full` | what the comment on a batch says of its job and a refused registration breaks | 1 refused registration |
| `reply_wait` | no mutual wait, no missed end, exact report of who is blocked, no block that outlives what it waits for | a root, its child and its grandchild, 2 messages (947,019 states); no agent needs to act, so deadlock is not checked |
| `reply_wait_ends` | what the comment on `WaitTool` says of reply waits | as above |
| `daemon_record` | does the record name its process, is no timer orphaned, is what ended settled | 2 requests of any kind, a restarted or a new broker, an "on-failure" command and a detached "always" service, 2 relaunches (533,882 states); a daemon may be left to rest, so deadlock is not checked |
| `daemon_overlap` | what the comment on `#startingNames` says of duplicate processes | 3 requests, a command that runs once |

Further configurations are kept for the divergences of section 5 and are run by
hand (`tlc -config LifecycleClobber.cfg MCAgentLifecycle`): `LifecycleDisposing`,
`LifecycleClobber`, `LifecycleReopen`, `LifecycleReopened`, `LifecycleReplaced`,
`LifecycleOrphan` and `LifecycleRootless` with `MCAgentLifecycle`, `AsyncPool` with `MCAsyncJobs` and
`WorkPoolLate` with `MCWorkPool`. Each ends with the violation of the property
named there. `ReplyWaitTree` with `MCReplyWait` ends without one.

Why the bounds are enough: two callers are the fewest that can join one
another's revival, and a third only repeats the second's choices, since callers
share nothing but `#revivals`, `#reopens` and `#parks`; two refs are a
generation and its successor; three sessions are the one that was parked, the one
being built and the one of the successor. Three processes are a holder, one that
is refused and one that gives up or dies. Two jobs are an old one and the one that takes its
id, whose markers it may meet; the second transition meets what the first left
behind. Four callers and ceilings of at most
two leave two in the queue when one is admitted. Four items are one that runs, one
that waits on the worker, and two that arrive while it finishes or another is
born; with two workers one can die holding what the other cannot take. Three
agents are the shortest chain in which an agent between two others is blocked on
one of them. Siblings, through whom a block waits for the asker's ancestor and
for somebody else, are in `ReplyWaitTree.cfg` (a root, its child and the
child's two interchangeable children, 1 message, 447,301 states). Checked once apart from
the listed runs were also a root with two children and two messages
(its safety properties, 2.0 million states) and three requests to one daemon, breadth
first to depth 22 (16.7 million states), all without a violation. `CHECK_DEADLOCK FALSE` is said
where the system may stop: a lifecycle with nothing left to do, processes that
are dead, agents that are idle or parked, and daemons nobody asks for.

The `TypeOK` of each run is its type invariant. The others are stated, with the
code they are about, in the modules.

## 5. Divergences found

Each is shown by a run or a configuration that ends with a violation. The
findings of `PROJECT.json` are those of the listed runs; the others, marked
(kept), have their configuration beside the modules.

- **A disposing session is handed out** (kept, `LifecycleDisposing.cfg`). The header says
  "A disposing session is never handed out". `release` without a tombstone
  (cancellation, teardown, shutdown) awaits `live.dispose()` with the session
  still attached and the ref still registered; `ensureLive` returns it.
- **A stale cold revival clobbers a newer adoption** (kept, `LifecycleClobber.cfg`).
  `#resolveAndRevive` stores its adoption after the factory's await and only then
  compares the ref, outside the `try` that would take it back. The teardown of a
  root then releases the stale adoption and misses the session of the newer ref,
  so `OnlyRootlessSurvive` is claimed of ids that are used once, and proved of
  those and of ids that no factory revives cold.
- **A killed agent is reopened while it shuts down** (kept, `LifecycleReopen.cfg`). The
  guard looks at `killed.session`, which the kill has already set to null.
- **A release orphans a revived session** (kept, `LifecycleOrphan.cfg`). `release` reads
  the live session before it awaits `onRelease` (the removal of an isolated
  worktree) and unregisters the ref after it. A revival that attaches in
  between leaves a live session that nothing refers to, and that the teardown of
  the root does not find either. In the counterexample the reviver is the simple
  kind; one that claims the ref behaves the same. `NoOrphans` and
  `OnlyRootlessSurvive` are proved of agents without a worktree.
- **A late revival is not rejected** (kept, `LifecycleRootless.cfg`). `disposeRoot`
  is to "release every adopted agent in its spawn tree and reject that root's
  late revivals" (`agent-lifecycle.ts:733-738`). The guards test
  `root && disposedRoots.has(root)` with `root = rootOf(id)` of that moment
  (`agent-lifecycle.ts:585-586`), or with the root the adoption recorded (809). The
  root's dispose wrapper awaits `disposeRoot` and then unregisters the root's own
  ref (`sdk.ts:6002`, `6018`); from then on `rootOf` finds none. With a second root
  live, so that the manager and its factory stay, an agent of the first that was
  parked on disk and not adopted is revived cold by a message: the factory
  answers, the guard passes, the adoption records no root, and a session is
  attached and handed out after the teardown. The same happens where an agent
  between is unregistered during the teardown. `OnlyRootlessSurvive` is what does
  hold: such a session is the only kind a teardown leaves; it is attached, and adopted
  so that its idle timer parks it, or, where the last root went, handed by an
  executor that knew no root to the manager that follows. A revival whose root was found before the
  teardown is rejected whenever it comes back.
- **An answer after a reopen is not checked again** (kept, `LifecycleReopened.cfg`).
  `ensureLive` looks the id up again after it awaited a park, but not after
  `await this.#reopen`. The fresh ref is registered while the kill marker is
  still being removed; another call revives it, a cancellation releases it, and
  the first call then returns the disposed session of a ref that is gone, where
  its comment promises an error. `HandOutAttached` excepts these answers and is
  proved for all others.
- **A reopen that came late breaks the sharing of revivals** (kept,
  `LifecycleReplaced.cfg`). "Concurrent calls share one in-flight revive"
  (`agent-lifecycle.ts:451`). While the marker of a kill is being removed, a
  spawn may take the id from the reopened ref. The call that reopened it goes on
  with the old ref and sets `#revivals` to a revival of that ref; a revival of the
  new ref that was under way is forgotten, the next call starts a second one
  beside it, and the session that attaches first is replaced in the ref and
  orphaned. This is why `RevivalsCoalesce` and `NoOrphans` are proved until a killed
  agent is reopened and not further; TLC finds `NoOrphans` to survive one kill and
  one reopen of an id (two refs).
- **An old result enters the next transcript** (`async_transition`).
  `evictCompletedJobs` promises to drop "every queued delivery so a prior
  session's result can never be injected into a later transcript", but it finds
  deliveries through the rows. A delivery that waits for its retry outlives its
  row when the retention ends, and takes the new session's epoch when it is
  retried. `OldResultsStayOut` is what does hold: a job whose row is there at
  the transition shows nothing afterwards.
- **A job that has not settled is evicted** (kept, `AsyncPool.cfg`). "Unsettled jobs are
  never evicted, so each id still names this generation" (`cancelAndReapJobs`).
  `evictSettledJobs` evicts every row that is not running, and a cancelled pool
  job that is still settling is not running. The late clean-up then names an id
  that may be a replacement's.
- **A refused turn strands its items** (`workpool_full`). `workpool.ts:47` calls a
  batch "One turn assigned to a pool agent and tracked as an internal job".
  `#drain` marks the items running and records the batch before `#startTurn`
  registers the job; `register` throws at `async.maxJobs`, and the handler of
  the dispatch fails only items that are still queued. The items run for ever,
  and so does the aggregate.
- **A push after the drain is left out of the report** (kept,
  `WorkPoolLate.cfg`). The aggregate collects the batches there are when it
  drains; an item pushed while it awaits them is dispatched, but no aggregate
  reports it, although the prompt of the tool says that results are delivered
  by themselves. `AggregateComplete` and `Drains` speak of the others.
- **A reply wait outlasts everybody who could answer** (`reply_wait_ends`). The
  wait of an asker ends when the agent it asked has ended and its relays are
  sent. The relay waits for the jobs of that agent (`settleAsyncWork`); when the
  asker is one of them, which the agent spawned in the wake turn that ended, the
  two wait for each other until the cap of 30 minutes.
- Two smaller observations on the same wait, from traces of the model: an agent
  that could not answer when the wait began, but took up work and ended later,
  is not listened to (`wait.ts:191-193`), which `EndIsHeard` excepts; and
  "any automatic reply has arrived by then" (`wait.ts:54-56`) does not hold for
  a wait that looks again, on an unrelated change of status, between the end of
  a run and its relay.
- **Two processes under one daemon name** (`daemon_overlap`). `#startingNames`
  exists because two clients could "spawn duplicate processes". `#restart`
  neither takes nor checks the reservation: it finds the old record stopped
  while a start awaits, and launches it after the start has launched a new
  one; the old one is in no table any more. Two restarts that overlap both
  launch the record, and leave two relaunch timers of which the record keeps
  one: the orphan of `broker.ts:1083-1086`.
- While a detached launch awaits its output file (`fs.open`), the record has
  neither pid nor process. A `list` then settles it as gone, or a `stop`
  terminates nothing, and the process is spawned afterwards. `strayed` marks
  these states too.

## 6. Proofs

| Theorem | Says | Argument |
| --- | --- | --- |
| `TerminalWhenAborted` | a killed ref stays aborted and detached | `Inv`: every ref that is aborted has no session, which each action keeps because `attachSession` and `setStatus` refuse aborted refs |
| `LifecycleTyped` | type correctness of the lifecycle | `TInv`, below |
| `HandsOutAttached` | what `ensureLive` returns, unless it awaited a reopen, is the session attached to the id's ref in that step | by action, from `TInv`: only `JoinOrRevive`, a kept park and a successful revival give an answer, and each has looked the id up in the same step; everybody who joined the revival is told the same session |
| `CoalesceUntilReopened` | until a fresh ref takes the id of a killed agent, at most one revival is under way | `RInv` before the kill, `Ended` after it, below |
| `HeldUntilReopened` | until then no live session is orphaned, if no release both awaits `onRelease` and forgets the ref | `OInv` before the kill, `Doomed` after it, below |
| `TornDownUntilReopened` | until then, once the root is torn down and all has settled, nothing is live but an attached session of an agent whose root could not be told, if the id is used once or nothing revives it cold; of agents without a worktree | `SInv` and `Warm` before the kill, `Doomed` after it, below |
| `UnreopenedCoalesce`, `UnreopenedHeld`, `TornDownClean` | the same three without a limit, of agents that nobody kills and of those whose id is used once, killed or not | corollaries: of these no killed ref has a successor |
| `LeaseTyped`, `LeaseExclusive`, `LeaseCounted` | type correctness, one owner, counted references | `LeaseInv`, below |
| `OwnersRecordKept`, `RecordTruthful` | the record names its owner and stays | `LeaseInv` and `RecordIsLive` |
| `LeaseImplementsFileOwner` | `SessionLease` implements `FileOwner` | each step takes, gives or keeps the owner |
| `NeverMutual` | no two agents wait for each other's reply, for any spawn tree and any number of sends | `MarksInv`, below |
| `ReplyTyped` | type correctness of the sessions and the waits; only who is blocked holds | `TypesInv`, below |
| `EndsAreHeard` | no wakeup of a reply wait is lost | `TypesInv` and `EndIsHeard`, below |
| `HoldsOwed` | every block waits for children that still have a job or an inline run | `HoldsInv`, below |
| `BlocksExact` | `blocksOn` reports exactly those who wait, each for the next one alone, up to the asker | `HoldsInv` and the spawn tree, below |
| `RecordHoldsTimer` | unless a request strayed, the one relaunch timer armed is the one the current record holds | `TimerInv`, below |
| `RecordTyped`, `RecordTracks` | type correctness of the daemon record; unless a request strayed, a process that runs is the one the record shows | `TrackInv`, below |
| `JobsTyped`, `JobsKeepRows`, `OldResultsOut` | type correctness of the job manager and its consumers; a job that runs keeps its row; a job left behind by a transition shows nothing | `JobsInv`, below |
| `ResultsShownOnce`, `ResultsNotLost`, `ConsumedResultsSeen` | a result is shown at most once, is not lost while its row is there, and is marked consumed only when it was shown | `ToldInv`, below |
| `PoolTyped`, `PoolHoldsOnce`, `PoolRunsOnce`, `PoolWithinLimit`, `PoolReportsAll` | the safety properties of the work pool, for any number of items, limits and refusals | `PoolInv`, below |
| `SemaphoreTyped`, `SemaphoreAccounts`, `SemaphoreNeverStrands`, `SemaphoreCaps` | the safety properties of the semaphore | `SemInv`, below |

`TypeOK` of the lifecycle is not inductive: a call that comes back from a reopen
reads the session of the ref it names, and a release that awaited a park that of
the ref it was asked for. `TInv` adds at which program counters these are
objects (`GoodCall`, `GoodRelease`). One lemma per action keeps it.

`RevivalsCoalesce` is a consequence of `Alone`: no two calls build a session of the
same ref. A call begins to build only when it finds no revival noted and the
registered ref without a session, so `RInv` says when that can be (`Noted`:
whoever builds for the registered ref is the revival that is noted, or the
manager is disposed and the ref can no longer be revived) and when it cannot
(`BareAll`: until its builder attaches, that ref has no session, no park works on
it and no spawn attaches to it; from then to the return of the reviver it runs
and its idle timer is off, so that no park takes the session away). The entry in
`#revivals` is only ever replaced by a builder of another ref, which is why the
invariant speaks of the registered ref. It needs that an object under
construction has one builder (`Own`), what parks, spawns and the manager's
disposal may be in the middle of (`Parking`, `Spawning`, `TornDown`), and that a ref
handed out next is known to nobody (`Born`). `RInv` also says that the agent is
not killed (`Unkilled`); what a kill does to the property is said below.
`TidyReviver` and `Isolated` are not restricted.

`NoOrphans` asks that something refers to a live session; before a kill the
registered ref does, which is `OneLive`: a live session is attached to the ref the
id resolves to. Two kinds of step threaten it, one that attaches another session
and one that forgets the ref. The dispose wrapper of a session forgets its ref
when the disposal ends, and so does a release that waits for it; in between a
revival could attach a new session to the ref. `Dying` says that it cannot:
until the disposal has ended the session is still attached, or whoever detached it
guards the ref (`Guarded`: the park that the callers await, or the revival that
awaits its rejected session). `Taken` says the same of a release, which disposes
the very session the ref has. `Unowned` is where worktrees are excluded: a release
that awaits `onRelease` and then forgets the ref has nothing to guard it with
(`Lone`; a kill keeps the ref, so an isolated agent may be killed). `Executed` and
`SpawnsAlone` keep the session of a spawn, which nobody adopts or parks before its
executor hands it over, and `Named` keeps what is under way from naming a ref that
is handed out next.

For `OnlyRootlessSurvive` somebody must answer for what is live: the executor of
a spawn, or the adoption of the registered ref, unless the manager is disposed and
the executor that handed the agent over knew no root (`Entrusted`). A revival works on an
adoption as well, unless a release has taken it, and that release forgets the ref
(`Backed`). The teardown releases what is adopted, and after `rootGone` nothing is
adopted but what it is just releasing, or, while the manager lives on for another
root, what was adopted without a known root (`Gathered`, `Ahead`). What is adopted must then be the registered ref
(`Current`), which a late cold adoption breaks; hence the hypothesis that the id is
used once (`MaxRefs = 1`) or that no factory is installed. `Warm` carries it along:
the factory is only ever taken away. Without the hypothesis TLC finds the live
session that `disposeRoot` misses (2 refs, a cancellation, a spawn that reuses the
id, then the late cold adoption). `RInv`, `OInv`, `SInv` and `Warm` have been
checked by TLC on instances of up to 3 callers, 3 refs and 4 sessions before they
were proved.

A kill divides the history of an id in three. Up to the step in which it strikes the
registered ref (`Strikes`) the three invariants above hold (`SparedStep`); a kill
whose ref has lost the id in the meantime strikes nobody and is one release among
others. That step establishes `Ended`: the id stays with the killed ref, which is
detached, or with nobody, and no call has a fresh ref to go on with; a builder
that is still under way finds its ref killed and disposes what it built. `Doomed`
adds what is still live then: the session the kill took, until it has written its
marker and disposes it. The third part begins when a fresh ref takes the id, by a
reopen or by a new spawn (`Succeeded`). From then on nothing is claimed, since the
code does orphan sessions there (`LifecycleReplaced.cfg`); `Succeeded` stays true,
because refs are numbered in the order in which they take the id (`Ranked`). The
disjunction of the three parts is inductive, and TLC checked it, with kills, on
instances of up to 490,000 states before it was proved. `NeverSucceeded` gives the
corollaries.

`MutualExclusion` is not inductive: it needs to know that whoever is at a step
that holds the gate has it (`GateHeld`), that a process in the middle of a call
holds no handle (`BusyHoldsNothing`), that the dead hold nothing
(`DeadHoldNothing`) and that a record bears the time of its writer's last claim
(`RecordOfClaim`). `LeaseInv` is their conjunction. For the semaphore, counting
alone is not inductive either: `SemInv` adds that waiting callers hold nothing
and that the queue is duplicate-free, so that admitting the first k waiters adds
exactly k holders; the cardinality facts are lemmas stated once.

`NoMutualWait` follows from the marks of questions (`lastDirect`) and of messages
(`lastSent`). `MarksInv` says that the questions recorded for different pairs, and
the sends still in progress, have different numbers (`MarksApart`,
`SendsApart`, `SendsUnmarked`), and that a question is also recorded as a message
(`AskedIsSent`). So of two questions that crossed, the later is an answer to the
earlier, whatever the order in which they were delivered.

`EndIsHeard` is inductive with the types and three facts about who may be where
(`Placed`: only who blocks holds, only who waits for a reply listens or is in
`check`, and who sends runs). A step that ends with every reply wait in `check`
keeps it at once (`HeardLooks`). Of the others, `HeardKept` says when a wait
needs no second look: no hold moves, hence whoever was blocked on the waiter
still is, no mark of the waiter's own moves, and an agent that can answer no
more was either not listened to or has ended within hearing. Each quiet action
is an instance: a message goes to one agent, which then does not wait
(`HandOverModes`), so it moves marks of agents that do not wait; reading a queue
and beginning or ending a wait is done by an agent that runs before and after;
and only the end of a turn takes an agent away.

`HoldsAreOwed` fails when a run, a turn or an observation that a block waits for ends
without releasing it. A job passes from the driven run to the parent's turns and from
a turn to its observation; `OwedStill` says that no step but the settlement drops it,
and the settlement clears the hold of the parent in the same step. `HoldsInv` adds
that an agent has one hold, of the kind its mode says, begun after the last question
that reached it (`HoldsFit`), that the inline run is its parent's only one
(`InlinesHeld`), and that a monitored turn belongs to a session that streams and that
no executor drives (`TurnsRun`).

`BlockedIsParked` then is a fact about one state: `blocksOn` against a definition by
the tree alone, `Stuck`. Two things stand in the way. `Reaches` is defined by
recursion, of which TLAPS knows nothing unless some function satisfies the equation;
`LeastPaths` gives one, from the least set of pairs that the right-hand side maps into
itself, and `ReachesSteps` is the equation. The induction over the tree, which no
prover here can instantiate, is replaced by a bad agent of which no child is bad, given by
`ForestAssumption` (`ReachesStuck`, `StuckReaches`). The visited path never matters,
because a path goes down the tree: it holds no agent below itself. The times never
matter either, because a block that a message ends began after the last question to
its agent, or that question would have ended it. The lemmas on `Above` (`UpLeast` to `UpChild`) follow from
its definition as a closure.

`TimerIsHeld` needs to know who may launch a record. `TimerInv` says that at most
one start is between its check and its record (`OneStart`, from the reservation)
and, unless a request strayed, that the records before the current one have ended
(`Replaced`), and that what a request has stopped stays terminal or stopping for as
long as its generation lasts (`StaysStopped`), since a stop forbids the settlement
to relaunch. So whoever launches a record finds it without a timer.

`Tracked` needs that nobody launches a record whose process lives. `TrackInv` adds
that no process, look or launch is ahead of the generations its record had
(`Unopened`, which also makes a launch's process a new one), that a launch still to
happen is of the current generation (`SpawnsCurrent`), that what a look is about to
settle as gone has no process while its generation lasts (`LooksVacant`), and the
same of what a request has terminated, or will have once it has killed the one
process it saw (`StopsVacant`). A look that took its answer before a relaunch
bears the older generation and settles nothing.

`OnePlace` and `RunsOnce` hold one another up: what a turn takes was queued and
held, and what was held had not been taken. `PoolInv` adds that sequences hold no
item twice (`HeldOnce`), that a worker's queue holds only what still waits, and
nothing with fresh agents (`HeldWaits`), that turns have disjoint items that wait
no more (`Turned`), and that a worker has at most one turn (`Staffed`). That
every worker was given an item of its own bounds the workers by the items
(`WorkerLeft`, an injection), and that the room a dispatch saw is still there
when the worker's id arrives (`Limited`), since the chain runs one dispatch at a
time, gives `WithinLimit`.

Of `AsyncJobs` no safety property is inductive by itself. `JobsInv` says who may
touch the row: an eviction is armed, and a result consumed, only when the job in
the row has settled (`Marked`); a tool call that looks at a job holds its row,
and no eviction is about to take it (`Tools`); a delivery past the sink belongs
to the running turn and, for the row that is there, to the current epoch
(`Places`). Hence a job cut off by a transition has no row, or is cancelled in
it, and what is left of its delivery has an older epoch (`CutOff`), which
`isStale` refuses: `OldResultsStayOut`. `Heard` is about being shown once or not
at all. A clean job in the row is the only one with a delivery (`Alone`); if it
is suppressed or consumed in the background it was shown (`Spoken`); and a
result that was shown has nothing left that could show it again (`OnceEach`,
`Silenced`): its row is gone and its delivery stale, or it is consumed and its
delivery is suppressed before it is built, or its foreground call has reported it
and released the row. Each way of showing a result establishes `Silenced` in the
step that shows it, which is why an attempt that fails afterwards cannot repeat
it. The theorems are about `Spec`; under `PoolSpec`, where `cancelRootWork` takes
the row of a job that runs, `RunningHasRow` does not hold (section 5).

The proofs assume only the named assumptions of the modules (finite sets of
callers and handles, `NoProc` not a process, a spawn tree in which nobody is above
itself, the bounds natural numbers). TLC
evaluates those assumptions in the runs.

Only model-checked: everything under fairness (`Settles`, `Served`, `Told`,
`Drains`, `Ends`), which TLAPS does not reach (liveness and `ENABLED`); the
lifecycle invariant `NoOrphans` after the reopen of a killed agent, which holds of
one kill and two refs (`lifecycle_kill`) and not beyond (section 5). No module
declares a `RECURSIVE` operator.

## 7. Fairness

`AgentLifecycle` assumes that promises settle: I/O of an operation in flight
completes, a session that began to dispose is disposed, microtasks run. It does
not assume that anybody calls, that a run ends or that a timer fires. For
disposal the code bounds the wait (`AGENT_RELEASE_GRACE_MS`) where it cannot rely
on it. `Semaphore` assumes that a holder finishes: a subagent has a wall-clock
budget and a request ends with its stream. It assumes nothing of aborts, of the
limit or of new callers. `AsyncJobs` assumes that the delivery loop, the sink's
formatting, the agent loop's boundaries and the end of a wait happen (weak
fairness), and that a run is not aborted, and the session not busy, each time a
message is ready to be committed or the idle flush is due (strong fairness). A
result whose every injection is discarded is retried for as long as its row
stays, and `Told` ends with the row. `WorkPool` assumes that the dispatch chain
and the aggregate go on by themselves, that some turn ends while turns run
(bounded by the model call, the abort signal and `task.maxRuntimeMs`) and that
its clean-up ends; not that an owner pushes or closes. `DaemonRecord` assumes
that reads, spawns, terminations and timed waits end, that the monitor looks
every 100 ms and that the exit of a process the broker launched is heard; not
that a process exits, nor that a client asks. `ReplyWait` states no fairness: its
properties are about safety.

## 8. Not modelled

Prompt assembly, model streams and compaction (data and I/O), the terminal user
interface, the native crates (a file lock is modelled from its use), settings,
and the components of section 1 that the plan still lists. A provider limit that
is raised reaches the callers already queued only with the next request or
release; `Semaphore` with `RereadOnRelease = FALSE` has this behaviour, and no
text in the repository promises more.
