# TLA+ verification of the yatp scheduler core

This directory holds TLA+ models of the thread pool in `src/`. TLC checks them
on small instances and TLAPS proves theorems about them. What each module and
run does is recorded in `PROJECT.json`. That file holds the components, runs,
mutants, the map from definitions to source lines, findings, hazards and
theorems.

## 1. The system and its parts

| Part | Source | State | Operations |
|------|--------|-------|------------|
| Future task runtime | `src/src/task/future.rs` | per task: status byte (NOTIFIED, IDLE, POLLING, COMPLETED), `extras.remote` (weak pool handle or None); per thread: `LOCAL`, `NEED_RESCHEDULE` | `TaskCell::new`, `wake_impl` (by value / by reference), `wake_task` routing, `clone_task`, `Runner::handle`, `reschedule()` |
| Worker loop | `src/src/pool/worker.rs` | the worker's local queue, its runner, the `SpinWait` counter, the test runner's hook counts | `WorkerThread::pop` (local first, spin, `pause`, `pop_or_sleep`, `resume`), `run` (`start`, the `is_shutdown` loop, `handle`, `end`) |
| Single-level queue | not in the repository (spec 4.2, 4.6) | one injector per pool, one local queue per worker, the parked workers | `Remote::spawn`, `Local::spawn`, `spawn_remote`, pops, `pop_or_sleep`, close |
| Multilevel queue | not in the repository (spec 4.3) | three levels, elapsed times, L0 chance | not modelled yet |
| Builder and ThreadPool | `src/src/pool/builder.rs`, `src/src/pool.rs` | `SchedConfig`, the JoinHandle `Vec` under a `Mutex`, the injector | thread-count setters, `freeze`, `LazyBuilder::build`, `Builder::build`, `spawn`, `shutdown`, `Drop` |
| Metrics | `src/src/metrics.rs` | Prometheus counters | not modelled (write-only I/O) |
| Callback runner, benches | not in the repository / `src/benches` | none that schedules | not modelled |

The parts interact as follows. A future's `poll` runs inside `Runner::handle` on a
worker. It may clone its waker into a resource, which sets `remote` from
`LOCAL`. It may fire wakers of other tasks, wake itself, or yield with
`reschedule()`. Waking a task means a CAS on its status byte. Only the thread
whose CAS moves IDLE to NOTIFIED calls `wake_task`. That thread enqueues the
task on one of three queues:

- the injector of the task's remote pool, when `LOCAL` is null or belongs to
  another pool;
- its own injector, for a yield;
- its own local queue, otherwise.

After a Pending poll, `handle` fills `remote` and tries the CAS POLLING to IDLE.
If a wake arrived during the poll, that CAS fails. `handle` then polls again, or
re-queues the task when the repoll limit or a yield meets `need_preempt`.

## 2. Modules

- **`FuturePool`** models the task protocol, the worker loop and the
  single-level queues, with several pools so that the cross-pool case of
  `wake_task` occurs.
  - Variables: `status` and `remote` per task, `held` (tasks whose waker sits in
    a resource), `injector` and `localq`.
  - `pending[t]`: outside threads inside `wake_task` for t.
  - Per worker: `pc`, `cur` (the task it polls), `target` (the task it routes in
    `wake_task`), `repoll` (`repoll_times`) and `needResched`
    (`NEED_RESCHEDULE`).
  - `panicked`: the `expect` of `wake_task` fired.
  - `woken`: a ghost variable. It records that a wake arrived after the task's
    last poll began.
  - Actions, one per operation:
    - `Spawn` and `LocalSpawn` (spawning);
    - `PopLocal` and `PopInjector`. Each is the worker's pop together with the
      start of `handle` up to the store of POLLING. This merge is sound
      because the intermediate state is private to the worker.
    - `CloneWaker` (with `CloneTask`, which fills `remote` from `LOCAL` when
      it is None), `SelfWake` and `Yield` (steps of the future's poll);
    - `DropWaker`: a resource drops the waker it stored (`drop_raw`);
    - `WorkerWake` and `WorkerWakePush`, for a wake on a worker. It is split in
      two because another thread can act between the CAS and the push.
    - `ExternalWake` and `ExternalWakePush`, for a wake from outside any pool;
    - `PollReady` and `PollPending`. `PollPending` is the whole tail of one
      loop iteration: fill remote, the CAS, taking the flag, then preempt or
      repoll.
  - `need_preempt` belongs to the queue, which is not in the repository. It is
    a choice from the constant set `NeedPreempt`: `{TRUE, FALSE}` in most
    runs, `{TRUE}` in the preempt run, as the need-preempt failpoint of
    `test_repoll_limit` pins it.
  - `RepollExhausted(w)` is the test `repoll_times >= repoll_limit` of line
    278, kept as an operator of its own so that its boundary can be mutated.
  - The future's behaviour is nondeterministic, bounded by `MaxPolls`. A future
    returns Ready at the latest on its `MaxPolls`-th poll.
- **`TaskLifecycle`** is the abstract specification of what the future
  runtime promises a task. A task is `unspawned`, `queued`, `running` (on one
  worker of its pool, `running[w]`), `rerun` (woken during its poll),
  `idle` or `done`. Its actions are `Spawn`, `Run`, `Wake`, `Finish`,
  `Suspend`, `Rerun` and `Requeue`. It says nothing of queues, CAS loops,
  `remote` or routing. Its fairness: a queued task is eventually run while a
  worker of its pool is free, and a worker's poll eventually ends.
  `FuturePool` implements it under `TL`, the mapping `AbsState`:
  UNCREATED is `unspawned`, COMPLETED `done`, IDLE `idle`, POLLING `running`,
  and NOTIFIED is `rerun` when a worker holds the task (a wake during its
  poll) and `queued` otherwise. The worker's `cur` is `running`. Every
  FuturePool step is a TaskLifecycle step or a stutter: a poll that starts is
  `Run`, the winning IDLE to NOTIFIED CAS is `Wake` from `idle`, the
  POLLING to NOTIFIED CAS is `Wake` from `running`, Ready is `Finish`, the
  CAS to IDLE is `Suspend`, a repoll is `Rerun`, a preemption is `Requeue`.
  Queue pushes, routing, `remote` and waker steps are stutters.
- **`WorkerLoop`** models the whole loop of one worker thread
  (`WorkerThread::run` and `::pop`) over the sleep protocol of the
  single-level queue.
  - Variables, per worker: `wpc` (where it is in the loop), `spins` (the
    `SpinWait` count), `got` (the popped cell), `local`, and `hooks`, the
    counters of the test runner of `worker.rs`. Shared: `injector`, `closed`,
    `parked` (workers blocked in `pop_or_sleep`), `signalled` (parked workers
    a push or close has woken), and the ghost sets `spawned`, `handled`,
    `dropped`.
  - Worker actions: `Start`, `CheckRunning` and `Finish` (the `is_shutdown`
    loop test, then `end`), `PopHit`, `SpinOn` and `SpinOut` (the spin loop
    and `pause`), `SleepTry` (one attempt of `pop_or_sleep` under the
    injector's lock: pop, or None when closed, or park), `Unpark`, `Resume`
    and `Handle` (which may spawn one cell onto the local queue). Outside:
    `Inject` (`Remote::spawn`, signalling one parked worker) and `Close`
    (signalling all).
  - `SpinWait::spin` is modelled as giving up after `SpinLimit` spins.
  - The sleep protocol (`Inject`, `Close`, `SleepTry`, `Unpark`) is modelled
    from spec 4.2, because the queue code is not in the repository.
- **`PoolLifecycle`** models the Builder, the build, the worker threads, spawn,
  concurrent `shutdown` calls and Drop.
  - A thread is `unspawned`, `running` or `panicked`. In this repository the
    closure of every worker is `drop(local_queue); unimplemented!()`.
  - A shutdown call goes through `idle`, `joining`, then `returned` or
    `panicked`.
  - Drop is one more shutdown call (`DropCall`). It may start only when no
    other caller is inside `shutdown`, because its borrow has ended.
  - `Build` is `LazyBuilder::build` after `Freeze`; `BuildNow` is
    `Builder::build`, freeze and build in one call. Both use
    `SpawnThreads(k)`, the spawning loop, which may fail after `k` threads.
- **`MCFuturePool`, `MCPoolLifecycle`, `MCWorkerLoop`**: model values and
  definitions for TLC.
- **`FuturePool_proofs`, `FuturePool_safety`, `FuturePool_entries`,
  `FuturePool_refinement`, `WorkerLoop_proofs`, `PoolLifecycle_proofs`**: the
  TLAPS proofs, each module extending the one before it or the model it is
  about (sections 5 to 9).
- `Holders(t)` in `FuturePool` lists the places a task cell can occupy. Each
  `UNION` in it is parenthesized. Without the parentheses, the prefix `UNION`
  swallows the whole `\cup` chain after it, and the definition means
  something else.

## 3. Runs

| Run | Instance | Checks | Shows |
|-----|----------|--------|-------|
| onepool | 3 tasks, 1 pool, 2 workers, RepollLimit 1, MaxPolls 3, symmetry over tasks and workers | TypeOK, RemoteKnownOnWake, NoDuplicate, ScheduledIffRunnable, NoLostWake, ImplementsTaskLifecycle | see below (213,596 states) |
| twopools | 3 tasks, 2 pools of 1 worker | TaskStaysInPool, ImplementsTaskLifecycle | a task never leaves the pool that spawned it, even when its waker fires on a worker of the other pool; a task runs only on a worker of its own pool (795,564 states) |
| live | 2 tasks, 1 pool, 2 workers, no symmetry | CompletedIsFinal, NotifiedIsPolled | COMPLETED is final; every NOTIFIED task is eventually polled |
| preempt | 2 tasks, 1 worker, RepollLimit 1, NeedPreempt {TRUE} | RepollBounded | a task that keeps being woken during its poll is polled in place at most `repoll_limit` times before it is re-queued (`test_repoll_limit`) |
| workerloop | 2 workers, 3 cells, SpinLimit 1 | TypeOK, NoLostWakeup, HooksBracketSleep, InjectedIsHandled, ShutdownEndsWorkers | see below (44,959 states) |
| flagleak | 2 tasks, 1 worker | RescheduleFlagScoped (expected violation) | the yield flag outlives the poll that set it |
| lifecycle | 2 shutdown callers plus Drop, CPUs 2, thread counts up to 2, 1 spawn | TypeOK, ShutdownTerminates | every shutdown call, the one of Drop included, ends |
| shutdown_panics | same, with symmetry | ShutdownInfallible (expected violation) | `shutdown` panics |
| shutdown_early_return | same | ShutdownWaitsForWorkers (expected violation) | a concurrent second `shutdown` returns before the workers end |
| spawn_after_shutdown | same | SpawnAfterShutdownIsNoop (expected violation) | `spawn` after `shutdown` still enqueues |

The onepool run shows that every interleaving of polls, wakes, self-wakes,
yields and preemptions keeps three things true:

- a task cell is in at most one queue slot, wake or poll;
- a task has such an entry exactly when it is NOTIFIED or POLLING;
- no wake is lost, and `wake_task` never panics.

The workerloop run shows, over every interleaving of two workers with
injects and a shutdown from outside:

- while the pool runs and a cell waits in the injector, some worker is not
  parked: a push racing a worker on its way to sleep is seen by its
  `pop_or_sleep` or signals it (NoLostWakeup);
- the hook counts are those `test_hooks` asserts at each point: one `start`
  first, a `resume` for every `pause` (also when `pop_or_sleep` returns None
  after close), one `end` last (HooksBracketSleep);
- every injected cell is handled unless shutdown comes first
  (InjectedIsHandled), and shutdown ends every worker, parked ones included
  (ShutdownEndsWorkers).

**Bounds.**
- Three tasks and two workers are enough for the cases that matter:
  - a wake from a worker racing a wake from an outside thread and the
    poller's CAS;
  - a second worker taking a re-queued task;
  - a task re-queued while another waits.
- `RepollLimit = 1` makes both the repoll branch and the preempt branch
  reachable within `MaxPolls = 3`.
- The preempt run pins `need_preempt` to true so that the limit is what
  decides; with `RepollLimit = 1` and `MaxPolls = 3` a task can be woken
  during two consecutive polls, so `>` instead of `>=` shows.
- In WorkerLoop, two workers are enough for one to sleep while the other
  handles and spawns; three cells let one be spawned locally while two pass
  through the injector; `SpinLimit = 1` reaches both the spin and the
  give-up branch.
- The two-pool instance needs one worker per pool. The property there is about
  routing, not about parallelism inside a pool.
- For the lifecycle model, two callers and Drop are the smallest instance with
  a concurrent second `shutdown`. Two threads give a handle left unjoined after
  the first join fails.

**Symmetry.** Symmetry is used only in safety runs. Tasks are interchangeable
when they all belong to the one pool, and so are workers. The liveness runs
use no symmetry.

**Fairness.**
- The worker loop never stops while there is work. Its pop and the poll of a
  task it holds are weakly fair (`WF` on `PopLocal`, `PopInjector`, the poll,
  and the worker's `wake_task`). The loop `run` only leaves on shutdown, which
  nothing sets.
- A thread that has won the CAS finishes `wake_task` (`WF` on
  `ExternalWakePush`).
- In WorkerLoop, each worker thread is weakly fair: the OS runs every thread
  that is not blocked. A parked worker is enabled only once signalled.
- TaskLifecycle's own fairness is not checked against the runtime. Its
  safety part is (ImplementsTaskLifecycle). Its liveness would only repeat
  NotifiedIsPolled and the weak fairness assumed of the poll.
- Spawns, wakes and the future's own choices belong to the environment and are
  not fair.
- In PoolLifecycle, the OS runs every spawned thread (`WF ThreadRun`), and a
  thread inside `shutdown` keeps executing it.

**Deadlock.** Deadlock checking is off. The systems really stop. In
WorkerLoop every worker ends after shutdown, and before it they may all be
parked on an empty queue. A pool whose
tasks have all completed, or are IDLE with no waker left to fire, has every
worker asleep in `pop_or_sleep`. A pool whose shutdown calls have all ended has
nothing left to do.

**Mutants.** Every property of a passing run is violated by a plausible bug in
the definition it is about. The table is in `PROJECT.json` under "mutants".
Examples:
- a wake that also enqueues on NOTIFIED breaks NoDuplicate;
- a CAS to IDLE that ignores a concurrent wake breaks NoLostWake;
- routing without the core check breaks TaskStaysInPool;
- `>` instead of `>=` in the repoll test breaks RepollBounded;
- `pop_or_sleep` parking without re-checking the injector breaks
  NoLostWakeup; a push that signals no parked worker breaks
  InjectedIsHandled; a close that signals none breaks ShutdownEndsWorkers;
  a `resume` skipped when the pop returns None breaks HooksBracketSleep;
- the same bugs that break NoDuplicate, TaskStaysInPool and
  NotifiedIsPolled also break the refinement of TaskLifecycle.

## 4. Findings

1. **NEED_RESCHEDULE leaks to the next task** (`future.rs:277`, run
   flagleak). The flag is consumed only when the CAS to IDLE fails. Suppose a
   poll calls `reschedule()` (which sets the flag and wakes itself) and then
   returns Ready, for example because another branch of a `select!` finished.
   The flag then stays set on that worker thread. The next task it polls and
   that is woken during its poll is re-queued to the injector, although it
   never yielded.
2. **shutdown panics** (`builder.rs:87`, run shutdown_panics). The closure of
   every worker thread is `unimplemented!()`. The first `join().unwrap()` in
   `ThreadPool::shutdown` therefore panics. Spec section 7 says join on
   shutdown is infallible.
3. **A concurrent second shutdown returns early** (`pool.rs:39`, run
   shutdown_early_return).
4. **shutdown never closes the injector** (`pool.rs:38`, run
   spawn_after_shutdown). The doc comment and the spec say it does.

## 5. Proofs (`FuturePool_proofs`)

- **`TypeCorrect: Spec => []TypeOK`.** `TypeOK` is inductive as it stands. Its
  two link conjuncts are `pc = "pop" <=> cur = NoTask` and
  `pc = "waking" <=> target # NoTask`. The proof has one step per action. Under
  each action there is one step per part of `TypeOK` (tasks, queues, workers,
  flags, links). The queue parts rest on the lemmas `RouteType` and
  `WakeTaskType`, one per route of `wake_task`.
- **`NoLostWakeThm: Spec => []NoLostWake`.** `NoLostWake` is not inductive on
  its own. A wake of a task that was never spawned would leave `woken` set on an
  UNCREATED task. The strengthening is
  `WakeInv == CreatedRefs /\ NoLostWake`. `CreatedRefs` says that a task
  referenced anywhere has been spawned. "Referenced" means a stored waker, an
  entry in a queue, a `wake_task` in progress, or a worker polling it.
  - The lemma `CreatedStep` reduces preserving `CreatedRefs` to two facts per
    action:
    - every newly referenced task was referenced before, or is the one just
      spawned;
    - no status returns to UNCREATED.
  - Those facts rest on the lemmas `OccAppend`, `OccTail`, `OccRest`,
    `OccEnds` (one sequence), `InjAppend`, `LocAppend`, `InjTail`, `LocRest`
    (one injector or local queue changed, the others kept) and
    `WakeTaskRefs` (wake_task). They say that a push adds only the pushed
    task to the queued entries, and a pop adds none.
  - `WakeKeepsNoLostWake` covers the four wake actions together.
  - The step from `TypeOK` uses `TypeCorrect`, combined with PTL.
  - TLC checked `WakeInv` as an invariant of the onepool instance before the
    proof was written.
- **Assumptions.** The proofs use the assumptions `TopologyAssumption` (every
  worker and task has a pool), `BoundAssumption` and `NoneAssumption` (the
  NoPool and NoTask markers are not pools or tasks).

## 6. Proofs (`WorkerLoop_proofs`)

- **`LoopTypeCorrect`, `NoLostWakeupThm`, `HooksThm`**: `Spec => []TypeOK`,
  `Spec => []NoLostWakeup` and `Spec => []HooksBracketSleep` of WorkerLoop,
  for every set of workers and cells and every `SpinLimit`.
- They rest on one inductive invariant,
  `LoopInv == TypeOK /\ GotLink /\ NoLostWakeup /\ HooksBracketSleep`.
  `GotLink` (a worker at `handle` holds a cell, not None) is the
  strengthening: without it `Handle` could add None to `handled` and TypeOK
  would not be inductive. TLC checked `LoopInv` on the workerloop instance
  before the proof was written.
- NoLostWakeup is inductive because `SleepTry` parks only when the injector
  is empty, and `Inject` moves one parked worker to `signalled` whenever it
  pushes while some are parked.
- The proof of `LoopInv /\ [Next]_vars => LoopInv'` has one step per action
  and under it one per part of the invariant. The queue parts use the lemmas
  `PopTop`, `PopHead` and `PushCell` (from SequenceTheorems) for the ends of a
  queue of cells.
- Assumption: `LoopAssumption` (`SpinLimit \in Nat`, NoCell is no cell).

## 7. Proofs (`FuturePool_safety`)

- **`RemoteKnownOnWakeThm: Spec => []RemoteKnownOnWake`.** `wake_task`'s
  `expect` never fires. The strengthening `RemoteInv` says:
  - nothing has panicked;
  - an IDLE task, and a task with an outside `wake_task` in progress, has a
    remote;
  - so does the task a worker's `wake_task` routes.

  It holds for two reasons:
  - every waker that another thread can fire was made by `clone_task`, which
    records the remote first (`CloneTask`, lines 164-167);
  - the fill of line 266 (`FillRemote`) covers the one remaining path: the
    poller's own `wake_task` when it preempts at line 281, after a yield.

  Only the thread that wins the IDLE CAS enters `wake_task`. `RemoteStep` has
  one case per action.
- **`RepollBoundedThm`**, under `NeedPreempt = {TRUE}`: `repoll_times` stays
  within `repoll_limit`. The hypothesis is the condition of the code, not a
  convenience. With `need_preempt` false, `handle` polls again whatever the
  count, and the preempt run and the theorem both say so.
- **`TaskStaysInPoolThm: Spec => []TaskStaysInPool`.** The strengthening
  `HomeInv` has four parts:
  - `RemoteHome`: `remote[t]` is None or the task's own pool;
  - `InjHome` and `LocHome`: every injector slot and local-queue slot holds a
    task of that pool;
  - `CurHome`: every polled task is of the worker's pool.

  `clone_task` and `FillRemote` record the pool of the worker they run on. A
  task reaches a worker only through a queue of the worker's pool. So
  `wake_task`'s routing (lemma `WakeHome`) only ever pushes onto the task's
  own pool.
- TLC checked `RemoteInv` and `HomeInv` as invariants of the onepool and
  twopools instances before the proofs.

## 8. Proofs (`FuturePool_entries`, `FuturePool_refinement`)

- One inductive invariant, `EntryInv`, carries `NoDuplicateThm`,
  `ScheduledIffRunnableThm` and `CompletedIsFinalThm`. It is proved as the
  lemma `EntryInvariant`. It is the conjunction of five parts:
  - `RemoteInv`: a panicking `wake_task` would drop a task's only entry.
  - `QueueUnique`: no queue holds a task twice, no two injectors and no two
    local queues share one, and no task is in an injector and a local queue.
  - `WorkerUnique`: at most one outside wake is pending per task, and
    `target` and `cur` are injective.
  - `EntriesExclusive`: the four kinds of entry exclude one another. They are
    a queue slot, a pending outside wake, a wake on a worker, and a poll.
  - `EntriesMatchStatus`: a task has an entry exactly when it is NOTIFIED or
    POLLING. A queued, pending or waking entry means NOTIFIED, and POLLING
    means polled.

  TLC checked `EntryInv` on the onepool and twopools instances before the
  proof.
- The step proof has one case per action. Under each case, one step covers
  the two uniqueness parts and one step covers each task. It rests on lemmas
  about crossbeam's push (`InjPush`, `LocPush`) and the two pops (`InjPop`
  FIFO, `LocPop` LIFO). These say that a push of a task not yet queued keeps
  `QueueUnique`, and what each queue operation does to `Queued(x)`. Those
  lemmas in turn rest on `OccAppendIff`, `OccTailIff`, `OccRestIff` and
  `UniqAppend`, `UniqTail`, `UniqRest` over `SequenceTheorems`.
- **`NoDuplicateThm`.** `HolderUnique` shows that any two members of
  `Holders(t)` are equal, case by case over `HolderForm`. Then the set is
  empty or a singleton (`FS_EmptySet`, `FS_Singleton`).
- **`ScheduledIffRunnableThm`.** `HoldersNonempty` shows that `Holders(t)` is
  nonempty exactly when the task has an entry.
- **`CompletedIsFinalThm: Spec => CompletedIsFinal`** (an action property).
  The argument is in `CompletedStep`:
  - a COMPLETED task has no entry, so no pop takes it and no poll ends on
    it;
  - `WakeStatus` leaves COMPLETED alone.
- **`RefinementThm: Spec => ImplementsTaskLifecycle`** (`TL!SafeSpec` under
  `AbsState`). `RefInit` maps the initial state. `RefStep` maps each action
  with one lemma per kind of step:
  - `SpawnRef`: `Spawn`;
  - `WakeRef`: `Wake`, or a stutter on NOTIFIED or COMPLETED;
  - `StartRef`, `PopLocalRef`, `PopInjectorRef`: `Run`. These need
    `EntryInv`, since the popped task is NOTIFIED and held by no worker, and
    `HomeInv`, since it belongs to the worker's pool;
  - `PollReadyRef`: `Finish`;
  - `PollPendingRef`: `Suspend`, `Rerun` or `Requeue`. A preempted task
    becomes `queued` because no other worker polls it (`cur` is injective).

  `AbsFrame` and `ReleaseFrame` show that the other tasks keep their
  abstract state.

## 9. Proofs (`PoolLifecycle_proofs`)

- **`TypeCorrect: Spec => []TypeOK`.** TypeOK is strengthened by
  `lateSpawns <= queued`, because a late spawn is a spawn.
- No property says that a JoinHandle is held in one place only. `JoinHandle`
  cannot be copied, and `join` consumes it, so the Rust type system already
  guarantees it.

## 10. Only model-checked

- **Liveness needs fairness and ENABLED, which TLAPS cannot prove here.**
  This covers:
  - NotifiedIsPolled (run live);
  - ShutdownTerminates (run lifecycle);
  - InjectedIsHandled and ShutdownEndsWorkers in WorkerLoop.
- **RepollBounded with `need_preempt` false** does not hold, and is not
  claimed.
- **The violation runs** (flagleak, shutdown_panics, shutdown_early_return,
  spawn_after_shutdown) show counterexamples, which a proof cannot.

## 11. Not modelled, and the plan

- **Not modelled.**
  - Reference counting of task cells (`mem::forget`, the Arc counts). A
    cell's lifetime is not a scheduling property. Dropping a stored waker is
    modelled only as the loss of the reference (`DropWaker`).
  - The bound of the local queue with overflow to the injector. That code is
    not in the repository.
  - A waker cloned during a poll by a thread that is not polling: `clone_task`
    would then read a null `LOCAL` (hazard at `future.rs:165`).
  - The metrics, the callback runner and the benches.
  - Builder setters that change only names, stack size and durations.
- **Plan.**
  1. A `MultilevelQueue` module from spec 4.3. It covers level assignment by
     accumulated elapsed time, the fall-through pop order, and the adjustment
     of the L0 chance clamped to [0.01, 0.99] (scaled to integers).
  2. Composing WorkerLoop's sleep protocol with FuturePool's routing.
  3. The local queue bound with overflow, and `need_preempt` as a queue
     predicate.
