----------------------------- MODULE FuturePool -----------------------------
(***************************************************************************)
(* The scheduler core of yatp's future pool: the task status protocol of   *)
(* src/src/task/future.rs (TaskCell::new, wake_impl, wake_task,            *)
(* clone_task, Runner::handle, reschedule) driven by the worker loop of    *)
(* src/src/pool/worker.rs (WorkerThread::pop and ::run) over the          *)
(* single-level queue (one injector per pool, one local queue per worker). *)
(*                                                                         *)
(* Several pools may coexist: a task's waker may be fired on a worker     *)
(* thread of another pool, which is the routing case of wake_task.         *)
(*                                                                         *)
(* Data is abstracted to what the properties tell apart: a future is a    *)
(* model value whose poll may, in any order, wake tasks whose wakers it   *)
(* holds, wake itself by reference, yield (reschedule), clone its own     *)
(* waker into a resource, and finally return Ready or Pending.             *)
(***************************************************************************)
EXTENDS Naturals, Sequences, FiniteSets

CONSTANTS
    Tasks,        \* the futures that may be spawned
    Pools,        \* the thread pools
    Workers,      \* the worker threads of all pools
    PoolOf,       \* PoolOf[w]: the pool worker w belongs to (its Local's core)
    TaskPool,     \* TaskPool[t]: the pool whose Remote spawns t
    RepollLimit,  \* Runner::repoll_limit (DEFAULT_REPOLL_LIMIT = 5)
    NeedPreempt,  \* the answers LocalQueue::need_preempt may give
    MaxPolls,     \* bound: a future returns Ready at the latest on this poll
    NoPool,       \* extras.remote = None
    NoTask        \* a worker that holds no task

(* Every worker belongs to a pool, every pool has a worker (Builder      *)
(* starts at least one thread), and every task is spawned by one pool.   *)
ASSUME TopologyAssumption ==
    /\ Pools # {} /\ Workers # {}
    /\ PoolOf \in [Workers -> Pools]
    /\ TaskPool \in [Tasks -> Pools]
    /\ \A p \in Pools : \E w \in Workers : PoolOf[w] = p

(* The repoll limit is a natural number; the bound on polls is positive. *)
ASSUME BoundAssumption ==
    /\ RepollLimit \in Nat
    /\ MaxPolls \in Nat \ {0}

(* need_preempt answers a Boolean; the need-preempt failpoint of the     *)
(* tests pins it to one answer.                                          *)
ASSUME PreemptAssumption ==
    NeedPreempt \subseteq BOOLEAN /\ NeedPreempt # {}

(* The "no pool" and "no task" markers are distinct from real ones. *)
ASSUME NoneAssumption ==
    /\ NoPool \notin Pools
    /\ NoTask \notin Tasks

(* The status byte of future.rs lines 64-67, and UNCREATED for a future *)
(* whose TaskCell has not been created yet.                             *)
UNCREATED == "uncreated"
NOTIFIED == "notified"
IDLE == "idle"
POLLING == "polling"
COMPLETED == "completed"
Status == {UNCREATED, NOTIFIED, IDLE, POLLING, COMPLETED}

(* Worker program counter: "pop" = in WorkerThread::pop, "poll" = inside *)
(* the future's poll, "waking" = inside wake_task for a task whose CAS   *)
(* IDLE -> NOTIFIED this thread has just won.                            *)
PC == {"pop", "poll", "waking"}

VARIABLES
    status,       \* status[t]: Task::status
    remote,       \* remote[t]: TaskExtras::remote (the pool, or NoPool)
    held,         \* tasks whose waker has been cloned into some resource
    polls,        \* polls[t]: number of polls of t begun so far (bound)
    injector,     \* injector[p]: the injector queue of pool p
    localq,       \* localq[w]: the local queue of worker w
    pending,      \* pending[t]: out-of-pool threads inside wake_task for t
    pc,           \* pc[w]
    cur,          \* cur[w]: the task w is handling
    target,       \* target[w]: the task w is pushing in wake_task
    repoll,       \* repoll[w]: repoll_times of Runner::handle
    needResched,  \* needResched[w]: the NEED_RESCHEDULE thread local
    panicked,     \* some thread hit expect("core should exist!!!")
    woken         \* ghost: t was woken since its last poll began

vars == <<status, remote, held, polls, injector, localq, pending, pc, cur,
          target, repoll, needResched, panicked, woken>>

-----------------------------------------------------------------------------
(* Queue helpers. The local queue is popped LIFO by its owner. *)
Top(s) == s[Len(s)]
Rest(s) == SubSeq(s, 1, Len(s) - 1)
Occurrences(s, t) == {i \in DOMAIN s : s[i] = t}

(* Mutant forms of the code's helpers (see PROJECT.json "mutants"). *)
RouteFromWorker_NoCoreCheck(w, t, rp, reschedule) ==
    IF reschedule
    THEN /\ injector' = [injector EXCEPT ![PoolOf[w]] = Append(@, t)]
         /\ UNCHANGED localq
    ELSE /\ localq' = [localq EXCEPT ![w] = Append(@, t)]
         /\ UNCHANGED injector
WakeStatus_CasCompleted(s) ==
    IF s \in {IDLE, POLLING, COMPLETED} THEN NOTIFIED ELSE s
WinsIdleCas_AlsoNotified(s) == s \in {IDLE, NOTIFIED}

(* wake_task (lines 178-204) run on worker w with LOCAL set to w, for a  *)
(* task whose recorded remote is rp: the queue updates it makes.         *)
(* out_of_polling: the task's remote is not w's core -> that injector;    *)
(* reschedule -> spawn_remote onto w's injector; else w's local queue.    *)
RouteFromWorker(w, t, rp, reschedule) ==
    IF rp # PoolOf[w]
    THEN /\ injector' = [injector EXCEPT ![rp] = Append(@, t)]
         /\ UNCHANGED localq
    ELSE IF reschedule
         THEN /\ injector' = [injector EXCEPT ![PoolOf[w]] = Append(@, t)]
              /\ UNCHANGED localq
         ELSE /\ localq' = [localq EXCEPT ![w] = Append(@, t)]
              /\ UNCHANGED injector

(* The whole of wake_task on worker w: with no recorded remote the       *)
(* expect panics and the cell is dropped; otherwise it is routed.        *)
WakeTaskOnWorker(w, t, rp, reschedule) ==
    IF rp = NoPool
    THEN /\ panicked' = TRUE
         /\ UNCHANGED <<injector, localq>>
    ELSE /\ RouteFromWorker(w, t, rp, reschedule)
         /\ UNCHANGED panicked

(* The effect of one wake_impl CAS loop (lines 111-141) on the status of  *)
(* t: IDLE and POLLING become NOTIFIED, the other statuses are left.      *)
WakeStatus(s) == IF s \in {IDLE, POLLING} THEN NOTIFIED ELSE s

(* The waker calls wake_task only when its CAS moved the status from IDLE *)
WinsIdleCas(s) == s = IDLE

(* The ghost record of a wake: it must be answered by a later poll. *)
RecordWake(t) ==
    woken' = [woken EXCEPT ![t] = (status[t] # COMPLETED)]

-----------------------------------------------------------------------------
Init ==
    /\ status = [t \in Tasks |-> UNCREATED]
    /\ remote = [t \in Tasks |-> NoPool]
    /\ held = {}
    /\ polls = [t \in Tasks |-> 0]
    /\ injector = [p \in Pools |-> <<>>]
    /\ localq = [w \in Workers |-> <<>>]
    /\ pending = [t \in Tasks |-> 0]
    /\ pc = [w \in Workers |-> "pop"]
    /\ cur = [w \in Workers |-> NoTask]
    /\ target = [w \in Workers |-> NoTask]
    /\ repoll = [w \in Workers |-> 0]
    /\ needResched = [w \in Workers |-> FALSE]
    /\ panicked = FALSE
    /\ woken = [t \in Tasks |-> FALSE]

(* Remote::spawn from outside the pool: TaskCell::new (status NOTIFIED,   *)
(* remote None) pushed onto the injector.                                 *)
Spawn(t) ==
    /\ status[t] = UNCREATED
    /\ status' = [status EXCEPT ![t] = NOTIFIED]
    /\ injector' = [injector EXCEPT ![TaskPool[t]] = Append(@, t)]
    /\ UNCHANGED <<remote, held, polls, localq, pending, pc, cur, target,
                   repoll, needResched, panicked, woken>>

(* Local::spawn from inside a poll on worker w: the new cell goes to w's  *)
(* local queue.                                                           *)
LocalSpawn(w, t) ==
    /\ pc[w] = "poll"
    /\ status[t] = UNCREATED
    /\ TaskPool[t] = PoolOf[w]
    /\ status' = [status EXCEPT ![t] = NOTIFIED]
    /\ localq' = [localq EXCEPT ![w] = Append(@, t)]
    /\ UNCHANGED <<remote, held, polls, injector, pending, pc, cur, target,
                   repoll, needResched, panicked, woken>>

(* WorkerThread::pop followed by the first iteration of Runner::handle up *)
(* to the poll: take from the local queue, else from the injector (the    *)
(* worker sleeps in pop_or_sleep while both are empty), set LOCAL, reset  *)
(* repoll_times and store POLLING.                                        *)
StartHandle(w, t) ==
    /\ status' = [status EXCEPT ![t] = POLLING]
    /\ polls' = [polls EXCEPT ![t] = @ + 1]
    /\ woken' = [woken EXCEPT ![t] = FALSE]
    /\ pc' = [pc EXCEPT ![w] = "poll"]
    /\ cur' = [cur EXCEPT ![w] = t]
    /\ repoll' = [repoll EXCEPT ![w] = 0]

PopLocal_Skipped(w) == FALSE
PopLocal(w) ==
    /\ pc[w] = "pop"
    /\ localq[w] # <<>>
    /\ localq' = [localq EXCEPT ![w] = Rest(@)]
    /\ StartHandle(w, Top(localq[w]))
    /\ UNCHANGED <<remote, held, injector, pending, target, needResched,
                   panicked>>

PopInjector(w) ==
    /\ pc[w] = "pop"
    /\ localq[w] = <<>>
    /\ injector[PoolOf[w]] # <<>>
    /\ injector' = [injector EXCEPT ![PoolOf[w]] = Tail(@)]
    /\ StartHandle(w, Head(injector[PoolOf[w]]))
    /\ UNCHANGED <<remote, held, localq, pending, target, needResched,
                   panicked>>

(* clone_task (lines 160-171): the first clone records the remote of the *)
(* Local that LOCAL points to, here that of worker w.                    *)
CloneTask(w, t) ==
    remote' = [remote EXCEPT ![t] = IF @ = NoPool THEN PoolOf[w] ELSE @]

(* During the poll the future clones its waker into a resource           *)
(* (clone_raw): a new waker of t exists from now on.                      *)
CloneWaker(w) ==
    LET t == cur[w] IN
    /\ pc[w] = "poll"
    /\ held' = held \cup {t}
    /\ CloneTask(w, t)
    /\ UNCHANGED <<status, polls, injector, localq, pending, pc, cur, target,
                   repoll, needResched, panicked, woken>>

(* cx.waker().wake_by_ref() on the task being polled: POLLING -> NOTIFIED. *)
SelfWake(w) ==
    LET t == cur[w] IN
    /\ pc[w] = "poll"
    /\ status' = [status EXCEPT ![t] = WakeStatus(@)]
    /\ RecordWake(t)
    /\ UNCHANGED <<remote, held, polls, injector, localq, pending, pc, cur,
                   target, repoll, needResched, panicked>>

(* Reschedule::poll (lines 308-319) on its first poll: set NEED_RESCHEDULE *)
(* and wake the task by reference.                                        *)
Yield(w) ==
    LET t == cur[w] IN
    /\ pc[w] = "poll"
    /\ needResched' = [needResched EXCEPT ![w] = TRUE]
    /\ status' = [status EXCEPT ![t] = WakeStatus(@)]
    /\ RecordWake(t)
    /\ UNCHANGED <<remote, held, polls, injector, localq, pending, pc, cur,
                   target, repoll, panicked>>

(* The future being polled on w fires a stored waker of task u: the CAS  *)
(* of wake_impl. Winning IDLE -> NOTIFIED enters wake_task on this thread.*)
WorkerWake(w, u) ==
    /\ pc[w] = "poll"
    /\ u \in held
    /\ status' = [status EXCEPT ![u] = WakeStatus(@)]
    /\ RecordWake(u)
    /\ IF WinsIdleCas(status[u])
       THEN /\ pc' = [pc EXCEPT ![w] = "waking"]
            /\ target' = [target EXCEPT ![w] = u]
       ELSE UNCHANGED <<pc, target>>
    /\ UNCHANGED <<remote, held, polls, injector, localq, pending, cur,
                   repoll, needResched, panicked>>

(* wake_task on worker w (reschedule = false), then back into the poll.  *)
(* With no recorded remote the expect panics and the task is dropped.     *)
WorkerWakePush(w) ==
    LET u == target[w] IN
    /\ pc[w] = "waking"
    /\ pc' = [pc EXCEPT ![w] = "poll"]
    /\ target' = [target EXCEPT ![w] = NoTask]
    /\ WakeTaskOnWorker(w, u, remote[u], FALSE)
    /\ UNCHANGED <<status, remote, held, polls, pending, cur, repoll,
                   needResched, woken>>

(* The resource drops its waker (drop_raw, lines 106-109): the Arc is    *)
(* released and no stored waker of t is left.                            *)
DropWaker(t) ==
    /\ t \in held
    /\ held' = held \ {t}
    /\ UNCHANGED <<status, remote, polls, injector, localq, pending, pc, cur,
                   target, repoll, needResched, panicked, woken>>

(* A thread outside any poll fires a stored waker of t (wake/wake_by_ref) *)
ExternalWake(t) ==
    /\ t \in held
    /\ status' = [status EXCEPT ![t] = WakeStatus(@)]
    /\ RecordWake(t)
    /\ pending' = [pending EXCEPT ![t] = IF WinsIdleCas(status[t]) THEN @ + 1 ELSE @]
    /\ UNCHANGED <<remote, held, polls, injector, localq, pc, cur, target,
                   repoll, needResched, panicked>>

(* ...and completes its wake_task: LOCAL is null, so out_of_polling: the  *)
(* task goes to the injector of its recorded remote.                      *)
ExternalWakePush(t) ==
    /\ pending[t] > 0
    /\ pending' = [pending EXCEPT ![t] = @ - 1]
    /\ IF remote[t] = NoPool
       THEN /\ panicked' = TRUE
            /\ UNCHANGED injector
       ELSE /\ injector' = [injector EXCEPT ![remote[t]] = Append(@, t)]
            /\ UNCHANGED panicked
    /\ UNCHANGED <<status, remote, held, polls, localq, pc, cur, target,
                   repoll, needResched, woken>>

(* poll returns Ready (lines 261-263): COMPLETED, handle returns true.    *)
PollReady_KeepCell(w) ==
    LET t == cur[w] IN
    /\ pc[w] = "poll"
    /\ status' = [status EXCEPT ![t] = COMPLETED]
    /\ pc' = [pc EXCEPT ![w] = "pop"]
    /\ UNCHANGED <<remote, held, polls, injector, localq, pending, target,
                   cur, repoll, needResched, panicked, woken>>
PollReady(w) ==
    LET t == cur[w] IN
    /\ pc[w] = "poll"
    /\ status' = [status EXCEPT ![t] = COMPLETED]
    /\ pc' = [pc EXCEPT ![w] = "pop"]
    /\ cur' = [cur EXCEPT ![w] = NoTask]
    /\ UNCHANGED <<remote, held, polls, injector, localq, pending, target,
                   repoll, needResched, panicked, woken>>

(* After a Pending poll (lines 265-273): remote is filled from LOCAL.    *)
FillRemote_Skipped(w, t) == remote[t]
FillRemote(w, t) == IF remote[t] = NoPool THEN PoolOf[w] ELSE remote[t]

(* compare_exchange(POLLING, IDLE) succeeds (line 274). *)
CasIdleSucceeds_Store(t) == TRUE
CasIdleSucceeds(t) == status[t] = POLLING

(* The preemption branch (lines 278-282): wake_task(task, need_reschedule) *)
(* with LOCAL set to w; handle returns false.                             *)
Preempt_NoRequeue(w, t, nr) ==
    /\ pc' = [pc EXCEPT ![w] = "pop"]
    /\ cur' = [cur EXCEPT ![w] = NoTask]
    /\ UNCHANGED <<injector, localq, panicked>>
Preempt(w, t, nr) ==
    /\ pc' = [pc EXCEPT ![w] = "pop"]
    /\ cur' = [cur EXCEPT ![w] = NoTask]
    /\ WakeTaskOnWorker(w, t, FillRemote(w, t), nr)

(* repoll_times >= self.repoll_limit (line 278): the task has been polled *)
(* again repoll_limit times in this handle call.                         *)
RepollExhausted_Gt(w) == repoll[w] > RepollLimit
RepollExhausted(w) == repoll[w] >= RepollLimit

(* Otherwise poll again (line 284 and the store POLLING of line 260). *)
Repoll(w, t) ==
    /\ repoll' = [repoll EXCEPT ![w] = @ + 1]
    /\ status' = [status EXCEPT ![t] = POLLING]
    /\ polls' = [polls EXCEPT ![t] = @ + 1]
    /\ woken' = [woken EXCEPT ![t] = FALSE]
    /\ UNCHANGED <<pc, cur, injector, localq, panicked>>

(* poll returns Pending (lines 265-287): fill remote, then CAS POLLING -> *)
(* IDLE; handle returns false. If the task was notified meanwhile, take   *)
(* the NEED_RESCHEDULE flag; when the repoll limit is reached or a        *)
(* reschedule was asked, and the queue wants preemption (need_preempt,   *)
(* any answer of NeedPreempt), re-queue the task; else poll it again.    *)
PollPending(w) ==
    LET t == cur[w] IN
    /\ pc[w] = "poll"
    /\ polls[t] < MaxPolls
    /\ remote' = [remote EXCEPT ![t] = FillRemote(w, t)]
    /\ IF CasIdleSucceeds(t)
       THEN /\ status' = [status EXCEPT ![t] = IDLE]
            /\ pc' = [pc EXCEPT ![w] = "pop"]
            /\ cur' = [cur EXCEPT ![w] = NoTask]
            /\ UNCHANGED <<polls, injector, localq, repoll, needResched,
                           panicked, woken>>
       ELSE /\ needResched' = [needResched EXCEPT ![w] = FALSE]
            /\ \E needPreempt \in NeedPreempt :
                 IF (RepollExhausted(w) \/ needResched[w]) /\ needPreempt
                 THEN /\ Preempt(w, t, needResched[w])
                      /\ UNCHANGED <<status, polls, repoll, woken>>
                 ELSE Repoll(w, t)
    /\ UNCHANGED <<held, pending, target>>

Next ==
    \/ \E t \in Tasks : Spawn(t) \/ ExternalWake(t) \/ ExternalWakePush(t)
    \/ \E t \in Tasks : DropWaker(t)
    \/ \E w \in Workers :
         \/ PopLocal(w) \/ PopInjector(w)
         \/ CloneWaker(w) \/ SelfWake(w) \/ Yield(w)
         \/ WorkerWakePush(w) \/ PollReady(w) \/ PollPending(w)
         \/ \E t \in Tasks : LocalSpawn(w, t) \/ WorkerWake(w, t)

(* Worker threads keep running their loop and every poll returns; a      *)
(* thread inside wake_task finishes it. Spawns and wakes from the         *)
(* environment and the futures' choices are not fair.                     *)
Fairness ==
    /\ \A w \in Workers :
         /\ WF_vars(PopLocal(w)) /\ WF_vars(PopInjector(w))
         /\ WF_vars(WorkerWakePush(w))
         /\ WF_vars(PollReady(w) \/ PollPending(w))
    /\ \A t \in Tasks : WF_vars(ExternalWakePush(t))

Spec == Init /\ [][Next]_vars /\ Fairness

-----------------------------------------------------------------------------
(* Type invariant, in parts: the per-task state, the queues, the         *)
(* per-worker state, the panic flag, and the link between a worker's     *)
(* program counter and the task cells it holds.                         *)
TypeTasks ==
    /\ status \in [Tasks -> Status]
    /\ remote \in [Tasks -> Pools \cup {NoPool}]
    /\ held \subseteq Tasks
    /\ polls \in [Tasks -> Nat]
    /\ pending \in [Tasks -> Nat]
    /\ woken \in [Tasks -> BOOLEAN]
TypeQueues ==
    /\ injector \in [Pools -> Seq(Tasks)]
    /\ localq \in [Workers -> Seq(Tasks)]
TypeWorkers ==
    /\ pc \in [Workers -> PC]
    /\ cur \in [Workers -> Tasks \cup {NoTask}]
    /\ target \in [Workers -> Tasks \cup {NoTask}]
    /\ repoll \in [Workers -> Nat]
    /\ needResched \in [Workers -> BOOLEAN]
TypeFlags == panicked \in BOOLEAN
TypeLink ==
    /\ \A w \in Workers : (pc[w] = "pop") <=> (cur[w] = NoTask)
    /\ \A w \in Workers : (pc[w] = "waking") <=> (target[w] # NoTask)

(* The variables keep their types, and a worker holds a task cell exactly *)
(* while it is polling it (cur) or inside wake_task for it (target).     *)
TypeOK == TypeTasks /\ TypeQueues /\ TypeWorkers /\ TypeFlags /\ TypeLink

(* The places a task cell can occupy as a runnable entry: a slot of an   *)
(* injector or a local queue, a wake_task in progress (outside a pool or *)
(* on a worker), or the worker polling it.                               *)
Holders(t) ==
    (UNION {{<<"inj", p, i>> : i \in Occurrences(injector[p], t)} : p \in Pools})
    \cup (UNION {{<<"loc", w, i>> : i \in Occurrences(localq[w], t)} : w \in Workers})
    \cup {<<"ext", k, 0>> : k \in 1..pending[t]}
    \cup {<<"wake", w, 0>> : w \in {v \in Workers : target[v] = t}}
    \cup {<<"poll", w, 0>> : w \in {v \in Workers : cur[v] = t}}

(* Invariants 1 and 3 of the spec: a wake that finds the task NOTIFIED   *)
(* or POLLING adds no second entry, so a task cell is never runnable in  *)
(* two places and never polled by two workers at once (the aliasing     *)
(* discipline that makes the UnsafeCell accesses of handle sound).       *)
NoDuplicate ==
    \A t \in Tasks : Cardinality(Holders(t)) <= 1

(* No task is lost: a NOTIFIED or POLLING task has an entry that some    *)
(* worker will take (or is being polled), and an IDLE, COMPLETED or not  *)
(* yet spawned task has none, so a completed future is never polled     *)
(* again (invariant 4 and 7 of the spec; the unreachable!() of handle).  *)
ScheduledIffRunnable ==
    \A t \in Tasks :
        (Holders(t) # {}) <=> (status[t] \in {NOTIFIED, POLLING})

(* No lost wake-up: a wake (by an outside thread, by another task, or by *)
(* the task itself) issued after its last poll began leaves the task    *)
(* NOTIFIED until a later poll begins, whichever of the CAS of          *)
(* wake_impl and the CAS POLLING -> IDLE of handle wins.                 *)
NoLostWake ==
    \A t \in Tasks : woken[t] => status[t] \in {NOTIFIED, COMPLETED}

(* wake_task's expect("core should exist!!!") never fires: remote is set *)
(* before the task can become IDLE or be re-queued by handle.           *)
RemoteKnownOnWake == ~panicked

(* Cross-pool wakes (test_multi_pools_wake): a task only ever sits in    *)
(* the queues of, and is only polled by, the pool that spawned it, even  *)
(* when its waker fires on a worker of another pool.                     *)
TaskStaysInPool ==
    \A t \in Tasks :
        /\ remote[t] \in {NoPool, TaskPool[t]}
        /\ \A p \in Pools : Occurrences(injector[p], t) # {} => p = TaskPool[t]
        /\ \A w \in Workers :
             (Occurrences(localq[w], t) # {} \/ cur[w] = t) => PoolOf[w] = TaskPool[t]

(* Action property: COMPLETED is terminal; a completed future is never   *)
(* polled, notified or re-queued again.                                  *)
CompletedIsFinal ==
    [][\A t \in Tasks : status[t] = COMPLETED => status'[t] = COMPLETED]_vars

(* Liveness: every notified task is eventually polled (or completed).    *)
NotifiedIsPolled ==
    \A t \in Tasks : status[t] = NOTIFIED ~> status[t] \in {POLLING, COMPLETED}

(* NEED_RESCHEDULE belongs to the poll that set it: a worker that is not *)
(* polling holds no pending reschedule request.                          *)
RescheduleFlagScoped ==
    \A w \in Workers : needResched[w] => pc[w] # "pop"

(* The repoll limit bounds one handle call (test_repoll_limit, scenario  *)
(* S3 of the spec): while need_preempt asks for preemption, a task woken *)
(* during every poll is polled at most repoll_limit + 1 times before     *)
(* handle re-queues it, so it cannot keep its worker longer.             *)
RepollBounded ==
    \A w \in Workers : repoll[w] <= RepollLimit


-----------------------------------------------------------------------------
(* The refinement mapping to TaskLifecycle: the status byte, and whether *)
(* a worker is handling the task, give where the task is in its life.   *)
(* NOTIFIED is "queued" when no worker holds the task (it sits in a     *)
(* queue or a wake_task is pushing it) and "rerun" when one is polling it.*)
AbsState(t) ==
    CASE status[t] = UNCREATED -> "unspawned"
      [] status[t] = COMPLETED -> "done"
      [] status[t] = IDLE      -> "idle"
      [] status[t] = POLLING   -> "running"
      [] status[t] = NOTIFIED  ->
           IF \E w \in Workers : cur[w] = t THEN "rerun" ELSE "queued"

TL == INSTANCE TaskLifecycle WITH
          state <- [t \in Tasks |-> AbsState(t)], running <- cur

(* Every behaviour of the runtime is one of TaskLifecycle: each step of   *)
(* the CAS protocol, the queues and the routing of wake_task is a step   *)
(* of the task's life or leaves it unchanged. In particular a worker     *)
(* only starts a task that was queued and belongs to its pool, and no   *)
(* task is started while another worker holds it.                       *)
ImplementsTaskLifecycle == TL!SafeSpec

=============================================================================
