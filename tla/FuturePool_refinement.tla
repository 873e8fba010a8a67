----------------------- MODULE FuturePool_refinement -----------------------
(***************************************************************************)
(* Proof that the runtime implements TaskLifecycle (ImplementsTaskLifecycle*)
(* , the safety part), for every value of the constants: under the        *)
(* mapping AbsState every step of FuturePool is a step of TaskLifecycle or *)
(* leaves the abstract state alone.                                        *)
(*                                                                         *)
(* The step argument needs three facts about reachable states: a task a    *)
(* worker pops is NOTIFIED and held by no worker, so it is "queued"       *)
(* (EntryInv); it belongs to the popping worker's pool (HomeInv); and a    *)
(* task a worker polls is NOTIFIED or POLLING, and no other worker polls   *)
(* it (EntryInv).                                                          *)
(***************************************************************************)
EXTENDS FuturePool_entries

USE DEF UNCREATED, NOTIFIED, IDLE, POLLING, COMPLETED

(* The abstract state function TaskLifecycle sees. *)
AS == [u \in Tasks |-> AbsState(u)]

(* What EntryInv says of the status of a task that a worker polls or a   *)
(* queue holds.                                                           *)
LEMMA TaskFacts ==
    ASSUME TypeOK, EntryInv, NEW t \in Tasks
    PROVE  /\ Polled(t) => status[t] \in {NOTIFIED, POLLING}
           /\ Queued(t) => status[t] = NOTIFIED /\ ~Polled(t)
           /\ status[t] = POLLING => Polled(t)
  BY DEF EntryInv, EntriesMatchStatus, MatchAt, HasEntry, EntriesExclusive,
         ExclusiveAt

(* A task whose status and whose pollers are unchanged keeps its          *)
(* abstract state.                                                        *)
LEMMA AbsFrame ==
    ASSUME NEW u, status'[u] = status[u], (Polled(u)' <=> Polled(u))
    PROVE  AbsState(u)' = AbsState(u)
  BY DEF AbsState, Polled

(* A step that changes the abstract state of t alone. *)
LEMMA AbsUpdate ==
    ASSUME NEW t \in Tasks, NEW x, AbsState(t)' = x,
           \A u \in Tasks : u # t => AbsState(u)' = AbsState(u)
    PROVE  AS' = [AS EXCEPT ![t] = x]
  BY DEF AS

(* A step that leaves the status and the pollers alone is a stutter. *)
LEMMA AbsStutter ==
    ASSUME status' = status, cur' = cur
    PROVE  UNCHANGED TL!avars
  BY DEF TL!avars, AbsState

LEMMA RefInit == Init => TL!Init
  BY DEF Init, TL!Init, AbsState

(* The CAS loop of wake_impl on u, whoever runs it: IDLE -> NOTIFIED is   *)
(* the abstract Wake of a parked task, POLLING -> NOTIFIED that of a      *)
(* running one; on the other statuses it changes nothing.                 *)
LEMMA WakeRef ==
    ASSUME TypeOK, EntryInv, NEW u \in Tasks,
           status' = [status EXCEPT ![u] = WakeStatus(@)], cur' = cur
    PROVE  TL!Wake(u) \/ UNCHANGED TL!avars
<1>1. status \in [Tasks -> Status]
  BY DEF TypeOK, TypeTasks
<1>2. \A v \in Tasks : v # u => AbsState(v)' = AbsState(v)
  BY <1>1, AbsFrame DEF Polled
<1>3. CASE status[u] = IDLE
  <2>1. ~Polled(u)
    BY <1>3, TaskFacts
  <2>2. AbsState(u) = "idle" /\ AbsState(u)' = "queued"
    BY <1>1, <1>3, <2>1 DEF AbsState, Polled, WakeStatus
  <2>3. AS' = [AS EXCEPT ![u] = "queued"]
    BY <1>2, <2>2, AbsUpdate
  <2>4. QED
    BY <2>2, <2>3 DEF TL!Wake, AS
<1>4. CASE status[u] = POLLING
  <2>1. Polled(u)
    BY <1>4, TaskFacts
  <2>2. AbsState(u) = "running" /\ AbsState(u)' = "rerun"
    BY <1>1, <1>4, <2>1 DEF AbsState, Polled, WakeStatus
  <2>3. AS' = [AS EXCEPT ![u] = "rerun"]
    BY <1>2, <2>2, AbsUpdate
  <2>4. QED
    BY <2>2, <2>3 DEF TL!Wake, AS
<1>5. CASE status[u] \notin {IDLE, POLLING}
  <2>1. status' = status
    BY <1>1, <1>5 DEF WakeStatus
  <2>2. QED
    BY <2>1, AbsStutter
<1>6. QED
  BY <1>3, <1>4, <1>5


(* Runner::handle starting on a task w popped from a queue of its pool:  *)
(* the abstract Run. The task was queued and held by no worker, and w    *)
(* held none.                                                             *)
LEMMA StartRef ==
    ASSUME TypeOK, EntryInv, NEW w \in Workers, NEW t \in Tasks,
           pc[w] = "pop", Queued(t), PoolOf[w] = TaskPool[t], StartHandle(w, t)
    PROVE  TL!Run(w, t)
<1>1. status \in [Tasks -> Status] /\ cur \in [Workers -> Tasks \cup {NoTask}]
  BY DEF TypeOK, TypeTasks, TypeWorkers
<1>2. cur[w] = NoTask
  BY DEF TypeOK, TypeLink
<1>3. status[t] = NOTIFIED /\ ~Polled(t)
  BY TaskFacts
<1>4. AbsState(t) = "queued"
  BY <1>3 DEF AbsState, Polled
<1>5. status' = [status EXCEPT ![t] = POLLING] /\ cur' = [cur EXCEPT ![w] = t]
  BY DEF StartHandle
<1>6. AbsState(t)' = "running"
  BY <1>1, <1>5 DEF AbsState
<1>7. \A v \in Tasks : v # t => AbsState(v)' = AbsState(v)
  <2> SUFFICES ASSUME NEW v \in Tasks, v # t PROVE AbsState(v)' = AbsState(v)
    OBVIOUS
  <2>1. status'[v] = status[v]
    BY <1>1, <1>5
  <2>2. Polled(v)' <=> Polled(v)
    BY <1>1, <1>2, <1>5, NoneAssumption DEF Polled
  <2>3. QED
    BY <2>1, <2>2, AbsFrame
<1>8. AS' = [AS EXCEPT ![t] = "running"]
  BY <1>6, <1>7, AbsUpdate
<1>9. QED
  BY <1>2, <1>4, <1>5, <1>8 DEF TL!Run, AS

(* The pop of the local queue, LIFO, and of the pool's injector. *)
LEMMA PopLocalRef ==
    ASSUME TypeOK, EntryInv, HomeInv, NEW w \in Workers, PopLocal(w)
    PROVE  \E t \in Tasks : TL!Run(w, t)
<1>1. localq[w] \in Seq(Tasks) /\ localq[w] # <<>>
  BY DEF TypeOK, TypeQueues, PopLocal
<1>2. PICK t \in Tasks : t = Top(localq[w])
  BY <1>1 DEF Top
<1>3. Occurrences(localq[w], t) # {}
  BY <1>1, <1>2, OccEnds
<1>4. Queued(t) /\ PoolOf[w] = TaskPool[t]
  BY <1>3 DEF Queued, InLoc, HomeInv, LocHome
<1>5. QED
  BY <1>2, <1>4, StartRef DEF PopLocal

LEMMA PopInjectorRef ==
    ASSUME TypeOK, EntryInv, HomeInv, NEW w \in Workers, PopInjector(w)
    PROVE  \E t \in Tasks : TL!Run(w, t)
<1>0. PoolOf[w] \in Pools
  BY TopologyAssumption
<1>1. injector[PoolOf[w]] \in Seq(Tasks) /\ injector[PoolOf[w]] # <<>>
  BY <1>0 DEF TypeOK, TypeQueues, PopInjector
<1>2. PICK t \in Tasks : t = Head(injector[PoolOf[w]])
  BY <1>1
<1>3. Occurrences(injector[PoolOf[w]], t) # {}
  BY <1>1, <1>2, OccEnds
<1>4. Queued(t) /\ PoolOf[w] = TaskPool[t]
  BY <1>0, <1>3 DEF Queued, InInj, HomeInv, InjHome
<1>5. QED
  BY <1>2, <1>4, StartRef DEF PopInjector


(* Worker w lets go of the task t it polled, or keeps it; any other task *)
(* keeps its status and its pollers, and so its abstract state.           *)
LEMMA ReleaseFrame ==
    ASSUME TypeOK, NEW w \in Workers, NEW t \in Tasks, cur[w] = t,
           cur' = [cur EXCEPT ![w] = NoTask] \/ cur' = cur,
           \E x : status' = [status EXCEPT ![t] = x]
    PROVE  \A v \in Tasks : v # t => AbsState(v)' = AbsState(v)
<1> SUFFICES ASSUME NEW v \in Tasks, v # t PROVE AbsState(v)' = AbsState(v)
  OBVIOUS
<1>1. status \in [Tasks -> Status] /\ cur \in [Workers -> Tasks \cup {NoTask}]
  BY DEF TypeOK, TypeTasks, TypeWorkers
<1>2. status'[v] = status[v]
  BY <1>1
<1>3. Polled(v)' <=> Polled(v)
  BY <1>1, NoneAssumption DEF Polled
<1>4. QED
  BY <1>2, <1>3, AbsFrame

(* The task a worker polls is NOTIFIED or POLLING, and no other worker   *)
(* polls it.                                                              *)
LEMMA PolledTask ==
    ASSUME TypeOK, EntryInv, NEW w \in Workers, pc[w] = "poll"
    PROVE  /\ cur[w] \in Tasks
           /\ status[cur[w]] \in {NOTIFIED, POLLING}
           /\ \A v \in Workers : cur[v] = cur[w] => v = w
<1>1. cur[w] \in Tasks
  BY CurTask
<1>2. Polled(cur[w])
  BY <1>1 DEF Polled
<1>3. QED
  BY <1>1, <1>2, TaskFacts DEF EntryInv, WorkerUnique

(* poll returned Ready: the abstract Finish. *)
LEMMA PollReadyRef ==
    ASSUME TypeOK, EntryInv, NEW w \in Workers, PollReady(w)
    PROVE  TL!Finish(w)
<1>1. PICK t \in Tasks : t = cur[w]
  BY PolledTask DEF PollReady
<1>2. status[t] \in {NOTIFIED, POLLING} /\ Polled(t)
  BY <1>1, PolledTask DEF PollReady, Polled
<1>3. AbsState(t) \in {"running", "rerun"}
  BY <1>2 DEF AbsState, Polled
<1>4. status' = [status EXCEPT ![t] = COMPLETED] /\ cur' = [cur EXCEPT ![w] = NoTask]
  BY <1>1 DEF PollReady
<1>5. AbsState(t)' = "done"
  <2>1. status \in [Tasks -> Status]
    BY DEF TypeOK, TypeTasks
  <2>2. QED
    BY <2>1, <1>4 DEF AbsState
<1>6. AS' = [AS EXCEPT ![t] = "done"]
  BY <1>1, <1>4, <1>5, ReleaseFrame, AbsUpdate
<1>7. QED
  BY <1>1, <1>3, <1>4, <1>6, NoneAssumption DEF TL!Finish, AS

(* poll returned Pending. The CAS POLLING -> IDLE succeeds: the abstract  *)
(* Suspend. It fails because a wake came: polling again is the abstract   *)
(* Rerun, the preemption branch the abstract Requeue.                     *)
LEMMA PollPendingRef ==
    ASSUME TypeOK, EntryInv, NEW w \in Workers, PollPending(w)
    PROVE  TL!Suspend(w) \/ TL!Rerun(w) \/ TL!Requeue(w)
<1>1. PICK t \in Tasks : t = cur[w]
  BY PolledTask DEF PollPending
<1>2. status[t] \in {NOTIFIED, POLLING} /\ Polled(t)
      /\ \A v \in Workers : cur[v] = t => v = w
  BY <1>1, PolledTask DEF PollPending, Polled
<1>3. status \in [Tasks -> Status] /\ cur \in [Workers -> Tasks \cup {NoTask}]
  BY DEF TypeOK, TypeTasks, TypeWorkers
<1>4. CASE status[t] = POLLING
  <2>1. status' = [status EXCEPT ![t] = IDLE] /\ cur' = [cur EXCEPT ![w] = NoTask]
    BY <1>1, <1>4 DEF PollPending, CasIdleSucceeds
  <2>2. AbsState(t) = "running" /\ AbsState(t)' = "idle"
    BY <1>2, <1>3, <1>4, <2>1 DEF AbsState, Polled
  <2>3. AS' = [AS EXCEPT ![t] = "idle"]
    BY <1>1, <2>1, <2>2, ReleaseFrame, AbsUpdate
  <2>4. QED
    BY <1>1, <2>1, <2>2, <2>3, NoneAssumption DEF TL!Suspend, AS
<1>5. CASE status[t] = NOTIFIED
  <2>1. AbsState(t) = "rerun"
    BY <1>2, <1>5 DEF AbsState, Polled
  <2>2. \/ cur' = [cur EXCEPT ![w] = NoTask] /\ status' = status
        \/ cur' = cur /\ status' = [status EXCEPT ![t] = POLLING]
    BY <1>1, <1>5 DEF PollPending, CasIdleSucceeds, Preempt, Repoll
  <2>3. CASE cur' = [cur EXCEPT ![w] = NoTask] /\ status' = status
    <3>1. ~Polled(t)'
      BY <1>2, <1>3, <2>3, NoneAssumption DEF Polled
    <3>2. AbsState(t)' = "queued"
      BY <1>5, <2>3, <3>1 DEF AbsState, Polled
    <3>3. \E x : status' = [status EXCEPT ![t] = x]
      <4>1. status' = [status EXCEPT ![t] = status[t]]
        BY <1>3, <2>3
      <4>2. QED
        BY <4>1
    <3>6. \A v \in Tasks : v # t => AbsState(v)' = AbsState(v)
      BY <1>1, <2>3, <3>3, ReleaseFrame
    <3>4. AS' = [AS EXCEPT ![t] = "queued"]
      BY <3>2, <3>6, AbsUpdate
    <3>5. QED
      BY <1>1, <2>1, <2>3, <3>4, NoneAssumption DEF TL!Requeue, AS
  <2>4. CASE cur' = cur /\ status' = [status EXCEPT ![t] = POLLING]
    <3>1. AbsState(t)' = "running"
      BY <1>3, <2>4 DEF AbsState
    <3>2. AS' = [AS EXCEPT ![t] = "running"]
      BY <1>1, <2>4, <3>1, ReleaseFrame, AbsUpdate
    <3>3. QED
      BY <1>1, <2>1, <2>4, <3>2, NoneAssumption DEF TL!Rerun, AS
  <2>5. QED
    BY <2>2, <2>3, <2>4
<1>6. QED
  BY <1>2, <1>4, <1>5


(* TaskCell::new, pushed by Remote::spawn or Local::spawn: the abstract  *)
(* Spawn.                                                                 *)
LEMMA SpawnRef ==
    ASSUME TypeOK, EntryInv, NEW t \in Tasks, status[t] = UNCREATED,
           status' = [status EXCEPT ![t] = NOTIFIED], cur' = cur
    PROVE  TL!Spawn(t)
<1>1. status \in [Tasks -> Status]
  BY DEF TypeOK, TypeTasks
<1>2. ~Polled(t)
  BY TaskFacts
<1>3. AbsState(t) = "unspawned" /\ AbsState(t)' = "queued"
  BY <1>1, <1>2 DEF AbsState, Polled
<1>4. \A v \in Tasks : v # t => AbsState(v)' = AbsState(v)
  BY <1>1, AbsFrame DEF Polled
<1>5. AS' = [AS EXCEPT ![t] = "queued"]
  BY <1>3, <1>4, AbsUpdate
<1>6. QED
  BY <1>3, <1>5 DEF TL!Spawn, AS

(* Every step of the runtime is a step of TaskLifecycle or a stutter. *)
LEMMA RefStep ==
    ASSUME TypeOK, EntryInv, HomeInv, [Next]_vars
    PROVE  [TL!Next]_TL!avars
<1>1. CASE \E t \in Tasks : Spawn(t)
  BY <1>1, SpawnRef DEF Spawn, TL!Next
<1>2. CASE \E w \in Workers, t \in Tasks : LocalSpawn(w, t)
  BY <1>2, SpawnRef DEF LocalSpawn, TL!Next
<1>3. CASE \E t \in Tasks : ExternalWake(t)
  BY <1>3, WakeRef DEF ExternalWake, TL!Next
<1>4. CASE \E w \in Workers, u \in Tasks : WorkerWake(w, u)
  BY <1>4, WakeRef DEF WorkerWake, TL!Next
<1>5. CASE \E w \in Workers : SelfWake(w) \/ Yield(w)
  <2>1. PICK w \in Workers : SelfWake(w) \/ Yield(w)
    BY <1>5
  <2>2. PICK t \in Tasks : t = cur[w]
    BY <2>1, CurTask DEF SelfWake, Yield
  <2>3. status' = [status EXCEPT ![t] = WakeStatus(@)] /\ cur' = cur
    BY <2>1, <2>2 DEF SelfWake, Yield
  <2>4. QED
    BY <2>3, WakeRef DEF TL!Next
<1>6. CASE \/ \E t \in Tasks : ExternalWakePush(t) \/ DropWaker(t)
           \/ \E w \in Workers : CloneWaker(w) \/ WorkerWakePush(w)
  BY <1>6, AbsStutter DEF ExternalWakePush, DropWaker, CloneWaker, WorkerWakePush
<1>7. CASE \E w \in Workers : PopLocal(w) \/ PopInjector(w)
  BY <1>7, PopLocalRef, PopInjectorRef DEF TL!Next
<1>8. CASE \E w \in Workers : PollReady(w) \/ PollPending(w)
  BY <1>8, PollReadyRef, PollPendingRef DEF TL!Next
<1>9. CASE UNCHANGED vars
  BY <1>9, AbsStutter DEF vars
<1>10. QED
  BY <1>1, <1>2, <1>3, <1>4, <1>5, <1>6, <1>7, <1>8, <1>9 DEF Next

(* ImplementsTaskLifecycle, for every value of the constants: whatever   *)
(* the CAS loops, the queues and the routing of wake_task do, a worker    *)
(* only starts a task that is queued and belongs to its pool, a wake is   *)
(* only seen by a parked or running task, and a poll ends in one of       *)
(* Finish, Suspend, Rerun and Requeue.                                    *)
THEOREM RefinementThm == Spec => ImplementsTaskLifecycle
<1>1. Spec => []HomeInv
  BY TypeCorrect, HomeInit, HomeStep, PTL DEF Spec
<1>2. TypeOK /\ EntryInv /\ HomeInv /\ [Next]_vars => [TL!Next]_TL!avars
  BY RefStep
<1>3. QED
  BY RefInit, TypeCorrect, EntryInvariant, <1>1, <1>2, PTL
     DEF Spec, ImplementsTaskLifecycle, TL!SafeSpec

=============================================================================
