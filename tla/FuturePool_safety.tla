-------------------------- MODULE FuturePool_safety --------------------------
(***************************************************************************)
(* Proofs about FuturePool for every value of the constants, beyond type  *)
(* correctness and NoLostWake (FuturePool_proofs): wake_task's expect     *)
(* never fires (RemoteKnownOnWake), a task never leaves the pool that     *)
(* spawned it (TaskStaysInPool), and the repoll limit bounds one handle   *)
(* call when the queue always asks for preemption (RepollBounded).       *)
(***************************************************************************)
EXTENDS FuturePool_proofs

USE DEF UNCREATED, NOTIFIED, IDLE, POLLING, COMPLETED

(* The strengthening of RemoteKnownOnWake: the threads that can reach    *)
(* wake_task are exactly those that won the CAS IDLE -> NOTIFIED, and a  *)
(* task only becomes IDLE after handle has filled its remote. So an IDLE *)
(* task, a task an outside wake_task is pushing, and a task a worker is   *)
(* routing all have a remote; and remote is never reset to None.         *)
RemoteInv ==
    /\ ~panicked
    /\ \A t \in Tasks : (status[t] = IDLE \/ pending[t] > 0) => remote[t] # NoPool
    /\ \A w \in Workers : target[w] # NoTask => remote[target[w]] # NoPool

(* Every worker's pool is a pool, so the remote a worker records is set. *)
LEMMA WorkerPoolSet ==
    ASSUME NEW w \in Workers
    PROVE  PoolOf[w] \in Pools /\ PoolOf[w] # NoPool
  BY TopologyAssumption, NoneAssumption

(* handle's fill of remote (lines 265-273) and clone_task never leave it *)
(* None, and never reset a recorded remote.                              *)
LEMMA FillRemoteSet ==
    ASSUME NEW w \in Workers, NEW t \in Tasks
    PROVE  FillRemote(w, t) # NoPool
  BY WorkerPoolSet DEF FillRemote

(* RemoteInv holds initially: nothing is IDLE, pushed or routed. *)
LEMMA RemoteInit == Init => RemoteInv
  BY NoneAssumption DEF Init, RemoteInv

(* Every step of the runtime keeps RemoteInv. *)
LEMMA RemoteStep == TypeOK /\ TypeOK' /\ RemoteInv /\ [Next]_vars => RemoteInv'
<1> SUFFICES ASSUME TypeOK, TypeOK', RemoteInv, [Next]_vars PROVE RemoteInv'
  OBVIOUS
<1>0. /\ ~panicked
      /\ \A t \in Tasks : (status[t] = IDLE \/ pending[t] > 0) => remote[t] # NoPool
      /\ \A w \in Workers : target[w] # NoTask => remote[target[w]] # NoPool
  BY DEF RemoteInv
<1>T. TypeTasks /\ TypeWorkers
  BY DEF TypeOK
<1>1. ASSUME NEW t \in Tasks, Spawn(t) PROVE RemoteInv'
  BY <1>0, <1>T, <1>1 DEF Spawn, RemoteInv
<1>2. ASSUME NEW t \in Tasks, ExternalWake(t) PROVE RemoteInv'
  BY <1>0, <1>T, <1>2 DEF ExternalWake, RecordWake, WakeStatus, WinsIdleCas, RemoteInv
<1>3. ASSUME NEW t \in Tasks, ExternalWakePush(t) PROVE RemoteInv'
  BY <1>0, <1>T, <1>3 DEF ExternalWakePush, RemoteInv
<1>4. ASSUME NEW t \in Tasks, DropWaker(t) PROVE RemoteInv'
  BY <1>0, <1>T, <1>4 DEF DropWaker, RemoteInv
<1>5. ASSUME NEW w \in Workers, PopLocal(w) PROVE RemoteInv'
  BY <1>0, <1>T, <1>5 DEF PopLocal, StartHandle, RemoteInv
<1>6. ASSUME NEW w \in Workers, PopInjector(w) PROVE RemoteInv'
  BY <1>0, <1>T, <1>6 DEF PopInjector, StartHandle, RemoteInv
<1>7. ASSUME NEW w \in Workers, CloneWaker(w) PROVE RemoteInv'
  BY <1>0, <1>7, WorkerPoolSet DEF CloneWaker, CloneTask, RemoteInv, TypeOK, TypeTasks
<1>8. ASSUME NEW w \in Workers, SelfWake(w) PROVE RemoteInv'
  BY <1>0, <1>T, <1>8 DEF SelfWake, RecordWake, WakeStatus, RemoteInv
<1>9. ASSUME NEW w \in Workers, Yield(w) PROVE RemoteInv'
  BY <1>0, <1>T, <1>9 DEF Yield, RecordWake, WakeStatus, RemoteInv
<1>10. ASSUME NEW w \in Workers, NEW u \in Tasks, WorkerWake(w, u) PROVE RemoteInv'
  <2>1. \A x \in Tasks : status'[x] = IDLE => status[x] = IDLE
    BY <1>T, <1>10 DEF WorkerWake, WakeStatus
  <2>2. \A v \in Workers : target'[v] # NoTask => remote[target'[v]] # NoPool
    <3>1. CASE WinsIdleCas(status[u])
      <4>1. remote[u] # NoPool
        BY <1>0, <3>1 DEF WinsIdleCas
      <4>2. target' = [target EXCEPT ![w] = u]
        BY <1>10, <3>1 DEF WorkerWake
      <4>3. QED
        BY <1>0, <1>T, <4>1, <4>2 DEF TypeWorkers
    <3>2. CASE ~WinsIdleCas(status[u])
      BY <1>0, <1>10, <3>2 DEF WorkerWake
    <3>3. QED
      BY <3>1, <3>2
  <2>3. QED
    BY <1>0, <1>10, <2>1, <2>2 DEF WorkerWake, RemoteInv
<1>11. ASSUME NEW w \in Workers, WorkerWakePush(w) PROVE RemoteInv'
  <2>1. target[w] \in Tasks /\ remote[target[w]] # NoPool
    BY <1>0, <1>11, TargetTask, NoneAssumption DEF WorkerWakePush
  <2>2. UNCHANGED panicked
    BY <1>11, <2>1 DEF WorkerWakePush, WakeTaskOnWorker
  <2>3. QED
    BY <1>0, <1>11, <2>2 DEF WorkerWakePush, RemoteInv
<1>12. ASSUME NEW w \in Workers, PollReady(w) PROVE RemoteInv'
  BY <1>0, <1>T, <1>12 DEF PollReady, RemoteInv
<1>13. ASSUME NEW w \in Workers, PollPending(w) PROVE RemoteInv'
  <2> DEFINE t == cur[w]
  <2>1. t \in Tasks
    BY <1>13, CurTask DEF PollPending
  <2>2. remote'[t] # NoPool
    BY <1>13, <2>1, FillRemoteSet DEF PollPending, TypeOK, TypeTasks
  <2>3. \A x \in Tasks : remote[x] # NoPool => remote'[x] # NoPool
    BY <1>13, <2>2 DEF PollPending, TypeOK, TypeTasks
  <2>4. UNCHANGED panicked
    <3>1. CASE CasIdleSucceeds(t)
      BY <1>13, <3>1 DEF PollPending
    <3>2. CASE ~CasIdleSucceeds(t)
      <4>1. PICK np \in NeedPreempt :
              IF (RepollExhausted(w) \/ needResched[w]) /\ np
              THEN /\ Preempt(w, t, needResched[w])
                   /\ UNCHANGED <<status, polls, repoll, woken>>
              ELSE Repoll(w, t)
        BY <1>13, <3>2 DEF PollPending
      <4>2. QED
        BY <4>1, <2>1, FillRemoteSet DEF Preempt, Repoll, WakeTaskOnWorker
    <3>3. QED
      BY <3>1, <3>2
  <2>5. \A x \in Tasks : status'[x] = IDLE => status[x] = IDLE \/ x = t
    <3>1. CASE CasIdleSucceeds(t)
      BY <1>13, <3>1 DEF PollPending, TypeOK, TypeTasks
    <3>2. CASE ~CasIdleSucceeds(t)
      <4>1. PICK np \in NeedPreempt :
              IF (RepollExhausted(w) \/ needResched[w]) /\ np
              THEN /\ Preempt(w, t, needResched[w])
                   /\ UNCHANGED <<status, polls, repoll, woken>>
              ELSE Repoll(w, t)
        BY <1>13, <3>2 DEF PollPending
      <4>2. QED
        BY <4>1, <2>1 DEF Repoll, TypeOK, TypeTasks
    <3>3. QED
      BY <3>1, <3>2
  <2>6. QED
    BY <1>0, <1>13, <2>2, <2>3, <2>4, <2>5 DEF PollPending, RemoteInv
<1>14. ASSUME NEW w \in Workers, NEW t \in Tasks, LocalSpawn(w, t) PROVE RemoteInv'
  BY <1>0, <1>T, <1>14 DEF LocalSpawn, RemoteInv
<1>15. CASE UNCHANGED vars
  BY <1>0, <1>15 DEF vars, RemoteInv
<1>16. QED
  BY <1>1, <1>2, <1>3, <1>4, <1>5, <1>6, <1>7, <1>8, <1>9, <1>10, <1>11,
     <1>12, <1>13, <1>14, <1>15 DEF Next

(* wake_task's expect("core should exist!!!") never fires (the           *)
(* RemoteKnownOnWake of the onepool run), for every number of tasks,     *)
(* pools and workers: handle fills remote before the CAS to IDLE, and    *)
(* only a thread that moved the task from IDLE reaches wake_task.         *)
THEOREM RemoteKnownOnWakeThm == Spec => []RemoteKnownOnWake
<1>1. Init => RemoteInv
  BY RemoteInit
<1>2. TypeOK /\ TypeOK' /\ RemoteInv /\ [Next]_vars => RemoteInv'
  BY RemoteStep
<1>3. RemoteInv => RemoteKnownOnWake
  BY DEF RemoteInv, RemoteKnownOnWake
<1>4. QED
  BY TypeCorrect, <1>1, <1>2, <1>3, PTL DEF Spec

(* Only handle touches repoll_times: pop starts it at 0 and a repoll adds *)
(* one. Every other step leaves it alone.                                 *)
LEMMA RepollFrame ==
    ASSUME [Next]_vars,
           ~\E w \in Workers : PopLocal(w) \/ PopInjector(w) \/ PollPending(w)
    PROVE  repoll' = repoll
  BY DEF Next, vars, Spawn, ExternalWake, ExternalWakePush, DropWaker,
         CloneWaker, SelfWake, Yield, WorkerWakePush, PollReady, LocalSpawn,
         WorkerWake

(* When need_preempt always answers true, a step keeps every worker's     *)
(* repoll_times within the limit.                                          *)
LEMMA RepollStep ==
    ASSUME NeedPreempt = {TRUE}, TypeOK, RepollBounded, [Next]_vars
    PROVE  RepollBounded'
<1>0. repoll \in [Workers -> Nat] /\ RepollLimit \in Nat
  BY BoundAssumption DEF TypeOK, TypeWorkers
<1>1. ASSUME NEW w \in Workers, PopLocal(w) \/ PopInjector(w) PROVE RepollBounded'
  <2>1. repoll' = [repoll EXCEPT ![w] = 0]
    BY <1>1 DEF PopLocal, PopInjector, StartHandle
  <2>2. QED
    BY <1>0, <2>1 DEF RepollBounded
<1>2. ASSUME NEW w \in Workers, PollPending(w) PROVE RepollBounded'
  <2> DEFINE t == cur[w]
  <2>1. CASE CasIdleSucceeds(t)
    BY <1>2, <2>1 DEF PollPending, RepollBounded
  <2>2. CASE ~CasIdleSucceeds(t) /\ (RepollExhausted(w) \/ needResched[w])
    <3>1. repoll' = repoll
      BY <1>2, <2>2 DEF PollPending
    <3>2. QED
      BY <3>1 DEF RepollBounded
  <2>3. CASE ~CasIdleSucceeds(t) /\ ~(RepollExhausted(w) \/ needResched[w])
    <3>1. repoll[w] < RepollLimit
      BY <1>0, <2>3 DEF RepollExhausted
    <3>2. repoll' = [repoll EXCEPT ![w] = @ + 1]
      BY <1>2, <2>3 DEF PollPending, Repoll
    <3>3. QED
      BY <1>0, <3>1, <3>2 DEF RepollBounded
  <2>4. QED
    BY <2>1, <2>2, <2>3
<1>3. CASE ~\E w \in Workers : PopLocal(w) \/ PopInjector(w) \/ PollPending(w)
  BY <1>3, RepollFrame DEF RepollBounded
<1>4. QED
  BY <1>1, <1>2, <1>3

(* Runner::handle's repoll limit bounds one handle call (the              *)
(* RepollBounded of the preempt run) for every repoll_limit and every     *)
(* number of tasks and workers, when need_preempt always asks for         *)
(* preemption. With need_preempt false the limit does not apply: line 278 *)
(* then lets handle repoll a task woken during each poll without bound.   *)
THEOREM RepollBoundedThm ==
    ASSUME NeedPreempt = {TRUE}
    PROVE  Spec => []RepollBounded
<1>1. Init => RepollBounded
  BY BoundAssumption DEF Init, RepollBounded
<1>2. TypeOK /\ RepollBounded /\ [Next]_vars => RepollBounded'
  BY RepollStep
<1>3. QED
  BY TypeCorrect, <1>1, <1>2, PTL DEF Spec

-----------------------------------------------------------------------------
(* TaskStaysInPool, in the four parts its proof handles one by one: the   *)
(* recorded remote, the injectors, the local queues, and the task each    *)
(* worker is handling.                                                     *)
RemoteHome == \A t \in Tasks : remote[t] \in {NoPool, TaskPool[t]}
InjHome ==
    \A t \in Tasks, p \in Pools : Occurrences(injector[p], t) # {} => p = TaskPool[t]
LocHome ==
    \A t \in Tasks, w \in Workers :
        Occurrences(localq[w], t) # {} => PoolOf[w] = TaskPool[t]
CurHome == \A w \in Workers : cur[w] \in Tasks => PoolOf[w] = TaskPool[cur[w]]
HomeInv == RemoteHome /\ InjHome /\ LocHome /\ CurHome

(* Pushing a task onto an injector of its own pool keeps InjHome. *)
LEMMA InjPushHome ==
    ASSUME TypeQueues, InjHome, NEW e \in Tasks, NEW q \in Pools, q = TaskPool[e],
           injector' = [injector EXCEPT ![q] = Append(@, e)]
    PROVE  InjHome'
<1> SUFFICES ASSUME NEW t \in Tasks, NEW p \in Pools,
                    Occurrences(injector'[p], t) # {}
             PROVE  p = TaskPool[t]
  BY DEF InjHome
<1>1. CASE p = q
  <2>1. Occurrences(injector[q], t) # {} \/ e = t
    BY <1>1, OccAppend DEF TypeQueues
  <2>2. QED
    BY <1>1, <2>1 DEF InjHome
<1>2. CASE p # q
  BY <1>2 DEF TypeQueues, InjHome
<1>3. QED
  BY <1>1, <1>2

(* Pushing a task onto the local queue of a worker of its own pool keeps *)
(* LocHome.                                                               *)
LEMMA LocPushHome ==
    ASSUME TypeQueues, LocHome, NEW e \in Tasks, NEW v \in Workers,
           PoolOf[v] = TaskPool[e],
           localq' = [localq EXCEPT ![v] = Append(@, e)]
    PROVE  LocHome'
<1> SUFFICES ASSUME NEW t \in Tasks, NEW u \in Workers,
                    Occurrences(localq'[u], t) # {}
             PROVE  PoolOf[u] = TaskPool[t]
  BY DEF LocHome
<1>1. CASE u = v
  <2>1. Occurrences(localq[v], t) # {} \/ e = t
    BY <1>1, OccAppend DEF TypeQueues
  <2>2. QED
    BY <1>1, <2>1 DEF LocHome
<1>2. CASE u # v
  BY <1>2 DEF TypeQueues, LocHome
<1>3. QED
  BY <1>1, <1>2

(* Taking the head of an injector keeps InjHome. *)
LEMMA InjPopHome ==
    ASSUME TypeQueues, InjHome, NEW q \in Pools, injector[q] # <<>>,
           injector' = [injector EXCEPT ![q] = Tail(@)]
    PROVE  InjHome'
<1> SUFFICES ASSUME NEW t \in Tasks, NEW p \in Pools,
                    Occurrences(injector'[p], t) # {}
             PROVE  p = TaskPool[t]
  BY DEF InjHome
<1>1. CASE p = q
  <2>1. Occurrences(injector[q], t) # {}
    BY <1>1, OccTail DEF TypeQueues
  <2>2. QED
    BY <1>1, <2>1 DEF InjHome
<1>2. CASE p # q
  BY <1>2 DEF TypeQueues, InjHome
<1>3. QED
  BY <1>1, <1>2

(* Taking the back of a local queue keeps LocHome. *)
LEMMA LocPopHome ==
    ASSUME TypeQueues, LocHome, NEW v \in Workers, localq[v] # <<>>,
           localq' = [localq EXCEPT ![v] = Rest(@)]
    PROVE  LocHome'
<1> SUFFICES ASSUME NEW t \in Tasks, NEW u \in Workers,
                    Occurrences(localq'[u], t) # {}
             PROVE  PoolOf[u] = TaskPool[t]
  BY DEF LocHome
<1>1. CASE u = v
  <2>1. Occurrences(localq[v], t) # {}
    BY <1>1, OccRest DEF TypeQueues
  <2>2. QED
    BY <1>1, <2>1 DEF LocHome
<1>2. CASE u # v
  BY <1>2 DEF TypeQueues, LocHome
<1>3. QED
  BY <1>1, <1>2

(* wake_task on a worker, for a task whose remote is unset or its own     *)
(* pool, queues it only in that pool: out_of_polling sends it to its     *)
(* remote's injector, otherwise the worker is of that pool.              *)
LEMMA WakeHome ==
    ASSUME TypeQueues, InjHome, LocHome, NEW w \in Workers, NEW e \in Tasks,
           NEW rp \in {NoPool, TaskPool[e]}, NEW r, WakeTaskOnWorker(w, e, rp, r)
    PROVE  InjHome' /\ LocHome'
<1>0. PoolOf[w] \in Pools /\ TaskPool[e] \in Pools
  BY TopologyAssumption
<1>1. CASE rp = NoPool
  BY <1>1 DEF WakeTaskOnWorker, InjHome, LocHome
<1>2. CASE rp # NoPool /\ rp # PoolOf[w]
  <2>1. rp = TaskPool[e] /\ injector' = [injector EXCEPT ![rp] = Append(@, e)]
        /\ localq' = localq
    BY <1>2 DEF WakeTaskOnWorker, RouteFromWorker
  <2>2. QED
    BY <1>0, <2>1, InjPushHome DEF LocHome
<1>3. CASE rp # NoPool /\ rp = PoolOf[w] /\ r
  <2>1. PoolOf[w] = TaskPool[e]
        /\ injector' = [injector EXCEPT ![PoolOf[w]] = Append(@, e)]
        /\ localq' = localq
    BY <1>3 DEF WakeTaskOnWorker, RouteFromWorker
  <2>2. QED
    BY <1>0, <2>1, InjPushHome DEF LocHome
<1>4. CASE rp # NoPool /\ rp = PoolOf[w] /\ ~r
  <2>1. PoolOf[w] = TaskPool[e]
        /\ localq' = [localq EXCEPT ![w] = Append(@, e)]
        /\ injector' = injector
    BY <1>4 DEF WakeTaskOnWorker, RouteFromWorker
  <2>2. QED
    BY <1>0, <2>1, LocPushHome DEF InjHome
<1>5. QED
  BY <1>1, <1>2, <1>3, <1>4

(* Ending a handle call (cur set to NoTask) keeps CurHome. *)
LEMMA CurClearHome ==
    ASSUME TypeWorkers, CurHome, NEW w \in Workers,
           cur' = [cur EXCEPT ![w] = NoTask]
    PROVE  CurHome'
  BY NoneAssumption DEF TypeWorkers, CurHome

(* Filling remote from the worker handling the task keeps RemoteHome. *)
LEMMA FillHome ==
    ASSUME TypeTasks, RemoteHome, CurHome, NEW w \in Workers, cur[w] \in Tasks,
           remote' = [remote EXCEPT ![cur[w]] = IF @ = NoPool THEN PoolOf[w] ELSE @]
    PROVE  RemoteHome'
  BY DEF TypeTasks, RemoteHome, CurHome

(* HomeInv holds initially: the queues are empty and no task is handled. *)
LEMMA HomeInit == Init => HomeInv
  BY NoneAssumption DEF Init, HomeInv, RemoteHome, InjHome, LocHome, CurHome,
                        Occurrences

(* Every step of the runtime keeps HomeInv. *)
LEMMA HomeStep == TypeOK /\ TypeOK' /\ HomeInv /\ [Next]_vars => HomeInv'
<1> SUFFICES ASSUME TypeOK, TypeOK', HomeInv, [Next]_vars PROVE HomeInv'
  OBVIOUS
<1>0. /\ RemoteHome /\ InjHome /\ LocHome /\ CurHome
      /\ TypeTasks /\ TypeQueues /\ TypeWorkers
  BY DEF HomeInv, TypeOK
<1>1. ASSUME NEW t \in Tasks, Spawn(t) PROVE HomeInv'
  <2>1. InjHome'
    BY <1>0, <1>1, InjPushHome, TopologyAssumption DEF Spawn
  <2>2. QED
    BY <1>0, <1>1, <2>1 DEF Spawn, HomeInv, RemoteHome, LocHome, CurHome
<1>2. ASSUME NEW w \in Workers, NEW t \in Tasks, LocalSpawn(w, t) PROVE HomeInv'
  <2>1. LocHome'
    BY <1>0, <1>2, LocPushHome DEF LocalSpawn
  <2>2. QED
    BY <1>0, <1>2, <2>1 DEF LocalSpawn, HomeInv, RemoteHome, InjHome, CurHome
<1>3. ASSUME UNCHANGED <<remote, injector, localq, cur>> PROVE HomeInv'
  BY <1>0, <1>3 DEF HomeInv, RemoteHome, InjHome, LocHome, CurHome
<1>4. ASSUME NEW t \in Tasks, ExternalWakePush(t) PROVE HomeInv'
  <2>1. CASE remote[t] = NoPool
    BY <1>3, <1>4, <2>1 DEF ExternalWakePush
  <2>2. CASE remote[t] # NoPool
    <3>1. remote[t] = TaskPool[t]
      BY <1>0, <2>2 DEF RemoteHome
    <3>2. InjHome'
      BY <1>0, <1>4, <2>2, <3>1, InjPushHome, TopologyAssumption DEF ExternalWakePush
    <3>3. QED
      BY <1>0, <1>4, <2>2, <3>2 DEF ExternalWakePush, HomeInv, RemoteHome, LocHome, CurHome
  <2>3. QED
    BY <2>1, <2>2
<1>5. ASSUME NEW w \in Workers, PopLocal(w) PROVE HomeInv'
  <2>1. LocHome'
    BY <1>0, <1>5, LocPopHome DEF PopLocal
  <2>2. PoolOf[w] = TaskPool[Top(localq[w])]
    <3>1. localq[w] \in Seq(Tasks) /\ localq[w] # <<>>
      BY <1>0, <1>5 DEF PopLocal, TypeQueues
    <3>2. Top(localq[w]) \in Tasks
      BY <3>1 DEF Top
    <3>3. Occurrences(localq[w], Top(localq[w])) # {}
      BY <3>1, OccEnds
    <3>4. QED
      BY <1>0, <3>2, <3>3 DEF LocHome
  <2>3. CurHome'
    BY <1>0, <1>5, <2>2 DEF PopLocal, StartHandle, CurHome, TypeWorkers
  <2>4. QED
    BY <1>0, <1>5, <2>1, <2>3 DEF PopLocal, HomeInv, RemoteHome, InjHome
<1>6. ASSUME NEW w \in Workers, PopInjector(w) PROVE HomeInv'
  <2>0. PoolOf[w] \in Pools
    BY TopologyAssumption
  <2>1. InjHome'
    BY <1>0, <1>6, <2>0, InjPopHome DEF PopInjector
  <2>2. PoolOf[w] = TaskPool[Head(injector[PoolOf[w]])]
    BY <1>0, <1>6, <2>0, OccEnds DEF PopInjector, InjHome, TypeQueues
  <2>3. CurHome'
    BY <1>0, <1>6, <2>2 DEF PopInjector, StartHandle, CurHome, TypeWorkers
  <2>4. QED
    BY <1>0, <1>6, <2>1, <2>3 DEF PopInjector, HomeInv, RemoteHome, LocHome
<1>7. ASSUME NEW w \in Workers, CloneWaker(w) PROVE HomeInv'
  <2>1. RemoteHome'
    BY <1>0, <1>7, CurTask, FillHome DEF CloneWaker, CloneTask
  <2>2. QED
    BY <1>0, <1>7, <2>1 DEF CloneWaker, HomeInv, InjHome, LocHome, CurHome
<1>8. ASSUME NEW w \in Workers, WorkerWakePush(w) PROVE HomeInv'
  <2>1. target[w] \in Tasks
    BY <1>8, TargetTask DEF WorkerWakePush
  <2>2. remote[target[w]] \in {NoPool, TaskPool[target[w]]}
    BY <1>0, <2>1 DEF RemoteHome
  <2>3. InjHome' /\ LocHome'
    BY <1>0, <1>8, <2>1, <2>2, WakeHome DEF WorkerWakePush
  <2>4. QED
    BY <1>0, <1>8, <2>3 DEF WorkerWakePush, HomeInv, RemoteHome, CurHome
<1>9. ASSUME NEW w \in Workers, PollReady(w) PROVE HomeInv'
  <2>1. CurHome'
    BY <1>0, <1>9, CurClearHome DEF PollReady
  <2>2. QED
    BY <1>0, <1>9, <2>1 DEF PollReady, HomeInv, RemoteHome, InjHome, LocHome
<1>10. ASSUME NEW w \in Workers, PollPending(w) PROVE HomeInv'
  <2> DEFINE t == cur[w]
  <2>1. t \in Tasks /\ PoolOf[w] = TaskPool[t]
    BY <1>0, <1>10, CurTask DEF PollPending, CurHome
  <2>2. RemoteHome'
    BY <1>0, <1>10, <2>1, FillHome DEF PollPending, FillRemote
  <2>3. CASE CasIdleSucceeds(t)
    <3>1. CurHome'
      BY <1>0, <1>10, <2>3, CurClearHome DEF PollPending
    <3>2. QED
      BY <1>0, <1>10, <2>2, <2>3, <3>1 DEF PollPending, HomeInv, InjHome, LocHome
  <2>4. CASE ~CasIdleSucceeds(t)
    <3>1. PICK np \in NeedPreempt :
            IF (RepollExhausted(w) \/ needResched[w]) /\ np
            THEN /\ Preempt(w, t, needResched[w])
                 /\ UNCHANGED <<status, polls, repoll, woken>>
            ELSE Repoll(w, t)
      BY <1>10, <2>4 DEF PollPending
    <3>2. CASE (RepollExhausted(w) \/ needResched[w]) /\ np
      <4>1. FillRemote(w, t) \in {NoPool, TaskPool[t]}
        BY <1>0, <2>1 DEF FillRemote, RemoteHome
      <4>2. InjHome' /\ LocHome'
        BY <1>0, <2>1, <3>1, <3>2, <4>1, WakeHome DEF Preempt
      <4>3. CurHome'
        BY <1>0, <3>1, <3>2, CurClearHome DEF Preempt
      <4>4. QED
        BY <2>2, <4>2, <4>3 DEF HomeInv
    <3>3. CASE ~((RepollExhausted(w) \/ needResched[w]) /\ np)
      BY <1>0, <2>2, <3>1, <3>3 DEF Repoll, HomeInv, InjHome, LocHome, CurHome
    <3>4. QED
      BY <3>2, <3>3
  <2>5. QED
    BY <2>3, <2>4
<1>11. QED
  <2>1. ASSUME NEW t \in Tasks, ExternalWake(t) \/ DropWaker(t) PROVE HomeInv'
    BY <1>3, <2>1 DEF ExternalWake, DropWaker
  <2>2. ASSUME NEW w \in Workers, SelfWake(w) \/ Yield(w) PROVE HomeInv'
    BY <1>3, <2>2 DEF SelfWake, Yield
  <2>3. ASSUME NEW w \in Workers, NEW t \in Tasks, WorkerWake(w, t) PROVE HomeInv'
    BY <1>3, <2>3 DEF WorkerWake
  <2>4. CASE UNCHANGED vars
    BY <1>3, <2>4 DEF vars
  <2>5. QED
    BY <1>1, <1>2, <1>4, <1>5, <1>6, <1>7, <1>8, <1>9, <1>10,
       <2>1, <2>2, <2>3, <2>4 DEF Next

(* A task is only queued in, and only polled by, the pool that spawned it *)
(* (the TaskStaysInPool of the twopools run), for every topology: the    *)
(* first clone_task or handle records the pool of the worker polling it, *)
(* and wake_task from a foreign worker goes to that remote's injector.   *)
THEOREM TaskStaysInPoolThm == Spec => []TaskStaysInPool
<1>1. Init => HomeInv
  BY HomeInit
<1>2. TypeOK /\ TypeOK' /\ HomeInv /\ [Next]_vars => HomeInv'
  BY HomeStep
<1>3. TypeOK /\ HomeInv => TaskStaysInPool
  BY DEF TypeOK, TypeWorkers, HomeInv, RemoteHome, InjHome, LocHome, CurHome,
         TaskStaysInPool
<1>4. QED
  BY TypeCorrect, <1>1, <1>2, <1>3, PTL DEF Spec

=============================================================================
