-------------------------- MODULE FuturePool_proofs --------------------------
(***************************************************************************)
(* Proofs about FuturePool for every value of the constants: the type     *)
(* invariant, and that no wake-up is lost (NoLostWake), from the          *)
(* strengthening WakeInv.                                                 *)
(***************************************************************************)
EXTENDS FuturePool, TLAPS

USE DEF UNCREATED, NOTIFIED, IDLE, POLLING, COMPLETED

(* wake_task run on a worker, for a task whose remote is a pool, leaves  *)
(* every injector and local queue a sequence of tasks, whichever of its  *)
(* three routes it takes.                                                 *)
LEMMA RouteType ==
    ASSUME TypeQueues, NEW w \in Workers, NEW t \in Tasks, NEW rp \in Pools,
           NEW r \in BOOLEAN, RouteFromWorker(w, t, rp, r)
    PROVE  TypeQueues'
<1>1. PoolOf[w] \in Pools
  BY TopologyAssumption
<1>2. CASE rp # PoolOf[w]
  <2>1. Append(injector[rp], t) \in Seq(Tasks)
    BY DEF TypeQueues
  <2>2. QED
    BY <1>2, <2>1 DEF RouteFromWorker, TypeQueues
<1>3. CASE rp = PoolOf[w] /\ r
  <2>1. Append(injector[PoolOf[w]], t) \in Seq(Tasks)
    BY <1>1 DEF TypeQueues
  <2>2. QED
    BY <1>1, <1>3, <2>1 DEF RouteFromWorker, TypeQueues
<1>4. CASE rp = PoolOf[w] /\ ~r
  <2>1. Append(localq[w], t) \in Seq(Tasks)
    BY DEF TypeQueues
  <2>2. QED
    BY <1>4, <2>1 DEF RouteFromWorker, TypeQueues
<1>5. QED
  BY <1>2, <1>3, <1>4

(* The whole of wake_task on a worker, panicking when remote is unset,    *)
(* keeps the queues typed and the panic flag Boolean.                     *)
LEMMA WakeTaskType ==
    ASSUME TypeQueues, TypeFlags, NEW w \in Workers, NEW t \in Tasks,
           NEW rp \in Pools \cup {NoPool}, NEW r \in BOOLEAN,
           WakeTaskOnWorker(w, t, rp, r)
    PROVE  TypeQueues' /\ TypeFlags'
<1>1. CASE rp = NoPool
  BY <1>1 DEF WakeTaskOnWorker, TypeQueues, TypeFlags
<1>2. CASE rp # NoPool
  <2>1. RouteFromWorker(w, t, rp, r) /\ UNCHANGED panicked
    BY <1>2 DEF WakeTaskOnWorker
  <2>2. TypeQueues'
    BY <1>2, <2>1, RouteType
  <2>3. QED
    BY <2>1, <2>2 DEF TypeFlags
<1>3. QED
  BY <1>1, <1>2

(* The variables keep their types under every operation of the runtime,  *)
(* and a worker holds a task cell exactly while its program counter says *)
(* it polls it or is inside wake_task for it.                             *)
LEMMA TypeCorrect == Spec => []TypeOK
<1>1. Init => TypeOK
  <2> SUFFICES ASSUME Init PROVE TypeOK
    OBVIOUS
  <2>1. TypeTasks
    BY DEF Init, TypeTasks, Status
  <2>2. TypeQueues
    BY DEF Init, TypeQueues
  <2>3. TypeWorkers
    BY DEF Init, TypeWorkers, PC
  <2>4. TypeFlags
    BY DEF Init, TypeFlags
  <2>5. TypeLink
    BY TopologyAssumption DEF Init, TypeLink
  <2>6. QED
    BY <2>1, <2>2, <2>3, <2>4, <2>5 DEF TypeOK
<1>2. TypeOK /\ [Next]_vars => TypeOK'
  <2> SUFFICES ASSUME TypeOK, [Next]_vars PROVE TypeOK'
    OBVIOUS
  <2>1. ASSUME NEW t \in Tasks, Spawn(t)
         PROVE TypeOK'
    <3>1. TaskPool[t] \in Pools
      BY TopologyAssumption
    <3>2. TypeTasks'
      BY <2>1, <3>1 DEF Spawn, TypeOK, TypeTasks, Status
    <3>3. TypeQueues'
      BY <2>1, <3>1 DEF Spawn, TypeOK, TypeQueues
    <3>4. TypeWorkers'
      BY <2>1, <3>1 DEF Spawn, TypeOK, TypeWorkers, PC
    <3>5. TypeFlags'
      BY <2>1, <3>1 DEF Spawn, TypeOK, TypeFlags
    <3>6. TypeLink'
      BY <2>1, <3>1, NoneAssumption DEF Spawn, TypeOK, TypeWorkers, TypeLink
    <3>7. QED
      BY <3>2, <3>3, <3>4, <3>5, <3>6 DEF TypeOK
  <2>2. ASSUME NEW t \in Tasks, ExternalWake(t)
         PROVE TypeOK'
    <3>1. TypeTasks'
      BY <2>2 DEF ExternalWake, RecordWake, WakeStatus, WinsIdleCas, TypeOK, TypeTasks, Status
    <3>2. TypeQueues'
      BY <2>2 DEF ExternalWake, RecordWake, WakeStatus, WinsIdleCas, TypeOK, TypeQueues
    <3>3. TypeWorkers'
      BY <2>2 DEF ExternalWake, RecordWake, WakeStatus, WinsIdleCas, TypeOK, TypeWorkers, PC
    <3>4. TypeFlags'
      BY <2>2 DEF ExternalWake, RecordWake, WakeStatus, WinsIdleCas, TypeOK, TypeFlags
    <3>5. TypeLink'
      BY <2>2, NoneAssumption DEF ExternalWake, RecordWake, WakeStatus, WinsIdleCas, TypeOK, TypeWorkers, TypeLink
    <3>6. QED
      BY <3>1, <3>2, <3>3, <3>4, <3>5 DEF TypeOK
  <2>3. ASSUME NEW t \in Tasks, ExternalWakePush(t)
         PROVE TypeOK'
    <3>1. TypeTasks'
      BY <2>3 DEF ExternalWakePush, TypeOK, TypeTasks, Status
    <3>2. TypeQueues'
      <4>1. CASE remote[t] = NoPool
        BY <2>3, <4>1 DEF ExternalWakePush, TypeOK, TypeQueues
      <4>2. CASE remote[t] # NoPool
        <5>1. remote[t] \in Pools
          BY <4>2 DEF TypeOK, TypeTasks
        <5>2. Append(injector[remote[t]], t) \in Seq(Tasks)
          BY <5>1 DEF TypeOK, TypeQueues
        <5>3. QED
          BY <2>3, <4>2, <5>1, <5>2 DEF ExternalWakePush, TypeOK, TypeQueues
      <4>3. QED
        BY <4>1, <4>2
    <3>3. TypeWorkers'
      BY <2>3 DEF ExternalWakePush, TypeOK, TypeWorkers, PC
    <3>4. TypeFlags'
      BY <2>3 DEF ExternalWakePush, TypeOK, TypeFlags
    <3>5. TypeLink'
      BY <2>3, NoneAssumption DEF ExternalWakePush, TypeOK, TypeWorkers, TypeLink
    <3>6. QED
      BY <3>1, <3>2, <3>3, <3>4, <3>5 DEF TypeOK
  <2>4. ASSUME NEW w \in Workers, PopLocal(w)
         PROVE TypeOK'
    <3>1. localq[w] \in Seq(Tasks) /\ localq[w] # <<>>
      BY <2>4 DEF PopLocal, TypeOK, TypeQueues
    <3>2. Top(localq[w]) \in Tasks /\ Rest(localq[w]) \in Seq(Tasks)
      BY <3>1 DEF Top, Rest
    <3>3. TypeTasks'
      BY <2>4, <3>1, <3>2 DEF PopLocal, StartHandle, TypeOK, TypeTasks, Status
    <3>4. TypeQueues'
      BY <2>4, <3>1, <3>2 DEF PopLocal, StartHandle, TypeOK, TypeQueues
    <3>5. TypeWorkers'
      BY <2>4, <3>1, <3>2 DEF PopLocal, StartHandle, TypeOK, TypeWorkers, PC
    <3>6. TypeFlags'
      BY <2>4, <3>1, <3>2 DEF PopLocal, StartHandle, TypeOK, TypeFlags
    <3>7. TypeLink'
      BY <2>4, <3>1, <3>2, NoneAssumption DEF PopLocal, StartHandle, TypeOK, TypeWorkers, TypeLink
    <3>8. QED
      BY <3>3, <3>4, <3>5, <3>6, <3>7 DEF TypeOK
  <2>5. ASSUME NEW w \in Workers, PopInjector(w)
         PROVE TypeOK'
    <3>1. PoolOf[w] \in Pools
      BY TopologyAssumption
    <3>2. injector[PoolOf[w]] \in Seq(Tasks) /\ injector[PoolOf[w]] # <<>>
      BY <2>5, <3>1 DEF PopInjector, TypeOK, TypeQueues
    <3>3. Head(injector[PoolOf[w]]) \in Tasks /\ Tail(injector[PoolOf[w]]) \in Seq(Tasks)
      BY <3>2
    <3>4. TypeTasks'
      BY <2>5, <3>1, <3>2, <3>3 DEF PopInjector, StartHandle, TypeOK, TypeTasks, Status
    <3>5. TypeQueues'
      BY <2>5, <3>1, <3>2, <3>3 DEF PopInjector, StartHandle, TypeOK, TypeQueues
    <3>6. TypeWorkers'
      BY <2>5, <3>1, <3>2, <3>3 DEF PopInjector, StartHandle, TypeOK, TypeWorkers, PC
    <3>7. TypeFlags'
      BY <2>5, <3>1, <3>2, <3>3 DEF PopInjector, StartHandle, TypeOK, TypeFlags
    <3>8. TypeLink'
      BY <2>5, <3>1, <3>2, <3>3, NoneAssumption DEF PopInjector, StartHandle, TypeOK, TypeWorkers, TypeLink
    <3>9. QED
      BY <3>4, <3>5, <3>6, <3>7, <3>8 DEF TypeOK
  <2>6. ASSUME NEW w \in Workers, CloneWaker(w)
         PROVE TypeOK'
    <3>1. cur[w] \in Tasks /\ PoolOf[w] \in Pools
      BY <2>6, TopologyAssumption DEF CloneWaker, CloneTask, TypeOK, TypeWorkers, TypeLink
    <3>2. TypeTasks'
      BY <2>6, <3>1 DEF CloneWaker, CloneTask, TypeOK, TypeTasks, Status
    <3>3. TypeQueues'
      BY <2>6, <3>1 DEF CloneWaker, CloneTask, TypeOK, TypeQueues
    <3>4. TypeWorkers'
      BY <2>6, <3>1 DEF CloneWaker, CloneTask, TypeOK, TypeWorkers, PC
    <3>5. TypeFlags'
      BY <2>6, <3>1 DEF CloneWaker, CloneTask, TypeOK, TypeFlags
    <3>6. TypeLink'
      BY <2>6, <3>1, NoneAssumption DEF CloneWaker, CloneTask, TypeOK, TypeWorkers, TypeLink
    <3>7. QED
      BY <3>2, <3>3, <3>4, <3>5, <3>6 DEF TypeOK
  <2>7. ASSUME NEW w \in Workers, SelfWake(w)
         PROVE TypeOK'
    <3>1. cur[w] \in Tasks
      BY <2>7 DEF SelfWake, TypeOK, TypeWorkers, TypeLink
    <3>2. TypeTasks'
      BY <2>7, <3>1 DEF SelfWake, RecordWake, WakeStatus, TypeOK, TypeTasks, Status
    <3>3. TypeQueues'
      BY <2>7, <3>1 DEF SelfWake, RecordWake, WakeStatus, TypeOK, TypeQueues
    <3>4. TypeWorkers'
      BY <2>7, <3>1 DEF SelfWake, RecordWake, WakeStatus, TypeOK, TypeWorkers, PC
    <3>5. TypeFlags'
      BY <2>7, <3>1 DEF SelfWake, RecordWake, WakeStatus, TypeOK, TypeFlags
    <3>6. TypeLink'
      BY <2>7, <3>1, NoneAssumption DEF SelfWake, RecordWake, WakeStatus, TypeOK, TypeWorkers, TypeLink
    <3>7. QED
      BY <3>2, <3>3, <3>4, <3>5, <3>6 DEF TypeOK
  <2>8. ASSUME NEW w \in Workers, Yield(w)
         PROVE TypeOK'
    <3>1. cur[w] \in Tasks
      BY <2>8 DEF Yield, TypeOK, TypeWorkers, TypeLink
    <3>2. TypeTasks'
      BY <2>8, <3>1 DEF Yield, RecordWake, WakeStatus, TypeOK, TypeTasks, Status
    <3>3. TypeQueues'
      BY <2>8, <3>1 DEF Yield, RecordWake, WakeStatus, TypeOK, TypeQueues
    <3>4. TypeWorkers'
      BY <2>8, <3>1 DEF Yield, RecordWake, WakeStatus, TypeOK, TypeWorkers, PC
    <3>5. TypeFlags'
      BY <2>8, <3>1 DEF Yield, RecordWake, WakeStatus, TypeOK, TypeFlags
    <3>6. TypeLink'
      BY <2>8, <3>1, NoneAssumption DEF Yield, RecordWake, WakeStatus, TypeOK, TypeWorkers, TypeLink
    <3>7. QED
      BY <3>2, <3>3, <3>4, <3>5, <3>6 DEF TypeOK
  <2>9. ASSUME NEW w \in Workers, WorkerWakePush(w)
         PROVE TypeOK'
    <3>1. target[w] \in Tasks /\ PoolOf[w] \in Pools
      BY <2>9, TopologyAssumption DEF WorkerWakePush, TypeOK, TypeWorkers, TypeLink
    <3>2. TypeTasks'
      BY <2>9, <3>1 DEF WorkerWakePush, WakeTaskOnWorker, RouteFromWorker, TypeOK, TypeTasks, Status
    <3>3. TypeQueues'
      <4>1. remote[target[w]] \in Pools \cup {NoPool}
        BY <3>1 DEF TypeOK, TypeTasks
      <4>2. QED
        BY <2>9, <3>1, <4>1, WakeTaskType DEF WorkerWakePush, TypeOK
    <3>4. TypeWorkers'
      BY <2>9, <3>1 DEF WorkerWakePush, WakeTaskOnWorker, RouteFromWorker, TypeOK, TypeWorkers, PC
    <3>5. TypeFlags'
      BY <2>9, <3>1 DEF WorkerWakePush, WakeTaskOnWorker, RouteFromWorker, TypeOK, TypeFlags
    <3>6. TypeLink'
      BY <2>9, <3>1, NoneAssumption DEF WorkerWakePush, WakeTaskOnWorker, RouteFromWorker, TypeOK, TypeWorkers, TypeLink
    <3>7. QED
      BY <3>2, <3>3, <3>4, <3>5, <3>6 DEF TypeOK
  <2>10. ASSUME NEW w \in Workers, PollReady(w)
         PROVE TypeOK'
    <3>1. cur[w] \in Tasks
      BY <2>10 DEF PollReady, TypeOK, TypeWorkers, TypeLink
    <3>2. TypeTasks'
      BY <2>10, <3>1 DEF PollReady, TypeOK, TypeTasks, Status
    <3>3. TypeQueues'
      BY <2>10, <3>1 DEF PollReady, TypeOK, TypeQueues
    <3>4. TypeWorkers'
      BY <2>10, <3>1 DEF PollReady, TypeOK, TypeWorkers, PC
    <3>5. TypeFlags'
      BY <2>10, <3>1 DEF PollReady, TypeOK, TypeFlags
    <3>6. TypeLink'
      BY <2>10, <3>1, NoneAssumption DEF PollReady, TypeOK, TypeWorkers, TypeLink
    <3>7. QED
      BY <3>2, <3>3, <3>4, <3>5, <3>6 DEF TypeOK
  <2>11. ASSUME NEW w \in Workers, PollPending(w) PROVE TypeOK'
    <3> DEFINE t == cur[w]
    <3>1. t \in Tasks /\ PoolOf[w] \in Pools
      BY <2>11, TopologyAssumption DEF PollPending, TypeOK, TypeWorkers, TypeLink
    <3>2. FillRemote(w, t) \in Pools
      BY <3>1 DEF FillRemote, TypeOK, TypeTasks
    <3>3. CASE CasIdleSucceeds(t)
      <4>1. TypeTasks'
        BY <2>11, <3>1, <3>2, <3>3 DEF PollPending, TypeOK, TypeTasks, Status
      <4>2. TypeQueues'
        BY <2>11, <3>1, <3>2, <3>3 DEF PollPending, TypeOK, TypeQueues
      <4>3. TypeWorkers'
        BY <2>11, <3>1, <3>2, <3>3 DEF PollPending, TypeOK, TypeWorkers, PC
      <4>4. TypeFlags'
        BY <2>11, <3>1, <3>2, <3>3 DEF PollPending, TypeOK, TypeFlags
      <4>5. TypeLink'
        BY <2>11, <3>1, <3>2, <3>3, NoneAssumption DEF PollPending, TypeOK, TypeWorkers, TypeLink
      <4>6. QED
        BY <4>1, <4>2, <4>3, <4>4, <4>5 DEF TypeOK
    <3>4. CASE ~CasIdleSucceeds(t)
      <4>1. PICK np \in NeedPreempt :
                IF (RepollExhausted(w) \/ needResched[w]) /\ np
                THEN /\ Preempt(w, t, needResched[w])
                     /\ UNCHANGED <<status, polls, repoll, woken>>
                ELSE Repoll(w, t)
        BY <2>11, <3>4 DEF PollPending
      <4>2. CASE (RepollExhausted(w) \/ needResched[w]) /\ np
        <5>1. TypeTasks'
          BY <2>11, <3>1, <3>2, <3>4, <4>1, <4>2 DEF PollPending, Preempt, WakeTaskOnWorker, RouteFromWorker, TypeOK, TypeTasks, Status
        <5>2. TypeQueues'
          <6>1. WakeTaskOnWorker(w, t, FillRemote(w, t), needResched[w])
            BY <4>1, <4>2 DEF Preempt
          <6>2. needResched[w] \in BOOLEAN
            BY DEF TypeOK, TypeWorkers
          <6>3. QED
            BY <3>1, <3>2, <6>1, <6>2, WakeTaskType DEF TypeOK
        <5>3. TypeWorkers'
          BY <2>11, <3>1, <3>2, <3>4, <4>1, <4>2 DEF PollPending, Preempt, WakeTaskOnWorker, RouteFromWorker, TypeOK, TypeWorkers, PC
        <5>4. TypeFlags'
          BY <2>11, <3>1, <3>2, <3>4, <4>1, <4>2 DEF PollPending, Preempt, WakeTaskOnWorker, RouteFromWorker, TypeOK, TypeFlags
        <5>5. TypeLink'
          BY <2>11, <3>1, <3>2, <3>4, <4>1, <4>2, NoneAssumption DEF PollPending, Preempt, WakeTaskOnWorker, RouteFromWorker, TypeOK, TypeWorkers, TypeLink
        <5>6. QED
          BY <5>1, <5>2, <5>3, <5>4, <5>5 DEF TypeOK
      <4>3. CASE ~((RepollExhausted(w) \/ needResched[w]) /\ np)
        <5>0. Repoll(w, t)
          BY <4>1, <4>3
        <5>1. TypeTasks'
          BY <2>11, <3>1, <3>2, <3>4, <5>0 DEF PollPending, Repoll, TypeOK, TypeTasks, Status
        <5>2. TypeQueues'
          BY <2>11, <3>1, <3>2, <3>4, <4>1, <4>3 DEF PollPending, Repoll, TypeOK, TypeQueues
        <5>3. TypeWorkers'
          <6>1. needResched' = [needResched EXCEPT ![w] = FALSE] /\ UNCHANGED target
            BY <2>11, <3>4 DEF PollPending
          <6>2. /\ repoll' = [repoll EXCEPT ![w] = @ + 1]
                /\ UNCHANGED <<pc, cur>>
            BY <5>0 DEF Repoll
          <6>3. QED
            BY <6>1, <6>2 DEF TypeOK, TypeWorkers
        <5>4. TypeFlags'
          BY <2>11, <3>1, <3>2, <3>4, <4>1, <4>3 DEF PollPending, Repoll, TypeOK, TypeFlags
        <5>5. TypeLink'
          BY <2>11, <3>1, <3>2, <3>4, <4>1, <4>3, NoneAssumption DEF PollPending, Repoll, TypeOK, TypeWorkers, TypeLink
        <5>6. QED
          BY <5>1, <5>2, <5>3, <5>4, <5>5 DEF TypeOK
      <4>4. QED
        BY <4>2, <4>3
    <3>5. QED
      BY <3>3, <3>4
  <2>12. ASSUME NEW w \in Workers, NEW t \in Tasks, LocalSpawn(w, t)
         PROVE TypeOK'
    <3>1. TypeTasks'
      BY <2>12 DEF LocalSpawn, TypeOK, TypeTasks, Status
    <3>2. TypeQueues'
      BY <2>12 DEF LocalSpawn, TypeOK, TypeQueues
    <3>3. TypeWorkers'
      BY <2>12 DEF LocalSpawn, TypeOK, TypeWorkers, PC
    <3>4. TypeFlags'
      BY <2>12 DEF LocalSpawn, TypeOK, TypeFlags
    <3>5. TypeLink'
      BY <2>12, NoneAssumption DEF LocalSpawn, TypeOK, TypeWorkers, TypeLink
    <3>6. QED
      BY <3>1, <3>2, <3>3, <3>4, <3>5 DEF TypeOK
  <2>13. ASSUME NEW w \in Workers, NEW u \in Tasks, WorkerWake(w, u)
         PROVE TypeOK'
    <3>1. TypeTasks'
      BY <2>13 DEF WorkerWake, RecordWake, WakeStatus, WinsIdleCas, TypeOK, TypeTasks, Status
    <3>2. TypeQueues'
      BY <2>13 DEF WorkerWake, RecordWake, WakeStatus, WinsIdleCas, TypeOK, TypeQueues
    <3>3. TypeWorkers'
      BY <2>13 DEF WorkerWake, RecordWake, WakeStatus, WinsIdleCas, TypeOK, TypeWorkers, PC
    <3>4. TypeFlags'
      BY <2>13 DEF WorkerWake, RecordWake, WakeStatus, WinsIdleCas, TypeOK, TypeFlags
    <3>5. TypeLink'
      BY <2>13, NoneAssumption DEF WorkerWake, RecordWake, WakeStatus, WinsIdleCas, TypeOK, TypeWorkers, TypeLink
    <3>6. QED
      BY <3>1, <3>2, <3>3, <3>4, <3>5 DEF TypeOK
  <2>14. CASE UNCHANGED vars
    BY <2>14 DEF vars, TypeOK, TypeTasks, TypeQueues, TypeWorkers, TypeFlags, TypeLink
  <2>15. ASSUME NEW t \in Tasks, DropWaker(t)
         PROVE TypeOK'
    <3>1. TypeTasks'
      BY <2>15 DEF DropWaker, TypeOK, TypeTasks
    <3>2. TypeQueues' /\ TypeWorkers' /\ TypeFlags' /\ TypeLink'
      BY <2>15 DEF DropWaker, TypeOK, TypeQueues, TypeWorkers, TypeFlags, TypeLink
    <3>3. QED
      BY <3>1, <3>2 DEF TypeOK
  <2>16. QED
    BY <2>1, <2>2, <2>3, <2>4, <2>5, <2>6, <2>7, <2>8, <2>9, <2>10, <2>11,
       <2>12, <2>13, <2>14, <2>15 DEF Next
<1>3. QED
  BY <1>1, <1>2, PTL DEF Spec

-----------------------------------------------------------------------------
(* The strengthening of NoLostWake. A task that is referenced anywhere   *)
(* (a stored waker, an entry of a queue, a wake_task in progress, a      *)
(* worker polling it) has been spawned, so the wake CAS of wake_impl    *)
(* always finds one of IDLE, NOTIFIED, POLLING or COMPLETED.             *)
InQueues(t) ==
    \/ \E p \in Pools : Occurrences(injector[p], t) # {}
    \/ \E w \in Workers : Occurrences(localq[w], t) # {}
Referenced(t) ==
    \/ t \in held
    \/ pending[t] > 0
    \/ InQueues(t)
    \/ \E w \in Workers : cur[w] = t \/ target[w] = t
CreatedRefs == \A t \in Tasks : Referenced(t) => status[t] # UNCREATED
WakeInv == CreatedRefs /\ NoLostWake

(* An entry of a queue after an append was in the queue or is the new one *)
LEMMA OccAppend ==
    ASSUME NEW s \in Seq(Tasks), NEW e, NEW t,
           Occurrences(Append(s, e), t) # {}
    PROVE  Occurrences(s, t) # {} \/ e = t
<1>1. PICK i \in 1..(Len(s) + 1) : Append(s, e)[i] = t
  BY DEF Occurrences
<1>2. CASE i \in 1..Len(s)
  BY <1>1, <1>2 DEF Occurrences
<1>3. CASE i = Len(s) + 1
  BY <1>1, <1>3
<1>4. QED
  BY <1>2, <1>3

(* An entry of a queue after popping its head was in the queue. *)
LEMMA OccTail ==
    ASSUME NEW s \in Seq(Tasks), s # <<>>, NEW t,
           Occurrences(Tail(s), t) # {}
    PROVE  Occurrences(s, t) # {}
<1>1. PICK i \in 1..(Len(s) - 1) : Tail(s)[i] = t
  BY DEF Occurrences
<1>2. i + 1 \in DOMAIN s /\ s[i + 1] = t
  BY <1>1
<1>3. QED
  BY <1>2 DEF Occurrences

(* An entry of a local queue after popping its last element was in it. *)
LEMMA OccRest ==
    ASSUME NEW s \in Seq(Tasks), s # <<>>, NEW t,
           Occurrences(Rest(s), t) # {}
    PROVE  Occurrences(s, t) # {}
<1>1. PICK i \in 1..(Len(s) - 1) : Rest(s)[i] = t
  BY DEF Occurrences, Rest
<1>2. i \in DOMAIN s /\ s[i] = t
  BY <1>1 DEF Rest
<1>3. QED
  BY <1>2 DEF Occurrences

(* The element a worker pops is an entry of the queue it pops from. *)
LEMMA OccEnds ==
    ASSUME NEW s \in Seq(Tasks), s # <<>>
    PROVE  Occurrences(s, Head(s)) # {} /\ Occurrences(s, Top(s)) # {}
  BY DEF Occurrences, Top

(* Appending e to one injector adds e and no other entry. *)
LEMMA InjAppend ==
    ASSUME TypeQueues, NEW q \in Pools, NEW e, NEW t,
           injector' = [injector EXCEPT ![q] = Append(@, e)],
           localq' = localq, InQueues(t)'
    PROVE  InQueues(t) \/ e = t
<1>1. CASE \E p \in Pools : Occurrences(injector'[p], t) # {}
  <2>1. PICK p \in Pools : Occurrences(injector'[p], t) # {}
    BY <1>1
  <2>2. CASE p = q
    <3>1. Occurrences(Append(injector[q], e), t) # {}
      BY <2>1, <2>2 DEF TypeQueues
    <3>2. QED
      BY <3>1, OccAppend DEF TypeQueues, InQueues
  <2>3. CASE p # q
    BY <2>1, <2>3 DEF TypeQueues, InQueues
  <2>4. QED
    BY <2>2, <2>3
<1>2. CASE \E w \in Workers : Occurrences(localq'[w], t) # {}
  BY <1>2 DEF InQueues
<1>3. QED
  BY <1>1, <1>2 DEF InQueues

(* Appending e to one local queue adds e and no other entry. *)
LEMMA LocAppend ==
    ASSUME TypeQueues, NEW v \in Workers, NEW e, NEW t,
           localq' = [localq EXCEPT ![v] = Append(@, e)],
           injector' = injector, InQueues(t)'
    PROVE  InQueues(t) \/ e = t
<1>1. CASE \E w \in Workers : Occurrences(localq'[w], t) # {}
  <2>1. PICK w \in Workers : Occurrences(localq'[w], t) # {}
    BY <1>1
  <2>2. CASE w = v
    <3>1. Occurrences(Append(localq[v], e), t) # {}
      BY <2>1, <2>2 DEF TypeQueues
    <3>2. QED
      BY <3>1, OccAppend DEF TypeQueues, InQueues
  <2>3. CASE w # v
    BY <2>1, <2>3 DEF TypeQueues, InQueues
  <2>4. QED
    BY <2>2, <2>3
<1>2. CASE \E p \in Pools : Occurrences(injector'[p], t) # {}
  BY <1>2 DEF InQueues
<1>3. QED
  BY <1>1, <1>2 DEF InQueues

(* Taking the head of one injector adds no entry. *)
LEMMA InjTail ==
    ASSUME TypeQueues, NEW q \in Pools, injector[q] # <<>>, NEW t,
           injector' = [injector EXCEPT ![q] = Tail(@)],
           localq' = localq, InQueues(t)'
    PROVE  InQueues(t)
<1>1. CASE \E p \in Pools : Occurrences(injector'[p], t) # {}
  <2>1. PICK p \in Pools : Occurrences(injector'[p], t) # {}
    BY <1>1
  <2>2. CASE p = q
    <3>1. Occurrences(Tail(injector[q]), t) # {}
      BY <2>1, <2>2 DEF TypeQueues
    <3>2. QED
      BY <3>1, OccTail DEF TypeQueues, InQueues
  <2>3. CASE p # q
    BY <2>1, <2>3 DEF TypeQueues, InQueues
  <2>4. QED
    BY <2>2, <2>3
<1>2. CASE \E w \in Workers : Occurrences(localq'[w], t) # {}
  BY <1>2 DEF InQueues
<1>3. QED
  BY <1>1, <1>2 DEF InQueues

(* Taking the last element of one local queue adds no entry. *)
LEMMA LocRest ==
    ASSUME TypeQueues, NEW v \in Workers, localq[v] # <<>>, NEW t,
           localq' = [localq EXCEPT ![v] = Rest(@)],
           injector' = injector, InQueues(t)'
    PROVE  InQueues(t)
<1>1. CASE \E w \in Workers : Occurrences(localq'[w], t) # {}
  <2>1. PICK w \in Workers : Occurrences(localq'[w], t) # {}
    BY <1>1
  <2>2. CASE w = v
    <3>1. Occurrences(Rest(localq[v]), t) # {}
      BY <2>1, <2>2 DEF TypeQueues
    <3>2. QED
      BY <3>1, OccRest DEF TypeQueues, InQueues
  <2>3. CASE w # v
    BY <2>1, <2>3 DEF TypeQueues, InQueues
  <2>4. QED
    BY <2>2, <2>3
<1>2. CASE \E p \in Pools : Occurrences(injector'[p], t) # {}
  BY <1>2 DEF InQueues
<1>3. QED
  BY <1>1, <1>2 DEF InQueues

(* wake_task on a worker puts the task it routes, and no other, into a   *)
(* queue (or, when it panics, into none).                                 *)
LEMMA WakeTaskRefs ==
    ASSUME TypeQueues, NEW w \in Workers, NEW e \in Tasks,
           NEW rp \in Pools \cup {NoPool}, NEW r \in BOOLEAN,
           WakeTaskOnWorker(w, e, rp, r), NEW t, InQueues(t)'
    PROVE  InQueues(t) \/ e = t
<1>1. PoolOf[w] \in Pools
  BY TopologyAssumption
<1>2. CASE rp = NoPool
  BY <1>2 DEF WakeTaskOnWorker, InQueues
<1>3. CASE rp # NoPool /\ rp # PoolOf[w]
  <2>1. injector' = [injector EXCEPT ![rp] = Append(@, e)] /\ UNCHANGED localq
    BY <1>3 DEF WakeTaskOnWorker, RouteFromWorker
  <2>2. rp \in Pools
    BY <1>3
  <2>3. QED
    BY <2>1, <2>2, InjAppend
<1>4. CASE rp # NoPool /\ rp = PoolOf[w] /\ r
  <2>1. injector' = [injector EXCEPT ![PoolOf[w]] = Append(@, e)] /\ UNCHANGED localq
    BY <1>4 DEF WakeTaskOnWorker, RouteFromWorker
  <2>2. QED
    BY <1>1, <2>1, InjAppend
<1>5. CASE rp # NoPool /\ rp = PoolOf[w] /\ ~r
  <2>1. localq' = [localq EXCEPT ![w] = Append(@, e)] /\ UNCHANGED injector
    BY <1>5 DEF WakeTaskOnWorker, RouteFromWorker
  <2>2. QED
    BY <2>1, LocAppend
<1>6. QED
  BY <1>2, <1>3, <1>4, <1>5

(* CreatedRefs is preserved by a step in which every newly referenced    *)
(* task is either already referenced or the one just created (x), and no *)
(* spawned task is reset to UNCREATED.                                   *)
LEMMA CreatedStep ==
    ASSUME CreatedRefs, NEW x,
           \A t \in Tasks : Referenced(t)' => Referenced(t) \/ t = x,
           \A t \in Tasks : status[t] # UNCREATED => status'[t] # UNCREATED,
           x \in Tasks => status'[x] # UNCREATED
    PROVE  CreatedRefs'
  BY DEF CreatedRefs

(* A worker that is not in pop holds the task it polls; a worker inside *)
(* wake_task holds the task it routes.                                    *)
LEMMA CurTask ==
    ASSUME TypeOK, NEW w \in Workers, pc[w] # "pop"
    PROVE  cur[w] \in Tasks
  BY NoneAssumption DEF TypeOK, TypeWorkers, TypeLink

LEMMA TargetTask ==
    ASSUME TypeOK, NEW w \in Workers, pc[w] = "waking"
    PROVE  target[w] \in Tasks
  BY NoneAssumption DEF TypeOK, TypeWorkers, TypeLink

(* A wake (the CAS loop of wake_impl) on a spawned task u: afterwards u  *)
(* is NOTIFIED unless it was COMPLETED, and it is recorded as woken      *)
(* exactly when it was not COMPLETED; other tasks keep their status.     *)
LEMMA WakeKeepsNoLostWake ==
    ASSUME TypeOK, NoLostWake, NEW u \in Tasks, status[u] # UNCREATED,
           status' = [status EXCEPT ![u] = WakeStatus(@)], RecordWake(u)
    PROVE  NoLostWake' /\ \A x \in Tasks : status[x] # UNCREATED => status'[x] # UNCREATED
  BY DEF TypeOK, TypeTasks, Status, NoLostWake, RecordWake, WakeStatus

(* WakeInv holds initially: nothing is referenced and nothing is woken. *)
LEMMA WakeInit == Init => WakeInv
  BY NoneAssumption DEF Init, WakeInv, CreatedRefs, Referenced, InQueues,
                        Occurrences, NoLostWake

(* WakeInv is preserved by every step of the runtime. *)
LEMMA WakeStep == TypeOK /\ TypeOK' /\ WakeInv /\ [Next]_vars => WakeInv'
<1> SUFFICES ASSUME TypeOK, TypeOK', WakeInv, [Next]_vars PROVE WakeInv'
  OBVIOUS
<1>0. CreatedRefs /\ NoLostWake
  BY DEF WakeInv
<1>1. ASSUME NEW t \in Tasks, Spawn(t) PROVE WakeInv'
  <2>1. \A x \in Tasks : Referenced(x)' => Referenced(x) \/ x = t
    <3> SUFFICES ASSUME NEW x \in Tasks, Referenced(x)' PROVE Referenced(x) \/ x = t
      OBVIOUS
    <3>1. InQueues(x)' => InQueues(x) \/ x = t
      <4>1. injector' = [injector EXCEPT ![TaskPool[t]] = Append(@, t)]
            /\ localq' = localq
        BY <1>1 DEF Spawn
      <4>2. TaskPool[t] \in Pools /\ TypeQueues
        BY TopologyAssumption DEF TypeOK
      <4>3. QED
        BY <4>1, <4>2, InjAppend
    <3>2. QED
      BY <1>1, <3>1 DEF Spawn, Referenced
  <2>2. \A x \in Tasks : status[x] # UNCREATED => status'[x] # UNCREATED
    BY <1>1 DEF Spawn, TypeOK, TypeTasks
  <2>3. status'[t] # UNCREATED
    BY <1>1 DEF Spawn, TypeOK, TypeTasks
  <2>4. NoLostWake'
    BY <1>0, <1>1 DEF Spawn, NoLostWake, TypeOK, TypeTasks
  <2>5. QED
    BY <1>0, <2>1, <2>2, <2>3, <2>4, CreatedStep DEF WakeInv
<1>2. ASSUME NEW w \in Workers, NEW t \in Tasks, LocalSpawn(w, t) PROVE WakeInv'
  <2>1. \A x \in Tasks : Referenced(x)' => Referenced(x) \/ x = t
    <3> SUFFICES ASSUME NEW x \in Tasks, Referenced(x)' PROVE Referenced(x) \/ x = t
      OBVIOUS
    <3>1. InQueues(x)' => InQueues(x) \/ x = t
      <4>1. localq' = [localq EXCEPT ![w] = Append(@, t)] /\ injector' = injector
        BY <1>2 DEF LocalSpawn
      <4>2. TypeQueues
        BY DEF TypeOK
      <4>3. QED
        BY <4>1, <4>2, LocAppend
    <3>2. QED
      BY <1>2, <3>1 DEF LocalSpawn, Referenced
  <2>2. \A x \in Tasks : status[x] # UNCREATED => status'[x] # UNCREATED
    BY <1>2 DEF LocalSpawn, TypeOK, TypeTasks
  <2>3. status'[t] # UNCREATED
    BY <1>2 DEF LocalSpawn, TypeOK, TypeTasks
  <2>4. NoLostWake'
    BY <1>0, <1>2 DEF LocalSpawn, NoLostWake, TypeOK, TypeTasks
  <2>5. QED
    BY <1>0, <2>1, <2>2, <2>3, <2>4, CreatedStep DEF WakeInv
<1>3. ASSUME NEW t \in Tasks, ExternalWake(t) PROVE WakeInv'
  <2>0. status[t] # UNCREATED
    BY <1>0, <1>3 DEF ExternalWake, CreatedRefs, Referenced
  <2>1. \A x \in Tasks : Referenced(x)' => Referenced(x) \/ x = NoTask
    BY <1>3 DEF ExternalWake, Referenced, InQueues, TypeOK, TypeTasks
  <2>2. NoLostWake' /\ \A x \in Tasks : status[x] # UNCREATED => status'[x] # UNCREATED
    BY <1>0, <1>3, <2>0, WakeKeepsNoLostWake DEF ExternalWake
  <2>3. QED
    BY <1>0, <2>1, <2>2, NoneAssumption, CreatedStep DEF WakeInv
<1>4. ASSUME NEW t \in Tasks, ExternalWakePush(t) PROVE WakeInv'
  <2>1. \A x \in Tasks : Referenced(x)' => Referenced(x) \/ x = NoTask
    <3> SUFFICES ASSUME NEW x \in Tasks, Referenced(x)' PROVE Referenced(x)
      OBVIOUS
    <3>1. InQueues(x)' => InQueues(x) \/ x = t
      <4>1. CASE remote[t] = NoPool
        BY <1>4, <4>1 DEF ExternalWakePush, InQueues
      <4>2. CASE remote[t] # NoPool
        <5>1. remote[t] \in Pools
          BY <4>2 DEF TypeOK, TypeTasks
        <5>2. QED
          <6>1. injector' = [injector EXCEPT ![remote[t]] = Append(@, t)]
                /\ localq' = localq
            BY <1>4, <4>2 DEF ExternalWakePush
          <6>2. TypeQueues
            BY DEF TypeOK
          <6>3. QED
            BY <5>1, <6>1, <6>2, InjAppend
      <4>3. QED
        BY <4>1, <4>2
    <3>2. Referenced(t)
      BY <1>4 DEF ExternalWakePush, Referenced
    <3>3. QED
      BY <1>4, <3>1, <3>2 DEF ExternalWakePush, Referenced, TypeOK, TypeTasks
  <2>2. QED
    BY <1>0, <1>4, <2>1, NoneAssumption, CreatedStep DEF ExternalWakePush, WakeInv, NoLostWake
<1>5. ASSUME NEW w \in Workers, PopLocal(w) PROVE WakeInv'
  <2> DEFINE e == Top(localq[w])
  <2>0. localq[w] \in Seq(Tasks) /\ localq[w] # <<>>
    BY <1>5 DEF PopLocal, TypeOK, TypeQueues
  <2>1. \A x \in Tasks : Referenced(x)' => Referenced(x) \/ x = NoTask
    <3> SUFFICES ASSUME NEW x \in Tasks, Referenced(x)' PROVE Referenced(x)
      OBVIOUS
    <3>1. InQueues(x)' => InQueues(x)
      <4>1. localq' = [localq EXCEPT ![w] = Rest(@)] /\ injector' = injector
        BY <1>5 DEF PopLocal
      <4>2. TypeQueues
        BY DEF TypeOK
      <4>3. QED
        BY <2>0, <4>1, <4>2, LocRest
    <3>2. InQueues(e)
      BY <2>0, OccEnds DEF InQueues
    <3>3. QED
      BY <1>5, <3>1, <3>2 DEF PopLocal, StartHandle, Referenced, TypeOK, TypeWorkers
  <2>2. \A x \in Tasks : status[x] # UNCREATED => status'[x] # UNCREATED
    BY <1>5 DEF PopLocal, StartHandle, TypeOK, TypeTasks
  <2>3. NoLostWake'
    BY <1>0, <1>5 DEF PopLocal, StartHandle, NoLostWake, TypeOK, TypeTasks
  <2>4. QED
    BY <1>0, <2>1, <2>2, <2>3, NoneAssumption, CreatedStep DEF WakeInv
<1>6. ASSUME NEW w \in Workers, PopInjector(w) PROVE WakeInv'
  <2> DEFINE e == Head(injector[PoolOf[w]])
  <2>0. PoolOf[w] \in Pools /\ injector[PoolOf[w]] \in Seq(Tasks)
        /\ injector[PoolOf[w]] # <<>>
    BY <1>6, TopologyAssumption DEF PopInjector, TypeOK, TypeQueues
  <2>1. \A x \in Tasks : Referenced(x)' => Referenced(x) \/ x = NoTask
    <3> SUFFICES ASSUME NEW x \in Tasks, Referenced(x)' PROVE Referenced(x)
      OBVIOUS
    <3>1. InQueues(x)' => InQueues(x)
      <4>1. injector' = [injector EXCEPT ![PoolOf[w]] = Tail(@)] /\ localq' = localq
        BY <1>6 DEF PopInjector
      <4>2. TypeQueues
        BY DEF TypeOK
      <4>3. QED
        BY <2>0, <4>1, <4>2, InjTail
    <3>2. InQueues(e)
      BY <2>0, OccEnds DEF InQueues
    <3>3. QED
      BY <1>6, <3>1, <3>2 DEF PopInjector, StartHandle, Referenced, TypeOK, TypeWorkers
  <2>2. \A x \in Tasks : status[x] # UNCREATED => status'[x] # UNCREATED
    BY <1>6 DEF PopInjector, StartHandle, TypeOK, TypeTasks
  <2>3. NoLostWake'
    BY <1>0, <1>6 DEF PopInjector, StartHandle, NoLostWake, TypeOK, TypeTasks
  <2>4. QED
    BY <1>0, <2>1, <2>2, <2>3, NoneAssumption, CreatedStep DEF WakeInv
<1>7. ASSUME NEW w \in Workers, CloneWaker(w) PROVE WakeInv'
  <2>1. \A x \in Tasks : Referenced(x)' => Referenced(x) \/ x = NoTask
    BY <1>7, CurTask DEF CloneWaker, CloneTask, Referenced, InQueues
  <2>2. QED
    BY <1>0, <1>7, <2>1, NoneAssumption, CreatedStep DEF CloneWaker, CloneTask, WakeInv, NoLostWake
<1>8. ASSUME NEW w \in Workers, SelfWake(w) PROVE WakeInv'
  <2>1. cur[w] \in Tasks /\ status[cur[w]] # UNCREATED
    BY <1>0, <1>8, CurTask DEF SelfWake, CreatedRefs, Referenced
  <2>2. \A x \in Tasks : Referenced(x)' => Referenced(x) \/ x = NoTask
    BY <1>8 DEF SelfWake, Referenced, InQueues
  <2>3. NoLostWake' /\ \A x \in Tasks : status[x] # UNCREATED => status'[x] # UNCREATED
    BY <1>0, <1>8, <2>1, WakeKeepsNoLostWake DEF SelfWake
  <2>4. QED
    BY <1>0, <2>2, <2>3, NoneAssumption, CreatedStep DEF WakeInv
<1>9. ASSUME NEW w \in Workers, Yield(w) PROVE WakeInv'
  <2>1. cur[w] \in Tasks /\ status[cur[w]] # UNCREATED
    BY <1>0, <1>9, CurTask DEF Yield, CreatedRefs, Referenced
  <2>2. \A x \in Tasks : Referenced(x)' => Referenced(x) \/ x = NoTask
    BY <1>9 DEF Yield, Referenced, InQueues
  <2>3. NoLostWake' /\ \A x \in Tasks : status[x] # UNCREATED => status'[x] # UNCREATED
    BY <1>0, <1>9, <2>1, WakeKeepsNoLostWake DEF Yield
  <2>4. QED
    BY <1>0, <2>2, <2>3, NoneAssumption, CreatedStep DEF WakeInv
<1>10. ASSUME NEW w \in Workers, NEW u \in Tasks, WorkerWake(w, u) PROVE WakeInv'
  <2>1. status[u] # UNCREATED
    BY <1>0, <1>10 DEF WorkerWake, CreatedRefs, Referenced
  <2>2. \A x \in Tasks : Referenced(x)' => Referenced(x) \/ x = NoTask
    BY <1>10 DEF WorkerWake, Referenced, InQueues, TypeOK, TypeWorkers
  <2>3. NoLostWake' /\ \A x \in Tasks : status[x] # UNCREATED => status'[x] # UNCREATED
    BY <1>0, <1>10, <2>1, WakeKeepsNoLostWake DEF WorkerWake
  <2>4. QED
    BY <1>0, <2>2, <2>3, NoneAssumption, CreatedStep DEF WakeInv
<1>11. ASSUME NEW w \in Workers, WorkerWakePush(w) PROVE WakeInv'
  <2> DEFINE u == target[w]
  <2>0. u \in Tasks /\ remote[u] \in Pools \cup {NoPool}
    BY <1>11, TargetTask DEF WorkerWakePush, TypeOK, TypeTasks
  <2>1. \A x \in Tasks : Referenced(x)' => Referenced(x) \/ x = NoTask
    <3> SUFFICES ASSUME NEW x \in Tasks, Referenced(x)' PROVE Referenced(x)
      OBVIOUS
    <3>1. InQueues(x)' => InQueues(x) \/ x = u
      BY <1>11, <2>0, WakeTaskRefs DEF WorkerWakePush, TypeOK
    <3>2. Referenced(u)
      BY DEF Referenced
    <3>3. \A v \in Workers : target'[v] = x => target[v] = x
      BY <1>11, NoneAssumption DEF WorkerWakePush, TypeOK, TypeWorkers
    <3>4. UNCHANGED <<held, pending, cur>>
      BY <1>11 DEF WorkerWakePush
    <3>5. QED
      BY <3>1, <3>2, <3>3, <3>4 DEF Referenced
  <2>2. QED
    BY <1>0, <1>11, <2>1, NoneAssumption, CreatedStep DEF WorkerWakePush, WakeInv, NoLostWake
<1>12. ASSUME NEW w \in Workers, PollReady(w) PROVE WakeInv'
  <2>0. cur[w] \in Tasks
    BY <1>12, CurTask DEF PollReady
  <2>1. \A x \in Tasks : Referenced(x)' => Referenced(x) \/ x = NoTask
    BY <1>12 DEF PollReady, Referenced, InQueues, TypeOK, TypeWorkers
  <2>2. \A x \in Tasks : status[x] # UNCREATED => status'[x] # UNCREATED
    BY <1>12, <2>0 DEF PollReady, TypeOK, TypeTasks
  <2>3. NoLostWake'
    BY <1>0, <1>12, <2>0 DEF PollReady, NoLostWake, TypeOK, TypeTasks
  <2>4. QED
    BY <1>0, <2>1, <2>2, <2>3, NoneAssumption, CreatedStep DEF WakeInv
<1>13. ASSUME NEW w \in Workers, PollPending(w) PROVE WakeInv'
  <2> DEFINE t == cur[w]
  <2>0. t \in Tasks /\ FillRemote(w, t) \in Pools
    BY <1>13, CurTask, TopologyAssumption DEF PollPending, FillRemote, TypeOK, TypeTasks
  <2>1. CASE CasIdleSucceeds(t)
    <3>1. \A x \in Tasks : Referenced(x)' => Referenced(x) \/ x = NoTask
      BY <1>13, <2>1 DEF PollPending, Referenced, InQueues, TypeOK, TypeWorkers
    <3>2. \A x \in Tasks : status[x] # UNCREATED => status'[x] # UNCREATED
      BY <1>13, <2>0, <2>1 DEF PollPending, TypeOK, TypeTasks
    <3>3. NoLostWake'
      BY <1>0, <1>13, <2>0, <2>1 DEF PollPending, CasIdleSucceeds, NoLostWake, TypeOK, TypeTasks
    <3>4. QED
      BY <1>0, <3>1, <3>2, <3>3, NoneAssumption, CreatedStep DEF WakeInv
  <2>2. CASE ~CasIdleSucceeds(t)
    <3>1. PICK np \in NeedPreempt :
              IF (RepollExhausted(w) \/ needResched[w]) /\ np
              THEN /\ Preempt(w, t, needResched[w])
                   /\ UNCHANGED <<status, polls, repoll, woken>>
              ELSE Repoll(w, t)
      BY <1>13, <2>2 DEF PollPending
    <3>2. UNCHANGED <<held, pending, target>>
      BY <1>13 DEF PollPending
    <3>3. CASE (RepollExhausted(w) \/ needResched[w]) /\ np
      <4>1. /\ Preempt(w, t, needResched[w])
            /\ UNCHANGED <<status, polls, repoll, woken>>
        BY <3>1, <3>3
      <4>2. \A x \in Tasks : Referenced(x)' => Referenced(x) \/ x = NoTask
        <5> SUFFICES ASSUME NEW x \in Tasks, Referenced(x)' PROVE Referenced(x)
          OBVIOUS
        <5>1. InQueues(x)' => InQueues(x) \/ x = t
          <6>1. WakeTaskOnWorker(w, t, FillRemote(w, t), needResched[w])
            BY <4>1 DEF Preempt
          <6>2. needResched[w] \in BOOLEAN
            BY DEF TypeOK, TypeWorkers
          <6>3. QED
            BY <2>0, <6>1, <6>2, WakeTaskRefs DEF TypeOK
        <5>2. Referenced(t)
          BY DEF Referenced
        <5>3. \A v \in Workers : cur'[v] = x => cur[v] = x
          BY <4>1, NoneAssumption DEF Preempt, TypeOK, TypeWorkers
        <5>4. QED
          BY <3>2, <5>1, <5>2, <5>3 DEF Referenced
      <4>3. QED
        BY <1>0, <4>1, <4>2, NoneAssumption, CreatedStep DEF WakeInv, NoLostWake
    <3>4. CASE ~((RepollExhausted(w) \/ needResched[w]) /\ np)
      <4>1. Repoll(w, t)
        BY <3>1, <3>4
      <4>2. \A x \in Tasks : Referenced(x)' => Referenced(x) \/ x = NoTask
        BY <3>2, <4>1 DEF Repoll, Referenced, InQueues
      <4>3. \A x \in Tasks : status[x] # UNCREATED => status'[x] # UNCREATED
        BY <2>0, <4>1 DEF Repoll, TypeOK, TypeTasks
      <4>4. NoLostWake'
        BY <1>0, <2>0, <4>1 DEF Repoll, NoLostWake, TypeOK, TypeTasks
      <4>5. QED
        BY <1>0, <4>2, <4>3, <4>4, NoneAssumption, CreatedStep DEF WakeInv
    <3>5. QED
      BY <3>3, <3>4
  <2>3. QED
    BY <2>1, <2>2
<1>14. CASE UNCHANGED vars
  BY <1>14 DEF vars, WakeInv, CreatedRefs, Referenced, InQueues, NoLostWake
<1>15. ASSUME NEW t \in Tasks, DropWaker(t) PROVE WakeInv'
  <2>1. \A x \in Tasks : Referenced(x)' => Referenced(x) \/ x = NoTask
    BY <1>15 DEF DropWaker, Referenced, InQueues
  <2>2. QED
    BY <1>0, <1>15, <2>1, NoneAssumption, CreatedStep DEF DropWaker, WakeInv, NoLostWake
<1>16. QED
  BY <1>1, <1>2, <1>3, <1>4, <1>5, <1>6, <1>7, <1>8, <1>9, <1>10, <1>11,
     <1>12, <1>13, <1>14, <1>15 DEF Next

(* No wake-up is lost (NoLostWake, checked by the onepool run): for every *)
(* number of tasks, pools and workers, a wake issued after the last poll *)
(* of a task began leaves it NOTIFIED (or it has completed), whichever    *)
(* of wake_impl's CAS and handle's CAS POLLING -> IDLE wins.              *)
THEOREM NoLostWakeThm == Spec => []NoLostWake
<1>1. Init => WakeInv
  BY WakeInit
<1>2. TypeOK /\ TypeOK' /\ WakeInv /\ [Next]_vars => WakeInv'
  BY WakeStep
<1>3. WakeInv => NoLostWake
  BY DEF WakeInv
<1>4. QED
  BY TypeCorrect, <1>1, <1>2, <1>3, PTL DEF Spec

=============================================================================
