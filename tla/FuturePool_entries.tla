------------------------- MODULE FuturePool_entries -------------------------
(***************************************************************************)
(* Proofs that the status byte and the runnable entries of a task agree   *)
(* (ScheduledIffRunnable), that a task has at most one entry              *)
(* (NoDuplicate), and that COMPLETED is terminal (CompletedIsFinal), for   *)
(* every value of the constants.                                          *)
(*                                                                         *)
(* The argument is the one future.rs relies on for its unsafe accesses:   *)
(* only the thread whose CAS moved a task out of IDLE, or the worker that *)
(* popped it, owns its one entry, and a wake that finds it NOTIFIED or    *)
(* POLLING adds none. In the model an entry is one of four kinds, and the *)
(* strengthening says the kinds exclude one another, that none of them is *)
(* duplicated, and which statuses allow which kinds.                      *)
(***************************************************************************)
EXTENDS FuturePool_safety, SequenceTheorems, FiniteSetTheorems

USE DEF UNCREATED, NOTIFIED, IDLE, POLLING, COMPLETED

(* The four kinds of entry of t: a slot of a queue, an outside wake_task *)
(* in progress, a wake_task in progress on a worker, a handle call.       *)
InInj(t) == \E p \in Pools : Occurrences(injector[p], t) # {}
InLoc(t) == \E w \in Workers : Occurrences(localq[w], t) # {}
Queued(t) == InInj(t) \/ InLoc(t)
Pend(t) == pending[t] > 0
Waking(t) == \E w \in Workers : target[w] = t
Polled(t) == \E w \in Workers : cur[w] = t
HasEntry(t) == Queued(t) \/ Pend(t) \/ Waking(t) \/ Polled(t)

(* A sequence that holds no element twice. *)
SeqUnique(s) == \A i, j \in DOMAIN s : s[i] = s[j] => i = j

(* No queue entry is duplicated: one slot of one queue at most. *)
QueueUnique ==
    /\ \A p \in Pools : SeqUnique(injector[p])
    /\ \A w \in Workers : SeqUnique(localq[w])
    /\ \A t \in Tasks, p, q \in Pools :
         Occurrences(injector[p], t) # {} /\ Occurrences(injector[q], t) # {} => p = q
    /\ \A t \in Tasks, v, u \in Workers :
         Occurrences(localq[v], t) # {} /\ Occurrences(localq[u], t) # {} => v = u
    /\ \A t \in Tasks : ~(InInj(t) /\ InLoc(t))

(* No other entry is duplicated: one outside wake, one waking worker and *)
(* one polling worker at most.                                            *)
WorkerUnique ==
    /\ \A t \in Tasks : pending[t] <= 1
    /\ \A v, u \in Workers : target[v] = target[u] /\ target[v] \in Tasks => v = u
    /\ \A v, u \in Workers : cur[v] = cur[u] /\ cur[v] \in Tasks => v = u

(* The kinds exclude one another. *)
ExclusiveAt(t) ==
    /\ Queued(t) => ~Pend(t) /\ ~Waking(t) /\ ~Polled(t)
    /\ Pend(t) => ~Waking(t) /\ ~Polled(t)
    /\ Waking(t) => ~Polled(t)
EntriesExclusive == \A t \in Tasks : ExclusiveAt(t)

(* Which statuses allow which kinds: an entry exactly while NOTIFIED or  *)
(* POLLING; a queued, pending or waking entry only while NOTIFIED;       *)
(* POLLING only under a handle call.                                      *)
MatchAt(t) ==
    /\ HasEntry(t) <=> status[t] \in {NOTIFIED, POLLING}
    /\ Queued(t) \/ Pend(t) \/ Waking(t) => status[t] = NOTIFIED
    /\ status[t] = POLLING => Polled(t)
EntriesMatchStatus == \A t \in Tasks : MatchAt(t)

TaskOK(t) == ExclusiveAt(t) /\ MatchAt(t)

(* The strengthening of ScheduledIffRunnable, NoDuplicate and            *)
(* CompletedIsFinal. RemoteInv (no wake_task panics) is needed because a *)
(* panicking wake_task drops the task's only entry.                       *)
EntryInv ==
    RemoteInv /\ QueueUnique /\ WorkerUnique /\ EntriesExclusive /\ EntriesMatchStatus

-----------------------------------------------------------------------------
(* Lemmas about the queue operations the runtime uses: crossbeam's push,  *)
(* the injector's pop from the front, the local queue's LIFO pop.        *)

(* After a push, a task is in the queue iff it was or it is the new one. *)
LEMMA OccAppendIff ==
    ASSUME NEW s \in Seq(Tasks), NEW e, NEW t
    PROVE  Occurrences(Append(s, e), t) # {} <=> Occurrences(s, t) # {} \/ e = t
<1>1. Occurrences(Append(s, e), t) # {} => Occurrences(s, t) # {} \/ e = t
  BY OccAppend
<1>2. Occurrences(s, t) # {} => Occurrences(Append(s, e), t) # {}
  <2> SUFFICES ASSUME NEW i \in DOMAIN s, s[i] = t
               PROVE  Occurrences(Append(s, e), t) # {}
    BY DEF Occurrences
  <2>1. i \in DOMAIN Append(s, e) /\ Append(s, e)[i] = t
    BY AppendProperties
  <2>2. QED
    BY <2>1 DEF Occurrences
<1>3. e = t => Occurrences(Append(s, e), t) # {}
  <2>1. Len(s) + 1 \in DOMAIN Append(s, e) /\ Append(s, e)[Len(s) + 1] = e
    BY AppendProperties
  <2>2. QED
    BY <2>1 DEF Occurrences
<1>4. QED
  BY <1>1, <1>2, <1>3

(* After popping the head of a queue without duplicates, a task is in it *)
(* iff it was and is not the one popped.                                  *)
LEMMA OccTailIff ==
    ASSUME NEW s \in Seq(Tasks), s # <<>>, SeqUnique(s), NEW t
    PROVE  Occurrences(Tail(s), t) # {} <=> Occurrences(s, t) # {} /\ t # Head(s)
<1>1. Occurrences(Tail(s), t) # {} => t # Head(s)
  <2> SUFFICES ASSUME NEW i \in 1..(Len(s) - 1), Tail(s)[i] = t PROVE t # Head(s)
    BY DEF Occurrences
  <2>1. s[i + 1] = t /\ i + 1 \in DOMAIN s /\ 1 \in DOMAIN s /\ i + 1 # 1
    BY HeadTailProperties
  <2>2. QED
    BY <2>1 DEF SeqUnique
<1>2. Occurrences(s, t) # {} /\ t # Head(s) => Occurrences(Tail(s), t) # {}
  <2> SUFFICES ASSUME NEW i \in DOMAIN s, s[i] = t, t # Head(s)
               PROVE  Occurrences(Tail(s), t) # {}
    BY DEF Occurrences
  <2>1. i # 1 /\ i \in 1..Len(s)
    BY DEF Occurrences
  <2>2. i - 1 \in DOMAIN Tail(s) /\ Tail(s)[i - 1] = t
    BY <2>1, HeadTailProperties
  <2>3. QED
    BY <2>2 DEF Occurrences
<1>3. QED
  BY <1>1, <1>2, OccTail

(* After popping the back of a queue without duplicates, a task is in it *)
(* iff it was and is not the one popped.                                  *)
LEMMA OccRestIff ==
    ASSUME NEW s \in Seq(Tasks), s # <<>>, SeqUnique(s), NEW t
    PROVE  Occurrences(Rest(s), t) # {} <=> Occurrences(s, t) # {} /\ t # Top(s)
<1>1. Occurrences(Rest(s), t) # {} => t # Top(s)
  <2> SUFFICES ASSUME NEW i \in 1..(Len(s) - 1), Rest(s)[i] = t PROVE t # Top(s)
    BY DEF Occurrences, Rest
  <2>1. s[i] = t /\ i \in DOMAIN s /\ Len(s) \in DOMAIN s /\ i # Len(s)
    BY DEF Rest
  <2>2. QED
    BY <2>1 DEF SeqUnique, Top
<1>2. Occurrences(s, t) # {} /\ t # Top(s) => Occurrences(Rest(s), t) # {}
  <2> SUFFICES ASSUME NEW i \in DOMAIN s, s[i] = t, t # Top(s)
               PROVE  Occurrences(Rest(s), t) # {}
    BY DEF Occurrences
  <2>1. i # Len(s) /\ i \in 1..Len(s)
    BY DEF Top
  <2>2. i \in DOMAIN Rest(s) /\ Rest(s)[i] = t
    BY <2>1 DEF Rest
  <2>3. QED
    BY <2>2 DEF Occurrences
<1>3. QED
  BY <1>1, <1>2, OccRest

(* Pushing a task the queue does not hold keeps it free of duplicates. *)
LEMMA UniqAppend ==
    ASSUME NEW s \in Seq(Tasks), SeqUnique(s), NEW e, Occurrences(s, e) = {}
    PROVE  SeqUnique(Append(s, e))
<1> SUFFICES ASSUME NEW i \in 1..(Len(s) + 1), NEW j \in 1..(Len(s) + 1),
                    Append(s, e)[i] = Append(s, e)[j]
             PROVE  i = j
  BY DEF SeqUnique
<1>1. \A k \in 1..Len(s) : s[k] # e
  BY DEF Occurrences
<1>2. QED
  BY <1>1 DEF SeqUnique

(* Popping either end keeps a queue free of duplicates. *)
LEMMA UniqTail ==
    ASSUME NEW s \in Seq(Tasks), s # <<>>, SeqUnique(s)
    PROVE  SeqUnique(Tail(s))
  BY HeadTailProperties DEF SeqUnique

LEMMA UniqRest ==
    ASSUME NEW s \in Seq(Tasks), s # <<>>, SeqUnique(s)
    PROVE  SeqUnique(Rest(s))
  BY DEF SeqUnique, Rest

-----------------------------------------------------------------------------
(* The four queue operations on the whole set of queues. Each keeps the   *)
(* queues free of duplicates and moves exactly one task in or out.       *)

(* Pushing onto an injector a task that is in no queue. *)
LEMMA InjPush ==
    ASSUME TypeQueues, QueueUnique, NEW q \in Pools, NEW e \in Tasks, ~Queued(e),
           injector' = [injector EXCEPT ![q] = Append(@, e)], localq' = localq
    PROVE  QueueUnique' /\ \A x \in Tasks : Queued(x)' <=> Queued(x) \/ x = e
<1>0. \A p \in Pools : Occurrences(injector[p], e) = {}
  BY DEF Queued, InInj
<1>1. ASSUME NEW x \in Tasks, NEW p \in Pools
      PROVE  Occurrences(injector'[p], x) # {} <=>
                 Occurrences(injector[p], x) # {} \/ (p = q /\ x = e)
  <2>1. CASE p = q
    <3>1. injector'[p] = Append(injector[q], e) /\ injector[q] \in Seq(Tasks)
      BY <2>1 DEF TypeQueues
    <3>2. QED
      BY <2>1, <3>1, OccAppendIff
  <2>2. CASE p # q
    BY <2>2 DEF TypeQueues
  <2>3. QED
    BY <2>1, <2>2
<1>2. \A x \in Tasks : InInj(x)' <=> InInj(x) \/ x = e
  BY <1>1 DEF InInj
<1>3. \A x \in Tasks : InLoc(x)' <=> InLoc(x)
  BY DEF InLoc
<1>4. \A p \in Pools : SeqUnique(injector'[p])
  BY <1>0, UniqAppend DEF TypeQueues, QueueUnique
<1>5. ASSUME NEW t \in Tasks, NEW p1 \in Pools, NEW p2 \in Pools,
             Occurrences(injector'[p1], t) # {}, Occurrences(injector'[p2], t) # {}
      PROVE  p1 = p2
  <2>1. CASE t = e
    <3>1. p1 = q /\ p2 = q
      BY <1>0, <1>1, <1>5, <2>1
    <3>2. QED
      BY <3>1
  <2>2. CASE t # e
    <3>1. Occurrences(injector[p1], t) # {} /\ Occurrences(injector[p2], t) # {}
      BY <1>1, <1>5, <2>2
    <3>2. QED
      BY <3>1 DEF QueueUnique
  <2>3. QED
    BY <2>1, <2>2
<1>6. \A t \in Tasks : ~(InInj(t)' /\ InLoc(t)')
  BY <1>2, <1>3 DEF QueueUnique, Queued
<1>7. QueueUnique'
  BY <1>4, <1>5, <1>6 DEF QueueUnique
<1>8. QED
  BY <1>2, <1>3, <1>7 DEF Queued

(* Pushing onto a local queue a task that is in no queue. *)
LEMMA LocPush ==
    ASSUME TypeQueues, QueueUnique, NEW v \in Workers, NEW e \in Tasks, ~Queued(e),
           localq' = [localq EXCEPT ![v] = Append(@, e)], injector' = injector
    PROVE  QueueUnique' /\ \A x \in Tasks : Queued(x)' <=> Queued(x) \/ x = e
<1>0. \A w \in Workers : Occurrences(localq[w], e) = {}
  BY DEF Queued, InLoc
<1>1. ASSUME NEW x \in Tasks, NEW w \in Workers
      PROVE  Occurrences(localq'[w], x) # {} <=>
                 Occurrences(localq[w], x) # {} \/ (w = v /\ x = e)
  <2>1. CASE w = v
    <3>1. localq'[w] = Append(localq[v], e) /\ localq[v] \in Seq(Tasks)
      BY <2>1 DEF TypeQueues
    <3>2. QED
      BY <2>1, <3>1, OccAppendIff
  <2>2. CASE w # v
    BY <2>2 DEF TypeQueues
  <2>3. QED
    BY <2>1, <2>2
<1>2. \A x \in Tasks : InLoc(x)' <=> InLoc(x) \/ x = e
  BY <1>1 DEF InLoc
<1>3. \A x \in Tasks : InInj(x)' <=> InInj(x)
  BY DEF InInj
<1>4. \A w \in Workers : SeqUnique(localq'[w])
  BY <1>0, UniqAppend DEF TypeQueues, QueueUnique
<1>5. ASSUME NEW t \in Tasks, NEW w1 \in Workers, NEW w2 \in Workers,
             Occurrences(localq'[w1], t) # {}, Occurrences(localq'[w2], t) # {}
      PROVE  w1 = w2
  <2>1. CASE t = e
    <3>1. w1 = v /\ w2 = v
      BY <1>0, <1>1, <1>5, <2>1
    <3>2. QED
      BY <3>1
  <2>2. CASE t # e
    <3>1. Occurrences(localq[w1], t) # {} /\ Occurrences(localq[w2], t) # {}
      BY <1>1, <1>5, <2>2
    <3>2. QED
      BY <3>1 DEF QueueUnique
  <2>3. QED
    BY <2>1, <2>2
<1>6. \A t \in Tasks : ~(InInj(t)' /\ InLoc(t)')
  BY <1>2, <1>3 DEF QueueUnique, Queued
<1>7. QueueUnique'
  BY <1>4, <1>5, <1>6 DEF QueueUnique
<1>8. QED
  BY <1>2, <1>3, <1>7 DEF Queued

(* Popping the head of an injector. *)
LEMMA InjPop ==
    ASSUME TypeQueues, QueueUnique, NEW q \in Pools, injector[q] # <<>>,
           injector' = [injector EXCEPT ![q] = Tail(@)], localq' = localq
    PROVE  /\ QueueUnique'
           /\ \A x \in Tasks : Queued(x)' <=> Queued(x) /\ x # Head(injector[q])
           /\ Queued(Head(injector[q]))
<1> DEFINE h == Head(injector[q])
<1>0. injector[q] \in Seq(Tasks) /\ SeqUnique(injector[q])
  BY DEF TypeQueues, QueueUnique
<1>1. h \in Tasks /\ Occurrences(injector[q], h) # {}
  BY <1>0, OccEnds
<1>2. \A x \in Tasks, p \in Pools :
        Occurrences(injector'[p], x) # {} <=>
            Occurrences(injector[p], x) # {} /\ (p = q => x # h)
  BY <1>0, OccTailIff DEF TypeQueues
<1>3. \A x \in Tasks : InInj(x)' <=> InInj(x) /\ x # h
  BY <1>1, <1>2 DEF InInj, QueueUnique
<1>4. \A x \in Tasks : InLoc(x)' <=> InLoc(x)
  BY DEF InLoc
<1>5. \A p \in Pools : SeqUnique(injector'[p])
  BY <1>0, UniqTail DEF TypeQueues, QueueUnique
<1>6. h \in Tasks => ~InLoc(h)
  BY <1>1 DEF QueueUnique, InInj
<1>7. QED
  BY <1>1, <1>2, <1>3, <1>4, <1>5, <1>6 DEF QueueUnique, Queued, InInj

(* Popping the back of a local queue. *)
LEMMA LocPop ==
    ASSUME TypeQueues, QueueUnique, NEW v \in Workers, localq[v] # <<>>,
           localq' = [localq EXCEPT ![v] = Rest(@)], injector' = injector
    PROVE  /\ QueueUnique'
           /\ \A x \in Tasks : Queued(x)' <=> Queued(x) /\ x # Top(localq[v])
           /\ Queued(Top(localq[v]))
<1> DEFINE h == Top(localq[v])
<1>0. localq[v] \in Seq(Tasks) /\ SeqUnique(localq[v])
  BY DEF TypeQueues, QueueUnique
<1>1. h \in Tasks /\ Occurrences(localq[v], h) # {}
  BY <1>0, OccEnds DEF Top
<1>2. \A x \in Tasks, w \in Workers :
        Occurrences(localq'[w], x) # {} <=>
            Occurrences(localq[w], x) # {} /\ (w = v => x # h)
  BY <1>0, OccRestIff DEF TypeQueues
<1>3. \A x \in Tasks : InLoc(x)' <=> InLoc(x) /\ x # h
  BY <1>1, <1>2 DEF InLoc, QueueUnique
<1>4. \A x \in Tasks : InInj(x)' <=> InInj(x)
  BY DEF InInj
<1>5. \A w \in Workers : SeqUnique(localq'[w])
  BY <1>0, UniqRest DEF TypeQueues, QueueUnique
<1>6. ~InInj(h)
  BY <1>1 DEF QueueUnique, InLoc
<1>7. QueueUnique'
  <2>1. \A t \in Tasks, w1, w2 \in Workers :
          Occurrences(localq'[w1], t) # {} /\ Occurrences(localq'[w2], t) # {}
          => w1 = w2
    BY <1>2 DEF QueueUnique
  <2>2. \A t \in Tasks : ~(InInj(t)' /\ InLoc(t)')
    BY <1>3, <1>4 DEF QueueUnique
  <2>3. QED
    BY <1>5, <2>1, <2>2 DEF QueueUnique
<1>8. InLoc(h)
  BY <1>1 DEF InLoc
<1>9. QED
  BY <1>3, <1>4, <1>6, <1>7, <1>8 DEF Queued

-----------------------------------------------------------------------------
(* A task whose entries and status a step leaves alone keeps TaskOK. *)
LEMMA TaskFrame ==
    ASSUME NEW t, TaskOK(t),
           (Queued(t)' <=> Queued(t)), (Pend(t)' <=> Pend(t)), (Waking(t)' <=> Waking(t)),
           (Polled(t)' <=> Polled(t)), status'[t] = status[t]
    PROVE  TaskOK(t)'
  BY DEF TaskOK, ExclusiveAt, MatchAt, HasEntry

(* wake_task on a worker, for a task with a recorded remote and no queue *)
(* entry, queues it exactly once.                                         *)
LEMMA WakeQueue ==
    ASSUME TypeQueues, QueueUnique, NEW w \in Workers, NEW e \in Tasks, ~Queued(e),
           NEW rp \in Pools, NEW r, WakeTaskOnWorker(w, e, rp, r)
    PROVE  /\ QueueUnique'
           /\ \A x \in Tasks : Queued(x)' <=> Queued(x) \/ x = e
           /\ UNCHANGED panicked
<1>0. PoolOf[w] \in Pools /\ rp # NoPool
  BY TopologyAssumption, NoneAssumption
<1>1. UNCHANGED panicked /\ RouteFromWorker(w, e, rp, r)
  BY <1>0 DEF WakeTaskOnWorker
<1>2. CASE rp # PoolOf[w]
  BY <1>1, <1>2, InjPush DEF RouteFromWorker
<1>3. CASE rp = PoolOf[w] /\ r
  BY <1>0, <1>1, <1>3, InjPush DEF RouteFromWorker
<1>4. CASE rp = PoolOf[w] /\ ~r
  BY <1>1, <1>4, LocPush DEF RouteFromWorker
<1>5. QED
  BY <1>2, <1>3, <1>4

-----------------------------------------------------------------------------
(* EntryInv holds initially: no task has an entry or has been spawned. *)
LEMMA EntryInit == Init => EntryInv
<1> SUFFICES ASSUME Init PROVE EntryInv
  OBVIOUS
<1>1. RemoteInv
  BY RemoteInit
<1>2. \A t \in Tasks : ~Queued(t) /\ ~Pend(t) /\ ~Waking(t) /\ ~Polled(t)
  BY NoneAssumption DEF Init, Queued, InInj, InLoc, Pend, Waking, Polled, Occurrences
<1>3. QueueUnique /\ WorkerUnique
  BY NoneAssumption DEF Init, QueueUnique, WorkerUnique, SeqUnique, InInj, InLoc,
                        Occurrences
<1>4. QED
  BY <1>1, <1>2, <1>3 DEF Init, EntryInv, EntriesExclusive, EntriesMatchStatus,
                          ExclusiveAt, MatchAt, HasEntry

(* The goal of one step, with the two per-task invariants as TaskOK. *)
EntryGoal == QueueUnique' /\ WorkerUnique' /\ \A t \in Tasks : TaskOK(t)'

(* A step that only pushes a fresh or re-queued task t onto a queue: t   *)
(* leaves its pending or waking entry, if it had one, for a queue slot.  *)
LEMMA PushGoal ==
    ASSUME TypeOK, WorkerUnique, \A x \in Tasks : TaskOK(x), NEW t \in Tasks,
           QueueUnique', \A x \in Tasks : Queued(x)' <=> Queued(x) \/ x = t,
           ~Queued(t), ~Polled(t), status'[t] = NOTIFIED,
           \A x \in Tasks \ {t} : status'[x] = status[x] /\ pending'[x] = pending[x],
           ~Pend(t)', ~Waking(t)',
           \A x \in Tasks \ {t} : (Waking(x)' <=> Waking(x)),
           WorkerUnique', cur' = cur
    PROVE  EntryGoal
<1>1. TaskOK(t)'
  BY DEF TaskOK, ExclusiveAt, MatchAt, HasEntry, Polled
<1>2. ASSUME NEW x \in Tasks \ {t} PROVE TaskOK(x)'
  <2>0. x \in Tasks /\ x # t
    OBVIOUS
  <2>1. Queued(x)' <=> Queued(x)
    BY <2>0
  <2>5. (Waking(x)' <=> Waking(x))
    BY <2>0
  <2>6. status'[x] = status[x]
    BY <2>0
  <2>2. (Pend(x)' <=> Pend(x))
    BY DEF Pend
  <2>3. (Polled(x)' <=> Polled(x))
    BY DEF Polled
  <2>4. QED
    BY <2>1, <2>2, <2>3, <2>5, <2>6, TaskFrame
<1>3. QED
  BY <1>1, <1>2 DEF EntryGoal


(* A wake that loses the CAS IDLE -> NOTIFIED: at most POLLING becomes    *)
(* NOTIFIED, and no entry is added.                                       *)
LEMMA WakeLostGoal ==
    ASSUME TypeTasks, QueueUnique, WorkerUnique, \A x \in Tasks : TaskOK(x),
           NEW t \in Tasks, status[t] # IDLE,
           status' = [status EXCEPT ![t] = WakeStatus(@)],
           UNCHANGED <<injector, localq, pending, target, cur>>
    PROVE  EntryGoal
<1>1. TaskOK(t)'
  <2>1. CASE status[t] = POLLING
    BY <2>1 DEF TypeTasks, WakeStatus, TaskOK, ExclusiveAt, MatchAt, HasEntry,
                Queued, InInj, InLoc, Pend, Waking, Polled
  <2>2. CASE status[t] # POLLING
    <3>1. status'[t] = status[t]
      BY <2>2 DEF TypeTasks, WakeStatus
    <3>2. QED
      BY <3>1, TaskFrame DEF Queued, InInj, InLoc, Pend, Waking, Polled
  <2>3. QED
    BY <2>1, <2>2
<1>2. ASSUME NEW x \in Tasks \ {t} PROVE TaskOK(x)'
  <2>1. status'[x] = status[x]
    BY DEF TypeTasks
  <2>2. QED
    BY <2>1, TaskFrame DEF Queued, InInj, InLoc, Pend, Waking, Polled
<1>3. QueueUnique' /\ WorkerUnique'
  BY DEF QueueUnique, WorkerUnique, InInj, InLoc
<1>4. QED
  BY <1>1, <1>2, <1>3 DEF EntryGoal

(* A worker pops h from a queue and starts polling it: the queue slot    *)
(* becomes the handle call.                                               *)
LEMMA PopGoal ==
    ASSUME TypeTasks, TypeWorkers, WorkerUnique, \A x \in Tasks : TaskOK(x),
           NEW w \in Workers, NEW h \in Tasks, Queued(h), cur[w] = NoTask,
           QueueUnique', \A x \in Tasks : Queued(x)' <=> Queued(x) /\ x # h,
           cur' = [cur EXCEPT ![w] = h],
           status' = [status EXCEPT ![h] = POLLING],
           UNCHANGED <<pending, target>>
    PROVE  EntryGoal
<1>0. ~Pend(h) /\ ~Waking(h) /\ ~Polled(h) /\ status[h] = NOTIFIED
  BY DEF TaskOK, ExclusiveAt, MatchAt
<1>1. \A x \in Tasks : Polled(x)' <=> Polled(x) \/ x = h
  BY NoneAssumption DEF TypeWorkers, Polled
<1>2. TaskOK(h)'
  BY <1>0, <1>1 DEF TypeTasks, TaskOK, ExclusiveAt, MatchAt, HasEntry, Pend, Waking
<1>3. ASSUME NEW x \in Tasks \ {h} PROVE TaskOK(x)'
  <2>1. status'[x] = status[x] /\ (Polled(x)' <=> Polled(x)) /\ (Queued(x)' <=> Queued(x))
    BY <1>1 DEF TypeTasks
  <2>2. QED
    BY <2>1, TaskFrame DEF Pend, Waking
<1>4. WorkerUnique'
  BY <1>0, NoneAssumption DEF TypeWorkers, WorkerUnique, Polled
<1>5. QED
  BY <1>2, <1>3, <1>4 DEF EntryGoal

(* A handle call on w ends without re-queueing the task t it polled: the *)
(* poll returned Ready (COMPLETED) or the CAS POLLING -> IDLE succeeded.   *)
LEMMA UnpollGoal ==
    ASSUME TypeTasks, TypeWorkers, QueueUnique, WorkerUnique,
           \A x \in Tasks : TaskOK(x),
           NEW w \in Workers, NEW t \in Tasks, cur[w] = t,
           NEW st, st \notin {NOTIFIED, POLLING},
           cur' = [cur EXCEPT ![w] = NoTask],
           status' = [status EXCEPT ![t] = st],
           UNCHANGED <<injector, localq, pending, target>>
    PROVE  EntryGoal
<1>0. Polled(t) /\ ~Queued(t) /\ ~Pend(t) /\ ~Waking(t)
  BY DEF TaskOK, ExclusiveAt, Polled
<1>1. \A x \in Tasks : Polled(x)' <=> Polled(x) /\ x # t
  BY NoneAssumption DEF TypeWorkers, WorkerUnique, Polled
<1>2. \A x \in Tasks : (Queued(x)' <=> Queued(x)) /\ (Waking(x)' <=> Waking(x))
                       /\ (Pend(x)' <=> Pend(x))
  BY DEF Queued, InInj, InLoc, Waking, Pend
<1>3. TaskOK(t)'
  BY <1>0, <1>1, <1>2 DEF TypeTasks, TaskOK, ExclusiveAt, MatchAt, HasEntry
<1>4. ASSUME NEW x \in Tasks \ {t} PROVE TaskOK(x)'
  <2>1. status'[x] = status[x]
    BY DEF TypeTasks
  <2>2. QED
    BY <1>1, <1>2, <2>1, TaskFrame
<1>5. QueueUnique' /\ WorkerUnique'
  BY NoneAssumption DEF TypeWorkers, QueueUnique, WorkerUnique, InInj, InLoc
<1>6. QED
  BY <1>3, <1>4, <1>5 DEF EntryGoal

(* Every step of the runtime keeps EntryInv. *)
LEMMA EntryStep ==
    TypeOK /\ TypeOK' /\ EntryInv /\ RemoteInv' /\ [Next]_vars => EntryGoal
<1> SUFFICES ASSUME TypeOK, TypeOK', EntryInv, RemoteInv', [Next]_vars
             PROVE  EntryGoal
  OBVIOUS
<1>0. /\ TypeTasks /\ TypeQueues /\ TypeWorkers /\ TypeLink
      /\ RemoteInv /\ QueueUnique /\ WorkerUnique
      /\ \A t \in Tasks : TaskOK(t)
  BY DEF TypeOK, EntryInv, EntriesExclusive, EntriesMatchStatus, TaskOK
<1>1. ASSUME NEW t \in Tasks, Spawn(t) PROVE EntryGoal
  <2>1. ~HasEntry(t)
    BY <1>0, <1>1 DEF Spawn, TaskOK, MatchAt
  <2>2. QueueUnique' /\ \A x \in Tasks : Queued(x)' <=> Queued(x) \/ x = t
    <3>1. TaskPool[t] \in Pools /\ ~Queued(t)
          /\ injector' = [injector EXCEPT ![TaskPool[t]] = Append(@, t)]
          /\ localq' = localq
      BY <1>1, <2>1, TopologyAssumption DEF Spawn, HasEntry
    <3>2. QED
      BY <1>0, <3>1, InjPush
  <2>3. WorkerUnique'
    BY <1>0, <1>1 DEF Spawn, WorkerUnique
  <2>5. /\ ~Polled(t) /\ status'[t] = NOTIFIED /\ cur' = cur
        /\ \A x \in Tasks \ {t} : status'[x] = status[x] /\ pending'[x] = pending[x]
        /\ ~Pend(t)' /\ ~Waking(t)'
        /\ \A x \in Tasks \ {t} : (Waking(x)' <=> Waking(x))
    BY <1>0, <1>1, <2>1 DEF Spawn, HasEntry, Pend, Waking, Polled, TypeTasks
  <2>4. QED
    BY <1>0, <2>1, <2>2, <2>3, <2>5, PushGoal DEF HasEntry
<1>2. ASSUME NEW w \in Workers, NEW t \in Tasks, LocalSpawn(w, t) PROVE EntryGoal
  <2>1. ~HasEntry(t)
    BY <1>0, <1>2 DEF LocalSpawn, TaskOK, MatchAt
  <2>2. QueueUnique' /\ \A x \in Tasks : Queued(x)' <=> Queued(x) \/ x = t
    <3>1. ~Queued(t) /\ localq' = [localq EXCEPT ![w] = Append(@, t)]
          /\ injector' = injector
      BY <1>2, <2>1 DEF LocalSpawn, HasEntry
    <3>2. QED
      BY <1>0, <3>1, LocPush
  <2>3. WorkerUnique'
    BY <1>0, <1>2 DEF LocalSpawn, WorkerUnique
  <2>5. /\ ~Polled(t) /\ status'[t] = NOTIFIED /\ cur' = cur
        /\ \A x \in Tasks \ {t} : status'[x] = status[x] /\ pending'[x] = pending[x]
        /\ ~Pend(t)' /\ ~Waking(t)'
        /\ \A x \in Tasks \ {t} : (Waking(x)' <=> Waking(x))
    BY <1>0, <1>2, <2>1 DEF LocalSpawn, HasEntry, Pend, Waking, Polled, TypeTasks
  <2>4. QED
    BY <1>0, <2>1, <2>2, <2>3, <2>5, PushGoal DEF HasEntry
<1>3. ASSUME NEW t \in Tasks, ExternalWakePush(t) PROVE EntryGoal
  <2>1. pending[t] = 1 /\ status[t] = NOTIFIED /\ ~Queued(t) /\ ~Polled(t)
        /\ ~Waking(t) /\ remote[t] \in Pools
    BY <1>0, <1>3 DEF ExternalWakePush, TaskOK, ExclusiveAt, MatchAt, Pend,
                      WorkerUnique, RemoteInv, TypeTasks
  <2>2. QueueUnique' /\ \A x \in Tasks : Queued(x)' <=> Queued(x) \/ x = t
    <3>1. injector' = [injector EXCEPT ![remote[t]] = Append(@, t)] /\ localq' = localq
      BY <1>3, <2>1, NoneAssumption DEF ExternalWakePush
    <3>2. QED
      BY <1>0, <2>1, <3>1, InjPush
  <2>3. pending' = [pending EXCEPT ![t] = 0] /\ UNCHANGED <<status, target, cur>>
    BY <1>3, <2>1 DEF ExternalWakePush
  <2>4. WorkerUnique'
    BY <1>0, <2>3 DEF WorkerUnique, TypeTasks
  <2>5. /\ \A x \in Tasks \ {t} : status'[x] = status[x] /\ pending'[x] = pending[x]
        /\ ~Pend(t)' /\ ~Waking(t)' /\ status'[t] = NOTIFIED
        /\ \A x \in Tasks \ {t} : (Waking(x)' <=> Waking(x))
    BY <1>0, <2>1, <2>3 DEF Pend, Waking, TypeTasks
  <2>6. QED
    BY <1>0, <2>1, <2>2, <2>3, <2>4, <2>5, PushGoal
<1>4. ASSUME UNCHANGED <<status, injector, localq, pending, target, cur>>
      PROVE  EntryGoal
  <2>1. ASSUME NEW x \in Tasks PROVE TaskOK(x)'
    BY <1>0, <1>4, TaskFrame DEF Queued, InInj, InLoc, Pend, Waking, Polled
  <2>2. QueueUnique'
    <3>1. injector' = injector /\ localq' = localq
      BY <1>4
    <3>2. QED
      BY <1>0, <3>1 DEF QueueUnique, InInj, InLoc
  <2>3. WorkerUnique'
    BY <1>0, <1>4 DEF WorkerUnique
  <2>4. QED
    BY <2>1, <2>2, <2>3 DEF EntryGoal

<1>5. ASSUME NEW t \in Tasks, ExternalWake(t) PROVE EntryGoal
  <2>1. CASE status[t] = IDLE
    <3>0. ~HasEntry(t)
      BY <1>0, <2>1 DEF TaskOK, MatchAt
    <3>1. pending'[t] = 1 /\ status'[t] = NOTIFIED
      BY <1>0, <1>5, <2>1, <3>0 DEF ExternalWake, WinsIdleCas, WakeStatus, HasEntry,
                                  Pend, TypeTasks
    <3>2. TaskOK(t)'
      BY <1>5, <3>0, <3>1 DEF ExternalWake, TaskOK, ExclusiveAt, MatchAt, HasEntry,
                              Queued, InInj, InLoc, Pend, Waking, Polled
    <3>3. ASSUME NEW x \in Tasks \ {t} PROVE TaskOK(x)'
      <4>1. status'[x] = status[x] /\ pending'[x] = pending[x]
        BY <1>0, <1>5 DEF ExternalWake, TypeTasks
      <4>2. QED
        BY <1>0, <1>5, <4>1, TaskFrame DEF ExternalWake, Queued, InInj, InLoc, Pend,
                                            Waking, Polled
    <3>4. WorkerUnique'
      BY <1>0, <1>5, <3>1 DEF ExternalWake, WorkerUnique, TypeTasks
    <3>5. QueueUnique'
      BY <1>0, <1>5 DEF ExternalWake, QueueUnique, InInj, InLoc
    <3>6. QED
      BY <3>2, <3>3, <3>4, <3>5 DEF EntryGoal
  <2>3. CASE status[t] # IDLE
    <3>1. UNCHANGED pending
      BY <1>0, <1>5, <2>3 DEF ExternalWake, WinsIdleCas, TypeTasks
    <3>2. QED
      BY <1>0, <1>5, <2>3, <3>1, WakeLostGoal DEF ExternalWake
  <2>4. QED
    BY <2>1, <2>3
<1>6. ASSUME NEW w \in Workers, PopLocal(w) PROVE EntryGoal
  <2>1. /\ QueueUnique'
        /\ \A x \in Tasks : Queued(x)' <=> Queued(x) /\ x # Top(localq[w])
        /\ Queued(Top(localq[w]))
    BY <1>0, <1>6, LocPop DEF PopLocal
  <2>2. Top(localq[w]) \in Tasks
    BY <1>0, <1>6, OccEnds DEF PopLocal, TypeQueues, Top
  <2>3. cur[w] = NoTask
    BY <1>0, <1>6 DEF PopLocal, TypeLink
  <2>4. QED
    BY <1>0, <1>6, <2>1, <2>2, <2>3, PopGoal DEF PopLocal, StartHandle
<1>7. ASSUME NEW w \in Workers, PopInjector(w) PROVE EntryGoal
  <2>0. PoolOf[w] \in Pools
    BY TopologyAssumption
  <2>1. /\ QueueUnique'
        /\ \A x \in Tasks : Queued(x)' <=> Queued(x) /\ x # Head(injector[PoolOf[w]])
        /\ Queued(Head(injector[PoolOf[w]]))
    BY <1>0, <1>7, <2>0, InjPop DEF PopInjector
  <2>2. Head(injector[PoolOf[w]]) \in Tasks
    BY <1>0, <1>7, <2>0 DEF PopInjector, TypeQueues
  <2>3. cur[w] = NoTask
    BY <1>0, <1>7 DEF PopInjector, TypeLink
  <2>4. QED
    BY <1>0, <1>7, <2>1, <2>2, <2>3, PopGoal DEF PopInjector, StartHandle
<1>8. ASSUME NEW w \in Workers, NEW u \in Tasks, WorkerWake(w, u) PROVE EntryGoal
  <2>1. CASE status[u] = IDLE
    <3>1. ~HasEntry(u)
      BY <1>0, <2>1 DEF TaskOK, MatchAt
    <3>2. target[w] = NoTask
      BY <1>0, <1>8 DEF WorkerWake, TypeLink
    <3>3. target' = [target EXCEPT ![w] = u] /\ status'[u] = NOTIFIED
      BY <1>0, <1>8, <2>1 DEF WorkerWake, WinsIdleCas, WakeStatus, TypeTasks
    <3>4. \A x \in Tasks : Waking(x)' <=> Waking(x) \/ x = u
      BY <1>0, <3>2, <3>3, NoneAssumption DEF Waking, TypeWorkers
    <3>5. TaskOK(u)'
      BY <1>8, <3>1, <3>3, <3>4 DEF WorkerWake, TaskOK, ExclusiveAt, MatchAt,
                                   HasEntry, Queued, InInj, InLoc, Pend, Polled
    <3>6. ASSUME NEW x \in Tasks \ {u} PROVE TaskOK(x)'
      <4>1. status'[x] = status[x]
        BY <1>0, <1>8 DEF WorkerWake, TypeTasks
      <4>2. QED
        BY <1>0, <1>8, <3>4, <4>1, TaskFrame DEF WorkerWake, Queued, InInj, InLoc,
                                                  Pend, Polled
    <3>7. WorkerUnique'
      BY <1>0, <1>8, <3>1, <3>3 DEF WorkerWake, WorkerUnique, HasEntry, Waking,
                                    TypeWorkers
    <3>8. QueueUnique'
      BY <1>0, <1>8 DEF WorkerWake, QueueUnique, InInj, InLoc
    <3>9. QED
      BY <3>5, <3>6, <3>7, <3>8 DEF EntryGoal
  <2>2. CASE status[u] # IDLE
    <3>1. UNCHANGED target
      BY <1>8, <2>2 DEF WorkerWake, WinsIdleCas
    <3>2. QED
      BY <1>0, <1>8, <2>2, <3>1, WakeLostGoal DEF WorkerWake
  <2>3. QED
    BY <2>1, <2>2
<1>9. ASSUME NEW w \in Workers, WorkerWakePush(w) PROVE EntryGoal
  <2> DEFINE u == target[w]
  <2>1. u \in Tasks /\ Waking(u)
    BY <1>0, <1>9, TargetTask DEF WorkerWakePush, Waking
  <2>2. ~Queued(u) /\ ~Pend(u) /\ ~Polled(u) /\ status[u] = NOTIFIED
    BY <1>0, <2>1 DEF TaskOK, ExclusiveAt, MatchAt
  <2>3. remote[u] \in Pools
    BY <1>0, <2>1, NoneAssumption DEF RemoteInv, TypeTasks
  <2>4. /\ QueueUnique'
        /\ \A x \in Tasks : Queued(x)' <=> Queued(x) \/ x = u
    BY <1>0, <1>9, <2>1, <2>2, <2>3, WakeQueue DEF WorkerWakePush
  <2>5. \A x \in Tasks : Waking(x)' <=> Waking(x) /\ x # u
    BY <1>0, <1>9, <2>1, NoneAssumption DEF WorkerWakePush, Waking, WorkerUnique,
                                             TypeWorkers
  <2>6. WorkerUnique'
    BY <1>0, <1>9, NoneAssumption DEF WorkerWakePush, WorkerUnique, TypeWorkers
  <2>7. QED
    BY <1>0, <1>9, <2>1, <2>2, <2>4, <2>5, <2>6, PushGoal DEF WorkerWakePush, Pend
<1>10. ASSUME NEW w \in Workers, PollReady(w) PROVE EntryGoal
  <2>1. cur[w] \in Tasks
    BY <1>0, <1>10, CurTask DEF PollReady
  <2>2. /\ cur' = [cur EXCEPT ![w] = NoTask]
        /\ status' = [status EXCEPT ![cur[w]] = COMPLETED]
        /\ UNCHANGED <<injector, localq, pending, target>>
    BY <1>10 DEF PollReady
  <2>3. COMPLETED \notin {NOTIFIED, POLLING}
    OBVIOUS
  <2>4. QED
    BY <1>0, <2>1, <2>2, <2>3, UnpollGoal
<1>11. ASSUME NEW w \in Workers, PollPending(w) PROVE EntryGoal
  <2>0. PICK t \in Tasks : t = cur[w]
    BY <1>0, <1>11, CurTask DEF PollPending
  <2>1. t \in Tasks /\ Polled(t) /\ ~Queued(t) /\ ~Pend(t) /\ ~Waking(t)
        /\ status[t] \in {NOTIFIED, POLLING}
    BY <1>0, <2>0, <1>11, CurTask DEF PollPending, TaskOK, ExclusiveAt, MatchAt, HasEntry,
                                Polled
  <2>2. CASE CasIdleSucceeds(t)
    BY <1>0, <2>0, <1>11, <2>1, <2>2, UnpollGoal DEF PollPending
  <2>3. CASE ~CasIdleSucceeds(t)
    <3>0. status[t] = NOTIFIED
      BY <2>0, <2>1, <2>3 DEF CasIdleSucceeds
    <3>1. PICK np \in NeedPreempt :
            IF (RepollExhausted(w) \/ needResched[w]) /\ np
            THEN /\ Preempt(w, t, needResched[w])
                 /\ UNCHANGED <<status, polls, repoll, woken>>
            ELSE Repoll(w, t)
      BY <1>11, <2>0, <2>3 DEF PollPending
    <3>2. CASE (RepollExhausted(w) \/ needResched[w]) /\ np
      <4>1. FillRemote(w, t) \in Pools
        BY <1>0, <2>0, <2>1, TopologyAssumption DEF FillRemote, RemoteInv, TypeTasks
      <4>2. /\ QueueUnique'
            /\ \A x \in Tasks : Queued(x)' <=> Queued(x) \/ x = t
        BY <1>0, <2>0, <2>1, <3>1, <3>2, <4>1, WakeQueue DEF Preempt
      <4>3. cur' = [cur EXCEPT ![w] = NoTask] /\ UNCHANGED <<status, pending, target>>
        BY <1>11, <2>0, <2>3, <3>1, <3>2 DEF PollPending, Preempt
      <4>4. \A x \in Tasks : Polled(x)' <=> Polled(x) /\ x # t
        BY <1>0, <2>0, <4>3, NoneAssumption DEF TypeWorkers, WorkerUnique, Polled
      <4>5. TaskOK(t)'
        <5>1. Queued(t)' /\ ~Polled(t)'
          BY <4>2, <4>4
        <5>2. ~Pend(t)' /\ ~Waking(t)' /\ status'[t] = NOTIFIED
          BY <2>1, <3>0, <4>3 DEF Pend, Waking
        <5>3. QED
          BY <5>1, <5>2 DEF TaskOK, ExclusiveAt, MatchAt, HasEntry
      <4>6. ASSUME NEW x \in Tasks \ {t} PROVE TaskOK(x)'
        BY <1>0, <2>0, <4>2, <4>3, <4>4, TaskFrame DEF Pend, Waking
      <4>7. WorkerUnique'
        BY <1>0, <2>0, <4>3, NoneAssumption DEF WorkerUnique, TypeWorkers
      <4>8. QED
        BY <2>0, <4>2, <4>5, <4>6, <4>7 DEF EntryGoal
    <3>3. CASE ~((RepollExhausted(w) \/ needResched[w]) /\ np)
      <4>1. status' = [status EXCEPT ![t] = POLLING]
            /\ UNCHANGED <<injector, localq, pending, target, cur>>
        BY <1>11, <2>0, <2>3, <3>1, <3>3 DEF PollPending, Repoll
      <4>2. TaskOK(t)'
        BY <1>0, <2>0, <2>1, <4>1 DEF TypeTasks, TaskOK, ExclusiveAt, MatchAt, HasEntry,
                                Queued, InInj, InLoc, Pend, Waking, Polled
      <4>3. ASSUME NEW x \in Tasks \ {t} PROVE TaskOK(x)'
        <5>1. status'[x] = status[x]
          BY <1>0, <2>0, <4>1 DEF TypeTasks
        <5>2. QED
          BY <1>0, <2>0, <4>1, <5>1, TaskFrame DEF Queued, InInj, InLoc, Pend, Waking, Polled
      <4>4. QueueUnique' /\ WorkerUnique'
        BY <1>0, <2>0, <4>1 DEF QueueUnique, WorkerUnique, InInj, InLoc
      <4>5. QED
        BY <2>0, <4>2, <4>3, <4>4 DEF EntryGoal
    <3>4. QED
      BY <2>0, <3>2, <3>3
  <2>4. QED
    BY <2>0, <2>2, <2>3
<1>12. ASSUME NEW w \in Workers, SelfWake(w) \/ Yield(w) PROVE EntryGoal
  <2>1. cur[w] \in Tasks /\ status[cur[w]] # IDLE
    BY <1>0, <1>12, CurTask DEF SelfWake, Yield, TaskOK, MatchAt, HasEntry, Polled
  <2>2. QED
    BY <1>0, <1>12, <2>1, WakeLostGoal DEF SelfWake, Yield
<1>13. QED
  <2>1. ASSUME NEW t \in Tasks, DropWaker(t) PROVE EntryGoal
    BY <1>4, <2>1 DEF DropWaker
  <2>2. ASSUME NEW w \in Workers, CloneWaker(w) PROVE EntryGoal
    BY <1>4, <2>2 DEF CloneWaker, CloneTask
  <2>3. CASE UNCHANGED vars
    BY <1>4, <2>3 DEF vars
  <2>4. QED
    BY <1>1, <1>2, <1>3, <1>5, <1>6, <1>7, <1>8, <1>9, <1>10, <1>11, <1>12,
       <2>1, <2>2, <2>3 DEF Next

(* EntryInv is an invariant of the runtime. *)
LEMMA EntryInvariant == Spec => []EntryInv
<1>1. Init => EntryInv
  BY EntryInit
<1>2. TypeOK /\ TypeOK' /\ EntryInv /\ [Next]_vars => EntryInv'
  <2> SUFFICES ASSUME TypeOK, TypeOK', EntryInv, [Next]_vars PROVE EntryInv'
    OBVIOUS
  <2>1. RemoteInv'
    BY RemoteStep DEF EntryInv
  <2>2. EntryGoal
    BY <2>1, EntryStep
  <2>3. QED
    BY <2>1, <2>2 DEF EntryGoal, EntryInv, EntriesExclusive, EntriesMatchStatus, TaskOK
<1>3. QED
  BY TypeCorrect, <1>1, <1>2, PTL DEF Spec

-----------------------------------------------------------------------------
(* The entries Holders counts, by kind. *)
InjSlots(p, t) == {<<"inj", p, i>> : i \in Occurrences(injector[p], t)}
LocSlots(w, t) == {<<"loc", w, i>> : i \in Occurrences(localq[w], t)}
HInj(t) == UNION {InjSlots(p, t) : p \in Pools}
HLoc(t) == UNION {LocSlots(w, t) : w \in Workers}
HExt(t) == {<<"ext", k, 0>> : k \in 1..pending[t]}
HWake(t) == {<<"wake", w, 0>> : w \in {v \in Workers : target[v] = t}}
HPoll(t) == {<<"poll", w, 0>> : w \in {v \in Workers : cur[v] = t}}

LEMMA HoldersParts ==
    ASSUME NEW t
    PROVE  Holders(t) = HInj(t) \cup HLoc(t) \cup HExt(t) \cup HWake(t) \cup HPoll(t)
  BY DEF Holders, HInj, HLoc, HExt, HWake, HPoll, InjSlots, LocSlots

HolderForm(a, t) ==
    \/ \E p \in Pools : \E i \in Occurrences(injector[p], t) : a = <<"inj", p, i>>
    \/ \E w \in Workers : \E i \in Occurrences(localq[w], t) : a = <<"loc", w, i>>
    \/ \E k \in 1..pending[t] : a = <<"ext", k, 0>>
    \/ \E w \in Workers : target[w] = t /\ a = <<"wake", w, 0>>
    \/ \E w \in Workers : cur[w] = t /\ a = <<"poll", w, 0>>

LEMMA HolderCases ==
    ASSUME NEW t, NEW a \in Holders(t)
    PROVE  HolderForm(a, t)
<1>1. CASE a \in HInj(t)
  <2>1. PICK p \in Pools : a \in InjSlots(p, t)
    BY <1>1 DEF HInj
  <2>2. QED
    BY <2>1 DEF InjSlots, HolderForm
<1>2. CASE a \in HLoc(t)
  <2>1. PICK w \in Workers : a \in LocSlots(w, t)
    BY <1>2 DEF HLoc
  <2>2. QED
    BY <2>1 DEF LocSlots, HolderForm
<1>3. CASE a \in HExt(t) \/ a \in HWake(t) \/ a \in HPoll(t)
  BY <1>3 DEF HExt, HWake, HPoll, HolderForm
<1>4. QED
  BY <1>1, <1>2, <1>3, HoldersParts

(* Holders(t) is nonempty exactly when t has an entry of some kind. *)
LEMMA HoldersNonempty ==
    ASSUME TypeTasks, NEW t \in Tasks
    PROVE  Holders(t) # {} <=> HasEntry(t)
<1>1. Holders(t) # {} => HasEntry(t)
  <2> SUFFICES ASSUME NEW a \in Holders(t) PROVE HasEntry(t)
    OBVIOUS
  <2>1. HolderForm(a, t)
    BY HolderCases
  <2>2. CASE \E p \in Pools : \E i \in Occurrences(injector[p], t) : a = <<"inj", p, i>>
    BY <2>2 DEF HasEntry, Queued, InInj
  <2>3. CASE \E w \in Workers : \E i \in Occurrences(localq[w], t) : a = <<"loc", w, i>>
    BY <2>3 DEF HasEntry, Queued, InLoc
  <2>4. CASE \E k \in 1..pending[t] : a = <<"ext", k, 0>>
    <3>1. pending[t] \in Nat
      BY DEF TypeTasks
    <3>2. pending[t] > 0
      BY <2>4, <3>1
    <3>3. QED
      BY <3>2 DEF HasEntry, Pend
  <2>5. CASE \E w \in Workers : target[w] = t /\ a = <<"wake", w, 0>>
    BY <2>5 DEF HasEntry, Waking
  <2>6. CASE \E w \in Workers : cur[w] = t /\ a = <<"poll", w, 0>>
    BY <2>6 DEF HasEntry, Polled
  <2>7. QED
    BY <2>1, <2>2, <2>3, <2>4, <2>5, <2>6 DEF HolderForm
<1>2. HasEntry(t) => Holders(t) # {}
  <2>1. CASE InInj(t)
    <3>1. PICK p \in Pools : Occurrences(injector[p], t) # {}
      BY <2>1 DEF InInj
    <3>2. PICK i \in Occurrences(injector[p], t) : TRUE
      BY <3>1
    <3>3. <<"inj", p, i>> \in InjSlots(p, t)
      BY <3>2 DEF InjSlots
    <3>5. <<"inj", p, i>> \in Holders(t)
      BY <3>3, HoldersParts DEF HInj
    <3>4. QED
      BY <3>5
  <2>2. CASE InLoc(t)
    <3>1. PICK w \in Workers : Occurrences(localq[w], t) # {}
      BY <2>2 DEF InLoc
    <3>2. PICK i \in Occurrences(localq[w], t) : TRUE
      BY <3>1
    <3>3. <<"loc", w, i>> \in LocSlots(w, t)
      BY <3>2 DEF LocSlots
    <3>5. <<"loc", w, i>> \in Holders(t)
      BY <3>3, HoldersParts DEF HLoc
    <3>4. QED
      BY <3>5
  <2>3. CASE Pend(t)
    <3>1. <<"ext", 1, 0>> \in Holders(t)
      BY <2>3, HoldersParts DEF Pend, HExt, TypeTasks
    <3>2. QED
      BY <3>1
  <2>4. CASE Waking(t)
    <3>1. PICK w \in Workers : target[w] = t
      BY <2>4 DEF Waking
    <3>2. <<"wake", w, 0>> \in Holders(t)
      BY <3>1, HoldersParts DEF HWake
    <3>3. QED
      BY <3>2
  <2>5. CASE Polled(t)
    <3>1. PICK w \in Workers : cur[w] = t
      BY <2>5 DEF Polled
    <3>2. <<"poll", w, 0>> \in Holders(t)
      BY <3>1, HoldersParts DEF HPoll
    <3>3. QED
      BY <3>2
  <2>6. QED
    BY <2>1, <2>2, <2>3, <2>4, <2>5 DEF HasEntry, Queued
<1>3. QED
  BY <1>1, <1>2


(* Under the strengthening, any two entries of a task are the same one:  *)
(* the kinds exclude one another, and each kind is unduplicated.          *)
LEMMA HolderUnique ==
    ASSUME TypeOK, EntryInv, NEW t \in Tasks,
           NEW a \in Holders(t), NEW b \in Holders(t)
    PROVE  a = b
<1>1. HolderForm(a, t) /\ HolderForm(b, t)
  BY HolderCases
<1>2. ExclusiveAt(t)
  BY DEF EntryInv, EntriesExclusive
<1>3. QueueUnique /\ WorkerUnique
  BY DEF EntryInv
<1>4. TypeTasks /\ TypeQueues /\ TypeWorkers
  BY DEF TypeOK
<1>5. \A k \in 1..pending[t] : Pend(t) /\ k = 1
  <2>1. pending[t] <= 1
    BY <1>3 DEF WorkerUnique
  <2>2. pending[t] \in Nat
    BY <1>4 DEF TypeTasks
  <2>3. QED
    BY <2>1, <2>2 DEF Pend
<1>6. CASE \E p \in Pools : \E i \in Occurrences(injector[p], t) : a = <<"inj", p, i>>
  <2>0. PICK p \in Pools : \E i \in Occurrences(injector[p], t) : a = <<"inj", p, i>>
    BY <1>6
  <2>1. PICK i \in Occurrences(injector[p], t) : a = <<"inj", p, i>>
    BY <2>0
  <2>2. InInj(t)
    BY <2>1 DEF InInj
  <2>3. ~InLoc(t) /\ ~Pend(t) /\ ~Waking(t) /\ ~Polled(t)
    BY <2>2, <1>2, <1>3 DEF QueueUnique, ExclusiveAt, Queued
  <2>8. PICK q \in Pools : \E j \in Occurrences(injector[q], t) : b = <<"inj", q, j>>
    BY <1>1, <1>5, <2>3 DEF HolderForm, InLoc, Waking, Polled
  <2>4. PICK j \in Occurrences(injector[q], t) : b = <<"inj", q, j>>
    BY <2>8
  <2>5. p = q
    BY <2>1, <2>4, <1>3 DEF QueueUnique
  <2>6. i = j
    BY <2>1, <2>4, <2>5, <1>3 DEF QueueUnique, SeqUnique, Occurrences
  <2>7. QED
    BY <2>1, <2>4, <2>5, <2>6
<1>7. CASE \E w \in Workers : \E i \in Occurrences(localq[w], t) : a = <<"loc", w, i>>
  <2>0. PICK v \in Workers : \E i \in Occurrences(localq[v], t) : a = <<"loc", v, i>>
    BY <1>7
  <2>1. PICK i \in Occurrences(localq[v], t) : a = <<"loc", v, i>>
    BY <2>0
  <2>2. InLoc(t)
    BY <2>1 DEF InLoc
  <2>3. ~InInj(t) /\ ~Pend(t) /\ ~Waking(t) /\ ~Polled(t)
    BY <2>2, <1>2, <1>3 DEF QueueUnique, ExclusiveAt, Queued
  <2>8. PICK u \in Workers : \E j \in Occurrences(localq[u], t) : b = <<"loc", u, j>>
    BY <1>1, <1>5, <2>3 DEF HolderForm, InInj, Waking, Polled
  <2>4. PICK j \in Occurrences(localq[u], t) : b = <<"loc", u, j>>
    BY <2>8
  <2>5. v = u
    BY <2>1, <2>4, <1>3 DEF QueueUnique
  <2>6. i = j
    BY <2>1, <2>4, <2>5, <1>3 DEF QueueUnique, SeqUnique, Occurrences
  <2>7. QED
    BY <2>1, <2>4, <2>5, <2>6
<1>8. CASE \E k \in 1..pending[t] : a = <<"ext", k, 0>>
  <2>1. PICK k \in 1..pending[t] : a = <<"ext", k, 0>>
    BY <1>8
  <2>2. Pend(t) /\ k = 1
    BY <1>5
  <2>3. ~InInj(t) /\ ~InLoc(t) /\ ~Waking(t) /\ ~Polled(t)
    BY <2>2, <1>2 DEF ExclusiveAt, Queued
  <2>4. PICK m \in 1..pending[t] : b = <<"ext", m, 0>>
    BY <1>1, <2>3 DEF HolderForm, InInj, InLoc, Waking, Polled
  <2>5. QED
    BY <2>1, <2>2, <2>4, <1>5
<1>9. CASE \E w \in Workers : target[w] = t /\ a = <<"wake", w, 0>>
  <2>1. PICK v \in Workers : target[v] = t /\ a = <<"wake", v, 0>>
    BY <1>9
  <2>2. Waking(t)
    BY <2>1 DEF Waking
  <2>3. ~InInj(t) /\ ~InLoc(t) /\ ~Pend(t) /\ ~Polled(t)
    BY <2>2, <1>2 DEF ExclusiveAt, Queued
  <2>4. PICK u \in Workers : target[u] = t /\ b = <<"wake", u, 0>>
    BY <1>1, <1>5, <2>3 DEF HolderForm, InInj, InLoc, Polled
  <2>5. QED
    BY <2>1, <2>4, <1>3 DEF WorkerUnique
<1>10. CASE \E w \in Workers : cur[w] = t /\ a = <<"poll", w, 0>>
  <2>1. PICK v \in Workers : cur[v] = t /\ a = <<"poll", v, 0>>
    BY <1>10
  <2>2. Polled(t)
    BY <2>1 DEF Polled
  <2>3. ~InInj(t) /\ ~InLoc(t) /\ ~Pend(t) /\ ~Waking(t)
    BY <2>2, <1>2 DEF ExclusiveAt, Queued
  <2>4. PICK u \in Workers : cur[u] = t /\ b = <<"poll", u, 0>>
    BY <1>1, <1>5, <2>3 DEF HolderForm, InInj, InLoc, Waking
  <2>5. QED
    BY <2>1, <2>4, <1>3 DEF WorkerUnique
<1>11. QED
  BY <1>1, <1>6, <1>7, <1>8, <1>9, <1>10 DEF HolderForm

-----------------------------------------------------------------------------
(* Invariants 1 and 3 of the spec, for every value of the constants: a   *)
(* wake_impl that finds the task NOTIFIED or POLLING adds no entry, so a  *)
(* task cell is never runnable in two places nor polled by two workers.   *)
THEOREM NoDuplicateThm == Spec => []NoDuplicate
<1>1. TypeOK /\ EntryInv => NoDuplicate
  <2> SUFFICES ASSUME TypeOK, EntryInv, NEW t \in Tasks
               PROVE  Cardinality(Holders(t)) <= 1
    BY DEF NoDuplicate
  <2>1. CASE Holders(t) = {}
    BY <2>1, FS_EmptySet
  <2>2. CASE Holders(t) # {}
    <3>1. PICK a \in Holders(t) : TRUE
      BY <2>2
    <3>2. Holders(t) = {a}
      BY <3>1, HolderUnique
    <3>3. Cardinality({a}) = 1
      BY FS_Singleton
    <3>4. QED
      BY <3>2, <3>3
  <2>3. QED
    BY <2>1, <2>2
<1>2. QED
  BY TypeCorrect, EntryInvariant, <1>1, PTL

(* Invariants 4 and 7 of the spec, for every value of the constants: a    *)
(* task has an entry exactly while it is NOTIFIED or POLLING, so no wake  *)
(* is lost and a completed or idle future is never handed to handle.      *)
THEOREM ScheduledIffRunnableThm == Spec => []ScheduledIffRunnable
<1>1. TypeOK /\ EntryInv => ScheduledIffRunnable
  <2> SUFFICES ASSUME TypeOK, EntryInv, NEW t \in Tasks
               PROVE  (Holders(t) # {}) <=> (status[t] \in {NOTIFIED, POLLING})
    BY DEF ScheduledIffRunnable
  <2>1. MatchAt(t)
    BY DEF EntryInv, EntriesMatchStatus
  <2>2. Holders(t) # {} <=> HasEntry(t)
    BY HoldersNonempty DEF TypeOK
  <2>3. QED
    BY <2>1, <2>2 DEF MatchAt
<1>2. QED
  BY TypeCorrect, EntryInvariant, <1>1, PTL


-----------------------------------------------------------------------------
(* A COMPLETED task has no entry, so no pop and no poll can touch its     *)
(* status, and a wake (the CAS loop of wake_impl) leaves COMPLETED alone. *)
LEMMA CompletedStep ==
    ASSUME TypeOK, EntryInv, [Next]_vars, NEW t \in Tasks, status[t] = COMPLETED
    PROVE  status'[t] = COMPLETED
<1>1. ~InInj(t) /\ ~InLoc(t) /\ ~Polled(t)
  <2>1. MatchAt(t)
    BY DEF EntryInv, EntriesMatchStatus
  <2>2. QED
    BY <2>1 DEF MatchAt, HasEntry, Queued
<1>2. status \in [Tasks -> Status] /\ injector \in [Pools -> Seq(Tasks)]
      /\ localq \in [Workers -> Seq(Tasks)]
  BY DEF TypeOK, TypeTasks, TypeQueues
<1>3. CASE \E u \in Tasks : Spawn(u)
  BY <1>2, <1>3 DEF Spawn
<1>4. CASE \E u \in Tasks : ExternalWake(u)
  BY <1>2, <1>4 DEF ExternalWake, WakeStatus
<1>5. CASE \E u \in Tasks : ExternalWakePush(u) \/ DropWaker(u)
  BY <1>5 DEF ExternalWakePush, DropWaker
<1>6. CASE \E w \in Workers : PopLocal(w)
  <2>1. PICK w \in Workers : PopLocal(w)
    BY <1>6
  <2>2. Occurrences(localq[w], Top(localq[w])) # {}
    BY <2>1, <1>2, OccEnds DEF PopLocal
  <2>3. Top(localq[w]) # t
    BY <2>2, <1>1 DEF InLoc
  <2>4. QED
    BY <2>1, <2>3, <1>2 DEF PopLocal, StartHandle
<1>7. CASE \E w \in Workers : PopInjector(w)
  <2>1. PICK w \in Workers : PopInjector(w)
    BY <1>7
  <2>2. PoolOf[w] \in Pools
    BY TopologyAssumption
  <2>3. Occurrences(injector[PoolOf[w]], Head(injector[PoolOf[w]])) # {}
    BY <2>1, <2>2, <1>2, OccEnds DEF PopInjector
  <2>4. Head(injector[PoolOf[w]]) # t
    BY <2>2, <2>3, <1>1 DEF InInj
  <2>5. QED
    BY <2>1, <2>4, <1>2 DEF PopInjector, StartHandle
<1>8. CASE \E w \in Workers : CloneWaker(w) \/ WorkerWakePush(w)
  BY <1>8 DEF CloneWaker, WorkerWakePush
<1>9. CASE \E w \in Workers : SelfWake(w) \/ Yield(w)
  BY <1>2, <1>9 DEF SelfWake, Yield, WakeStatus
<1>10. CASE \E w \in Workers, u \in Tasks : WorkerWake(w, u)
  BY <1>2, <1>10 DEF WorkerWake, WakeStatus
<1>11. CASE \E w \in Workers : PollReady(w)
  BY <1>2, <1>11 DEF PollReady
<1>12. CASE \E w \in Workers : PollPending(w)
  <2>1. PICK w \in Workers : PollPending(w)
    BY <1>12
  <2>2. cur[w] # t
    BY <1>1 DEF Polled
  <2>3. status' = status \/ \E x \in Status : status' = [status EXCEPT ![cur[w]] = x]
    BY <2>1 DEF PollPending, Preempt, Repoll, Status
  <2>4. QED
    BY <2>2, <2>3, <1>2
<1>13. CASE \E w \in Workers, u \in Tasks : LocalSpawn(w, u)
  BY <1>2, <1>13 DEF LocalSpawn
<1>14. CASE UNCHANGED vars
  BY <1>14 DEF vars
<1>15. QED
  BY <1>3, <1>4, <1>5, <1>6, <1>7, <1>8, <1>9, <1>10, <1>11, <1>12, <1>13,
     <1>14 DEF Next

(* The action property CompletedIsFinal, for every value of the         *)
(* constants: once poll has returned Ready and handle stored COMPLETED,   *)
(* no wake, pop or poll of the task changes its status again.             *)
THEOREM CompletedIsFinalThm == Spec => CompletedIsFinal
<1>1. TypeOK /\ EntryInv /\ [Next]_vars
        => [\A t \in Tasks : status[t] = COMPLETED => status'[t] = COMPLETED]_vars
  BY CompletedStep
<1>2. QED
  BY TypeCorrect, EntryInvariant, <1>1, PTL DEF Spec, CompletedIsFinal

=============================================================================
