---------------------------- MODULE PoolLifecycle ----------------------------
(***************************************************************************)
(* The life of a ThreadPool value: its configuration by Builder           *)
(* (src/src/pool/builder.rs), freeze and LazyBuilder::build, the worker    *)
(* threads those spawn, and the ThreadPool operations of src/src/pool.rs:  *)
(* spawn, shutdown (callable concurrently through &self) and Drop.         *)
(*                                                                         *)
(* Tasks are counted, not named: nothing here tells two tasks apart. The  *)
(* name prefix, stack size and the scheduling durations of SchedConfig    *)
(* are data no property reads and are left out.                            *)
(***************************************************************************)
EXTENDS Naturals, Sequences

CONSTANTS
    Callers,      \* threads that may call pool.shutdown() through &self
    DropCall,     \* the shutdown run by Drop for ThreadPool
    CPUs,         \* num_cpus::get(), the default max_thread_count
    MaxCount,     \* bound: the largest thread count a setter is given
    MaxSpawns     \* bound: the number of pool.spawn calls

(* The machine has at least one CPU; the bounds admit the default. *)
ASSUME CountAssumption ==
    /\ CPUs \in Nat \ {0}
    /\ MaxCount \in Nat /\ CPUs <= MaxCount
    /\ MaxSpawns \in Nat
    /\ DropCall \notin Callers

Shutters == Callers \cup {DropCall}
ThreadIds == 1..MaxCount

(* Builder phase: configuring, frozen (LazyBuilder), built (a ThreadPool *)
(* exists), dropped, or failed (the building thread panicked).           *)
Phase == {"config", "frozen", "built", "dropped", "failed"}
(* A worker thread: not spawned, running its closure, or panicked.       *)
ThreadState == {"unspawned", "running", "panicked"}
(* A shutdown call: not in it, joining the handles it took, returned, or *)
(* unwound by a panic.                                                   *)
CallState == {"idle", "joining", "returned", "panicked"}

VARIABLES
    config,       \* the SchedConfig thread counts of the Builder
    phase,
    thread,       \* thread[i]: the state of the i-th spawned thread
    handles,      \* ThreadPool::threads, the JoinHandles under the Mutex
    joining,      \* joining[c]: the handles call c took and still has to join
    call,         \* call[c]: where shutdown call c is
    queued,       \* tasks pushed onto the injector
    lateSpawns    \* ghost: pushes made after a shutdown call completed

vars == <<config, phase, thread, handles, joining, call, queued, lateSpawns>>

(* SchedConfig::default (builder.rs 31-43): max = CPU count, min = 1. *)
DefaultSchedConfig == [max |-> CPUs, min |-> 1]

(* The JoinHandles 1..n in spawn order. *)
Handles(n) == [i \in 1..n |-> i]

Init ==
    /\ config = DefaultSchedConfig
    /\ phase = "config"
    /\ thread = [i \in ThreadIds |-> "unspawned"]
    /\ handles = <<>>
    /\ joining = [c \in Shutters |-> <<>>]
    /\ call = [c \in Shutters |-> "idle"]
    /\ queued = 0
    /\ lateSpawns = 0

MaxThreadCount_NoZeroCheck(n) ==
    /\ phase = "config"
    /\ config' = [config EXCEPT !.max = n]
    /\ UNCHANGED <<phase, thread, handles, joining, call, queued, lateSpawns>>

(* Builder::max_thread_count: a zero count is ignored. *)
MaxThreadCount(n) ==
    /\ phase = "config"
    /\ config' = IF n > 0 THEN [config EXCEPT !.max = n] ELSE config
    /\ UNCHANGED <<phase, thread, handles, joining, call, queued, lateSpawns>>

(* Builder::min_thread_count: a zero count is ignored. *)
MinThreadCount(n) ==
    /\ phase = "config"
    /\ config' = IF n > 0 THEN [config EXCEPT !.min = n] ELSE config
    /\ UNCHANGED <<phase, thread, handles, joining, call, queued, lateSpawns>>

(* Builder::freeze: the assert min <= max panics the caller; otherwise   *)
(* the queues are built for max threads and a LazyBuilder returned.     *)
Freeze ==
    /\ phase = "config"
    /\ phase' = IF config.min <= config.max THEN "frozen" ELSE "failed"
    /\ UNCHANGED <<config, thread, handles, joining, call, queued, lateSpawns>>

(* The loop of LazyBuilder::build: one thread per local queue, max of    *)
(* them. thread::Builder::spawn may fail after k threads; its unwrap then *)
(* panics and the handles gathered so far are dropped, detaching threads  *)
(* that keep running.                                                     *)
SpawnThreads(k) ==
    /\ k <= config.max
    /\ thread' = [i \in ThreadIds |-> IF i <= k THEN "running" ELSE thread[i]]
    /\ IF k = config.max
       THEN /\ phase' = "built"
            /\ handles' = Handles(k)
       ELSE /\ phase' = "failed"
            /\ UNCHANGED handles

(* LazyBuilder::build, on the LazyBuilder freeze returned. *)
Build(k) ==
    /\ phase = "frozen"
    /\ SpawnThreads(k)
    /\ UNCHANGED <<config, joining, call, queued, lateSpawns>>

(* Builder::build: freeze and LazyBuilder::build in one call, so the      *)
(* min <= max assert panics before any thread is spawned.                 *)
BuildNow(k) ==
    /\ phase = "config"
    /\ IF config.min <= config.max
       THEN SpawnThreads(k)
       ELSE /\ k = 0
            /\ phase' = "failed"
            /\ UNCHANGED <<thread, handles>>
    /\ UNCHANGED <<config, joining, call, queued, lateSpawns>>

ThreadRun_Spins(i) == FALSE

(* The closure each worker thread runs: drop(local_queue); unimplemented!() *)
ThreadRun(i) ==
    /\ thread[i] = "running"
    /\ thread' = [thread EXCEPT ![i] = "panicked"]
    /\ UNCHANGED <<config, phase, handles, joining, call, queued, lateSpawns>>

(* ThreadPool::spawn: remote.spawn pushes onto the injector, whatever    *)
(* shutdown calls have run.                                              *)
Spawn ==
    /\ phase = "built"
    /\ queued < MaxSpawns
    /\ queued' = queued + 1
    /\ lateSpawns' = IF \E c \in Shutters : call[c] \in {"returned", "panicked"}
                     THEN lateSpawns + 1 ELSE lateSpawns
    /\ UNCHANGED <<config, phase, thread, handles, joining, call>>

(* shutdown (pool.rs 38-39): under the Mutex, mem::replace takes every   *)
(* JoinHandle and leaves an empty Vec. Drop (pool.rs 51-56) runs it once *)
(* when no borrow of the pool is left, and the pool is gone afterwards. *)
ShutdownTake(c) ==
    /\ call[c] \in {"idle", "returned"}
    /\ IF c = DropCall
       THEN /\ phase = "built"
            /\ \A d \in Callers : call[d] # "joining"
            /\ phase' = "dropped"
       ELSE /\ phase = "built"
            /\ UNCHANGED phase
    /\ joining' = [joining EXCEPT ![c] = handles]
    /\ handles' = <<>>
    /\ call' = [call EXCEPT ![c] = "joining"]
    /\ UNCHANGED <<config, thread, queued, lateSpawns>>

(* j.join().unwrap() (pool.rs 40-42): join blocks until the thread has   *)
(* ended; it ended by a panic, so join returns Err and unwrap panics the *)
(* caller, dropping (detaching) the handles still in the drained Vec.    *)
JoinNext(c) ==
    /\ call[c] = "joining"
    /\ joining[c] # <<>>
    /\ thread[Head(joining[c])] # "running"
    /\ joining' = [joining EXCEPT ![c] = <<>>]
    /\ call' = [call EXCEPT ![c] = "panicked"]
    /\ UNCHANGED <<config, phase, thread, handles, queued, lateSpawns>>

(* Every handle joined: shutdown returns. *)
ShutdownReturn(c) ==
    /\ call[c] = "joining"
    /\ joining[c] = <<>>
    /\ call' = [call EXCEPT ![c] = "returned"]
    /\ UNCHANGED <<config, phase, thread, handles, joining, queued, lateSpawns>>

Next ==
    \/ \E n \in 0..MaxCount : MaxThreadCount(n) \/ MinThreadCount(n)
    \/ Freeze
    \/ \E k \in 0..MaxCount : Build(k) \/ BuildNow(k)
    \/ \E i \in ThreadIds : ThreadRun(i)
    \/ Spawn
    \/ \E c \in Shutters : ShutdownTake(c) \/ JoinNext(c) \/ ShutdownReturn(c)

(* The OS runs every spawned thread, and a thread inside shutdown keeps  *)
(* running it. Configuration, building, spawning and calling shutdown    *)
(* are the user's choices and are not fair.                              *)
Fairness ==
    /\ \A i \in ThreadIds : WF_vars(ThreadRun(i))
    /\ \A c \in Shutters : WF_vars(JoinNext(c)) /\ WF_vars(ShutdownReturn(c))

Spec == Init /\ [][Next]_vars /\ Fairness

-----------------------------------------------------------------------------
(* Type invariant. *)
TypeOK ==
    /\ config \in [max : 1..MaxCount, min : 1..MaxCount]
    /\ phase \in Phase
    /\ thread \in [ThreadIds -> ThreadState]
    /\ handles \in Seq(ThreadIds)
    /\ joining \in [Shutters -> Seq(ThreadIds)]
    /\ call \in [Shutters -> CallState]
    /\ queued \in 0..MaxSpawns
    /\ lateSpawns \in 0..MaxSpawns

(* Every shutdown call, the one of Drop included, ends: it returns or    *)
(* unwinds, because every worker thread it joins ends.                   *)
ShutdownTerminates ==
    \A c \in Shutters : call[c] = "joining" ~> call[c] \in {"returned", "panicked"}

(* Spec, section 7: join on shutdown is infallible. *)
ShutdownInfallible ==
    \A c \in Shutters : call[c] # "panicked"

(* Spec, section 6: shutdown joins every worker before it returns. *)
ShutdownWaitsForWorkers ==
    \A c \in Shutters : call[c] = "returned" =>
        \A i \in ThreadIds : thread[i] # "running"

(* Spec, sections 6 and 7: shutdown closes the injector, and a spawn     *)
(* after it is a no-op that drops the task.                               *)
SpawnAfterShutdownIsNoop ==
    lateSpawns = 0

=============================================================================
