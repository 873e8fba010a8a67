----------------------------- MODULE WorkerLoop -----------------------------
(***************************************************************************)
(* The loop every worker thread runs (WorkerThread::run and ::pop of       *)
(* src/src/pool/worker.rs) over the single-level queue's sleep protocol   *)
(* (section 4.2 of the spec: pop_or_sleep, inject, close), with the       *)
(* Runner hooks counted the way the test runner of worker.rs counts them. *)
(*                                                                         *)
(* A cell is a model value: the loop does not look inside it. Handling a  *)
(* cell (callback runner) may spawn one new cell onto the local queue.    *)
(***************************************************************************)
EXTENDS Naturals, Sequences, FiniteSets

CONSTANTS
    Workers,     \* the worker threads of the pool
    Cells,       \* the task cells that may be spawned
    SpinLimit,   \* iterations after which SpinWait::spin returns false
    NoCell       \* Option::None for a popped cell

(* SpinWait gives up after a bounded number of spins; None is no cell. *)
ASSUME LoopAssumption ==
    /\ Workers # {}
    /\ SpinLimit \in Nat
    /\ NoCell \notin Cells

Hooks == {"start", "handle", "pause", "resume", "end"}

(* Where a worker is in run/pop: "init" before runner.start, "check" at  *)
(* the is_shutdown test, "pop" in the spin loop of pop, "sleep" in       *)
(* pop_or_sleep, "parked" blocked in it, "resume" after it returned,     *)
(* "handle" with a cell, "done" after runner.end.                         *)
WPC == {"init", "check", "pop", "sleep", "parked", "resume", "handle", "done"}

VARIABLES
    wpc,        \* wpc[w]
    spins,      \* spins[w]: the SpinWait counter of the current pop
    got,        \* got[w]: the cell pop returned, or NoCell
    local,      \* local[w]: the local queue of w
    injector,   \* the injector queue
    closed,     \* the queue core is shut down (close)
    parked,     \* workers registered as parked in pop_or_sleep
    signalled,  \* parked workers a push or close has woken, not yet running
    spawned,    \* cells spawned so far
    handled,    \* cells whose handle has run
    dropped,    \* cells pushed after close, dropped by the queue
    hooks       \* hooks[w][h]: the test runner's count of hook h on w

vars == <<wpc, spins, got, local, injector, closed, parked, signalled,
          spawned, handled, dropped, hooks>>

(* The test runner's counting hook: each Runner method bumps its counter. *)
Count(w, h) == hooks' = [hooks EXCEPT ![w][h] = @ + 1]

Init ==
    /\ wpc = [w \in Workers |-> "init"]
    /\ spins = [w \in Workers |-> 0]
    /\ got = [w \in Workers |-> NoCell]
    /\ local = [w \in Workers |-> <<>>]
    /\ injector = <<>>
    /\ closed = FALSE
    /\ parked = {}
    /\ signalled = {}
    /\ spawned = {}
    /\ handled = {}
    /\ dropped = {}
    /\ hooks = [w \in Workers |-> [h \in Hooks |-> 0]]

-----------------------------------------------------------------------------
(* Environment: Remote::spawn injects a cell. If a worker is parked, one *)
(* is signalled; after close the push is dropped.                         *)
Inject_NoSignal(c) ==
    /\ c \notin spawned
    /\ spawned' = spawned \cup {c}
    /\ IF closed
       THEN /\ dropped' = dropped \cup {c}
            /\ UNCHANGED injector
       ELSE /\ injector' = Append(injector, c)
            /\ UNCHANGED dropped
    /\ UNCHANGED <<wpc, spins, got, local, closed, parked, signalled, handled, hooks>>
Inject(c) ==
    /\ c \notin spawned
    /\ spawned' = spawned \cup {c}
    /\ IF closed
       THEN /\ dropped' = dropped \cup {c}
            /\ UNCHANGED <<injector, parked, signalled>>
       ELSE /\ injector' = Append(injector, c)
            /\ IF parked = {}
               THEN UNCHANGED <<parked, signalled>>
               ELSE \E v \in parked :
                      /\ parked' = parked \ {v}
                      /\ signalled' = signalled \cup {v}
            /\ UNCHANGED dropped
    /\ UNCHANGED <<wpc, spins, got, local, closed, handled, hooks>>

(* Shutdown closes the queue and signals every parked worker. *)
Close_NoSignal ==
    /\ ~closed
    /\ closed' = TRUE
    /\ UNCHANGED <<wpc, spins, got, local, injector, parked, signalled,
                   spawned, handled, dropped, hooks>>
Close ==
    /\ ~closed
    /\ closed' = TRUE
    /\ parked' = {}
    /\ signalled' = signalled \cup parked
    /\ UNCHANGED <<wpc, spins, got, local, injector, spawned, handled,
                   dropped, hooks>>

-----------------------------------------------------------------------------
(* runner.start(&mut self.local) *)
Start(w) ==
    /\ wpc[w] = "init"
    /\ wpc' = [wpc EXCEPT ![w] = "check"]
    /\ Count(w, "start")
    /\ UNCHANGED <<spins, got, local, injector, closed, parked, signalled,
                   spawned, handled, dropped>>

(* while !self.local.core().is_shutdown(): enter pop with a new SpinWait, *)
(* or leave the loop and call runner.end.                                 *)
CheckRunning(w) ==
    /\ wpc[w] = "check"
    /\ ~closed
    /\ wpc' = [wpc EXCEPT ![w] = "pop"]
    /\ spins' = [spins EXCEPT ![w] = 0]
    /\ UNCHANGED <<got, local, injector, closed, parked, signalled, spawned,
                   handled, dropped, hooks>>

Finish(w) ==
    /\ wpc[w] = "check"
    /\ closed
    /\ wpc' = [wpc EXCEPT ![w] = "done"]
    /\ Count(w, "end")
    /\ UNCHANGED <<spins, got, local, injector, closed, parked, signalled,
                   spawned, handled, dropped>>

(* self.local.pop() returns a cell: the local queue (LIFO), else a steal *)
(* from the injector.                                                    *)
PopHit(w) ==
    /\ wpc[w] = "pop"
    /\ \/ /\ local[w] # <<>>
          /\ got' = [got EXCEPT ![w] = local[w][Len(local[w])]]
          /\ local' = [local EXCEPT ![w] = SubSeq(@, 1, Len(@) - 1)]
          /\ UNCHANGED injector
       \/ /\ local[w] = <<>>
          /\ injector # <<>>
          /\ got' = [got EXCEPT ![w] = Head(injector)]
          /\ injector' = Tail(injector)
          /\ UNCHANGED local
    /\ wpc' = [wpc EXCEPT ![w] = "handle"]
    /\ UNCHANGED <<spins, closed, parked, signalled, spawned, handled,
                   dropped, hooks>>

(* pop found nothing and spin.spin() returns true: try again. *)
SpinOn_NoLimit(w) ==
    /\ wpc[w] = "pop"
    /\ local[w] = <<>> /\ injector = <<>>
    /\ spins' = [spins EXCEPT ![w] = @ + 1]
    /\ UNCHANGED <<wpc, got, local, injector, closed, parked, signalled,
                   spawned, handled, dropped, hooks>>
SpinOn(w) ==
    /\ wpc[w] = "pop"
    /\ local[w] = <<>> /\ injector = <<>>
    /\ spins[w] < SpinLimit
    /\ spins' = [spins EXCEPT ![w] = @ + 1]
    /\ UNCHANGED <<wpc, got, local, injector, closed, parked, signalled,
                   spawned, handled, dropped, hooks>>

(* spin.spin() returns false: break, runner.pause, then pop_or_sleep. *)
SpinOut(w) ==
    /\ wpc[w] = "pop"
    /\ local[w] = <<>> /\ injector = <<>>
    /\ spins[w] = SpinLimit
    /\ wpc' = [wpc EXCEPT ![w] = "sleep"]
    /\ Count(w, "pause")
    /\ UNCHANGED <<spins, got, local, injector, closed, parked, signalled,
                   spawned, handled, dropped>>

(* pop_or_sleep, under the injector's lock: pop one cell; else return    *)
(* None if the queue is closed; else register as parked and block.       *)
SleepTry_ParkWithoutCheck(w) ==
    /\ wpc[w] = "sleep"
    /\ wpc' = [wpc EXCEPT ![w] = "parked"]
    /\ parked' = parked \cup {w}
    /\ UNCHANGED <<spins, got, local, injector, closed, signalled, spawned,
                   handled, dropped, hooks>>
SleepTry(w) ==
    /\ wpc[w] = "sleep"
    /\ \/ /\ injector # <<>>
          /\ got' = [got EXCEPT ![w] = Head(injector)]
          /\ injector' = Tail(injector)
          /\ wpc' = [wpc EXCEPT ![w] = "resume"]
          /\ UNCHANGED parked
       \/ /\ injector = <<>> /\ closed
          /\ wpc' = [wpc EXCEPT ![w] = "resume"]
          /\ UNCHANGED <<got, injector, parked>>
       \/ /\ injector = <<>> /\ ~closed
          /\ wpc' = [wpc EXCEPT ![w] = "parked"]
          /\ parked' = parked \cup {w}
          /\ UNCHANGED <<got, injector>>
    /\ UNCHANGED <<spins, local, closed, signalled, spawned, handled,
                   dropped, hooks>>

(* A signalled worker returns from the wait and tries again. *)
Unpark(w) ==
    /\ wpc[w] = "parked"
    /\ w \in signalled
    /\ wpc' = [wpc EXCEPT ![w] = "sleep"]
    /\ signalled' = signalled \ {w}
    /\ UNCHANGED <<spins, got, local, injector, closed, parked, spawned,
                   handled, dropped, hooks>>

(* runner.resume, then None => continue, Some(t) => handle. *)
Resume_NoHookOnNone(w) ==
    /\ wpc[w] = "resume"
    /\ wpc' = [wpc EXCEPT ![w] = IF got[w] = NoCell THEN "check" ELSE "handle"]
    /\ IF got[w] = NoCell THEN UNCHANGED hooks ELSE Count(w, "resume")
    /\ UNCHANGED <<spins, got, local, injector, closed, parked, signalled,
                   spawned, handled, dropped>>
Resume(w) ==
    /\ wpc[w] = "resume"
    /\ wpc' = [wpc EXCEPT ![w] = IF got[w] = NoCell THEN "check" ELSE "handle"]
    /\ Count(w, "resume")
    /\ UNCHANGED <<spins, got, local, injector, closed, parked, signalled,
                   spawned, handled, dropped>>

(* runner.handle(&mut self.local, task.task_cell): the callback runs and *)
(* may spawn one new cell onto the local queue (Local::spawn).            *)
Handle(w) ==
    /\ wpc[w] = "handle"
    /\ handled' = handled \cup {got[w]}
    /\ got' = [got EXCEPT ![w] = NoCell]
    /\ wpc' = [wpc EXCEPT ![w] = "check"]
    /\ Count(w, "handle")
    /\ \/ UNCHANGED <<local, spawned>>
       \/ \E c \in Cells \ spawned :
            /\ spawned' = spawned \cup {c}
            /\ local' = [local EXCEPT ![w] = Append(@, c)]
    /\ UNCHANGED <<spins, injector, closed, parked, signalled, dropped>>

Next ==
    \/ \E c \in Cells : Inject(c)
    \/ Close
    \/ \E w \in Workers :
         \/ Start(w) \/ CheckRunning(w) \/ Finish(w)
         \/ PopHit(w) \/ SpinOn(w) \/ SpinOut(w)
         \/ SleepTry(w) \/ Unpark(w) \/ Resume(w) \/ Handle(w)

(* The OS runs every thread that is not blocked, and a signalled thread  *)
(* is eventually woken. Spawning and shutdown are the user's choice.     *)
Fairness ==
    \A w \in Workers :
        WF_vars(Start(w) \/ CheckRunning(w) \/ Finish(w) \/ PopHit(w)
                \/ SpinOn(w) \/ SpinOut(w) \/ SleepTry(w) \/ Unpark(w)
                \/ Resume(w) \/ Handle(w))

Spec == Init /\ [][Next]_vars /\ Fairness

-----------------------------------------------------------------------------
(* Type invariant. *)
TypeOK ==
    /\ wpc \in [Workers -> WPC]
    /\ spins \in [Workers -> 0..SpinLimit]
    /\ got \in [Workers -> Cells \cup {NoCell}]
    /\ local \in [Workers -> Seq(Cells)]
    /\ injector \in Seq(Cells)
    /\ closed \in BOOLEAN
    /\ parked \subseteq Workers /\ signalled \subseteq Workers
    /\ spawned \subseteq Cells /\ handled \subseteq Cells /\ dropped \subseteq Cells
    /\ hooks \in [Workers -> [Hooks -> Nat]]

(* No lost wake-up of a sleeping worker: while the pool runs and a cell *)
(* waits in the injector, some worker is not blocked in pop_or_sleep; a *)
(* push racing with a worker going to sleep is either seen by its pop    *)
(* or signals it. (After close, queued cells are dropped.)              *)
NoLostWakeup ==
    (~closed /\ injector # <<>>) => \E w \in Workers : w \notin parked

(* The hook protocol test_hooks checks: start runs once before anything  *)
(* else, every pause is answered by one resume before the worker pops   *)
(* again, and end runs once, last, after the final resume.               *)
HooksBracketSleep ==
    \A w \in Workers :
        /\ hooks[w]["start"] = IF wpc[w] = "init" THEN 0 ELSE 1
        /\ hooks[w]["pause"] =
             hooks[w]["resume"] + (IF wpc[w] \in {"sleep", "parked", "resume"} THEN 1 ELSE 0)
        /\ hooks[w]["end"] = IF wpc[w] = "done" THEN 1 ELSE 0

(* Every cell that reaches the injector is handled, unless the pool is   *)
(* shut down first: no cell is stranded while workers sleep.             *)
InjectedIsHandled ==
    \A c \in Cells :
        (\E i \in DOMAIN injector : injector[i] = c) ~> (c \in handled \/ closed)

(* Shutdown ends every worker: each leaves its loop and calls end,        *)
(* parked ones included.                                                  *)
ShutdownEndsWorkers ==
    closed ~> \A w \in Workers : wpc[w] = "done"

=============================================================================
