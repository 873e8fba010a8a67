---------------------------- MODULE TaskLifecycle ----------------------------
(***************************************************************************)
(* What the future runtime promises about one task, whatever the queues,  *)
(* the CAS loops and the routing of wake_task do: a spawned task waits to *)
(* be run, is run by one worker of its own pool at a time, and after each *)
(* poll is either finished, parked until a wake, polled again, or put     *)
(* back to wait. A wake during a poll is never lost: it turns the run     *)
(* into a rerun, which ends in another poll or a re-queue.                *)
(*                                                                         *)
(* FuturePool implements this specification under the mapping of          *)
(* FuturePool!TL (status and the worker's current task).                   *)
(***************************************************************************)
CONSTANTS Tasks, Workers, PoolOf, TaskPool, NoTask

VARIABLES
    state,      \* state[t]: where task t is in its life
    running     \* running[w]: the task worker w is polling, or NoTask

avars == <<state, running>>

States == {"unspawned", "queued", "running", "rerun", "idle", "done"}

Init ==
    /\ state = [t \in Tasks |-> "unspawned"]
    /\ running = [w \in Workers |-> NoTask]

(* The task is created, ready to be polled. *)
Spawn(t) ==
    /\ state[t] = "unspawned"
    /\ state' = [state EXCEPT ![t] = "queued"]
    /\ UNCHANGED running

(* A free worker of the task's pool takes a waiting task and polls it. *)
Run(w, t) ==
    /\ running[w] = NoTask
    /\ state[t] = "queued"
    /\ PoolOf[w] = TaskPool[t]
    /\ state' = [state EXCEPT ![t] = "running"]
    /\ running' = [running EXCEPT ![w] = t]

(* A wake: a parked task waits to run again; a task being polled will be *)
(* looked at again when the poll ends.                                  *)
Wake(t) ==
    /\ state[t] \in {"idle", "running"}
    /\ state' = [state EXCEPT ![t] = IF @ = "idle" THEN "queued" ELSE "rerun"]
    /\ UNCHANGED running

(* The poll returns Ready, woken or not: the task is finished. *)
Finish(w) ==
    LET t == running[w] IN
    /\ t # NoTask
    /\ state[t] \in {"running", "rerun"}
    /\ state' = [state EXCEPT ![t] = "done"]
    /\ running' = [running EXCEPT ![w] = NoTask]

(* The poll returns Pending and no wake came: the task is parked. *)
Suspend(w) ==
    LET t == running[w] IN
    /\ t # NoTask
    /\ state[t] = "running"
    /\ state' = [state EXCEPT ![t] = "idle"]
    /\ running' = [running EXCEPT ![w] = NoTask]

(* Pending after a wake: poll the task again on the same worker... *)
Rerun(w) ==
    LET t == running[w] IN
    /\ t # NoTask
    /\ state[t] = "rerun"
    /\ state' = [state EXCEPT ![t] = "running"]
    /\ UNCHANGED running

(* ...or give the worker up and put the task back to wait. *)
Requeue(w) ==
    LET t == running[w] IN
    /\ t # NoTask
    /\ state[t] = "rerun"
    /\ state' = [state EXCEPT ![t] = "queued"]
    /\ running' = [running EXCEPT ![w] = NoTask]

Next ==
    \/ \E t \in Tasks : Spawn(t) \/ Wake(t)
    \/ \E w \in Workers :
         \/ Finish(w) \/ Suspend(w) \/ Rerun(w) \/ Requeue(w)
         \/ \E t \in Tasks : Run(w, t)

(* A waiting task is taken by some worker, and a poll ends, as long as   *)
(* a worker stays free for it.                                           *)
Fairness ==
    /\ \A t \in Tasks : WF_avars(\E w \in Workers : Run(w, t))
    /\ \A w \in Workers : WF_avars(Finish(w) \/ Suspend(w) \/ Rerun(w) \/ Requeue(w))

Spec == Init /\ [][Next]_avars /\ Fairness

(* The safety part alone. *)
SafeSpec == Init /\ [][Next]_avars

=============================================================================
