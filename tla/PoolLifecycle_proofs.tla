------------------------- MODULE PoolLifecycle_proofs -------------------------
(***************************************************************************)
(* Proof of the type invariant of PoolLifecycle for every value of the    *)
(* constants, however the builder, the shutdown calls through &self and   *)
(* the one of Drop interleave.                                            *)
(***************************************************************************)
EXTENDS PoolLifecycle, TLAPS

(* TypeOK is not inductive by itself: a late spawn is a spawn, so the    *)
(* ghost count stays below the count of spawns.                           *)
TypeInv == TypeOK /\ lateSpawns <= queued

-----------------------------------------------------------------------------
(* The JoinHandles build gathers are a sequence of thread ids. *)
LEMMA HandlesType ==
    ASSUME NEW k \in 0..MaxCount
    PROVE  Handles(k) \in Seq(ThreadIds)
  BY CountAssumption DEF Handles, ThreadIds

LEMMA TypeInit == Init => TypeInv
  BY CountAssumption DEF Init, TypeInv, TypeOK, DefaultSchedConfig, ThreadIds,
                         Shutters, Phase, ThreadState, CallState

LEMMA TypeStep == TypeInv /\ [Next]_vars => TypeInv'
<1> SUFFICES ASSUME TypeInv, [Next]_vars PROVE TypeInv'
  OBVIOUS
<1> USE CountAssumption DEF TypeInv, TypeOK, Phase, ThreadState, CallState, Shutters
<1>1. CASE \E n \in 0..MaxCount : MaxThreadCount(n) \/ MinThreadCount(n)
  BY <1>1 DEF MaxThreadCount, MinThreadCount
<1>2. CASE Freeze
  BY <1>2 DEF Freeze
<1>3. ASSUME NEW k \in 0..MaxCount, SpawnThreads(k),
             UNCHANGED <<config, joining, call, queued, lateSpawns>>
      PROVE  TypeInv'
  <2>1. thread' \in [ThreadIds -> ThreadState]
    BY <1>3 DEF SpawnThreads
  <2>2. handles' \in Seq(ThreadIds)
    BY <1>3, HandlesType DEF SpawnThreads
  <2>3. QED
    BY <1>3, <2>1, <2>2 DEF SpawnThreads
<1>4. CASE \E k \in 0..MaxCount : Build(k) \/ BuildNow(k)
  <2>1. PICK k \in 0..MaxCount : Build(k) \/ BuildNow(k)
    BY <1>4
  <2>2. CASE Build(k)
    BY <2>2, <1>3 DEF Build
  <2>3. CASE BuildNow(k) /\ config.min <= config.max
    BY <2>3, <1>3 DEF BuildNow
  <2>4. CASE BuildNow(k) /\ ~(config.min <= config.max)
    BY <2>4 DEF BuildNow
  <2>5. QED
    BY <2>1, <2>2, <2>3, <2>4
<1>5. CASE \E i \in ThreadIds : ThreadRun(i)
  BY <1>5 DEF ThreadRun
<1>6. CASE Spawn
  BY <1>6 DEF Spawn
<1>7. CASE \E c \in Shutters : ShutdownTake(c)
  <2>1. PICK c \in Shutters : ShutdownTake(c)
    BY <1>7
  <2>2. phase' \in Phase
    BY <2>1 DEF ShutdownTake
  <2>3. joining' \in [Shutters -> Seq(ThreadIds)]
    BY <2>1 DEF ShutdownTake
  <2>4. call' \in [Shutters -> CallState]
    BY <2>1 DEF ShutdownTake
  <2>5. QED
    BY <2>1, <2>2, <2>3, <2>4 DEF ShutdownTake
<1>8. CASE \E c \in Shutters : JoinNext(c) \/ ShutdownReturn(c)
  <2>1. PICK c \in Shutters : JoinNext(c) \/ ShutdownReturn(c)
    BY <1>8
  <2>2. CASE JoinNext(c)
    <3>1. joining' \in [Shutters -> Seq(ThreadIds)]
      BY <2>2 DEF JoinNext
    <3>2. call' \in [Shutters -> CallState]
      BY <2>2 DEF JoinNext
    <3>3. QED
      BY <2>2, <3>1, <3>2 DEF JoinNext
  <2>3. CASE ShutdownReturn(c)
    <3>1. call' \in [Shutters -> CallState]
      BY <2>3 DEF ShutdownReturn
    <3>2. QED
      BY <2>3, <3>1 DEF ShutdownReturn
  <2>4. QED
    BY <2>1, <2>2, <2>3
<1>9. CASE UNCHANGED vars
  BY <1>9 DEF vars
<1>10. QED
  BY <1>1, <1>2, <1>4, <1>5, <1>6, <1>7, <1>8, <1>9 DEF Next

(* The type invariant, for every value of the constants. *)
THEOREM TypeCorrect == Spec => []TypeOK
<1>1. TypeInv => TypeOK
  BY DEF TypeInv
<1>2. QED
  BY TypeInit, TypeStep, <1>1, PTL DEF Spec

=============================================================================
