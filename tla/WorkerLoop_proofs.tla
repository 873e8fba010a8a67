-------------------------- MODULE WorkerLoop_proofs --------------------------
(***************************************************************************)
(* Proofs, for every set of workers and cells and every spin limit, of    *)
(* the safety properties the workerloop run checks: the type invariant,   *)
(* no lost wake-up of a worker sleeping in pop_or_sleep, and the runner   *)
(* hook protocol of WorkerThread::run and ::pop.                          *)
(*                                                                         *)
(* The three are inductive together: LoopInv. NoLostWakeup needs only     *)
(* TypeOK (parked is a set of workers); HooksBracketSleep needs the       *)
(* counters to be numbers.                                                *)
(***************************************************************************)
EXTENDS WorkerLoop, SequenceTheorems, TLAPS

(* A worker at handle holds a cell: PopHit and pop_or_sleep give one,   *)
(* and Resume goes to handle only with Some(t).                          *)
GotLink == \A w \in Workers : wpc[w] = "handle" => got[w] \in Cells

(* HooksBracketSleep for one worker. *)
HookOK(v) ==
    /\ hooks[v]["start"] = IF wpc[v] = "init" THEN 0 ELSE 1
    /\ hooks[v]["pause"] =
         hooks[v]["resume"] + (IF wpc[v] \in {"sleep", "parked", "resume"} THEN 1 ELSE 0)
    /\ hooks[v]["end"] = IF wpc[v] = "done" THEN 1 ELSE 0

LoopInv == TypeOK /\ GotLink /\ NoLostWakeup /\ HooksBracketSleep

(* The parts of TypeOK, proved one at a time. *)
TWorker ==
    /\ wpc \in [Workers -> WPC]
    /\ spins \in [Workers -> 0..SpinLimit]
    /\ got \in [Workers -> Cells \cup {NoCell}]
TQueues == local \in [Workers -> Seq(Cells)] /\ injector \in Seq(Cells)
TFlag == closed \in BOOLEAN
TSets ==
    /\ parked \subseteq Workers /\ signalled \subseteq Workers
    /\ spawned \subseteq Cells /\ handled \subseteq Cells /\ dropped \subseteq Cells
THooks == hooks \in [Workers -> [Hooks -> Nat]]

USE LoopAssumption

(* A pop from either end of a queue of cells, and a push onto it, give   *)
(* a cell and a queue of cells.                                           *)
LEMMA PopTop ==
    ASSUME NEW s \in Seq(Cells), s # <<>>
    PROVE  s[Len(s)] \in Cells /\ SubSeq(s, 1, Len(s) - 1) \in Seq(Cells)
<1>1. Len(s) \in Nat /\ Len(s) > 0 /\ \A i \in 1..Len(s) : s[i] \in Cells
  BY EmptySeq, LenProperties
<1>2. SubSeq(s, 1, Len(s) - 1) \in Seq(Cells)
  BY <1>1, SubSeqProperties
<1>3. QED
  BY <1>1, <1>2

LEMMA PopHead ==
    ASSUME NEW s \in Seq(Cells), s # <<>>
    PROVE  Head(s) \in Cells /\ Tail(s) \in Seq(Cells)
BY HeadTailProperties

LEMMA PushCell ==
    ASSUME NEW s \in Seq(Cells), NEW c \in Cells
    PROVE  Append(s, c) \in Seq(Cells)
BY AppendProperties

LEMMA TypeSplitPrime ==
    TypeOK' <=> TWorker' /\ TQueues' /\ TFlag' /\ TSets' /\ THooks'
BY DEF TypeOK, TWorker, TQueues, TFlag, TSets, THooks

LEMMA TypeSplit == TypeOK <=> TWorker /\ TQueues /\ TFlag /\ TSets /\ THooks
BY DEF TypeOK, TWorker, TQueues, TFlag, TSets, THooks

(* The initial state: every worker before runner.start, nothing queued,  *)
(* nothing parked, every hook count zero.                                 *)
LEMMA InitLoopInv == Init => LoopInv
<1> SUFFICES ASSUME Init PROVE LoopInv
  OBVIOUS
<1>1. TWorker
  BY DEF Init, TWorker, WPC
<1>2. TQueues
  BY DEF Init, TQueues
<1>3. TFlag
  BY DEF Init, TFlag
<1>4. TSets
  BY DEF Init, TSets
<1>5. THooks
  BY DEF Init, THooks, Hooks
<1>6. NoLostWakeup
  BY DEF Init, NoLostWakeup
<1>7. HooksBracketSleep
  BY DEF Init, HooksBracketSleep, Hooks
<1>8. GotLink
  BY DEF Init, GotLink
<1>9. QED
  BY <1>1, <1>2, <1>3, <1>4, <1>5, <1>6, <1>7, <1>8, TypeSplit DEF LoopInv

(* Every step of a worker or of the outside keeps LoopInv: one step per   *)
(* action, and under it one per part of the invariant.                    *)
LEMMA NextLoopInv == LoopInv /\ [Next]_vars => LoopInv'
<1> SUFFICES ASSUME LoopInv, [Next]_vars PROVE LoopInv'
  OBVIOUS
<1>0. TWorker /\ TQueues /\ TFlag /\ TSets /\ THooks /\ GotLink
      /\ NoLostWakeup /\ HooksBracketSleep
  BY TypeSplit DEF LoopInv
<1>1. ASSUME NEW c \in Cells, Inject(c) PROVE LoopInv'
  <2>1. TWorker'
    BY <1>0, <1>1 DEF Inject, TWorker, WPC
  <2>2. TQueues'
    BY <1>0, <1>1 DEF Inject, TQueues
  <2>3. TFlag'
    BY <1>0, <1>1 DEF Inject, TFlag
  <2>4. TSets'
    BY <1>0, <1>1 DEF Inject, TSets
  <2>5. THooks'
    BY <1>0, <1>1 DEF Inject, THooks, Hooks
  <2>6. GotLink'
    BY <1>0, <1>1 DEF Inject, TWorker, TQueues, GotLink
  <2>7. NoLostWakeup'
    BY <1>0, <1>1 DEF Inject, TSets, NoLostWakeup
  <2>8. HooksBracketSleep'
    BY <1>0, <1>1 DEF Inject, TWorker, THooks, HooksBracketSleep, Hooks
  <2>9. QED
    BY <2>1, <2>2, <2>3, <2>4, <2>5, <2>6, <2>7, <2>8, TypeSplitPrime DEF LoopInv
<1>2. ASSUME Close PROVE LoopInv'
  <2>1. TWorker'
    BY <1>0, <1>2 DEF Close, TWorker, WPC
  <2>2. TQueues'
    BY <1>0, <1>2 DEF Close, TQueues
  <2>3. TFlag'
    BY <1>0, <1>2 DEF Close, TFlag
  <2>4. TSets'
    BY <1>0, <1>2 DEF Close, TSets
  <2>5. THooks'
    BY <1>0, <1>2 DEF Close, THooks, Hooks
  <2>6. GotLink'
    BY <1>0, <1>2 DEF Close, TWorker, TQueues, GotLink
  <2>7. NoLostWakeup'
    BY <1>0, <1>2 DEF Close, TSets, NoLostWakeup
  <2>8. HooksBracketSleep'
    BY <1>0, <1>2 DEF Close, TWorker, THooks, HooksBracketSleep, Hooks
  <2>9. QED
    BY <2>1, <2>2, <2>3, <2>4, <2>5, <2>6, <2>7, <2>8, TypeSplitPrime DEF LoopInv
<1>3. ASSUME NEW w \in Workers, Start(w) PROVE LoopInv'
  <2>1. TWorker'
    BY <1>0, <1>3 DEF Start, Count, TWorker, WPC
  <2>2. TQueues'
    BY <1>0, <1>3 DEF Start, Count, TQueues
  <2>3. TFlag'
    BY <1>0, <1>3 DEF Start, Count, TFlag
  <2>4. TSets'
    BY <1>0, <1>3 DEF Start, Count, TSets
  <2>5. THooks'
    BY <1>0, <1>3 DEF Start, Count, THooks, Hooks
  <2>6. GotLink'
    BY <1>0, <1>3 DEF Start, Count, TWorker, TQueues, GotLink
  <2>7. NoLostWakeup'
    BY <1>0, <1>3 DEF Start, Count, TSets, NoLostWakeup
  <2>8. HooksBracketSleep'
    <3>1. \A v \in Workers \ {w} : HookOK(v)'
      BY <1>0, <1>3 DEF Start, Count, TWorker, THooks, HooksBracketSleep, HookOK
    <3>2. HookOK(w)'
      <4>1. hooks[w] \in [Hooks -> Nat] /\ HookOK(w)
        BY <1>0 DEF THooks, HooksBracketSleep, HookOK
      <4>2. hooks'[w] = [hooks[w] EXCEPT !["start"] = @ + 1]
        BY <1>0, <1>3 DEF Start, Count, THooks
      <4>3. wpc[w] = "init" /\ wpc'[w] = "check"
        BY <1>0, <1>3 DEF Start, TWorker
      <4>4. QED
        BY <4>1, <4>2, <4>3 DEF HookOK, Hooks
    <3>3. QED
      BY <3>1, <3>2 DEF HooksBracketSleep, HookOK
  <2>9. QED
    BY <2>1, <2>2, <2>3, <2>4, <2>5, <2>6, <2>7, <2>8, TypeSplitPrime DEF LoopInv
<1>4. ASSUME NEW w \in Workers, CheckRunning(w) PROVE LoopInv'
  <2>1. TWorker'
    BY <1>0, <1>4 DEF CheckRunning, TWorker, WPC
  <2>2. TQueues'
    BY <1>0, <1>4 DEF CheckRunning, TQueues
  <2>3. TFlag'
    BY <1>0, <1>4 DEF CheckRunning, TFlag
  <2>4. TSets'
    BY <1>0, <1>4 DEF CheckRunning, TSets
  <2>5. THooks'
    BY <1>0, <1>4 DEF CheckRunning, THooks, Hooks
  <2>6. GotLink'
    BY <1>0, <1>4 DEF CheckRunning, TWorker, TQueues, GotLink
  <2>7. NoLostWakeup'
    BY <1>0, <1>4 DEF CheckRunning, TSets, NoLostWakeup
  <2>8. HooksBracketSleep'
    BY <1>0, <1>4 DEF CheckRunning, TWorker, THooks, HooksBracketSleep, Hooks
  <2>9. QED
    BY <2>1, <2>2, <2>3, <2>4, <2>5, <2>6, <2>7, <2>8, TypeSplitPrime DEF LoopInv
<1>5. ASSUME NEW w \in Workers, Finish(w) PROVE LoopInv'
  <2>1. TWorker'
    BY <1>0, <1>5 DEF Finish, Count, TWorker, WPC
  <2>2. TQueues'
    BY <1>0, <1>5 DEF Finish, Count, TQueues
  <2>3. TFlag'
    BY <1>0, <1>5 DEF Finish, Count, TFlag
  <2>4. TSets'
    BY <1>0, <1>5 DEF Finish, Count, TSets
  <2>5. THooks'
    BY <1>0, <1>5 DEF Finish, Count, THooks, Hooks
  <2>6. GotLink'
    BY <1>0, <1>5 DEF Finish, Count, TWorker, TQueues, GotLink
  <2>7. NoLostWakeup'
    BY <1>0, <1>5 DEF Finish, Count, TSets, NoLostWakeup
  <2>8. HooksBracketSleep'
    <3>1. \A v \in Workers \ {w} : HookOK(v)'
      BY <1>0, <1>5 DEF Finish, Count, TWorker, THooks, HooksBracketSleep, HookOK
    <3>2. HookOK(w)'
      <4>1. hooks[w] \in [Hooks -> Nat] /\ HookOK(w)
        BY <1>0 DEF THooks, HooksBracketSleep, HookOK
      <4>2. hooks'[w] = [hooks[w] EXCEPT !["end"] = @ + 1]
        BY <1>0, <1>5 DEF Finish, Count, THooks
      <4>3. wpc[w] = "check" /\ wpc'[w] = "done"
        BY <1>0, <1>5 DEF Finish, TWorker
      <4>4. QED
        BY <4>1, <4>2, <4>3 DEF HookOK, Hooks
    <3>3. QED
      BY <3>1, <3>2 DEF HooksBracketSleep, HookOK
  <2>9. QED
    BY <2>1, <2>2, <2>3, <2>4, <2>5, <2>6, <2>7, <2>8, TypeSplitPrime DEF LoopInv
<1>6. ASSUME NEW w \in Workers, PopHit(w) PROVE LoopInv'
  <2>1. TWorker'
    <3>1. CASE local[w] # <<>>
      <4>1. local[w][Len(local[w])] \in Cells
        BY <1>0, <3>1, PopTop DEF TQueues
      <4>2. QED
        BY <1>0, <1>6, <3>1, <4>1 DEF PopHit, TWorker, WPC
    <3>2. CASE local[w] = <<>>
      <4>1. injector # <<>> => Head(injector) \in Cells
        BY <1>0, PopHead DEF TQueues
      <4>2. QED
        BY <1>0, <1>6, <3>2, <4>1 DEF PopHit, TWorker, WPC
    <3>3. QED
      BY <3>1, <3>2
  <2>2. TQueues'
    <3>1. CASE local[w] # <<>>
      <4>1. SubSeq(local[w], 1, Len(local[w]) - 1) \in Seq(Cells)
        BY <1>0, <3>1, PopTop DEF TQueues
      <4>2. QED
        BY <1>0, <1>6, <3>1, <4>1 DEF PopHit, TQueues
    <3>2. CASE local[w] = <<>>
      <4>1. injector # <<>> => Tail(injector) \in Seq(Cells)
        BY <1>0, PopHead DEF TQueues
      <4>2. QED
        BY <1>0, <1>6, <3>2, <4>1 DEF PopHit, TQueues
    <3>3. QED
      BY <3>1, <3>2
  <2>3. TFlag'
    BY <1>0, <1>6 DEF PopHit, TFlag
  <2>4. TSets'
    BY <1>0, <1>6 DEF PopHit, TSets
  <2>5. THooks'
    BY <1>0, <1>6 DEF PopHit, THooks, Hooks
  <2>6. GotLink'
    BY <1>0, <1>6 DEF PopHit, TWorker, TQueues, GotLink
  <2>7. NoLostWakeup'
    BY <1>0, <1>6 DEF PopHit, TSets, NoLostWakeup
  <2>8. HooksBracketSleep'
    BY <1>0, <1>6 DEF PopHit, TWorker, THooks, HooksBracketSleep, Hooks
  <2>9. QED
    BY <2>1, <2>2, <2>3, <2>4, <2>5, <2>6, <2>7, <2>8, TypeSplitPrime DEF LoopInv
<1>7. ASSUME NEW w \in Workers, SpinOn(w) PROVE LoopInv'
  <2>1. TWorker'
    BY <1>0, <1>7 DEF SpinOn, TWorker, WPC
  <2>2. TQueues'
    BY <1>0, <1>7 DEF SpinOn, TQueues
  <2>3. TFlag'
    BY <1>0, <1>7 DEF SpinOn, TFlag
  <2>4. TSets'
    BY <1>0, <1>7 DEF SpinOn, TSets
  <2>5. THooks'
    BY <1>0, <1>7 DEF SpinOn, THooks, Hooks
  <2>6. GotLink'
    BY <1>0, <1>7 DEF SpinOn, TWorker, TQueues, GotLink
  <2>7. NoLostWakeup'
    BY <1>0, <1>7 DEF SpinOn, TSets, NoLostWakeup
  <2>8. HooksBracketSleep'
    BY <1>0, <1>7 DEF SpinOn, TWorker, THooks, HooksBracketSleep, Hooks
  <2>9. QED
    BY <2>1, <2>2, <2>3, <2>4, <2>5, <2>6, <2>7, <2>8, TypeSplitPrime DEF LoopInv
<1>8. ASSUME NEW w \in Workers, SpinOut(w) PROVE LoopInv'
  <2>1. TWorker'
    BY <1>0, <1>8 DEF SpinOut, Count, TWorker, WPC
  <2>2. TQueues'
    BY <1>0, <1>8 DEF SpinOut, Count, TQueues
  <2>3. TFlag'
    BY <1>0, <1>8 DEF SpinOut, Count, TFlag
  <2>4. TSets'
    BY <1>0, <1>8 DEF SpinOut, Count, TSets
  <2>5. THooks'
    BY <1>0, <1>8 DEF SpinOut, Count, THooks, Hooks
  <2>6. GotLink'
    BY <1>0, <1>8 DEF SpinOut, Count, TWorker, TQueues, GotLink
  <2>7. NoLostWakeup'
    BY <1>0, <1>8 DEF SpinOut, Count, TSets, NoLostWakeup
  <2>8. HooksBracketSleep'
    <3>1. \A v \in Workers \ {w} : HookOK(v)'
      BY <1>0, <1>8 DEF SpinOut, Count, TWorker, THooks, HooksBracketSleep, HookOK
    <3>2. HookOK(w)'
      <4>1. hooks[w] \in [Hooks -> Nat] /\ HookOK(w)
        BY <1>0 DEF THooks, HooksBracketSleep, HookOK
      <4>2. hooks'[w] = [hooks[w] EXCEPT !["pause"] = @ + 1]
        BY <1>0, <1>8 DEF SpinOut, Count, THooks
      <4>3. wpc[w] = "pop" /\ wpc'[w] = "sleep"
        BY <1>0, <1>8 DEF SpinOut, TWorker
      <4>4. QED
        BY <4>1, <4>2, <4>3 DEF HookOK, Hooks
    <3>3. QED
      BY <3>1, <3>2 DEF HooksBracketSleep, HookOK
  <2>9. QED
    BY <2>1, <2>2, <2>3, <2>4, <2>5, <2>6, <2>7, <2>8, TypeSplitPrime DEF LoopInv
<1>9. ASSUME NEW w \in Workers, SleepTry(w) PROVE LoopInv'
  <2>1. TWorker'
    <3>1. CASE injector # <<>>
      <4>1. Head(injector) \in Cells
        BY <1>0, <3>1, PopHead DEF TQueues
      <4>2. QED
        BY <1>0, <1>9, <3>1, <4>1 DEF SleepTry, TWorker, WPC
    <3>2. CASE injector = <<>>
      BY <1>0, <1>9, <3>2 DEF SleepTry, TWorker, WPC
    <3>3. QED
      BY <3>1, <3>2
  <2>2. TQueues'
    <3>1. CASE injector # <<>>
      <4>1. Tail(injector) \in Seq(Cells)
        BY <1>0, <3>1, PopHead DEF TQueues
      <4>2. QED
        BY <1>0, <1>9, <3>1, <4>1 DEF SleepTry, TQueues
    <3>2. CASE injector = <<>>
      BY <1>0, <1>9, <3>2 DEF SleepTry, TQueues
    <3>3. QED
      BY <3>1, <3>2
  <2>3. TFlag'
    BY <1>0, <1>9 DEF SleepTry, TFlag
  <2>4. TSets'
    BY <1>0, <1>9 DEF SleepTry, TSets
  <2>5. THooks'
    BY <1>0, <1>9 DEF SleepTry, THooks, Hooks
  <2>6. GotLink'
    BY <1>0, <1>9 DEF SleepTry, TWorker, TQueues, GotLink
  <2>7. NoLostWakeup'
    BY <1>0, <1>9 DEF SleepTry, TSets, NoLostWakeup
  <2>8. HooksBracketSleep'
    BY <1>0, <1>9 DEF SleepTry, TWorker, THooks, HooksBracketSleep, Hooks
  <2>9. QED
    BY <2>1, <2>2, <2>3, <2>4, <2>5, <2>6, <2>7, <2>8, TypeSplitPrime DEF LoopInv
<1>10. ASSUME NEW w \in Workers, Unpark(w) PROVE LoopInv'
  <2>1. TWorker'
    BY <1>0, <1>10 DEF Unpark, TWorker, WPC
  <2>2. TQueues'
    BY <1>0, <1>10 DEF Unpark, TQueues
  <2>3. TFlag'
    BY <1>0, <1>10 DEF Unpark, TFlag
  <2>4. TSets'
    BY <1>0, <1>10 DEF Unpark, TSets
  <2>5. THooks'
    BY <1>0, <1>10 DEF Unpark, THooks, Hooks
  <2>6. GotLink'
    BY <1>0, <1>10 DEF Unpark, TWorker, TQueues, GotLink
  <2>7. NoLostWakeup'
    BY <1>0, <1>10 DEF Unpark, TSets, NoLostWakeup
  <2>8. HooksBracketSleep'
    BY <1>0, <1>10 DEF Unpark, TWorker, THooks, HooksBracketSleep, Hooks
  <2>9. QED
    BY <2>1, <2>2, <2>3, <2>4, <2>5, <2>6, <2>7, <2>8, TypeSplitPrime DEF LoopInv
<1>11. ASSUME NEW w \in Workers, Resume(w) PROVE LoopInv'
  <2>1. TWorker'
    BY <1>0, <1>11 DEF Resume, Count, TWorker, WPC
  <2>2. TQueues'
    BY <1>0, <1>11 DEF Resume, Count, TQueues
  <2>3. TFlag'
    BY <1>0, <1>11 DEF Resume, Count, TFlag
  <2>4. TSets'
    BY <1>0, <1>11 DEF Resume, Count, TSets
  <2>5. THooks'
    BY <1>0, <1>11 DEF Resume, Count, THooks, Hooks
  <2>6. GotLink'
    BY <1>0, <1>11 DEF Resume, Count, TWorker, TQueues, GotLink
  <2>7. NoLostWakeup'
    BY <1>0, <1>11 DEF Resume, Count, TSets, NoLostWakeup
  <2>8. HooksBracketSleep'
    <3>1. \A v \in Workers \ {w} : HookOK(v)'
      BY <1>0, <1>11 DEF Resume, Count, TWorker, THooks, HooksBracketSleep, HookOK
    <3>2. HookOK(w)'
      <4>1. hooks[w] \in [Hooks -> Nat] /\ HookOK(w)
        BY <1>0 DEF THooks, HooksBracketSleep, HookOK
      <4>2. hooks'[w] = [hooks[w] EXCEPT !["resume"] = @ + 1]
        BY <1>0, <1>11 DEF Resume, Count, THooks
      <4>3. wpc[w] = "resume" /\ wpc'[w] \in {"check", "handle"}
        BY <1>0, <1>11 DEF Resume, TWorker
      <4>4. QED
        BY <4>1, <4>2, <4>3 DEF HookOK, Hooks
    <3>3. QED
      BY <3>1, <3>2 DEF HooksBracketSleep, HookOK
  <2>9. QED
    BY <2>1, <2>2, <2>3, <2>4, <2>5, <2>6, <2>7, <2>8, TypeSplitPrime DEF LoopInv
<1>12. ASSUME NEW w \in Workers, Handle(w) PROVE LoopInv'
  <2>1. TWorker'
    BY <1>0, <1>12 DEF Handle, Count, TWorker, WPC
  <2>2. TQueues'
    <3>1. \A c \in Cells : Append(local[w], c) \in Seq(Cells)
      BY <1>0, PushCell DEF TQueues
    <3>2. QED
      BY <1>0, <1>12, <3>1 DEF Handle, Count, TQueues
  <2>3. TFlag'
    BY <1>0, <1>12 DEF Handle, Count, TFlag
  <2>4. TSets'
    BY <1>0, <1>12 DEF Handle, TSets, GotLink
  <2>5. THooks'
    BY <1>0, <1>12 DEF Handle, Count, THooks, Hooks
  <2>6. GotLink'
    BY <1>0, <1>12 DEF Handle, Count, TWorker, TQueues, GotLink
  <2>7. NoLostWakeup'
    BY <1>0, <1>12 DEF Handle, Count, TSets, NoLostWakeup
  <2>8. HooksBracketSleep'
    <3>1. \A v \in Workers \ {w} : HookOK(v)'
      BY <1>0, <1>12 DEF Handle, Count, TWorker, THooks, HooksBracketSleep, HookOK
    <3>2. HookOK(w)'
      <4>1. hooks[w] \in [Hooks -> Nat] /\ HookOK(w)
        BY <1>0 DEF THooks, HooksBracketSleep, HookOK
      <4>2. hooks'[w] = [hooks[w] EXCEPT !["handle"] = @ + 1]
        BY <1>0, <1>12 DEF Handle, Count, THooks
      <4>3. wpc[w] = "handle" /\ wpc'[w] = "check"
        BY <1>0, <1>12 DEF Handle, TWorker
      <4>4. QED
        BY <4>1, <4>2, <4>3 DEF HookOK, Hooks
    <3>3. QED
      BY <3>1, <3>2 DEF HooksBracketSleep, HookOK
  <2>9. QED
    BY <2>1, <2>2, <2>3, <2>4, <2>5, <2>6, <2>7, <2>8, TypeSplitPrime DEF LoopInv
<1>13. CASE UNCHANGED vars
  <2>1. TWorker' /\ TQueues' /\ TFlag' /\ TSets' /\ THooks'
    BY <1>0, <1>13 DEF vars, TWorker, TQueues, TFlag, TSets, THooks
  <2>2. GotLink' /\ NoLostWakeup' /\ HooksBracketSleep'
    BY <1>0, <1>13 DEF vars, GotLink, NoLostWakeup, HooksBracketSleep
  <2>3. QED
    BY <2>1, <2>2, TypeSplitPrime DEF LoopInv
<1>14. QED
  BY <1>1, <1>2, <1>3, <1>4, <1>5, <1>6, <1>7, <1>8, <1>9, <1>10, <1>11, <1>12, <1>13 DEF Next

(* WorkerThread::run and ::pop, with the queue's sleep protocol, keep     *)
(* every variable in its type.                                             *)
THEOREM LoopTypeCorrect == Spec => []TypeOK
<1>1. Spec => []LoopInv
  BY InitLoopInv, NextLoopInv, PTL DEF Spec
<1>2. QED
  BY <1>1, PTL DEF LoopInv

(* pop_or_sleep parks a worker only after finding the injector empty      *)
(* under its lock, and a push signals a parked worker: while the pool     *)
(* runs and a cell waits in the injector, some worker is not parked.      *)
THEOREM NoLostWakeupThm == Spec => []NoLostWakeup
<1>1. Spec => []LoopInv
  BY InitLoopInv, NextLoopInv, PTL DEF Spec
<1>2. QED
  BY <1>1, PTL DEF LoopInv

(* The runner hooks of WorkerThread::run and ::pop: start once first, a   *)
(* resume for every pause, end once last (what test_hooks asserts).       *)
THEOREM HooksThm == Spec => []HooksBracketSleep
<1>1. Spec => []LoopInv
  BY InitLoopInv, NextLoopInv, PTL DEF Spec
<1>2. QED
  BY <1>1, PTL DEF LoopInv

=============================================================================
