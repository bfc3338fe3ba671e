-------------------------- MODULE ThreadPoolProofs --------------------------
(***************************************************************************)
(* What ThreadPool guarantees for any number of workers, tasks and starts. *)
(*                                                                         *)
(* The argument rests on the life of the threads: a pool is started again  *)
(* only when every thread of the last start() has been joined, so that a   *)
(* worker that is created is never one that still sleeps or still holds    *)
(* the mutex.                                                              *)
(***************************************************************************)
EXTENDS ThreadPool, SequenceTheorems, FiniteSetTheorems, TLAPS

USE DEF lockVars, queueVars, threadVars, poolVars, stopVars, ownerVars, lock,
        unlock, release, reacquire, Goto, NewThread, StartThread, TakeFront,
        ClearRunning

\* threads_ counts the workers that may be alive, and stop() joins them in
\* order; Join() has looked at threads_ before it waits for a worker.
LifeInv ==
    /\ threads <= numThreads
    /\ \A w \in Workers : w > threads => pc[w] \in {"none", "done"}
    /\ ownerPc \in {"join", "joining"} =>
           \A w \in Workers : w <= joined => pc[w] = "done"
    /\ ownerPc = "joining" => joined < threads

\* A worker leaves its name in holder_ only while it is inside fetchTask().
Inside(w) == pc[w] \in {"check", "waiting", "woken"}
HolderInv == holder # NoThread => Inside(holder)

\* A task is in one place: not scheduled yet, in the queue or fetched.
TaskInv == unused \cap (Elems(queue) \cup Elems(taken)) = {}

-----------------------------------------------------------------------------
(* Sequences and the cond_ of the pool.                                    *)

\* The elements of a sequence to which one is appended.
LEMMA ElemsAppend ==
    ASSUME NEW S, NEW s \in Seq(S), NEW e \in S
    PROVE  Elems(Append(s, e)) = Elems(s) \cup {e}
<1>1. /\ DOMAIN s = 1 .. Len(s)
      /\ DOMAIN Append(s, e) = 1 .. Len(s) + 1
      /\ Len(s) \in Nat
  BY LenProperties, AppendProperties
<1>2. /\ \A i \in 1 .. Len(s) : Append(s, e)[i] = s[i]
      /\ Append(s, e)[Len(s) + 1] = e
  BY AppendProperties
<1> QED BY <1>1, <1>2 DEF Elems

\* The front of a sequence and what is left without it.
LEMMA ElemsFront ==
    ASSUME NEW S, NEW s \in Seq(S), s # <<>>
    PROVE  /\ Head(s) \in Elems(s) /\ Head(s) \in S
           /\ Tail(s) \in Seq(S)
           /\ Elems(Tail(s)) \subseteq Elems(s)
<1>1. /\ Head(s) = s[1] /\ Head(s) \in S /\ Len(s) \in Nat /\ Len(s) > 0
      /\ DOMAIN s = 1 .. Len(s)
  BY HeadTailProperties, LenProperties, EmptySeq
<1>2. /\ Tail(s) \in Seq(S) /\ Len(Tail(s)) = Len(s) - 1
      /\ DOMAIN Tail(s) = 1 .. Len(s) - 1
      /\ \A i \in 1 .. Len(Tail(s)) : Tail(s)[i] = s[i + 1]
  BY HeadTailProperties, LenProperties
<1> QED BY <1>1, <1>2 DEF Elems

\* notify() and notifyAll() move workers from "waiting" to "woken" only.
LEMMA Woken ==
    ASSUME TypeOK, notify \/ notifyAll
    PROVE  /\ pc' \in [Workers -> WorkerPcs]
           /\ \A w \in Workers :
                 \/ pc'[w] = pc[w]
                 \/ pc[w] = "waiting" /\ pc'[w] = "woken"
BY DEF TypeOK, notify, notifyAll, Waiting, WorkerPcs

-----------------------------------------------------------------------------
\* Every variable keeps its type.
LEMMA Typing == Spec => [](TypeOK /\ LifeInv)
<1> USE ConstantsOK DEF ConstantsOK
<1>1. Init => TypeOK /\ LifeInv
  <2> SUFFICES ASSUME Init PROVE TypeOK /\ LifeInv
    OBVIOUS
  <2>1. <<>> \in Seq(Tasks)
    BY EmptySeq
  <2>2. /\ isRunning \in [Workers -> BOOLEAN]
        /\ pc \in [Workers -> WorkerPcs]
        /\ task \in [Workers -> Tasks \cup {NoTask}]
    BY DEF Init, WorkerPcs
  <2>3. TypeOK
    <3>1. {running, aborted, crashed} \subseteq BOOLEAN
      BY DEF Init
    <3>2. {queue, taken} \subseteq Seq(Tasks) /\ unused \subseteq Tasks
      BY <2>1 DEF Init
    <3> QED BY <2>2, <3>1, <3>2 DEF Init, TypeOK, OwnerPcs
  <2>4. LifeInv
    BY DEF Init, LifeInv
  <2> QED BY <2>3, <2>4
<1>2. TypeOK /\ LifeInv /\ [Next]_vars => TypeOK' /\ LifeInv'
  <2> SUFFICES ASSUME TypeOK, LifeInv, [Next]_vars
               PROVE  TypeOK' /\ LifeInv'
    OBVIOUS
  <2> USE DEF TypeOK, LifeInv
  <2>1. ASSUME NEW t \in Tasks, Schedule(t) PROVE TypeOK' /\ LifeInv'
    <3>1. queue' \in Seq(Tasks)
      BY <2>1, AppendProperties DEF Schedule
    <3> QED BY <2>1, <3>1, Woken DEF Schedule
  <2>2. ASSUME NEW w \in Workers, WorkerProgress(w)
        PROVE  TypeOK' /\ LifeInv'
    <3>1. CASE RunInThread(w)
      BY <3>1 DEF RunInThread, WorkerPcs
    <3>2. CASE TestRunning(w)
      BY <3>2 DEF TestRunning, WorkerPcs
    <3>3. CASE Lock(w)
      BY <3>3 DEF Lock, WorkerPcs
    <3>4. CASE Wait(w)
      BY <3>4 DEF Wait, WorkerPcs
    <3>5. CASE Fetch(w)
      <4>1. PICK t \in Tasks : /\ TakeFront(t)
                               /\ task' = [task EXCEPT ![w] = t]
                               /\ taken' = Append(taken, t)
        BY <3>5 DEF Fetch
      <4>2. taken' \in Seq(Tasks) /\ queue' \in Seq(Tasks)
        BY <3>5, <4>1, AppendProperties, ElemsFront DEF Fetch
      <4> QED BY <3>5, <4>1, <4>2 DEF Fetch, WorkerPcs
    <3>6. CASE FinishTask(w)
      BY <3>6 DEF FinishTask, WorkerPcs
    <3> QED
      BY <2>2, <3>1, <3>2, <3>3, <3>4, <3>5, <3>6 DEF WorkerProgress
  <2>3. ASSUME NEW w \in Workers, SpuriousWakeup(w)
        PROVE  TypeOK' /\ LifeInv'
    BY <2>3 DEF SpuriousWakeup, WorkerPcs
  <2>4. CASE Start
    BY <2>4 DEF Start, OwnerPcs, Workers
  <2>5. CASE Stop
    BY <2>5 DEF Stop, OwnerPcs
  <2>6. CASE CreateThread
    <3>1. threads + 1 \in Workers
      BY <2>6 DEF CreateThread, Workers
    <3> QED BY <2>6, <3>1 DEF CreateThread, Workers, WorkerPcs
  <2>7. CASE StartReturns
    BY <2>7 DEF StartReturns, OwnerPcs
  <2>8. CASE NotifyAll
    <3>1. \A w \in Workers : ~(w <= 0)
      BY DEF Workers
    <3> QED BY <2>8, <3>1, Woken DEF NotifyAll, OwnerPcs
  <2>9. CASE Join
    <3>1. {running', aborted', crashed'} \subseteq BOOLEAN /\ ownerPc' \in OwnerPcs
      BY <2>9 DEF Join, OwnerPcs
    <3>2. UNCHANGED <<lockVars, queueVars, threadVars, poolVars, joined>>
      BY <2>9 DEF Join
    <3>3. LifeInv'
      BY <2>9, <3>2 DEF Join
    <3> QED BY <3>1, <3>2, <3>3
  <2>10. CASE JoinReturns
    BY <2>10 DEF JoinReturns, OwnerPcs, Workers
  <2>11. CASE StopReturns
    BY <2>11 DEF StopReturns, OwnerPcs, Workers
  <2>12. CASE UNCHANGED vars
    BY <2>12 DEF vars
  <2> QED
    BY <2>1, <2>2, <2>3, <2>4, <2>5, <2>6, <2>7, <2>8, <2>9, <2>10, <2>11,
       <2>12 DEF Next, OwnerProgress
<1> QED BY <1>1, <1>2, PTL DEF Spec

THEOREM PoolTypeCorrect == Spec => []TypeOK
BY Typing, PTL
-----------------------------------------------------------------------------
\* holder_ is 0 unless it names a worker inside fetchTask(): a worker that
\* waits leaves its name there, and resets it when it leaves the block.
THEOREM HolderIsCleared == Spec => []HolderCleared
<1>1. Init => HolderInv
  BY DEF Init, HolderInv
<1>2. TypeOK /\ LifeInv /\ HolderInv /\ [Next]_vars => HolderInv'
  <2> SUFFICES ASSUME TypeOK, LifeInv, HolderInv, [Next]_vars PROVE HolderInv'
    OBVIOUS
  <2> USE ConstantsOK DEF TypeOK, LifeInv, HolderInv, Inside
  <2>1. ASSUME NEW t \in Tasks, Schedule(t) PROVE HolderInv'
    BY <2>1 DEF Schedule
  <2>2. ASSUME NEW w \in Workers, WorkerProgress(w) \/ SpuriousWakeup(w)
        PROVE  HolderInv'
    <3>1. CASE Lock(w)
      BY <3>1 DEF Lock
    <3>2. CASE Fetch(w)
      BY <3>2 DEF Fetch
    <3>3. CASE RunInThread(w) \/ TestRunning(w) \/ Wait(w) \/ FinishTask(w)
               \/ SpuriousWakeup(w)
      BY <3>3 DEF RunInThread, TestRunning, Wait, FinishTask, SpuriousWakeup
    <3> QED BY <2>2, <3>1, <3>2, <3>3 DEF WorkerProgress
  <2>3. CASE CreateThread
    <3>1. threads + 1 \in Workers
      BY <2>3 DEF CreateThread, Workers, ConstantsOK
    <3>2. pc[threads + 1] \in {"none", "done"}
      BY <3>1 DEF Workers
    <3> QED BY <2>3, <3>1, <3>2 DEF CreateThread
  <2>4. CASE NotifyAll
    BY <2>4, Woken DEF NotifyAll
  <2>5. CASE Start \/ StartReturns \/ Stop \/ Join \/ JoinReturns \/ StopReturns
    BY <2>5 DEF Start, StartReturns, Stop, Join, JoinReturns, StopReturns
  <2>6. CASE UNCHANGED vars
    BY <2>6 DEF vars
  <2> QED BY <2>1, <2>2, <2>3, <2>4, <2>5, <2>6 DEF Next, OwnerProgress
<1>3. TypeOK /\ HolderInv => HolderCleared
  BY DEF TypeOK, HolderInv, HolderCleared, Inside
<1> QED BY <1>1, <1>2, <1>3, Typing, PTL DEF Spec

-----------------------------------------------------------------------------
(* The end of a pool.                                                      *)

\* Between start() and stop() threads_ has as many threads as numThreads_ says
\* or none, and isRunning_ is set by the thread itself.
ThreadsInv ==
    /\ ownerPc # "starting" => threads \in {0, numThreads}
    /\ \A w \in Workers : w <= threads => pc[w] # "none"
    /\ \A w \in Workers : isRunning[w] <=> pc[w] \notin {"none", "created"}

\* A pool that has no threads left has no thread that still runs.
NoWorkerLeft == threads = 0 => \A w \in Workers : pc[w] \in {"none", "done"}

\* threads_ is indexed out of range only by a stop() of a stopped pool, for
\* which stop() left numThreads_ as it was.
CrashedInSecondStop == crashed => threads = 0 /\ numThreads # 0

\* join() fails its assert() only in a build that has it, for a thread that has
\* not begun to run.
AbortedTooEarly ==
    aborted => ~NDebug /\ joined < threads /\ pc[joined + 1] = "created"

LEMMA ThreadsStep ==
    ASSUME TypeOK, LifeInv, ThreadsInv, [Next]_vars
    PROVE  ThreadsInv'
<1>0. /\ pc \in [Workers -> WorkerPcs] /\ isRunning \in [Workers -> BOOLEAN]
      /\ threads \in 0 .. NumThreads /\ NumThreads \in Nat
      /\ numThreads \in {0, NumThreads}
  BY ConstantsOK DEF TypeOK, ConstantsOK
<1> USE <1>0 DEF ThreadsInv
<1>1. ASSUME NEW t \in Tasks, Schedule(t) PROVE ThreadsInv'
  <2>1. UNCHANGED <<ownerPc, threads, numThreads, isRunning>> /\ notify
    BY <1>1 DEF Schedule
  <2>2. CASE UNCHANGED pc
    BY <2>1, <2>2
  <2>3. ASSUME NEW w \in Waiting, pc' = [pc EXCEPT ![w] = "woken"]
        PROVE  ThreadsInv'
    BY <2>1, <2>3 DEF Waiting
  <2> QED BY <2>1, <2>2, <2>3 DEF notify
<1>2. ASSUME NEW w \in Workers, WorkerProgress(w) \/ SpuriousWakeup(w)
      PROVE  ThreadsInv'
  <2>1. CASE RunInThread(w)
    BY <2>1 DEF RunInThread
  <2>2. CASE TestRunning(w) \/ Lock(w) \/ Wait(w)
    BY <2>2 DEF TestRunning, Lock, Wait
  <2>3. CASE Fetch(w) \/ FinishTask(w) \/ SpuriousWakeup(w)
    BY <2>3 DEF Fetch, FinishTask, SpuriousWakeup
  <2> QED BY <1>2, <2>1, <2>2, <2>3 DEF WorkerProgress
<1>3. CASE CreateThread
  <2>1. threads + 1 \in Workers
    BY <1>3 DEF CreateThread, Workers
  <2> QED BY <1>3, <2>1 DEF CreateThread, Workers
<1>4. CASE NotifyAll
  <2>1. \A w \in Workers :
            pc'[w] = IF pc[w] = "waiting" THEN "woken" ELSE pc[w]
    BY <1>4 DEF NotifyAll, notifyAll, Waiting
  <2> QED BY <1>4, <2>1 DEF NotifyAll
<1>5. CASE Start \/ StartReturns \/ Stop
  BY <1>5 DEF Start, StartReturns, Stop
<1>6. CASE Join \/ JoinReturns \/ StopReturns
  BY <1>6 DEF Join, JoinReturns, StopReturns, Workers
<1>7. CASE UNCHANGED vars
  BY <1>7 DEF vars
<1> QED BY <1>1, <1>2, <1>3, <1>4, <1>5, <1>6, <1>7 DEF Next, OwnerProgress

LEMMA ThreadsInvHolds == Spec => []ThreadsInv
<1>1. Init => ThreadsInv
  BY ConstantsOK DEF Init, ThreadsInv, Workers, ConstantsOK
<1>2. TypeOK /\ LifeInv /\ ThreadsInv /\ [Next]_vars => ThreadsInv'
  BY ThreadsStep
<1> QED BY <1>1, <1>2, Typing, PTL DEF Spec

\* stop() returns when every worker that start() has ever created is at its
\* end: none uses queue_ or mutex_ after the destructor has called it.
THEOREM NoWorkerOutlivesStop == Spec => []NoWorkerLeft
<1>1. LifeInv => NoWorkerLeft
  BY DEF LifeInv, NoWorkerLeft, Workers
<1> QED BY <1>1, Typing, PTL

\* stop() indexes threads_ out of range in no other way than by a second call,
\* however often the pool is started and stopped.
THEOREM CrashIsSecondStop == Spec => []CrashedInSecondStop
<1>1. Init => CrashedInSecondStop
  BY DEF Init, CrashedInSecondStop
<1>2. TypeOK /\ ThreadsInv /\ CrashedInSecondStop /\ [Next]_vars
        => CrashedInSecondStop'
  <2> SUFFICES ASSUME TypeOK, ThreadsInv, CrashedInSecondStop, [Next]_vars,
                      crashed'
               PROVE  threads' = 0 /\ numThreads' # 0
    BY DEF CrashedInSecondStop
  <2>1. CASE crashed
    <3>1. UNCHANGED vars
      BY <2>1 DEF Next
    <3> QED BY <2>1, <3>1 DEF vars, CrashedInSecondStop
  <2>2. CASE ~crashed
    <3>1. crashed' # crashed
      BY <2>2
    <3>2. Join
      BY <3>1 DEF Next, WorkerProgress, OwnerProgress, Schedule, RunInThread,
          TestRunning, Lock, Wait, Fetch, FinishTask, SpuriousWakeup, Start,
          Stop, CreateThread, StartReturns, NotifyAll, JoinReturns,
          StopReturns, vars
    <3>3. joined < numThreads /\ threads <= joined /\ ownerPc = "join"
      BY <2>2, <3>2 DEF Join
    <3>4. threads = 0 /\ numThreads # 0
      BY <3>3, ConstantsOK DEF ThreadsInv, TypeOK, ConstantsOK
    <3> QED BY <3>2, <3>4 DEF Join
  <2> QED BY <2>1, <2>2
<1> QED BY <1>1, <1>2, Typing, ThreadsInvHolds, PTL DEF Spec

\* In a build with assert() the owner loses its process in stop() only if it
\* calls it before one of its threads has begun to run.
THEOREM AbortIsEarlyJoin == Spec => []AbortedTooEarly
<1>1. Init => AbortedTooEarly
  BY DEF Init, AbortedTooEarly
<1>2. TypeOK /\ ThreadsInv /\ AbortedTooEarly /\ [Next]_vars
        => AbortedTooEarly'
  <2> SUFFICES ASSUME TypeOK, ThreadsInv, AbortedTooEarly, [Next]_vars, aborted'
               PROVE  ~NDebug /\ joined' < threads' /\ pc'[joined' + 1] = "created"
    BY DEF AbortedTooEarly
  <2>1. CASE aborted
    <3>1. UNCHANGED vars
      BY <2>1 DEF Next
    <3> QED BY <2>1, <3>1 DEF vars, AbortedTooEarly
  <2>2. CASE ~aborted
    <3>1. aborted' # aborted
      BY <2>2
    <3>2. Join
      BY <3>1 DEF Next, WorkerProgress, OwnerProgress, Schedule, RunInThread,
          TestRunning, Lock, Wait, Fetch, FinishTask, SpuriousWakeup, Start,
          Stop, CreateThread, StartReturns, NotifyAll, JoinReturns,
          StopReturns, vars
    <3>3. joined < threads /\ ~isRunning[joined + 1] /\ ~NDebug
      <4>1. ~(threads <= joined) /\ ~isRunning[joined + 1] /\ ~NDebug
        BY <2>2, <3>2, Zenon DEF Join
      <4> QED BY <4>1, ConstantsOK DEF TypeOK, ConstantsOK
    <3>4. joined + 1 \in Workers /\ joined + 1 <= threads
      BY <3>3, ConstantsOK DEF TypeOK, Workers, ConstantsOK
    <3>5. pc[joined + 1] = "created"
      BY <3>3, <3>4 DEF ThreadsInv
    <3> QED BY <3>2, <3>3, <3>5 DEF Join
  <2> QED BY <2>1, <2>2
<1> QED BY <1>1, <1>2, Typing, ThreadsInvHolds, PTL DEF Spec

-----------------------------------------------------------------------------
(* Signals.                                                                *)

\* The workers are finitely many, and so are those of them that are awake.
LEMMA Counts ==
    /\ IsFiniteSet(Awake) /\ Cardinality(Awake) \in Nat
    /\ (IsFiniteSet(Awake) /\ Cardinality(Awake) \in Nat)'
<1>1. IsFiniteSet(Workers)
  BY ConstantsOK, FS_Interval DEF Workers, ConstantsOK
<1>2. Awake \subseteq Workers /\ Awake' \subseteq Workers
  BY DEF Awake
<1> QED BY <1>1, <1>2, FS_Subset, FS_CardinalityType

\* A step that leaves the queue alone and lets no worker fall asleep.
LEMMA NobodySleeps ==
    ASSUME EnoughAwake, UNCHANGED <<queue, running>>, queue \in Seq(Tasks),
           Awake \subseteq Awake', Waiting' \subseteq Waiting
    PROVE  EnoughAwake'
<1>1. Cardinality(Awake) <= Cardinality(Awake')
  BY Counts, FS_Subset
<1>2. Waiting' # {} => Waiting # {}
  OBVIOUS
<1>3. Len(queue) \in Nat
  BY LenProperties
<1> QED BY <1>1, <1>2, <1>3, Counts DEF EnoughAwake

\* No signal is lost: every task in the queue of a running pool in which a
\* worker sleeps has a worker of its own on its way.
THEOREM NoSignalIsLost == Spec => []EnoughAwake
<1>1. Init => EnoughAwake
  BY DEF Init, EnoughAwake
<1>2. TypeOK /\ LifeInv /\ EnoughAwake /\ [Next]_vars => EnoughAwake'
  <2> SUFFICES ASSUME TypeOK, LifeInv, EnoughAwake, [Next]_vars
               PROVE  EnoughAwake'
    OBVIOUS
  <2>1. queue \in Seq(Tasks) /\ Len(queue) \in Nat /\ pc \in [Workers -> WorkerPcs]
    BY LenProperties DEF TypeOK
  <2>2. ASSUME NEW t \in Tasks, Schedule(t) PROVE EnoughAwake'
    <3>1. Len(queue') = Len(queue) + 1
      BY <2>1, <2>2, AppendProperties DEF Schedule
    <3>2. CASE Waiting = {}
      <4>1. Waiting' = {}
        BY <2>2, <3>2 DEF Schedule, notify, Waiting
      <4> QED BY <4>1 DEF EnoughAwake
    <3>3. CASE Waiting # {}
      <4>1. PICK w \in Waiting : pc' = [pc EXCEPT ![w] = "woken"]
        BY <2>2, <3>3 DEF Schedule, notify
      <4>2. Awake' = Awake \cup {w} /\ w \notin Awake
        BY <2>1, <4>1 DEF Awake, Waiting
      <4>3. Cardinality(Awake') = Cardinality(Awake) + 1
        BY <4>2, Counts, FS_AddElement
      <4> QED BY <2>1, <2>2, <3>1, <3>3, <4>3, Counts DEF Schedule, EnoughAwake
    <3> QED BY <3>2, <3>3
  <2>3. ASSUME NEW w \in Workers, Fetch(w) PROVE EnoughAwake'
    <3>1. Len(queue') = Len(queue) - 1
      BY <2>1, <2>3, HeadTailProperties DEF Fetch
    <3>2. Awake' = Awake \ {w} /\ w \in Awake /\ Waiting' = Waiting
      BY <2>1, <2>3 DEF Fetch, Awake, Waiting
    <3>3. Cardinality(Awake') = Cardinality(Awake) - 1
      BY <3>2, Counts, FS_RemoveElement
    <3> QED BY <2>1, <2>3, <3>1, <3>2, <3>3, Counts DEF Fetch, EnoughAwake
  <2>4. ASSUME NEW w \in Workers, Wait(w) PROVE EnoughAwake'
    <3>1. Len(queue') = 0
      BY <2>4, EmptySeq DEF Wait
    <3> QED BY <3>1, Counts DEF EnoughAwake
  <2>5. ASSUME NEW w \in Workers, TestRunning(w) PROVE EnoughAwake'
    <3>1. CASE running
      BY <2>1, <2>5, <3>1, NobodySleeps DEF TestRunning, Awake, Waiting
    <3>2. CASE ~running
      BY <2>5, <3>2 DEF TestRunning, EnoughAwake
    <3> QED BY <3>1, <3>2
  <2>6. ASSUME NEW w \in Workers,
               RunInThread(w) \/ Lock(w) \/ SpuriousWakeup(w) \/ FinishTask(w)
        PROVE  EnoughAwake'
    BY <2>1, <2>6, NobodySleeps DEF RunInThread, Lock, SpuriousWakeup,
        FinishTask, Awake, Waiting
  <2>7. CASE CreateThread
    BY <2>1, <2>7, NobodySleeps DEF CreateThread, Awake, Waiting
  <2>8. CASE Start
    <3>1. Waiting' = {}
      BY <2>8 DEF Start, LifeInv, Waiting, Workers
    <3> QED BY <3>1 DEF EnoughAwake
  <2>9. CASE Stop
    BY <2>9 DEF Stop, EnoughAwake
  <2>10. CASE NotifyAll
    <3>1. Waiting' = {}
      BY <2>1, <2>10 DEF NotifyAll, notifyAll, Waiting
    <3> QED BY <3>1 DEF EnoughAwake
  <2>11. CASE StartReturns \/ Join \/ JoinReturns \/ StopReturns
    BY <2>1, <2>11, NobodySleeps DEF StartReturns, Join, JoinReturns,
        StopReturns, Awake, Waiting
  <2>12. CASE UNCHANGED vars
    BY <2>1, <2>12, NobodySleeps DEF vars, Awake, Waiting
  <2> QED
    BY <2>2, <2>3, <2>4, <2>5, <2>6, <2>7, <2>8, <2>9, <2>10, <2>11, <2>12
    DEF Next, WorkerProgress, OwnerProgress
<1> QED BY <1>1, <1>2, Typing, PTL DEF Spec

-----------------------------------------------------------------------------
(* The refinement.                                                         *)

USE DEF TQ!qvars

\* Tasks are fetched in the order in which they were scheduled, once each, by
\* whatever worker and however often the pool is stopped and started.
THEOREM PoolImplementsTaskQueue == Spec => ImplementsTaskQueue
<1>1. Init => TaskInv /\ TQ!Init
  BY DEF Init, TaskInv, TQ!Init, Elems
<1>2. TypeOK /\ TaskInv /\ [Next]_vars => TaskInv' /\ [TQ!Next]_(TQ!qvars)
  <2> SUFFICES ASSUME TypeOK, TaskInv, [Next]_vars
               PROVE  TaskInv' /\ [TQ!Next]_(TQ!qvars)
    OBVIOUS
  <2>1. queue \in Seq(Tasks) /\ taken \in Seq(Tasks)
    BY DEF TypeOK
  <2>2. ASSUME NEW t \in Tasks, Schedule(t)
        PROVE  TaskInv' /\ TQ!Next
    <3>1. Elems(queue') = Elems(queue) \cup {t}
      BY <2>1, <2>2, ElemsAppend DEF Schedule
    <3>2. TQ!Unused(t)
      BY <2>2 DEF Schedule, TaskInv, TQ!Unused, TQ!Elems, Elems
    <3> QED
      BY <2>2, <3>1, <3>2 DEF Schedule, TaskInv, TQ!Next, TQ!Defer
  <2>3. ASSUME NEW w \in Workers, Fetch(w)
        PROVE  TaskInv' /\ TQ!Next
    <3>1. /\ taken' = Append(taken, Head(queue))
          /\ queue' = Tail(queue) /\ queue # <<>> /\ unused' = unused
      BY <2>3 DEF Fetch
    <3>2. Elems(taken') = Elems(taken) \cup {Head(queue)}
      BY <2>1, <3>1, ElemsAppend, ElemsFront
    <3> QED
      BY <2>1, <3>1, <3>2, ElemsFront DEF TaskInv, TQ!Next, TQ!RunNext
  <2>4. CASE UNCHANGED queueVars
    BY <2>4 DEF TaskInv
  <2> QED
    BY <2>2, <2>3, <2>4 DEF Next, WorkerProgress, OwnerProgress, RunInThread,
        TestRunning, Lock, Wait, FinishTask, SpuriousWakeup, Start, Stop,
        CreateThread, StartReturns, NotifyAll, Join, JoinReturns, StopReturns,
        vars
<1> QED
  BY <1>1, <1>2, Typing, PTL DEF Spec, ImplementsTaskQueue, TQ!Spec
=============================================================================
