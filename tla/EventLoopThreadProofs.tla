----------------------- MODULE EventLoopThreadProofs -----------------------
(***************************************************************************)
(* What EventLoop guarantees for any number of threads and calls: no       *)
(* wake-up is lost, and the deferred tasks are run in order, once each.    *)
(* Then what EventLoopThread, which extends it, adds and keeps.            *)
(***************************************************************************)
EXTENDS EventLoopThread, SequenceTheorems, FiniteSetTheorems, TLAPS

\* The groups of variables, and the operators that name a part of a step.
USE DEF loopVars, wakeVars, queueVars, callVars, Lock, Unlock, Goto, wakeup,
        ResetPending, ClearQueue, NotPending, WriteEventfd

\* mutex_ is owned by whoever is inside a block it guards.
MutexInv ==
    /\ mutex = LoopThread <=> loopPc = "run"
    /\ \A th \in Threads : mutex = th <=> pc[th] = "push"

\* Outside runDeferredTasks() there is no iterator.
IndexInv == loopPc # "run" => nextTask = 1

\* A thread inside runInLoop() carries a task until it is in the queue.
Carries(th) == pc[th] \in {"lock", "push"}
CarryInv == \A th \in Threads : Carries(th) => task[th] \in Tasks

\* A task is in one place: not handed over yet, carried by the thread that
\* hands it over, or in the queue or already started.
TaskInv ==
    /\ fresh \cap (Elems(deferredQueue) \cup Elems(ran)) = {}
    /\ \A th \in Threads : Carries(th) =>
           task[th] \notin fresh \cup Elems(deferredQueue) \cup Elems(ran)
    /\ \A th, other \in Threads :
           Carries(th) /\ Carries(other) /\ task[th] = task[other] => th = other

\* Why no wake-up is lost: one is owed at every point from which the loop can
\* go to sleep before it looks at the queue, and while it sleeps.
WakeupInv ==
    /\ PendingIsBacked
    /\ loopPc \in {"out", "test", "wait"} /\ deferredQueue # <<>> => WakeupOwed
    /\ loopPc = "wait" /\ stop => WakeupOwed

-----------------------------------------------------------------------------
\* The elements of a sequence to which one is appended.
LEMMA ElemsAppend ==
    ASSUME NEW S, NEW s \in Seq(S), NEW e \in S
    PROVE  Elems(Append(s, e)) = Elems(s) \cup {e}
<1>1. /\ DOMAIN s = 1 .. Len(s)
      /\ DOMAIN Append(s, e) = 1 .. Len(s) + 1
      /\ Len(s) \in Nat
  BY LenProperties, AppendProperties
<1>2. /\ \A i \in 1 .. Len(s) : Append(s, e)[i] = s[i]
      /\ Append(s, e)[Len(s) + 1] = e
  BY AppendProperties
<1>3. ASSUME NEW x \in Elems(Append(s, e))
      PROVE  x \in Elems(s) \cup {e}
  BY <1>1, <1>2 DEF Elems
<1>4. ASSUME NEW x \in Elems(s) \cup {e}
      PROVE  x \in Elems(Append(s, e))
  <2>1. CASE x = e
    <3>1. Len(s) + 1 \in DOMAIN Append(s, e)
      BY <1>1
    <3>2. QED
      BY <2>1, <3>1, <1>2 DEF Elems
  <2>2. CASE x \in Elems(s)
    <3>1. PICK i \in 1 .. Len(s) : x = s[i]
      BY <2>2, <1>1 DEF Elems
    <3>2. i \in DOMAIN Append(s, e) /\ Append(s, e)[i] = x
      BY <3>1, <1>1, <1>2
    <3>3. QED
      BY <3>2 DEF Elems
  <2>3. QED
    BY <1>4, <2>1, <2>2
<1>5. QED
  BY <1>3, <1>4


\* Every variable keeps its type, and a thread inside runInLoop() has a task.
LEMMA Typing == Spec => [](TypeOK /\ CarryInv)
<1> USE DEF Carries
<1>1. Init => TypeOK /\ CarryInv
  <2> SUFFICES ASSUME Init
               PROVE  TypeOK /\ CarryInv
    OBVIOUS
  <2>1. <<>> \in Seq(Tasks) /\ Len(<<>>) = 0
    BY EmptySeq
  <2>2. nextTask \in 1 .. Len(deferredQueue) + 1
    BY <2>1 DEF Init
  <2>3. pc \in [Threads -> ThreadPcs] /\ task \in [Threads -> Tasks \cup {NoTask}]
    BY DEF Init, ThreadPcs
  <2>4. TypeOK
    BY <2>1, <2>2, <2>3 DEF Init, TypeOK, LoopPcs
  <2>5. CarryInv
    BY DEF Init, CarryInv
  <2>6. QED
    BY <2>4, <2>5
<1>2. TypeOK /\ CarryInv /\ [Next]_vars => TypeOK' /\ CarryInv'
  <2> SUFFICES ASSUME TypeOK, CarryInv, [Next]_vars
               PROVE  TypeOK' /\ CarryInv'
    OBVIOUS
  <2> USE DEF TypeOK, CarryInv
  <2>1. CASE Dispatch
    BY <2>1 DEF Dispatch, LoopPcs
  <2>2. CASE LeaveLoop
    BY <2>2 DEF LeaveLoop, LoopPcs
  <2>3. CASE EnterWait
    BY <2>3 DEF EnterWait, LoopPcs
  <2>4. ASSUME NEW fds \in SUBSET Fds, EpollReturns(fds)
        PROVE  TypeOK' /\ CarryInv'
    BY <2>4 DEF EpollReturns, LoopPcs
  <2>5. CASE NotifyRead
    BY <2>5 DEF NotifyRead, LoopPcs
  <2>6. CASE NotifyClear
    BY <2>6 DEF NotifyClear, LoopPcs
  <2>7. CASE IoHandled
    BY <2>7 DEF IoHandled
  <2>8. CASE EventsDone
    BY <2>8 DEF EventsDone, LoopPcs
  <2>9. CASE LockDeferred
    BY <2>9 DEF LockDeferred, LoopPcs
  <2>10. CASE RunDeferred
    <3>1. Len(deferredQueue) \in Nat
      BY LenProperties
    <3>2. nextTask \in 1 .. Len(deferredQueue)
      BY <2>10, <3>1 DEF RunDeferred
    <3>3. deferredQueue[nextTask] \in Tasks
      BY <3>2, ElementOfSeq
    <3>4. ran' \in Seq(Tasks)
      BY <2>10, <3>3, AppendProperties DEF RunDeferred
    <3>5. nextTask' \in 1 .. Len(deferredQueue') + 1
      BY <2>10, <3>1, <3>2 DEF RunDeferred
    <3>6. QED
      BY <2>10, <3>4, <3>5 DEF RunDeferred
  <2>11. CASE FinishDeferred
    <3>1. deferredQueue' \in Seq(Tasks) /\ Len(deferredQueue') = 0
      BY <2>11, EmptySeq DEF FinishDeferred
    <3>2. nextTask' \in 1 .. Len(deferredQueue') + 1
      BY <2>11, <3>1 DEF FinishDeferred
    <3>3. QED
      BY <2>11, <3>1, <3>2 DEF FinishDeferred, LoopPcs
  <2>12. ASSUME NEW t \in Tasks, RunInline(t)
         PROVE  TypeOK' /\ CarryInv'
    <3>1. ran' \in Seq(Tasks)
      BY <2>12, AppendProperties DEF RunInline
    <3>2. QED
      BY <2>12, <3>1 DEF RunInline
  <2>13. CASE BreakInline
    BY <2>13 DEF BreakInline
  <2>14. ASSUME NEW th \in Threads, NEW t \in Tasks, RunInLoop(th, t)
         PROVE  TypeOK' /\ CarryInv'
    BY <2>14 DEF RunInLoop, ThreadPcs
  <2>15. ASSUME NEW th \in Threads, LockQueue(th)
         PROVE  TypeOK' /\ CarryInv'
    BY <2>15 DEF LockQueue, ThreadPcs
  <2>16. ASSUME NEW th \in Threads, PushTask(th)
         PROVE  TypeOK' /\ CarryInv'
    <3>1. task[th] \in Tasks
      BY <2>16 DEF PushTask
    <3>2. /\ deferredQueue' \in Seq(Tasks)
          /\ Len(deferredQueue') = Len(deferredQueue) + 1
      BY <2>16, <3>1, AppendProperties DEF PushTask
    <3>3. Len(deferredQueue) \in Nat
      BY LenProperties
    <3>4. nextTask' \in 1 .. Len(deferredQueue') + 1
      BY <2>16, <3>2, <3>3 DEF PushTask
    <3>5. CarryInv'
      BY <2>16 DEF PushTask
    <3>6. QED
      BY <2>16, <3>2, <3>4, <3>5 DEF PushTask, ThreadPcs
  <2>17. ASSUME NEW th \in Threads, LoadPending(th)
         PROVE  TypeOK' /\ CarryInv'
    BY <2>17 DEF LoadPending, ThreadPcs
  <2>18. ASSUME NEW th \in Threads, StorePending(th)
         PROVE  TypeOK' /\ CarryInv'
    BY <2>18 DEF StorePending, ThreadPcs
  <2>19. ASSUME NEW th \in Threads, WriteNotify(th)
         PROVE  TypeOK' /\ CarryInv'
    BY <2>19 DEF WriteNotify, ThreadPcs
  <2>20. ASSUME NEW th \in Threads, BreakLoop(th)
         PROVE  TypeOK' /\ CarryInv'
    BY <2>20 DEF BreakLoop, ThreadPcs
  <2>21. CASE UNCHANGED vars
    BY <2>21 DEF vars
  <2>22. QED
    BY <2>1, <2>2, <2>3, <2>4, <2>5, <2>6, <2>7, <2>8, <2>9, <2>10, <2>11,
       <2>12, <2>13, <2>14, <2>15, <2>16, <2>17, <2>18, <2>19, <2>20, <2>21
       DEF Next, LoopNext, LoopProgress, ThreadNext, ThreadProgress
<1>3. QED
  BY <1>1, <1>2, PTL DEF Spec

THEOREM TypeCorrect == Spec => []TypeOK
BY Typing, PTL

-----------------------------------------------------------------------------
\* mutex_ is held exactly in the blocks it guards, and the iterator of
\* runDeferredTasks() exists only there.
LEMMA Exclusion == Spec => [](MutexInv /\ IndexInv)
<1>1. Init => MutexInv /\ IndexInv
  BY ConstantsOK DEF Init, MutexInv, IndexInv
<1>2. TypeOK /\ MutexInv /\ IndexInv /\ [Next]_vars => MutexInv' /\ IndexInv'
  <2> SUFFICES ASSUME TypeOK, MutexInv, IndexInv, [Next]_vars
               PROVE  MutexInv' /\ IndexInv'
    OBVIOUS
  <2> USE ConstantsOK DEF TypeOK, MutexInv, IndexInv
  <2>1. CASE LoopProgress
    <3>1. CASE LeaveLoop
      BY <3>1 DEF LeaveLoop
    <3>2. CASE EnterWait
      BY <3>2 DEF EnterWait
    <3>3. ASSUME NEW fds \in SUBSET Fds, EpollReturns(fds)
          PROVE  MutexInv' /\ IndexInv'
      BY <3>3 DEF EpollReturns
    <3>4. CASE NotifyRead
      BY <3>4 DEF NotifyRead
    <3>5. CASE NotifyClear
      BY <3>5 DEF NotifyClear
    <3>6. CASE IoHandled
      BY <3>6 DEF IoHandled
    <3>7. CASE EventsDone
      BY <3>7 DEF EventsDone
    <3>8. CASE LockDeferred
      BY <3>8 DEF LockDeferred
    <3>9. CASE RunDeferred
      BY <3>9 DEF RunDeferred
    <3>10. CASE FinishDeferred
      BY <3>10 DEF FinishDeferred
    <3>11. QED
      BY <2>1, <3>1, <3>2, <3>3, <3>4, <3>5, <3>6, <3>7, <3>8, <3>9, <3>10
         DEF LoopProgress
  <2>2. CASE Dispatch
    BY <2>2 DEF Dispatch
  <2>3. ASSUME NEW fds \in SUBSET Fds, EpollReturns(fds)
        PROVE  MutexInv' /\ IndexInv'
    BY <2>3 DEF EpollReturns
  <2>4. ASSUME NEW t \in Tasks, RunInline(t)
        PROVE  MutexInv' /\ IndexInv'
    BY <2>4 DEF RunInline
  <2>5. CASE BreakInline
    BY <2>5 DEF BreakInline
  <2>6. ASSUME NEW th \in Threads, ThreadProgress(th)
        PROVE  MutexInv' /\ IndexInv'
    <3>1. CASE LockQueue(th)
      BY <2>6, <3>1 DEF LockQueue
    <3>2. CASE PushTask(th)
      BY <2>6, <3>2 DEF PushTask
    <3>3. CASE LoadPending(th)
      BY <2>6, <3>3 DEF LoadPending
    <3>4. CASE StorePending(th)
      BY <2>6, <3>4 DEF StorePending
    <3>5. CASE WriteNotify(th)
      BY <2>6, <3>5 DEF WriteNotify
    <3>6. QED
      BY <2>6, <3>1, <3>2, <3>3, <3>4, <3>5 DEF ThreadProgress
  <2>7. ASSUME NEW th \in Threads, NEW t \in Tasks, RunInLoop(th, t)
        PROVE  MutexInv' /\ IndexInv'
    BY <2>7 DEF RunInLoop
  <2>8. ASSUME NEW th \in Threads, BreakLoop(th)
        PROVE  MutexInv' /\ IndexInv'
    BY <2>8 DEF BreakLoop
  <2>9. CASE UNCHANGED vars
    BY <2>9 DEF vars
  <2>10. QED
    BY <2>1, <2>2, <2>3, <2>4, <2>5, <2>6, <2>7, <2>8, <2>9
       DEF Next, LoopNext, ThreadNext
<1>3. QED
  BY <1>1, <1>2, Typing, PTL DEF Spec

\* While runDeferredTasks() iterates over deferredQueue_, nobody else changes
\* the vector: mutex_ is the loop's, and a callback of the loop's own thread
\* never enters the queue.
THEOREM QueueStable == Spec => QueueStableWhileRunning
<1>1. ConstantsOK /\ MutexInv /\ [Next]_vars
        => (loopPc = "run" /\ loopPc' = "run" => deferredQueue' = deferredQueue)
  <2> SUFFICES ASSUME ConstantsOK, MutexInv, [Next]_vars,
                      loopPc = "run", loopPc' = "run"
               PROVE  deferredQueue' = deferredQueue
    OBVIOUS
  <2>1. ~FinishDeferred
    BY DEF FinishDeferred
  <2>2. \A th \in Threads : ~PushTask(th)
    BY DEF MutexInv, ConstantsOK, PushTask
  <2>3. QED
    BY <2>1, <2>2
       DEF Next, LoopNext, LoopProgress, ThreadNext, ThreadProgress, vars,
           Dispatch, LeaveLoop, EnterWait, EpollReturns, NotifyRead,
           NotifyClear, IoHandled, EventsDone, LockDeferred, RunDeferred,
           RunInline, BreakInline, RunInLoop, LockQueue, LoadPending,
           StorePending, WriteNotify, BreakLoop
<1>2. QED
  BY <1>1, ConstantsOK, Exclusion, PTL DEF Spec, QueueStableWhileRunning

-----------------------------------------------------------------------------
\* A wake-up is owed at each point where the argument above needs one.  The
\* flag is lowered only at "clear", where the loop is about to look at the
\* queue, so a thread that finds it raised leaves a wake-up behind it.
LEMMA Wakeups == Spec => []WakeupInv
<1>1. Init => WakeupInv
  BY DEF Init, WakeupInv, PendingIsBacked
<1>2. TypeOK /\ WakeupInv /\ [Next]_vars => WakeupInv'
  <2> SUFFICES ASSUME TypeOK, WakeupInv, [Next]_vars
               PROVE  WakeupInv'
    OBVIOUS
  <2> USE DEF TypeOK, WakeupInv, PendingIsBacked, WakeupOwed, Committed
  <2>1. CASE LoopProgress
    <3>1. CASE LeaveLoop
      BY <3>1 DEF LeaveLoop
    <3>2. CASE EnterWait
      BY <3>2 DEF EnterWait
    <3>3. ASSUME NEW fds \in SUBSET Fds, EpollReturns(fds)
          PROVE  WakeupInv'
      BY <3>3 DEF EpollReturns
    <3>4. CASE NotifyRead
      BY <3>4 DEF NotifyRead
    <3>5. CASE NotifyClear
      BY <3>5 DEF NotifyClear
    <3>6. CASE IoHandled
      BY <3>6 DEF IoHandled
    <3>7. CASE EventsDone
      BY <3>7 DEF EventsDone
    <3>8. CASE LockDeferred
      BY <3>8 DEF LockDeferred
    <3>9. CASE RunDeferred
      BY <3>9 DEF RunDeferred
    <3>10. CASE FinishDeferred
      BY <3>10 DEF FinishDeferred
    <3>11. QED
      BY <2>1, <3>1, <3>2, <3>3, <3>4, <3>5, <3>6, <3>7, <3>8, <3>9, <3>10
         DEF LoopProgress
  <2>2. CASE Dispatch
    BY <2>2 DEF Dispatch
  <2>3. ASSUME NEW fds \in SUBSET Fds, EpollReturns(fds)
        PROVE  WakeupInv'
    BY <2>3 DEF EpollReturns
  <2>4. ASSUME NEW t \in Tasks, RunInline(t)
        PROVE  WakeupInv'
    BY <2>4 DEF RunInline
  <2>5. CASE BreakInline
    BY <2>5 DEF BreakInline, InUserCode
  <2>6. ASSUME NEW th \in Threads, ThreadProgress(th)
        PROVE  WakeupInv'
    <3>1. CASE LockQueue(th)
      BY <2>6, <3>1 DEF LockQueue
    <3>2. CASE PushTask(th)
      BY <2>6, <3>2 DEF PushTask
    <3>3. CASE LoadPending(th)
      BY <2>6, <3>3 DEF LoadPending
    <3>4. CASE StorePending(th)
      BY <2>6, <3>4 DEF StorePending
    <3>5. CASE WriteNotify(th)
      BY <2>6, <3>5 DEF WriteNotify
    <3>6. QED
      BY <2>6, <3>1, <3>2, <3>3, <3>4, <3>5 DEF ThreadProgress
  <2>7. ASSUME NEW th \in Threads, NEW t \in Tasks, RunInLoop(th, t)
        PROVE  WakeupInv'
    BY <2>7 DEF RunInLoop
  <2>8. ASSUME NEW th \in Threads, BreakLoop(th)
        PROVE  WakeupInv'
    BY <2>8 DEF BreakLoop
  <2>9. CASE UNCHANGED vars
    BY <2>9 DEF vars
  <2>10. QED
    BY <2>1, <2>2, <2>3, <2>4, <2>5, <2>6, <2>7, <2>8, <2>9
       DEF Next, LoopNext, ThreadNext
<1>3. QED
  BY <1>1, <1>2, Typing, PTL DEF Spec

\* The race on isNotifyPending_ between wakeup() and handleNotify() never puts
\* the loop to sleep with a task in its queue or with stop_ set and nobody
\* about to wake it, whatever the number of threads and calls.
THEOREM NoWakeupIsLost == Spec => []NoLostWakeup
<1>1. WakeupInv => NoLostWakeup
  BY DEF WakeupInv, NoLostWakeup
<1>2. QED
  BY <1>1, Wakeups, PTL

\* isNotifyPending_ is never left set with nobody to clear it.
THEOREM PendingAlwaysBacked == Spec => []PendingIsBacked
<1>1. WakeupInv => PendingIsBacked
  BY DEF WakeupInv
<1>2. QED
  BY <1>1, Wakeups, PTL

\* What was set to stop dispatch() stays set until it has returned: the reset
\* at its start, which QuitStopsTheLoop of EventLoopThread is about, is the only
\* one.
StopStays ==
    [][stop /\ loopPc # "out" => stop']_vars

\* With NoWakeupIsLost, by which the loop does not sleep through it either, what
\* can be said of breakLoop() without fairness.
THEOREM StopIsNotForgotten == Spec => StopStays
<1>1. [Next]_vars => (stop /\ loopPc # "out" => stop')
  BY DEF Next, LoopNext, LoopProgress, ThreadNext, ThreadProgress, vars,
         Dispatch, LeaveLoop, EnterWait, EpollReturns, NotifyRead, NotifyClear,
         IoHandled, EventsDone, LockDeferred, RunDeferred, FinishDeferred,
         RunInline, BreakInline, RunInLoop, LockQueue, PushTask, LoadPending,
         StorePending, WriteNotify, BreakLoop
<1>2. QED
  BY <1>1, PTL DEF Spec, StopStays

-----------------------------------------------------------------------------
(* How far the eventfd can be counted up.                                  *)

At(place) == {th \in Threads : pc[th] = place}

\* Between read() and the reset a thread can write at most twice more, after
\* it at most twice, and no thread does both; a raised flag stops those that
\* have not passed its test.
BoundInv ==
    LET writing == Cardinality(At("write"))
        storing == Cardinality(At("store"))
        n == Cardinality(Threads)
    IN  /\ loopPc = "clear" /\ NotPending => notifyfd + writing <= n
        /\ loopPc = "clear" /\ ~NotPending =>
               notifyfd + writing + storing <= 2 * n
        /\ loopPc # "clear" /\ NotPending => notifyfd + writing <= 2 * n
        /\ loopPc # "clear" /\ ~NotPending =>
               notifyfd + writing + storing <= 3 * n

\* The threads at a place are some of the threads.
LEMMA Counts ==
    ASSUME TypeOK
    PROVE  /\ Cardinality(Threads) \in Nat
           /\ \A place : IsFiniteSet(At(place)) /\ Cardinality(At(place)) \in Nat
           /\ Cardinality(At("write")) + Cardinality(At("store"))
                  <= Cardinality(Threads)
<1>1. \A place : IsFiniteSet(At(place)) /\ Cardinality(At(place)) \in Nat
  <2> SUFFICES ASSUME NEW place
               PROVE  IsFiniteSet(At(place)) /\ Cardinality(At(place)) \in Nat
    OBVIOUS
  <2>1. At(place) \subseteq Threads
    BY DEF At
  <2>2. QED
    BY <2>1, ConstantsOK, FS_Subset, FS_CardinalityType DEF ConstantsOK
<1>2. Cardinality(Threads) \in Nat
  BY ConstantsOK, FS_CardinalityType DEF ConstantsOK
<1>3. At("write") \cap At("store") = {}
  BY DEF At
<1>4. Cardinality(At("write") \cup At("store"))
          = Cardinality(At("write")) + Cardinality(At("store"))
  <2>1. Cardinality(At("write") \cap At("store")) = 0
    BY <1>3, FS_EmptySet
  <2>2. Cardinality(At("write") \cup At("store"))
          = Cardinality(At("write")) + Cardinality(At("store"))
                - Cardinality(At("write") \cap At("store"))
    BY <1>1, FS_Union
  <2>3. QED
    BY <1>1, <2>1, <2>2
<1>5. Cardinality(At("write") \cup At("store")) <= Cardinality(Threads)
  <2>1. At("write") \cup At("store") \subseteq Threads
    BY DEF At
  <2>2. QED
    BY <2>1, ConstantsOK, FS_Subset DEF ConstantsOK
<1>6. QED
  BY <1>1, <1>2, <1>4, <1>5

\* A thread that goes from one place to another changes two counts by one.
LEMMA CountsMove ==
    ASSUME TypeOK, NEW th \in Threads, NEW from, NEW to,
           from # to, pc[th] = from, Goto(th, to)
    PROVE  /\ Cardinality(At(from)') = Cardinality(At(from)) - 1
           /\ Cardinality(At(to)') = Cardinality(At(to)) + 1
<1>1. \A other \in Threads : pc'[other] = IF other = th THEN to ELSE pc[other]
  BY DEF TypeOK
<1>2. At(from)' = At(from) \ {th} /\ th \in At(from)
  BY <1>1 DEF At
<1>3. At(to)' = At(to) \cup {th} /\ th \notin At(to)
  BY <1>1 DEF At
<1>4. Cardinality(At(from)') = Cardinality(At(from)) - 1
  BY <1>2, Counts, FS_RemoveElement
<1>5. Cardinality(At(to)') = Cardinality(At(to)) + 1
  BY <1>3, Counts, FS_AddElement
<1>6. QED
  BY <1>4, <1>5

\* The steps that keep the eventfd, its flag and the threads that are about to
\* raise them: the loop may only come to read().
LEMMA QuietSteps ==
    ASSUME TypeOK, BoundInv, UNCHANGED wakeVars,
           At("write")' = At("write"), At("store")' = At("store"),
           loopPc' = "clear" <=> loopPc = "clear"
    PROVE  BoundInv'
BY DEF BoundInv

LEMMA WritesBounded == Spec => []BoundInv
<1>1. Init => BoundInv
  <2> SUFFICES ASSUME Init
               PROVE  BoundInv
    OBVIOUS
  <2>1. At("write") = {} /\ At("store") = {}
    BY DEF Init, At
  <2>2. Cardinality(Threads) \in Nat
    BY ConstantsOK, FS_CardinalityType DEF ConstantsOK
  <2>3. Cardinality(At("write")) = 0 /\ Cardinality(At("store")) = 0
    BY <2>1, FS_EmptySet
  <2>4. QED
    BY <2>2, <2>3 DEF Init, BoundInv
<1>2. TypeOK /\ TypeOK' /\ BoundInv /\ [Next]_vars => BoundInv'
  <2> SUFFICES ASSUME TypeOK, TypeOK', BoundInv, [Next]_vars
               PROVE  BoundInv'
    OBVIOUS
  <2>1. /\ Cardinality(Threads) \in Nat /\ notifyfd \in Nat
        /\ Cardinality(At("write")) \in Nat
        /\ Cardinality(At("store")) \in Nat
        /\ Cardinality(At("write")) + Cardinality(At("store"))
               <= Cardinality(Threads)
    BY Counts DEF TypeOK
  <2>2. CASE NotifyRead
    <3>1. At("write")' = At("write") /\ At("store")' = At("store")
      BY <2>2 DEF NotifyRead, At
    <3>2. QED
      BY <2>1, <2>2, <3>1 DEF NotifyRead, BoundInv
  <2>3. CASE NotifyClear
    <3>1. At("write")' = At("write") /\ At("store")' = At("store")
      BY <2>3 DEF NotifyClear, At
    <3>2. QED
      BY <2>1, <2>3, <3>1 DEF NotifyClear, BoundInv
  <2>4. ASSUME NEW th \in Threads, LoadPending(th)
        PROVE  BoundInv'
    <3>1. CASE NotPending
      <4>1. pc[th] = "load" /\ Goto(th, "store")
        BY <2>4, <3>1 DEF LoadPending
      <4>2. At("write")' = At("write")
        BY <4>1 DEF At, TypeOK
      <4>3. QED
        BY <2>4, <3>1, <4>2 DEF LoadPending, BoundInv
    <3>2. CASE ~NotPending
      <4>1. pc[th] = "load" /\ Goto(th, "idle")
        BY <2>4, <3>2 DEF LoadPending
      <4>2. At("write")' = At("write") /\ At("store")' = At("store")
        BY <4>1 DEF At, TypeOK
      <4>3. QED
        BY <2>4, <4>2, QuietSteps DEF LoadPending
    <3>3. QED
      BY <3>1, <3>2
  <2>5. ASSUME NEW th \in Threads, StorePending(th)
        PROVE  BoundInv'
    <3>1. pc[th] = "store" /\ Goto(th, "write")
      BY <2>5 DEF StorePending
    <3>2. /\ Cardinality(At("store")') = Cardinality(At("store")) - 1
          /\ Cardinality(At("write")') = Cardinality(At("write")) + 1
      BY <3>1, CountsMove
    <3>3. UNCHANGED <<loopPc, notifyfd>> /\ ~NotPending'
      BY <2>5 DEF StorePending
    <3>4. QED
      BY <2>1, <3>2, <3>3 DEF BoundInv
  <2>6. ASSUME NEW th \in Threads, WriteNotify(th)
        PROVE  BoundInv'
    <3>1. pc[th] = "write" /\ Goto(th, "idle")
      BY <2>6 DEF WriteNotify
    <3>2. Cardinality(At("write")') = Cardinality(At("write")) - 1
      BY <3>1, CountsMove
    <3>3. At("store")' = At("store")
      BY <3>1 DEF At, TypeOK
    <3>4. /\ UNCHANGED <<loopPc, isNotifyPending>>
          /\ notifyfd' = notifyfd + 1
      BY <2>6 DEF WriteNotify
    <3>5. QED
      BY <2>1, <3>2, <3>3, <3>4 DEF BoundInv
  <2>7. ASSUME NEW th \in Threads, PushTask(th) \/ LockQueue(th)
        PROVE  BoundInv'
    <3>1. /\ \/ pc[th] = "push" /\ Goto(th, "load")
             \/ pc[th] = "lock" /\ Goto(th, "push")
          /\ UNCHANGED <<loopPc, wakeVars>>
      BY <2>7 DEF PushTask, LockQueue
    <3>2. At("write")' = At("write") /\ At("store")' = At("store")
      BY <3>1 DEF At, TypeOK
    <3>3. QED
      BY <3>1, <3>2, QuietSteps
  <2>8. ASSUME NEW th \in Threads, NEW t \in Tasks, RunInLoop(th, t)
        PROVE  BoundInv'
    <3>1. pc[th] = "idle" /\ Goto(th, "lock")
      BY <2>8 DEF RunInLoop
    <3>2. At("write")' = At("write") /\ At("store")' = At("store")
      BY <3>1 DEF At, TypeOK
    <3>3. QED
      BY <2>8, <3>2, QuietSteps DEF RunInLoop
  <2>9. ASSUME NEW th \in Threads, BreakLoop(th)
        PROVE  BoundInv'
    <3>1. /\ \/ pc[th] = "idle" /\ Goto(th, "load")
             \/ UNCHANGED pc
          /\ UNCHANGED <<loopPc, wakeVars>>
      BY <2>9 DEF BreakLoop
    <3>2. At("write")' = At("write") /\ At("store")' = At("store")
      <4>1. CASE UNCHANGED pc
        BY <4>1 DEF At
      <4>2. CASE pc[th] = "idle" /\ Goto(th, "load")
        BY <4>2 DEF At, TypeOK
      <4>3. QED
        BY <3>1, <4>1, <4>2
    <3>3. QED
      BY <3>1, <3>2, QuietSteps
  <2>10. CASE /\ UNCHANGED <<wakeVars, pc>>
              /\ loopPc' = "clear" <=> loopPc = "clear"
    BY <2>10, QuietSteps DEF At
  <2>11. QED
    BY <2>2, <2>3, <2>4, <2>5, <2>6, <2>7, <2>8, <2>9, <2>10
       DEF Next, LoopNext, LoopProgress, ThreadNext, ThreadProgress, vars,
           Dispatch, LeaveLoop, EnterWait, EpollReturns, IoHandled, EventsDone,
           LockDeferred, RunDeferred, FinishDeferred, RunInline, BreakInline
<1>3. QED
  BY <1>1, <1>2, Typing, PTL DEF Spec

\* The counter of the eventfd is bounded by the number of threads, whatever the
\* number of calls.
THEOREM NotifyIsBounded == Spec => []NotifyBounded
<1>1. TypeOK /\ BoundInv => NotifyBounded
  <2> SUFFICES ASSUME TypeOK, BoundInv
               PROVE  NotifyBounded
    OBVIOUS
  <2>1. notifyfd \in Nat
    BY DEF TypeOK
  <2>2. QED
    BY <2>1, Counts DEF BoundInv, NotifyBounded
<1>2. QED
  BY <1>1, WritesBounded, Typing, PTL

-----------------------------------------------------------------------------
\* The steps that are not the queue's, nor those of a call of runInLoop().
LEMMA OtherSteps ==
    ASSUME [Next]_vars,
           ~RunDeferred, ~FinishDeferred,
           \A t \in Tasks : ~RunInline(t),
           \A th \in Threads : ~PushTask(th)
    PROVE  UNCHANGED <<deferredQueue, nextTask, ran>>
BY DEF Next, LoopNext, LoopProgress, ThreadNext, ThreadProgress, vars,
       Dispatch, LeaveLoop, EnterWait, EpollReturns, NotifyRead, NotifyClear,
       IoHandled, EventsDone, LockDeferred, BreakInline, RunInLoop, LockQueue,
       LoadPending, StorePending, WriteNotify, BreakLoop

\* They do not move a task either, unless they hand one over.
LEMMA OtherStepsMoveNoTask ==
    ASSUME TypeOK, [Next]_vars,
           \A t \in Tasks : ~RunInline(t),
           \A th \in Threads, t \in Tasks : ~RunInLoop(th, t),
           \A th \in Threads : ~PushTask(th)
    PROVE  /\ UNCHANGED <<fresh, task>>
           /\ \A th \in Threads : Carries(th)' <=> Carries(th)
BY DEF Next, LoopNext, LoopProgress, ThreadNext, ThreadProgress, vars,
       Dispatch, LeaveLoop, EnterWait, EpollReturns, NotifyRead, NotifyClear,
       IoHandled, EventsDone, LockDeferred, RunDeferred, FinishDeferred,
       BreakInline, LockQueue, LoadPending, StorePending, WriteNotify, BreakLoop,
       Carries, TypeOK

\* A task is never in two places, so no call's task can enter the queue twice
\* or be started again.
LEMMA TasksInOnePlace == Spec => []TaskInv
<1>1. Init => TaskInv
  BY DEF Init, TaskInv, Carries, Elems
<1>2. TypeOK /\ CarryInv /\ TaskInv /\ [Next]_vars => TaskInv'
  <2> SUFFICES ASSUME TypeOK, CarryInv, TaskInv, [Next]_vars
               PROVE  TaskInv'
    OBVIOUS
  <2>1. CASE RunDeferred
    <3>1. nextTask \in 1 .. Len(deferredQueue)
      BY <2>1, LenProperties DEF RunDeferred, TypeOK
    <3>2. /\ deferredQueue[nextTask] \in Tasks
          /\ deferredQueue[nextTask] \in Elems(deferredQueue)
      BY <3>1, ElementOfSeq, LenProperties DEF TypeOK, Elems
    <3>3. Elems(ran)' = Elems(ran) \cup {deferredQueue[nextTask]}
      BY <2>1, <3>2, ElemsAppend DEF RunDeferred, TypeOK
    <3>4. QED
      BY <2>1, <3>2, <3>3 DEF RunDeferred, TaskInv, Carries
  <2>2. CASE FinishDeferred
    <3>1. Elems(deferredQueue)' = {}
      BY <2>2 DEF FinishDeferred, Elems
    <3>2. QED
      BY <2>2, <3>1 DEF FinishDeferred, TaskInv, Carries, Elems
  <2>3. ASSUME NEW t \in Tasks, RunInline(t)
        PROVE  TaskInv'
    <3>1. Elems(ran)' = Elems(ran) \cup {t}
      BY <2>3, ElemsAppend DEF RunInline, TypeOK
    <3>2. QED
      BY <2>3, <3>1 DEF RunInline, TaskInv, Carries, Elems
  <2>4. ASSUME NEW th \in Threads, PushTask(th)
        PROVE  TaskInv'
    <3>1. Carries(th) /\ task[th] \in Tasks
      BY <2>4 DEF PushTask, Carries, CarryInv
    <3>2. Elems(deferredQueue)' = Elems(deferredQueue) \cup {task[th]}
      BY <2>4, <3>1, ElemsAppend DEF PushTask, TypeOK
    <3>3. \A other \in Threads :
              Carries(other)' <=> Carries(other) /\ other # th
      BY <2>4 DEF PushTask, Carries, TypeOK
    <3>4. \A other \in Threads : other # th => task'[other] = task[other]
      BY <2>4 DEF PushTask, TypeOK
    <3>5. UNCHANGED <<fresh, ran>>
      BY <2>4 DEF PushTask
    <3>6. QED
      BY <3>1, <3>2, <3>3, <3>4, <3>5 DEF TaskInv, Elems
  <2>5. ASSUME NEW th \in Threads, NEW t \in Tasks, RunInLoop(th, t)
        PROVE  TaskInv'
    <3>1. \A other \in Threads :
              Carries(other)' <=> Carries(other) \/ other = th
      BY <2>5 DEF RunInLoop, Carries, TypeOK
    <3>2. task'[th] = t
      BY <2>5 DEF RunInLoop, TypeOK
    <3>3. \A other \in Threads : other # th => task'[other] = task[other]
      BY <2>5 DEF RunInLoop, TypeOK
    <3>4. UNCHANGED <<deferredQueue, ran>> /\ fresh' = fresh \ {t} /\ t \in fresh
      BY <2>5 DEF RunInLoop
    <3>5. QED
      BY <3>1, <3>2, <3>3, <3>4 DEF TaskInv, Elems
  <2>6. CASE /\ UNCHANGED <<deferredQueue, ran, fresh, task>>
             /\ \A th \in Threads : Carries(th)' <=> Carries(th)
    BY <2>6 DEF TaskInv, Elems
  <2>7. QED
    BY <2>1, <2>2, <2>3, <2>4, <2>5, <2>6, OtherSteps, OtherStepsMoveNoTask
<1>3. QED
  BY <1>1, <1>2, Typing, PTL DEF Spec

-----------------------------------------------------------------------------
\* What TaskQueue calls pending: the tasks the iterator has not reached.
Pending == SubSeq(deferredQueue, nextTask, Len(deferredQueue))

\* The part of a queue that waits holds no task the queue does not hold.
LEMMA PendingProperties ==
    ASSUME TypeOK
    PROVE  /\ nextTask > Len(deferredQueue) => Pending = <<>>
           /\ nextTask = 1 => Pending = deferredQueue
           /\ Elems(Pending) \subseteq Elems(deferredQueue)
<1> USE DEF TypeOK, Pending
<1>1. /\ Len(deferredQueue) \in Nat
      /\ DOMAIN deferredQueue = 1 .. Len(deferredQueue)
      /\ nextTask \in Int /\ nextTask >= 1
  BY LenProperties
<1>2. nextTask > Len(deferredQueue) => Pending = <<>>
  BY <1>1, SubSeqEmpty
<1>3. nextTask = 1 => Pending = deferredQueue
  BY SubSeqFull
<1>4. ASSUME NEW x \in Elems(Pending)
      PROVE  x \in Elems(deferredQueue)
  <2>1. \A i \in nextTask .. Len(deferredQueue) : deferredQueue[i] \in Tasks
    BY <1>1, ElementOfSeq
  <2>2. /\ Pending \in Seq(Tasks)
        /\ Len(Pending) = IF nextTask <= Len(deferredQueue)
                          THEN Len(deferredQueue) - nextTask + 1 ELSE 0
        /\ \A i \in 1 .. Len(deferredQueue) - nextTask + 1 :
               Pending[i] = deferredQueue[nextTask + i - 1]
    BY <1>1, <2>1, SubSeqProperties
  <2>3. PICK i \in 1 .. Len(Pending) : x = Pending[i]
    BY <1>4, <2>2, LenProperties DEF Elems
  <2>4. /\ nextTask + i - 1 \in DOMAIN deferredQueue
        /\ x = deferredQueue[nextTask + i - 1]
    BY <1>1, <2>2, <2>3
  <2>5. QED
    BY <2>4 DEF Elems
<1>5. QED
  BY <1>2, <1>3, <1>4

\* The loop with its mutex, flag and eventfd runs the deferred tasks as the
\* abstract queue does: each at most once, in the order in which they entered.
THEOREM LoopImplementsTaskQueue == Spec => ImplementsTaskQueue
<1>1. Init => TQ!Init
  BY SubSeqEmpty, EmptySeq DEF Init, TQ!Init
<1>2. /\ TypeOK /\ CarryInv /\ MutexInv /\ IndexInv /\ TaskInv
      /\ [Next]_vars
      => [TQ!Next]_TQ!qvars
  <2> SUFFICES ASSUME TypeOK, CarryInv, MutexInv, IndexInv, TaskInv,
                      [Next]_vars
               PROVE  TQ!Next \/ (Pending' = Pending /\ ran' = ran)
    BY DEF TQ!qvars, Pending
  <2>1. CASE RunDeferred
    <3>1. /\ Len(deferredQueue) \in Nat
          /\ nextTask \in 1 .. Len(deferredQueue)
          /\ Len(deferredQueue) \in nextTask .. Len(deferredQueue)
      BY <2>1, LenProperties DEF RunDeferred, TypeOK
    <3>2. /\ Head(Pending) = deferredQueue[nextTask]
          /\ Tail(Pending) = SubSeq(deferredQueue, nextTask + 1, Len(deferredQueue))
      BY <3>1, HeadTailOfSubSeq DEF TypeOK, Pending
    <3>3. Pending # <<>>
      <4>1. \A i \in nextTask .. Len(deferredQueue) : deferredQueue[i] \in Tasks
        BY <3>1, ElementOfSeq DEF TypeOK
      <4>2. Len(Pending) = Len(deferredQueue) - nextTask + 1
        BY <3>1, <4>1, SubSeqProperties DEF Pending
      <4>3. Len(Pending) # 0
        BY <3>1, <4>2
      <4>4. QED
        BY <4>3, EmptySeq
    <3>4. /\ ran' = Append(ran, Head(Pending))
          /\ Pending' = Tail(Pending)
      BY <2>1, <3>2 DEF RunDeferred, Pending
    <3>5. TQ!RunNext
      BY <3>3, <3>4 DEF TQ!RunNext, Pending
    <3>6. QED
      BY <3>5 DEF TQ!Next
  <2>2. CASE FinishDeferred
    <3>1. Pending = <<>>
      BY <2>2, PendingProperties DEF FinishDeferred
    <3>2. Pending' = <<>>
      BY <2>2, SubSeqEmpty, EmptySeq DEF FinishDeferred, Pending
    <3>3. QED
      BY <2>2, <3>1, <3>2 DEF FinishDeferred
  <2>3. ASSUME NEW t \in Tasks, RunInline(t)
        PROVE  TQ!RunNow(t)
    <3>1. t \notin Elems(Pending) /\ t \notin Elems(ran)
      BY <2>3, PendingProperties DEF RunInline, TaskInv
    <3>2. Pending' = Pending /\ ran' = Append(ran, t)
      BY <2>3 DEF RunInline, Pending
    <3>3. QED
      BY <3>1, <3>2 DEF TQ!RunNow, TQ!Unused, TQ!Elems, Elems, Pending
  <2>4. ASSUME NEW th \in Threads, PushTask(th)
        PROVE  TQ!Defer(task[th])
    <3>1. Carries(th) /\ task[th] \in Tasks
      BY <2>4 DEF PushTask, Carries, CarryInv
    <3>2. nextTask = 1 /\ nextTask' = 1
      BY <2>4, ConstantsOK DEF PushTask, MutexInv, IndexInv, ConstantsOK
    <3>3. Pending = deferredQueue
      BY <3>2, PendingProperties
    <3>4. Pending' = Append(deferredQueue, task[th])
      BY <2>4, <3>1, <3>2, AppendProperties, SubSeqFull
         DEF PushTask, Pending, TypeOK
    <3>5. task[th] \notin Elems(Pending) /\ task[th] \notin Elems(ran)
      BY <3>1, <3>3 DEF TaskInv
    <3>6. ran' = ran
      BY <2>4 DEF PushTask
    <3>7. QED
      BY <3>3, <3>4, <3>5, <3>6 DEF TQ!Defer, TQ!Unused, TQ!Elems, Elems, Pending
  <2>5. CASE UNCHANGED <<deferredQueue, nextTask, ran>>
    BY <2>5 DEF Pending
  <2>6. QED
    <3>1. (\E t \in Tasks : RunInline(t)) => TQ!Next
      BY <2>3 DEF TQ!Next
    <3>2. (\E th \in Threads : PushTask(th)) => TQ!Next
      BY <2>4 DEF TQ!Next, PushTask, CarryInv, Carries
    <3>3. QED
      BY <2>1, <2>2, <2>5, <3>1, <3>2, OtherSteps
<1>3. QED
  BY <1>1, <1>2, Typing, Exclusion, TasksInOnePlace, PTL
     DEF Spec, ImplementsTaskQueue, TQ!Spec

-----------------------------------------------------------------------------
(* EventLoopThread.  Both sides of the hand-over keep their own state: the *)
(* owner where it is in start() and quit(), the new thread where it is in  *)
(* its function.  The inductive invariant ties pLoop_, the life of the     *)
(* loop and isRunning_ to the place of the new thread, which makes what    *)
(* the owner may rely on a matter of pLoop_ alone.                         *)

\* What pLoop_, the loop's life and isRunning_ say of the new thread, and that
\* the owner leaves start() with pLoop_ set only.
HandoverInv ==
    /\ ownerPc = "new" => threadPc = "none"
    /\ pLoopSet <=> threadPc \in {"dispatch", "looping", "return", "finished"}
    /\ loopAlive <=> threadPc \in {"lock", "publish", "dispatch", "looping",
                                   "return"}
    /\ threadPc \notin {"none", "created"} => isRunning
    /\ StartDone => pLoopSet

\* The steps of EventLoop leave the hand-over alone.
USE DEF flags, threadVars, lock, unlock, LoopKnown, notify

\* The variables of the hand-over.
OwnTypeOK ==
    /\ {running, pLoopSet, isRunning, loopAlive, crashed} \subseteq BOOLEAN
    /\ handover \in {Owner, LoopThread, NoThread}
    /\ ownerPc \in OwnerPcs
    /\ threadPc \in FuncPcs

LEMMA OwnTyping == EltSpec => []OwnTypeOK
<1>1. EltInit => OwnTypeOK
  BY DEF EltInit, OwnTypeOK, OwnerPcs, FuncPcs
<1>2. OwnTypeOK /\ [EltNext]_eltVars => OwnTypeOK'
  <2> SUFFICES ASSUME OwnTypeOK, [EltNext]_eltVars PROVE OwnTypeOK'
    OBVIOUS
  <2> USE DEF OwnTypeOK
  <2>1. CASE Start \/ SpuriousWakeup \/ UseStalePointer
    BY <2>1 DEF Start, SpuriousWakeup, UseStalePointer, Crash, OwnerPcs,
        FuncPcs
  <2>2. CASE StartProgress
    BY <2>2 DEF StartProgress, LockStart, WaitForLoop, StartReturns, OwnerPcs
  <2>3. CASE LoopThreadProgress
    <3>1. CASE RunInThread \/ ConstructLoop \/ LockPublish \/ PublishLoop
      BY <3>1 DEF RunInThread, ConstructLoop, LockPublish, PublishLoop,
          OwnerPcs, FuncPcs
    <3>2. CASE EnterDispatch \/ DispatchStep \/ ThreadReturns
      BY <3>2 DEF EnterDispatch, DispatchStep, ThreadReturns, FuncPcs
    <3> QED BY <2>3, <3>1, <3>2 DEF LoopThreadProgress
  <2>4. CASE DispatchCallback
    BY <2>4 DEF DispatchCallback
  <2>5. CASE Quit \/ QuitProgress
    BY <2>5 DEF Quit, QuitProgress, Join, QuitReturns, OwnerPcs
  <2>6. ASSUME NEW th \in Threads, CallProgress(th) PROVE OwnTypeOK'
    BY <2>6 DEF CallProgress, InCall, LoopGoneInCall, Crash
  <2>7. ASSUME NEW th \in Threads, NEW t \in Tasks, CallRunInLoop(th, t)
        PROVE  OwnTypeOK'
    BY <2>7 DEF CallRunInLoop
  <2>8. CASE UNCHANGED eltVars
    BY <2>8 DEF eltVars
  <2> QED BY <2>1, <2>2, <2>3, <2>4, <2>5, <2>6, <2>7, <2>8 DEF EltNext
<1> QED BY <1>1, <1>2, PTL DEF EltSpec

LEMMA HandoverInit == EltInit => HandoverInv
BY DEF EltInit, HandoverInv, StartDone

\* Every step keeps the hand-over in order.
LEMMA HandoverStep == HandoverInv /\ [EltNext]_eltVars => HandoverInv'
<1> SUFFICES ASSUME HandoverInv, [EltNext]_eltVars PROVE HandoverInv'
  OBVIOUS
<1>1. CASE Start
  BY <1>1 DEF Start, HandoverInv, StartDone
<1>2. CASE StartProgress
  BY <1>2 DEF StartProgress, LockStart, WaitForLoop, StartReturns,
      HandoverInv, StartDone
<1>3. CASE SpuriousWakeup
  BY <1>3 DEF SpuriousWakeup, HandoverInv, StartDone
<1>4. CASE LoopThreadProgress
  <2>1. CASE RunInThread \/ ConstructLoop \/ LockPublish \/ ThreadReturns
    BY <2>1 DEF RunInThread, ConstructLoop, LockPublish, ThreadReturns,
        HandoverInv, StartDone
  <2>2. CASE PublishLoop
    BY <2>2 DEF PublishLoop, HandoverInv, StartDone
  <2>3. CASE EnterDispatch
    BY <2>3 DEF EnterDispatch, HandoverInv, StartDone
  <2>4. CASE DispatchStep
    BY <2>4 DEF DispatchStep, HandoverInv, StartDone
  <2> QED BY <1>4, <2>1, <2>2, <2>3, <2>4 DEF LoopThreadProgress
<1>5. CASE DispatchCallback
  BY <1>5 DEF DispatchCallback, HandoverInv, StartDone
<1>6. CASE UseStalePointer
  BY <1>6 DEF UseStalePointer, Crash, HandoverInv, StartDone
<1>7. CASE Quit
  BY <1>7 DEF Quit, HandoverInv, StartDone
<1>8. CASE QuitProgress
  BY <1>8 DEF QuitProgress, Join, QuitReturns, HandoverInv, StartDone
<1>9. ASSUME NEW th \in Threads, CallProgress(th) PROVE HandoverInv'
  BY <1>9 DEF CallProgress, InCall, LoopGoneInCall, Crash, HandoverInv,
      StartDone
<1>10. ASSUME NEW th \in Threads, NEW t \in Tasks, CallRunInLoop(th, t)
       PROVE HandoverInv'
  BY <1>10 DEF CallRunInLoop, HandoverInv, StartDone
<1>11. CASE UNCHANGED eltVars
  BY <1>11 DEF eltVars, HandoverInv, StartDone
<1> QED
  BY <1>1, <1>2, <1>3, <1>4, <1>5, <1>6, <1>7, <1>8, <1>9, <1>10, <1>11
  DEF EltNext

THEOREM HandoverInOrder == EltSpec => []HandoverInv
BY HandoverInit, HandoverStep, PTL DEF EltSpec

\* start() never returns before the loop exists, whatever the two threads'
\* speed and however often the wait ends without a signal; and the assert of
\* join(), which quit() calls, holds.
THEOREM StartReturnsTheLoop == EltSpec => []StartReturnsALoop
<1>1. HandoverInv => StartReturnsALoop
  BY DEF HandoverInv, StartReturnsALoop
<1> QED BY <1>1, HandoverInOrder, PTL

\* Who holds EventLoopThread::mutex_, and who has seen pLoop_ under it.
HandoverLockInv ==
    /\ handover = Owner <=> ownerPc = "check"
    /\ handover = LoopThread <=> threadPc = "publish"
    /\ threadPc = "none" <=> ownerPc = "new"
    /\ ownerPc = "waiting" =>
           threadPc \in {"created", "construct", "lock", "publish"}

\* While the owner waits in start(), the new thread has its notify() still to
\* make, and mutex_ is not in its way: it is free, or the thread has it.
WaitIsForNotify ==
    ownerPc = "waiting" =>
        \/ threadPc \in {"created", "construct", "lock"} /\ handover = NoThread
        \/ threadPc = "publish" /\ handover = LoopThread

\* The notify() cannot come before the wait it is to end: the owner never waits
\* for a thread that has published its loop, nor keeps it from doing so.
THEOREM OwnerWaitsForNotify == EltSpec => []WaitIsForNotify
<1>1. EltInit => HandoverLockInv
  BY ConstantsOK, OwnerOK DEF ConstantsOK, EltInit, HandoverLockInv
<1>2. HandoverInv /\ OwnTypeOK /\ HandoverLockInv /\ [EltNext]_eltVars
        => HandoverLockInv'
  <2> SUFFICES ASSUME HandoverInv, OwnTypeOK, HandoverLockInv,
                      [EltNext]_eltVars
               PROVE  HandoverLockInv'
    OBVIOUS
  <2> USE ConstantsOK, OwnerOK DEF ConstantsOK, HandoverLockInv
  <2>1. CASE Start \/ SpuriousWakeup \/ UseStalePointer
    <3>1. CASE Start
      BY <3>1 DEF Start, HandoverInv
    <3>2. CASE SpuriousWakeup
      BY <3>2 DEF SpuriousWakeup
    <3>3. CASE UseStalePointer
      BY <3>3 DEF UseStalePointer, Crash
    <3> QED BY <2>1, <3>1, <3>2, <3>3
  <2>2. CASE StartProgress
    <3>1. CASE WaitForLoop
      BY <3>1 DEF WaitForLoop, HandoverInv, OwnTypeOK, FuncPcs
    <3>2. CASE LockStart \/ StartReturns
      BY <3>2 DEF LockStart, StartReturns
    <3> QED BY <2>2, <3>1, <3>2 DEF StartProgress
  <2>3. CASE LoopThreadProgress
    <3>1. CASE RunInThread \/ ConstructLoop \/ LockPublish \/ PublishLoop
      BY <3>1 DEF RunInThread, ConstructLoop, LockPublish, PublishLoop,
          HandoverInv
    <3>2. CASE EnterDispatch \/ DispatchStep \/ ThreadReturns
      BY <3>2 DEF EnterDispatch, DispatchStep, ThreadReturns
    <3> QED BY <2>3, <3>1, <3>2 DEF LoopThreadProgress
  <2>4. CASE DispatchCallback
    BY <2>4 DEF DispatchCallback
  <2>5. CASE Quit \/ QuitProgress
    BY <2>5 DEF Quit, QuitProgress, Join, QuitReturns
  <2>6. ASSUME NEW th \in Threads, CallProgress(th) PROVE HandoverLockInv'
    BY <2>6 DEF CallProgress, InCall, LoopGoneInCall, Crash
  <2>7. ASSUME NEW th \in Threads, NEW t \in Tasks, CallRunInLoop(th, t)
        PROVE  HandoverLockInv'
    BY <2>7 DEF CallRunInLoop
  <2>8. CASE UNCHANGED eltVars
    BY <2>8 DEF eltVars
  <2> QED BY <2>1, <2>2, <2>3, <2>4, <2>5, <2>6, <2>7, <2>8 DEF EltNext
<1>3. OwnTypeOK /\ HandoverLockInv => WaitIsForNotify
  BY ConstantsOK, OwnerOK
  DEF ConstantsOK, OwnTypeOK, HandoverLockInv, WaitIsForNotify
<1> QED BY <1>1, <1>2, <1>3, OwnTyping, HandoverInOrder, PTL DEF EltSpec

-----------------------------------------------------------------------------
(* The loop inside the thread.                                             *)

\* A step of the composition is a step of the loop, made by a thread that may
\* make it, or leaves the loop alone: join()'s assert is the only other place
\* that could end the process, and it holds.
LEMMA LoopStep == HandoverInv /\ [EltNext]_eltVars => [Next]_vars
<1> SUFFICES ASSUME HandoverInv, [EltNext]_eltVars PROVE [Next]_vars
  OBVIOUS
<1>1. ~aborted \/ UNCHANGED eltVars
  BY DEF EltNext
<1>2. CASE UNCHANGED vars
  BY <1>2
<1>3. CASE LoopThreadProgress /\ ~aborted
  <2>1. CASE EnterDispatch
    BY <1>3, <2>1 DEF EnterDispatch, Next, LoopNext
  <2>2. CASE DispatchStep
    BY <1>3, <2>2 DEF DispatchStep, Next, LoopNext
  <2> QED
    BY <1>2, <1>3, <2>1, <2>2 DEF LoopThreadProgress, RunInThread,
        ConstructLoop, LockPublish, PublishLoop, ThreadReturns
<1>4. CASE DispatchCallback /\ ~aborted
  BY <1>4 DEF DispatchCallback, Next, LoopNext
<1>5. CASE Quit /\ ~aborted
  BY <1>5, OwnerOK DEF Quit, Next, ThreadNext
<1>6. CASE QuitProgress /\ ~aborted
  <2>1. CASE Join
    <3>1. isRunning
      BY <2>1 DEF Join, HandoverInv, StartDone
    <3>2. UNCHANGED vars
      BY <1>6, <2>1, <3>1 DEF Join, vars
    <3> QED BY <1>2, <3>2
  <2> QED BY <1>2, <1>6, <2>1 DEF QuitProgress, QuitReturns
<1>7. ASSUME NEW th \in Threads, CallProgress(th), ~aborted
      PROVE  [Next]_vars
  BY <1>2, <1>7 DEF CallProgress, InCall, LoopGoneInCall, Crash, Next,
      ThreadNext
<1>8. ASSUME NEW th \in Threads, NEW t \in Tasks, CallRunInLoop(th, t), ~aborted
      PROVE  [Next]_vars
  BY <1>8 DEF CallRunInLoop, Next, ThreadNext
<1>9. CASE Start \/ StartProgress \/ SpuriousWakeup \/ UseStalePointer
  BY <1>2, <1>9 DEF Start, StartProgress, LockStart, WaitForLoop, StartReturns,
      SpuriousWakeup, UseStalePointer, Crash
<1> QED
  BY <1>1, <1>2, <1>3, <1>4, <1>5, <1>6, <1>7, <1>8, <1>9 DEF EltNext, eltVars

\* Start, quit and the hand-over add nothing to what the loop may do: the
\* loop inside the thread is an EventLoop.
THEOREM LoopIsAnEventLoop == EltSpec => Spec
<1>1. EltInit => Init
  BY DEF EltInit
<1> QED BY <1>1, LoopStep, HandoverInOrder, PTL DEF EltSpec, Spec

-----------------------------------------------------------------------------
(* What is proved of EventLoop holds of the loop inside the thread.        *)

\* The loop of an EventLoopThread never sleeps with a task in its queue, or
\* with stop_ set by quit(), and nobody about to wake it.
THEOREM NoWakeupIsLostInThread == EltSpec => []NoLostWakeup
BY LoopIsAnEventLoop, NoWakeupIsLost, PTL

\* It runs the tasks handed to it once each, in the order in which they entered
\* its queue, from its construction to its destruction.
THEOREM ThreadRunsTasksInOrder == EltSpec => ImplementsTaskQueue
BY LoopIsAnEventLoop, LoopImplementsTaskQueue, PTL

\* Every variable of EventLoopThread keeps its type: those of the loop because
\* it is an EventLoop.
THEOREM ThreadTypeCorrect == EltSpec => []EltTypeOK
<1>1. OwnTypeOK /\ TypeOK => EltTypeOK
  BY DEF OwnTypeOK, EltTypeOK
<1> QED BY <1>1, OwnTyping, TypeCorrect, LoopIsAnEventLoop, PTL
=============================================================================
