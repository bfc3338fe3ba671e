----------------------------- MODULE EventLoop -----------------------------
(***************************************************************************)
(* One EventLoop: the thread that runs dispatch(), and the other threads   *)
(* that hand tasks to it with runInLoop() and, in a build without assert,  *)
(* stop it with breakLoop().                                               *)
(*                                                                         *)
(* The threads share four things: deferredQueue_, guarded by mutex_, and   *)
(* stop_, isNotifyPending_ and the eventfd, guarded by nothing.  A step of *)
(* the model is one access to an unguarded variable, or one change of the  *)
(* mutex's owner with the work done up to the next such access.            *)
(*                                                                         *)
(* User code (event callbacks, timer callbacks, tasks) runs on the loop's  *)
(* thread at the places InUserCode names; of what it may do, the model     *)
(* keeps the calls that act on the state above: runInLoop() and            *)
(* breakLoop() made on the loop's own thread.                              *)
(***************************************************************************)
EXTENDS Naturals, Sequences, FiniteSets

CONSTANTS
    Threads,     \* threads other than the loop's own
    Quitters,    \* those of them that call breakLoop()
    Tasks,       \* one Task per call of runInLoop(): bounds the calls
    LoopThread,  \* the thread that constructed the loop
    NoThread,    \* mutex_ is free
    NoTask,
    NDebug       \* TRUE: assert() is compiled out

ASSUME ConstantsOK ==
    /\ IsFiniteSet(Threads)
    /\ Quitters \subseteq Threads
    /\ LoopThread \notin Threads
    /\ NoThread \notin Threads \cup {LoopThread}
    /\ NoTask \notin Tasks
    /\ NDebug \in BOOLEAN

VARIABLES
    stop,             \* stop_
    isNotifyPending,  \* isNotifyPending_
    notifyfd,         \* the counter of the eventfd
    mutex,            \* the thread that owns mutex_
    deferredQueue,    \* deferredQueue_
    nextTask,         \* the iterator of runDeferredTasks()
    activeEvents,     \* what is left to handle of activeEvents_
    loopPc,           \* where the loop's thread is
    pc,               \* where each other thread is
    task,             \* the task a thread carries into runInLoop()
    fresh,            \* tasks not handed to runInLoop() yet
    ran,              \* history: tasks in the order they were started
    aborted           \* an assert() failed and ended the process

loopVars == <<stop, activeEvents, loopPc>>
wakeVars == <<isNotifyPending, notifyfd>>
queueVars == <<mutex, deferredQueue, nextTask, ran>>
callVars == <<pc, task, fresh, aborted>>
vars == <<loopVars, wakeVars, queueVars, callVars>>

LoopPcs == {"out", "test", "wait", "events", "clear", "timers", "run"}
ThreadPcs == {"idle", "lock", "push", "load", "store", "write"}
Fds == {"notify", "io"}

Elems(s) == {s[i] : i \in DOMAIN s}

TypeOK ==
    /\ stop \in BOOLEAN
    /\ isNotifyPending \in {0, 1}
    /\ notifyfd \in Nat
    /\ mutex \in Threads \cup {LoopThread, NoThread}
    /\ deferredQueue \in Seq(Tasks)
    /\ nextTask \in 1 .. Len(deferredQueue) + 1
    /\ activeEvents \subseteq Fds
    /\ loopPc \in LoopPcs
    /\ pc \in [Threads -> ThreadPcs]
    /\ task \in [Threads -> Tasks \cup {NoTask}]
    /\ fresh \subseteq Tasks
    /\ ran \in Seq(Tasks)
    /\ aborted \in BOOLEAN

\* EventLoop::EventLoop(); dispatch() has not been called yet.
Init ==
    /\ stop = FALSE
    /\ isNotifyPending = 0
    /\ notifyfd = 0
    /\ mutex = NoThread
    /\ deferredQueue = <<>>
    /\ nextTask = 1
    /\ activeEvents = {}
    /\ loopPc = "out"
    /\ pc = [th \in Threads |-> "idle"]
    /\ task = [th \in Threads |-> NoTask]
    /\ fresh = Tasks
    /\ ran = <<>>
    /\ aborted = FALSE

-----------------------------------------------------------------------------
(* MutexLock; mutex_ guards deferredQueue_.                                *)

\* Mutant: the guard is missing.
LockAnyway(th) == mutex' = th

Lock(th) == mutex = NoThread /\ mutex' = th
Unlock == mutex' = NoThread

Goto(th, place) == pc' = [pc EXCEPT ![th] = place]

-----------------------------------------------------------------------------
(* dispatch(), on the loop's thread.                                       *)

Dispatch ==
    /\ loopPc = "out"
    /\ stop' = FALSE
    /\ loopPc' = "test"
    /\ UNCHANGED <<activeEvents, wakeVars, queueVars, callVars>>

\* while (!stop_) finds stop_ set.
LeaveLoop ==
    /\ loopPc = "test" /\ stop
    /\ loopPc' = "out"
    /\ UNCHANGED <<stop, activeEvents, wakeVars, queueVars, callVars>>

\* activeEvents_.clear(), then into epoll_wait() with an infinite timeout.
EnterWait ==
    /\ loopPc = "test" /\ ~stop
    /\ activeEvents' = {}
    /\ loopPc' = "wait"
    /\ UNCHANGED <<stop, wakeVars, queueVars, callVars>>

\* epoll_wait() returns: the eventfd is reported exactly when its counter is
\* not zero; "io" stands for the other descriptors; nothing is reported when
\* a signal interrupts the wait.  The order of the reports is arbitrary.
EpollReturns(fds) ==
    /\ loopPc = "wait"
    /\ "notify" \in fds <=> notifyfd > 0
    /\ activeEvents' = fds
    /\ loopPc' = "events"
    /\ UNCHANGED <<stop, wakeVars, queueVars, callVars>>

\* handleNotify(): read() resets the counter of the eventfd ...
NotifyRead ==
    /\ loopPc = "events" /\ "notify" \in activeEvents
    /\ notifyfd' = 0
    /\ loopPc' = "clear"
    /\ UNCHANGED <<stop, activeEvents, isNotifyPending, queueVars, callVars>>

\* Mutant: handleNotify() forgets to reset isNotifyPending_.
ResetForgotten == UNCHANGED isNotifyPending

ResetPending == isNotifyPending' = 0

\* ... and isNotifyPending_ = 0 follows, unguarded.
NotifyClear ==
    /\ loopPc = "clear"
    /\ ResetPending
    /\ activeEvents' = activeEvents \ {"notify"}
    /\ loopPc' = "events"
    /\ UNCHANGED <<stop, notifyfd, queueVars, callVars>>

\* The callback of another event returns.
IoHandled ==
    /\ loopPc = "events" /\ "io" \in activeEvents
    /\ activeEvents' = activeEvents \ {"io"}
    /\ UNCHANGED <<stop, loopPc, wakeVars, queueVars, callVars>>

\* The loop over activeEvents_ ends and handleTimerEvents() is called.
EventsDone ==
    /\ loopPc = "events" /\ activeEvents = {}
    /\ loopPc' = "timers"
    /\ UNCHANGED <<stop, activeEvents, wakeVars, queueVars, callVars>>

-----------------------------------------------------------------------------
(* runDeferredTasks(): the guard holds mutex_ while the tasks run.         *)

LockDeferred ==
    /\ loopPc = "timers"
    /\ Lock(LoopThread)
    /\ loopPc' = "run"
    /\ UNCHANGED <<stop, activeEvents, wakeVars, deferredQueue, nextTask, ran,
                   callVars>>

RunDeferred ==
    /\ loopPc = "run" /\ nextTask <= Len(deferredQueue)
    /\ ran' = Append(ran, deferredQueue[nextTask])
    /\ nextTask' = nextTask + 1
    /\ UNCHANGED <<loopVars, wakeVars, mutex, deferredQueue, callVars>>

\* Mutant: deferredQueue_.clear() is missing.
ClearForgotten == UNCHANGED deferredQueue /\ nextTask' = 1

ClearQueue == deferredQueue' = <<>> /\ nextTask' = 1

\* deferredQueue_.clear(), the guard's destructor, the end of the iteration.
FinishDeferred ==
    /\ loopPc = "run" /\ nextTask > Len(deferredQueue)
    /\ ClearQueue
    /\ Unlock
    /\ loopPc' = "test"
    /\ UNCHANGED <<stop, activeEvents, wakeVars, ran, callVars>>

-----------------------------------------------------------------------------
(* Calls made by user code on the loop's thread.                           *)

InUserCode ==
    \/ loopPc \in {"out", "timers"}
    \/ loopPc = "events" /\ "io" \in activeEvents
    \/ loopPc = "run" /\ nextTask > 1

\* runInLoop() with isInLoopThread(): the task runs inside the call.
RunInline(t) ==
    /\ InUserCode
    /\ t \in fresh
    /\ fresh' = fresh \ {t}
    /\ ran' = Append(ran, t)
    /\ UNCHANGED <<loopVars, wakeVars, mutex, deferredQueue, nextTask, pc, task,
                   aborted>>

\* breakLoop() on the loop's thread: no wake-up is written.
BreakInline ==
    /\ InUserCode
    /\ stop' = TRUE
    /\ UNCHANGED <<activeEvents, loopPc, wakeVars, queueVars, callVars>>

-----------------------------------------------------------------------------
(* The other threads.                                                      *)

\* runInLoop() from another thread: isInLoopThread() is false.
RunInLoop(th, t) ==
    /\ pc[th] = "idle"
    /\ t \in fresh
    /\ fresh' = fresh \ {t}
    /\ task' = [task EXCEPT ![th] = t]
    /\ Goto(th, "lock")
    /\ UNCHANGED <<loopVars, wakeVars, queueVars, aborted>>

LockQueue(th) ==
    /\ pc[th] = "lock"
    /\ Lock(th)
    /\ Goto(th, "push")
    /\ UNCHANGED <<loopVars, wakeVars, deferredQueue, nextTask, ran, task,
                   fresh, aborted>>

\* Mutant: breakLoop() and runInLoop() do not call wakeup().
WakeupForgotten(th) == Goto(th, "idle")

\* wakeup() is called: its test of isNotifyPending_ comes next.
wakeup(th) == Goto(th, "load")

\* push_back() and the end of the guarded block.
PushTask(th) ==
    /\ pc[th] = "push"
    /\ deferredQueue' = Append(deferredQueue, task[th])
    /\ task' = [task EXCEPT ![th] = NoTask]
    /\ Unlock
    /\ wakeup(th)
    /\ UNCHANGED <<loopVars, wakeVars, nextTask, ran, fresh, aborted>>

\* Mutant: the test of isNotifyPending_ is missing in wakeup().
NeverPending == TRUE

NotPending == isNotifyPending = 0

\* wakeup(): the test of isNotifyPending_, ...
LoadPending(th) ==
    /\ pc[th] = "load"
    /\ Goto(th, IF NotPending THEN "store" ELSE "idle")
    /\ UNCHANGED <<loopVars, wakeVars, queueVars, task, fresh, aborted>>

\* ... its assignment, ...
StorePending(th) ==
    /\ pc[th] = "store"
    /\ isNotifyPending' = 1
    /\ Goto(th, "write")
    /\ UNCHANGED <<loopVars, notifyfd, queueVars, task, fresh, aborted>>

\* Mutant: the write() fails, which wakeup() only reports on stderr.
WriteFails == UNCHANGED notifyfd

WriteEventfd == notifyfd' = notifyfd + 1

\* ... and the write() to the eventfd.
WriteNotify(th) ==
    /\ pc[th] = "write"
    /\ WriteEventfd
    /\ Goto(th, "idle")
    /\ UNCHANGED <<loopVars, isNotifyPending, queueVars, task, fresh, aborted>>

\* breakLoop() from another thread: its first line asserts isInLoopThread().
BreakLoop(th) ==
    /\ th \in Quitters
    /\ pc[th] = "idle"
    /\ IF NDebug THEN stop' = TRUE /\ wakeup(th) /\ UNCHANGED aborted
       ELSE aborted' = TRUE /\ UNCHANGED <<stop, pc>>
    /\ UNCHANGED <<activeEvents, loopPc, wakeVars, queueVars, task, fresh>>

-----------------------------------------------------------------------------

\* Steps the loop's thread takes by itself once it is in dispatch().
LoopProgress ==
    \/ LeaveLoop \/ EnterWait
    \/ notifyfd > 0 /\ \E fds \in SUBSET Fds : EpollReturns(fds)
    \/ NotifyRead \/ NotifyClear \/ IoHandled \/ EventsDone
    \/ LockDeferred \/ RunDeferred \/ FinishDeferred

\* Steps that finish a call a thread has begun.
ThreadProgress(th) ==
    \/ LockQueue(th) \/ PushTask(th)
    \/ LoadPending(th) \/ StorePending(th) \/ WriteNotify(th)

LoopNext ==
    \/ LoopProgress
    \/ Dispatch
    \/ \E fds \in SUBSET Fds : EpollReturns(fds)
    \/ \E t \in Tasks : RunInline(t)
    \/ BreakInline

ThreadNext(th) ==
    \/ ThreadProgress(th)
    \/ \E t \in Tasks : RunInLoop(th, t)
    \/ BreakLoop(th)

Next == ~aborted /\ (LoopNext \/ \E th \in Threads : ThreadNext(th))

Spec == Init /\ [][Next]_vars

\* The scheduler runs every runnable thread and callbacks return.  Nobody has
\* to call dispatch(), runInLoop() or breakLoop(), and no descriptor other
\* than the eventfd has to become ready.
FairSpec ==
    /\ Spec
    /\ WF_vars(LoopProgress)
    /\ \A th \in Threads : WF_vars(ThreadProgress(th))

-----------------------------------------------------------------------------
(* Properties.                                                             *)

\* A thread is about to write to the eventfd whatever the others do now.
Committed(th) ==
    \/ pc[th] \in {"store", "write"}
    \/ pc[th] = "load" /\ isNotifyPending = 0

\* A wake-up of the loop is in the eventfd or on its way there.
WakeupOwed == notifyfd > 0 \/ \E th \in Threads : Committed(th)

\* A thread that skips the write because isNotifyPending_ is set relies on a
\* wake-up that somebody else owes: while the loop is blocked in epoll_wait()
\* with tasks in deferredQueue_, or with stop_ set, one is owed.
NoLostWakeup ==
    loopPc = "wait" /\ (deferredQueue # <<>> \/ stop) => WakeupOwed

\* isNotifyPending_ never stays set with nobody left to clear it: the eventfd
\* holds a wake-up, a thread is at its write(), or the loop is between read()
\* and the reset in handleNotify().  Otherwise wakeup() would be mute forever.
PendingIsBacked ==
    isNotifyPending = 1 =>
        \/ notifyfd > 0
        \/ loopPc = "clear"
        \/ \E th \in Threads : pc[th] = "write"

\* The races on isNotifyPending_ let a thread write more than once before the
\* loop reads the eventfd: once for a flag it found lowered before the last
\* read, once between read() and the reset, once after it.  So the counter, and
\* with it the number of needless wake-ups, does not grow with the calls.
NotifyBounded == notifyfd <= 3 * Cardinality(Threads)

\* runDeferredTasks() iterates over the vector while tasks call back into the
\* loop: nobody changes the vector until the loop clears it.
QueueStableWhileRunning ==
    [][loopPc = "run" /\ loopPc' = "run" => deferredQueue' = deferredQueue]_vars

\* The tasks of runInLoop() are run in the order in which they entered the
\* queue, each at most once; those of the loop's own thread at once.
TQ == INSTANCE TaskQueue
        WITH pending <- SubSeq(deferredQueue, nextTask, Len(deferredQueue))

ImplementsTaskQueue == TQ!Spec

\* A task that entered the queue is run unless dispatch() is left first; then
\* it waits for the next call of dispatch().
DeferredTasksRun ==
    \A t \in Tasks :
        t \in Elems(deferredQueue) ~> (t \in Elems(ran) \/ loopPc = "out")

\* A stop_ set while dispatch() runs ends dispatch(): no store of stop_ = TRUE
\* after the reset at its start is overlooked by a sleeping loop.
StopEndsDispatch == (stop /\ loopPc # "out") ~> (loopPc = "out")
=============================================================================
