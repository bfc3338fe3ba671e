-------------------------- MODULE EventLoopThread --------------------------
(***************************************************************************)
(* An EventLoopThread: the object through which its owner starts a thread  *)
(* that runs an EventLoop of its own, and stops it.                        *)
(*                                                                         *)
(* The loop is a local variable of the thread's function, so it lives from *)
(* its construction to the function's return; the owner keeps a pointer to *)
(* it.  The module composes EventLoop with the hand-over of that pointer   *)
(* (mutex_, cond_, pLoop_), with Thread (isRunning_, join) and with the    *)
(* life of the loop.  Names that EventLoop has already begin with elt, as  *)
(* a variable of the code does.                                            *)
(*                                                                         *)
(* A member function of a destroyed loop is undefined behaviour: the model *)
(* ends in the state "crashed".                                            *)
(***************************************************************************)
EXTENDS EventLoop

CONSTANT Owner      \* the thread that calls start() and quit()

\* Only the owner calls breakLoop(), in quit().
ASSUME OwnerOK == Owner \in Threads /\ Quitters = {Owner}

VARIABLES
    running,        \* running_
    pLoopSet,       \* pLoop_ is not NULL
    handover,       \* the owner of EventLoopThread::mutex_
    isRunning,      \* thread_.isRunning_
    ownerPc,        \* where the owner is in start() and quit()
    threadPc,       \* where the new thread is
    loopAlive,      \* the loop is constructed and not destroyed
    crashed         \* a thread used the loop after its destruction

flags == <<running, pLoopSet, isRunning>>
threadVars == <<threadPc, loopAlive, crashed>>
\* vars are those of the EventLoop.
eltVars == <<vars, flags, handover, ownerPc, threadVars>>

OwnerPcs == {"new", "lock", "check", "waiting", "woken", "started", "breaking",
             "joining", "stopped"}
FuncPcs == {"none", "created", "construct", "lock", "publish", "dispatch",
              "looping", "return", "finished"}

EltTypeOK ==
    /\ TypeOK
    /\ {running, pLoopSet, isRunning, loopAlive, crashed} \subseteq BOOLEAN
    /\ handover \in {Owner, LoopThread, NoThread}
    /\ ownerPc \in OwnerPcs
    /\ threadPc \in FuncPcs

EltInit ==
    /\ Init
    /\ running = FALSE /\ pLoopSet = FALSE /\ isRunning = FALSE
    /\ handover = NoThread
    /\ ownerPc = "new"
    /\ threadPc = "none"
    /\ loopAlive = FALSE
    /\ crashed = FALSE

\* MutexLock::lock() and unlock() of EventLoopThread::mutex_.
lock(th) == handover = NoThread /\ handover' = th
unlock == handover' = NoThread

-----------------------------------------------------------------------------
(* start(), on the owner's thread.                                         *)

\* running_ = true; thread_.start(), whose pthread_create() succeeds.
Start ==
    /\ ownerPc = "new"
    /\ running' = TRUE
    /\ threadPc' = "created"
    /\ ownerPc' = "lock"
    /\ UNCHANGED <<vars, pLoopSet, isRunning, handover, loopAlive, crashed>>

\* start()'s guard, or the return from cond_.wait().
LockStart ==
    /\ ownerPc \in {"lock", "woken"}
    /\ lock(Owner)
    /\ ownerPc' = "check"
    /\ UNCHANGED <<vars, flags, threadVars>>

\* while (!pLoop_) cond_.wait(): to wait is to release mutex_ in one step.
WaitForLoop ==
    /\ ownerPc = "check" /\ ~pLoopSet
    /\ unlock
    /\ ownerPc' = "waiting"
    /\ UNCHANGED <<vars, flags, threadVars>>

\* pthread_cond_wait() may return without a signal.
SpuriousWakeup ==
    /\ ownerPc = "waiting"
    /\ ownerPc' = "woken"
    /\ UNCHANGED <<vars, flags, handover, threadVars>>

\* Mutant: start() tests nothing before it returns.
LoopAssumed == TRUE

LoopKnown == pLoopSet

\* return pLoop_.
StartReturns ==
    /\ ownerPc = "check" /\ LoopKnown
    /\ unlock
    /\ ownerPc' = "started"
    /\ UNCHANGED <<vars, flags, threadVars>>

-----------------------------------------------------------------------------
(* The new thread: Thread::runInThread() and eventLoopThreadFunc().        *)

RunInThread ==
    /\ threadPc = "created"
    /\ isRunning' = TRUE
    /\ threadPc' = "construct"
    /\ UNCHANGED <<vars, running, pLoopSet, handover, ownerPc, loopAlive, crashed>>

ConstructLoop ==
    /\ threadPc = "construct"
    /\ loopAlive' = TRUE
    /\ threadPc' = "lock"
    /\ UNCHANGED <<vars, flags, handover, ownerPc, crashed>>

LockPublish ==
    /\ threadPc = "lock"
    /\ lock(LoopThread)
    /\ threadPc' = "publish"
    /\ UNCHANGED <<vars, flags, ownerPc, loopAlive, crashed>>

\* Mutant: the notify() is missing.
NotifyForgotten == UNCHANGED ownerPc

\* cond_.notify() wakes the owner if it waits.
notify == ownerPc' = IF ownerPc = "waiting" THEN "woken" ELSE ownerPc

\* pLoop_ = &loop, cond_.notify() and the end of the guarded block.
PublishLoop ==
    /\ threadPc = "publish"
    /\ pLoopSet' = TRUE
    /\ notify
    /\ unlock
    /\ threadPc' = "dispatch"
    /\ UNCHANGED <<vars, running, isRunning, loopAlive, crashed>>

\* loop.dispatch() ...
EnterDispatch ==
    /\ threadPc = "dispatch"
    /\ Dispatch
    /\ threadPc' = "looping"
    /\ UNCHANGED <<flags, handover, ownerPc, loopAlive, crashed>>

\* ... whose own steps end with its return, ...
DispatchStep ==
    /\ threadPc = "looping"
    /\ LoopProgress
    /\ threadPc' = IF loopPc' = "out" THEN "return" ELSE "looping"
    /\ UNCHANGED <<flags, handover, ownerPc, loopAlive, crashed>>

\* ... with what other descriptors and user code do meanwhile, ...
DispatchCallback ==
    /\ threadPc = "looping"
    /\ \/ \E fds \in SUBSET Fds : EpollReturns(fds)
       \/ \E t \in Tasks : RunInline(t)
       \/ BreakInline
    /\ UNCHANGED <<flags, handover, ownerPc, threadVars>>

\* ... and the destruction of the loop; pLoop_ keeps its address.
ThreadReturns ==
    /\ threadPc = "return"
    /\ loopAlive' = FALSE
    /\ threadPc' = "finished"
    /\ UNCHANGED <<vars, flags, handover, ownerPc, crashed>>

-----------------------------------------------------------------------------
(* quit(), and what a thread does inside the loop's member functions.      *)

\* pLoop_->breakLoop().
Quit ==
    /\ ownerPc = "started" /\ pc[Owner] = "idle"
    /\ loopAlive
    /\ BreakLoop(Owner)
    /\ ownerPc' = "breaking"
    /\ UNCHANGED <<flags, handover, threadVars>>

\* thread_.join(), from its assert(isRunning_) ...
Join ==
    /\ ownerPc = "breaking" /\ pc[Owner] = "idle"
    /\ ownerPc' = "joining"
    /\ IF isRunning \/ NDebug THEN UNCHANGED aborted ELSE aborted' = TRUE
    /\ UNCHANGED <<loopVars, wakeVars, queueVars, pc, task, fresh>>
    /\ UNCHANGED <<flags, handover, threadVars>>

\* ... to the return of pthread_join(), and running_ = false.
QuitReturns ==
    /\ ownerPc = "joining"
    /\ threadPc = "finished"
    /\ running' = FALSE
    /\ ownerPc' = "stopped"
    /\ UNCHANGED <<vars, pLoopSet, isRunning, handover, threadVars>>

\* A thread calls runInLoop() on the loop that start() returned.
CallRunInLoop(th, t) ==
    /\ ownerPc = "started"
    /\ loopAlive
    /\ RunInLoop(th, t)
    /\ UNCHANGED <<flags, handover, ownerPc, threadVars>>

InCall(th) ==
    /\ loopAlive
    /\ ThreadProgress(th)
    /\ UNCHANGED <<flags, handover, ownerPc, threadVars>>

Crash ==
    /\ crashed' = TRUE
    /\ UNCHANGED <<vars, flags, handover, ownerPc, threadPc, loopAlive>>

\* The loop is destroyed while a thread is inside one of its functions.
LoopGoneInCall(th) == threadPc = "finished" /\ pc[th] # "idle" /\ Crash

\* A callback has stopped the loop: the owner's pointer, which quit() and the
\* destructor still use, points nowhere.
UseStalePointer == threadPc = "finished" /\ ownerPc = "started" /\ Crash

-----------------------------------------------------------------------------

StartProgress ==
    LockStart \/ WaitForLoop \/ StartReturns

LoopThreadProgress ==
    \/ RunInThread \/ ConstructLoop \/ LockPublish \/ PublishLoop
    \/ EnterDispatch \/ DispatchStep \/ ThreadReturns

CallProgress(th) == InCall(th) \/ LoopGoneInCall(th)

QuitProgress == Join \/ QuitReturns

EltNext ==
    /\ ~aborted /\ ~crashed
    /\ \/ Start \/ StartProgress \/ SpuriousWakeup
       \/ LoopThreadProgress \/ DispatchCallback \/ UseStalePointer
       \/ Quit \/ QuitProgress
       \/ \E th \in Threads : CallProgress(th)
       \/ \E th \in Threads, t \in Tasks : CallRunInLoop(th, t)

EltSpec == EltInit /\ [][EltNext]_eltVars

\* Both threads are scheduled, callbacks return, and spurious wake-ups of the
\* owner do not keep the new thread from mutex_ forever; nobody has to call
\* start(), quit() or runInLoop().
EltFairSpec ==
    /\ EltSpec
    /\ WF_eltVars(StartProgress)
    /\ WF_eltVars(LoopThreadProgress)
    /\ SF_eltVars(LockPublish)
    /\ WF_eltVars(QuitProgress)
    /\ \A th \in Threads : WF_eltVars(CallProgress(th))

-----------------------------------------------------------------------------
(* Properties.                                                             *)

\* The owner is past start().
StartDone == ownerPc \in {"started", "breaking", "joining", "stopped"}

\* start() never returns before the loop exists: the pointer it returns is set,
\* and the thread has constructed the loop, which is not destroyed until the
\* thread has been through dispatch().  Nor can quit(), which comes later,
\* come too early for join()'s assert: the new thread has set isRunning_.
StartReturnsALoop ==
    StartDone => /\ pLoopSet /\ isRunning
                 /\ loopAlive \/ threadPc = "finished"

\* The notify() is not lost between the test of pLoop_ and the wait.
StartTerminates == (ownerPc = "lock") ~> StartDone

\* quit() stops a loop that has entered dispatch(): the thread ends and join()
\* returns, unless the process is lost to the destroyed loop.
QuitStopsARunningLoop ==
    (ownerPc = "breaking" /\ threadPc = "looping" /\ stop)
        ~> (ownerPc = "stopped" \/ crashed)

\* quit() stops the loop, as the declaration of breakLoop(), which it calls,
\* says ("used stop the loop that in another thread").
QuitStopsTheLoop ==
    (ownerPc = "breaking") ~> (ownerPc = "stopped" \/ crashed)
=============================================================================
