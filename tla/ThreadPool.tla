----------------------------- MODULE ThreadPool -----------------------------
(***************************************************************************)
(* A ThreadPool: worker threads that take Task objects from queue_, the    *)
(* threads that schedule() them, and the owner that calls start(), stop()  *)
(* and the destructor.                                                     *)
(*                                                                         *)
(* queue_ is guarded by mutex_, and cond_ tells idle workers of a new      *)
(* task.  running_ is guarded by nothing: stop() clears it and signals     *)
(* cond_ without the mutex.  A block guarded by the mutex is one step,     *)
(* except in fetchTask(), where stop()'s notifyAll() may fall between the  *)
(* test of queue_ and the wait.                                            *)
(*                                                                         *)
(* A task that throws ends the process (abort()), so no task throws here.  *)
(***************************************************************************)
EXTENDS Naturals, Sequences, FiniteSets

CONSTANTS
    NumThreads,   \* the argument of start()
    Tasks,        \* one Task per call of schedule(): bounds the calls
    NoTask,
    NoThread,     \* mutex_ is free
    MaxStarts,    \* bounds the calls of start()
    NDebug        \* TRUE: assert() is compiled out

ASSUME ConstantsOK ==
    /\ NumThreads \in Nat
    /\ NoTask \notin Tasks
    /\ NoThread \notin Nat
    /\ MaxStarts \in Nat
    /\ NDebug \in BOOLEAN

Workers == 1 .. NumThreads

VARIABLES
    running,      \* running_
    mutex,        \* the worker that owns mutex_
    holder,       \* mutex_.holder_
    queue,        \* queue_
    numThreads,   \* numThreads_
    threads,      \* how many Thread objects threads_ holds
    isRunning,    \* isRunning_ of each worker's Thread
    pc,           \* where each worker is
    task,         \* the task a worker has fetched
    ownerPc,      \* where the owner is in start() and stop()
    joined,       \* the index i of stop()'s loop: threads joined so far
    starts,       \* calls of start() so far
    unused,       \* tasks not scheduled yet
    taken,        \* history: tasks in the order they were fetched
    aborted,      \* an assert() failed and ended the process
    crashed       \* threads_ was indexed out of range

lockVars == <<mutex, holder>>
queueVars == <<queue, unused, taken>>
threadVars == <<isRunning, pc, task>>
poolVars == <<running, numThreads, threads, starts>>
stopVars == <<joined, aborted, crashed>>
ownerVars == <<poolVars, ownerPc, stopVars>>
vars == <<lockVars, queueVars, threadVars, ownerVars>>

WorkerPcs == {"none", "created", "loop", "lock", "check", "waiting", "woken",
              "task", "done"}
OwnerPcs == {"idle", "starting", "notify", "join", "joining"}

Elems(s) == {s[i] : i \in DOMAIN s}

TypeOK ==
    /\ {running, aborted, crashed} \subseteq BOOLEAN
    /\ {mutex, holder} \subseteq Workers \cup {NoThread}
    /\ {queue, taken} \subseteq Seq(Tasks)
    /\ unused \subseteq Tasks
    /\ numThreads \in {0, NumThreads}
    /\ {threads, joined} \subseteq 0 .. NumThreads
    /\ isRunning \in [Workers -> BOOLEAN]
    /\ pc \in [Workers -> WorkerPcs]
    /\ task \in [Workers -> Tasks \cup {NoTask}]
    /\ ownerPc \in OwnerPcs
    /\ starts \in 0 .. MaxStarts

Init ==
    /\ running = FALSE /\ aborted = FALSE /\ crashed = FALSE
    /\ mutex = NoThread /\ holder = NoThread
    /\ queue = <<>> /\ taken = <<>>
    /\ unused = Tasks
    /\ numThreads = 0 /\ threads = 0 /\ joined = 0 /\ starts = 0
    /\ isRunning = [w \in Workers |-> FALSE]
    /\ pc = [w \in Workers |-> "none"]
    /\ task = [w \in Workers |-> NoTask]
    /\ ownerPc = "idle"

-----------------------------------------------------------------------------
(* MutexLock and ThreadCondition.                                          *)

lock(th) == mutex = NoThread /\ mutex' = th /\ holder' = th

\* Mutant: unlock() does not reset holder_.
HolderKept == mutex' = NoThread /\ UNCHANGED holder

unlock == mutex' = NoThread /\ holder' = NoThread

\* pthread_cond_wait() releases the mutex and takes it again by itself: both
\* times holder_ keeps what it has.
release == mutex' = NoThread /\ UNCHANGED holder
reacquire(th) == mutex = NoThread /\ mutex' = th /\ UNCHANGED holder

Waiting == {w \in Workers : pc[w] = "waiting"}

\* Mutant: the signal is missing.
NotifyForgotten == UNCHANGED pc

\* pthread_cond_signal() wakes one of the threads that wait, if there are any.
notify ==
    IF Waiting = {} THEN UNCHANGED pc
    ELSE \E w \in Waiting : pc' = [pc EXCEPT ![w] = "woken"]

notifyAll == pc' = [w \in Workers |-> IF w \in Waiting THEN "woken" ELSE pc[w]]

Goto(w, place) == pc' = [pc EXCEPT ![w] = place]

-----------------------------------------------------------------------------
(* schedule(), on any thread.                                              *)

\* push_back() and notify() under mutex_, which is free again afterwards.
Schedule(t) ==
    /\ t \in unused
    /\ mutex = NoThread
    /\ unused' = unused \ {t}
    /\ queue' = Append(queue, t)
    /\ notify
    /\ unlock
    /\ UNCHANGED <<taken, isRunning, task, ownerVars>>

-----------------------------------------------------------------------------
(* excuteThread(), on the thread of worker w.                              *)

\* Thread::runInThread().
RunInThread(w) ==
    /\ pc[w] = "created"
    /\ isRunning' = [isRunning EXCEPT ![w] = TRUE]
    /\ Goto(w, "loop")
    /\ UNCHANGED <<lockVars, queueVars, task, ownerVars>>

\* while (pool->isRunning_()), unguarded.
TestRunning(w) ==
    /\ pc[w] = "loop"
    /\ Goto(w, IF running THEN "lock" ELSE "done")
    /\ UNCHANGED <<lockVars, queueVars, isRunning, task, ownerVars>>

\* fetchTask(): its guard, or the return from cond_.wait().
Lock(w) ==
    /\ \/ pc[w] = "lock" /\ lock(w)
       \/ pc[w] = "woken" /\ reacquire(w)
    /\ Goto(w, "check")
    /\ UNCHANGED <<queueVars, isRunning, task, ownerVars>>

\* while (queue_.empty()) cond_.wait(): to wait releases the mutex.
Wait(w) ==
    /\ pc[w] = "check"
    /\ queue = <<>>
    /\ release
    /\ Goto(w, "waiting")
    /\ UNCHANGED <<queueVars, isRunning, task, ownerVars>>

SpuriousWakeup(w) ==
    /\ pc[w] = "waiting"
    /\ Goto(w, "woken")
    /\ UNCHANGED <<lockVars, queueVars, isRunning, task, ownerVars>>

\* Mutant: the back of the deque is taken instead of the front.
TakeBack(t) ==
    t = queue[Len(queue)] /\ queue' = SubSeq(queue, 1, Len(queue) - 1)

\* front() and pop_front().
TakeFront(t) == t = Head(queue) /\ queue' = Tail(queue)

\* ... and the end of the guarded block.
Fetch(w) ==
    /\ pc[w] = "check"
    /\ queue # <<>>
    /\ \E t \in Tasks :
          /\ TakeFront(t)
          /\ task' = [task EXCEPT ![w] = t]
          /\ taken' = Append(taken, t)
    /\ unlock
    /\ Goto(w, "task")
    /\ UNCHANGED <<unused, isRunning, ownerVars>>

\* task.runTask() returns.
FinishTask(w) ==
    /\ pc[w] = "task"
    /\ task' = [task EXCEPT ![w] = NoTask]
    /\ Goto(w, "loop")
    /\ UNCHANGED <<lockVars, queueVars, isRunning, ownerVars>>

-----------------------------------------------------------------------------
(* start() and stop(), on the owner's thread.  The destructor is a call of *)
(* stop(), the owner's last.                                               *)

\* start() asserts threads_.empty(): only a pool that has no threads, or has
\* been stopped, is started.
Start ==
    /\ ownerPc = "idle"
    /\ threads = 0 /\ starts < MaxStarts
    /\ starts' = starts + 1
    /\ numThreads' = NumThreads
    /\ running' = TRUE
    /\ ownerPc' = "starting"
    /\ UNCHANGED <<lockVars, queueVars, threadVars, threads, stopVars>>

\* Thread::Thread(), and Thread::start(), whose pthread_create() succeeds.
NewThread(w) == isRunning' = [isRunning EXCEPT ![w] = FALSE]
StartThread(w) == Goto(w, "created")

\* new Thread, push_back(), and start() of it.
CreateThread ==
    /\ ownerPc = "starting"
    /\ threads < numThreads
    /\ threads' = threads + 1
    /\ NewThread(threads + 1)
    /\ StartThread(threads + 1)
    /\ UNCHANGED <<lockVars, queueVars, task, running, numThreads, starts,
                   ownerPc, stopVars>>

StartReturns ==
    /\ ownerPc = "starting"
    /\ threads = numThreads
    /\ ownerPc' = "idle"
    /\ UNCHANGED <<lockVars, queueVars, threadVars, poolVars, stopVars>>

\* Mutant: stop() does not clear running_.
RunningKept == UNCHANGED running

ClearRunning == running' = FALSE

\* stop(): running_ = false, unguarded ...
Stop ==
    /\ ownerPc = "idle"
    /\ ClearRunning
    /\ ownerPc' = "notify"
    /\ UNCHANGED <<lockVars, queueVars, threadVars, numThreads, threads, starts,
                   stopVars>>

\* ... and cond_.notifyAll(), without mutex_.
NotifyAll ==
    /\ ownerPc = "notify"
    /\ notifyAll
    /\ joined' = 0
    /\ ownerPc' = "join"
    /\ UNCHANGED <<lockVars, queueVars, isRunning, task, poolVars, aborted,
                   crashed>>

\* threads_[i]->join(): the index, then the assert(isRunning_) of join().
\* numThreads_ still counts the threads of an earlier stop().
Join ==
    /\ ownerPc = "join"
    /\ joined < numThreads
    /\ IF threads <= joined
       THEN crashed' = TRUE /\ UNCHANGED <<aborted, ownerPc>>
       ELSE IF ~isRunning[joined + 1] /\ ~NDebug
            THEN aborted' = TRUE /\ UNCHANGED <<crashed, ownerPc>>
            ELSE ownerPc' = "joining" /\ UNCHANGED <<aborted, crashed>>
    /\ UNCHANGED <<lockVars, queueVars, threadVars, poolVars, joined>>

JoinReturns ==
    /\ ownerPc = "joining"
    /\ pc[joined + 1] = "done"
    /\ joined' = joined + 1
    /\ ownerPc' = "join"
    /\ UNCHANGED <<lockVars, queueVars, threadVars, poolVars, aborted, crashed>>

\* threads_.clear(); numThreads_ keeps its value.
StopReturns ==
    /\ ownerPc = "join"
    /\ joined = numThreads
    /\ threads' = 0
    /\ ownerPc' = "idle"
    /\ UNCHANGED <<lockVars, queueVars, threadVars, running, numThreads, starts,
                   stopVars>>

-----------------------------------------------------------------------------

\* The steps a worker takes by itself; tasks return.
WorkerProgress(w) ==
    \/ RunInThread(w) \/ TestRunning(w) \/ Lock(w) \/ Wait(w)
    \/ Fetch(w) \/ FinishTask(w)

\* The steps that finish a start() or a stop() that the owner has begun.
OwnerProgress ==
    \/ CreateThread \/ StartReturns
    \/ NotifyAll \/ Join \/ JoinReturns \/ StopReturns

Next ==
    /\ ~aborted /\ ~crashed
    /\ \/ \E t \in Tasks : Schedule(t)
       \/ \E w \in Workers : WorkerProgress(w) \/ SpuriousWakeup(w)
       \/ Start \/ Stop \/ OwnerProgress

Spec == Init /\ [][Next]_vars

\* Every thread is scheduled, tasks return, and a thread that wants the mutex
\* gets it at last, even if others take it again and again.
FairSpec ==
    /\ Spec
    /\ WF_vars(OwnerProgress)
    /\ \A w \in Workers : WF_vars(WorkerProgress(w)) /\ SF_vars(Lock(w))

-----------------------------------------------------------------------------
(* Properties.                                                             *)

\* Workers that are on their way to queue_.
Awake == {w \in Workers :
            pc[w] \in {"created", "loop", "lock", "check", "woken"}}

\* No signal is lost: while the pool runs and a worker sleeps, every task in
\* the queue has a worker of its own on its way to fetch it.  schedule() wakes
\* one worker per task, and which worker gets which task does not matter.
EnoughAwake ==
    running /\ Waiting # {} => Len(queue) <= Cardinality(Awake)

\* ~MutexLock() asserts holder_ == 0, and wait() lets go of the mutex with
\* holder_ set, so that it names a thread that does not own the mutex, and
\* nobody while a thread that waited does: once no worker is inside
\* fetchTask(), as when the pool is destroyed after stop(), it is 0 again.
HolderCleared ==
    (\A w \in Workers : pc[w] \notin {"check", "waiting", "woken"})
        => holder = NoThread

\* Tasks are fetched in the order in which they were scheduled, once each,
\* whatever worker fetches them and however often the pool is restarted.
TQ == INSTANCE TaskQueue WITH pending <- queue, ran <- taken

ImplementsTaskQueue == TQ!Spec

\* While the pool runs, a task that was scheduled is fetched at last.
TasksAreFetched ==
    \A t \in Tasks :
        (t \in Elems(queue) /\ threads > 0)
            ~> (t \in Elems(taken) \/ ~running)

\* stop() returns if there are as many tasks in the queue as workers: each
\* worker fetches at most one more before it sees that running_ is false.
StopReturnsIfTasksAbound ==
    (ownerPc = "notify" /\ threads = NumThreads /\ Len(queue) >= NumThreads)
        ~> (ownerPc = "idle")
=============================================================================
