----------------------------- MODULE LoopGroup -----------------------------
(***************************************************************************)
(* An EventLoopThreadPool, the loops of its threads, whose tasks call      *)
(* runInLoop() on one another, and the SignalEvents of the base loop.      *)
(*                                                                         *)
(* The base loop's thread, 0, owns the pool; thread and loop i are those   *)
(* of threads_[i - 1].  Of an EventLoop the model keeps the number of its  *)
(* deferred tasks, mutex_, which is held while they run, and stop_:        *)
(* EventLoop shows that tasks are run.  EventLoopThread has what start()   *)
(* and quit() of a thread do in detail, and the build with assert, in      *)
(* which quit() aborts.  No task breaks its loop.  What is undefined in    *)
(* C++ ends the model: the use of something that is not there (fault), or  *)
(* of an uninitialized value (spurious).                                   *)
(*                                                                         *)
(* breakLoop() and runInLoop() use the loop once more, in wakeup(), when   *)
(* others can see already what they have stored: each is two steps.  Only  *)
(* the owner's runInLoop() is one, as nobody but the owner ends a loop.    *)
(***************************************************************************)
EXTENDS SignalEvent

CONSTANTS
    MaxThreads,    \* bounds the argument of start()
    Calls,         \* <<i, j>>: tasks of loop i call runInLoop() on loop j
    MaxPosts,      \* bounds the calls of runInLoop()
    MaxStarts      \* bounds the calls of start()

Loops == 1 .. MaxThreads

ASSUME ConstantsOK ==
    /\ MaxThreads \in Nat /\ MaxPosts \in Nat /\ MaxStarts \in Nat
    /\ Base = 0 /\ Threads = {Base} \cup Loops
    /\ Calls \subseteq Loops \X Loops

VARIABLES
    numThreads,    \* numThreads_
    nextLoopIndex, \* nextLoopIndex_
    isRunning,     \* isRunning_
    made,          \* the size of threads_ and threadLoops_
    wanted,        \* the argument of the last start()
    ownerPc,       \* where the owner is in a function of the pool
    at,            \* the thread, or loop, it is busy with
    leaving,       \* quit() is called by the destructor
    threadPc,      \* where each thread of the pool is
    callee,        \* the loop its task calls
    stop,          \* stop_ of each loop
    queue,         \* how many tasks are in deferredQueue_
    mutex,         \* who owns mutex_ of a loop
    posts, starts, \* how many calls there were
    most,          \* the greatest argument of start()
    fault          \* the call in which a thread used what is not there

pool == <<numThreads, nextLoopIndex, isRunning, made, wanted>>
owner == <<ownerPc, at, leaving>>
loops == <<threadPc, callee, stop, queue, mutex>>
history == <<posts, starts, most, fault>>
vars == <<signals, pool, owner, loops, history>>

Faults == {"getNextLoop", "quit", "breakLoop", "runInLoop"}

PoolTypeOK ==
    /\ numThreads \in 0 .. MaxThreads /\ nextLoopIndex \in 0 .. MaxThreads
    /\ made \in 0 .. MaxThreads /\ wanted \in 0 .. MaxThreads
    /\ most \in 0 .. MaxThreads
    /\ isRunning \in BOOLEAN /\ leaving \in BOOLEAN
    /\ fault \in Faults \cup {"none"}
    /\ ownerPc \in {"idle", "starting", "handover", "posting", "quitting",
                    "breaking", "joining", "destroyed"}
    /\ at \in 0 .. MaxThreads + 1
    /\ threadPc \in [Loops -> {"none", "created", "published", "looping",
                               "tasks", "calling", "waking", "finished"}]
    /\ callee \in [Loops -> Loops \cup {Base}]
    /\ stop \in [Loops -> BOOLEAN]
    /\ queue \in [Loops -> Nat]
    /\ mutex \in [Loops -> Loops \cup {Base}]
    /\ posts \in 0 .. MaxPosts /\ starts \in 0 .. MaxStarts

TypeOK == SignalTypeOK /\ PoolTypeOK

\* EventLoopThreadPool::EventLoopThreadPool().  Base owns no mutex_ here: as
\* the owner of one it stands for nobody.
Init ==
    /\ SignalInit
    /\ numThreads = 0 /\ nextLoopIndex = 0 /\ isRunning = FALSE
    /\ made = 0 /\ wanted = 0
    /\ ownerPc = "idle" /\ at = 0 /\ leaving = FALSE
    /\ threadPc = [l \in Loops |-> "none"]
    /\ callee = [l \in Loops |-> Base]
    /\ stop = [l \in Loops |-> FALSE]
    /\ queue = [l \in Loops |-> 0]
    /\ mutex = [l \in Loops |-> Base]
    /\ posts = 0 /\ starts = 0 /\ most = 0 /\ fault = "none"

Larger(m, n) == IF m < n THEN n ELSE m
Goto(l, place) == threadPc' = [threadPc EXCEPT ![l] = place]

-----------------------------------------------------------------------------
(* The owner of the pool.                                                  *)

\* start(n); it does nothing if the pool runs.
start(n) ==
    /\ ownerPc = "idle" /\ ~isRunning /\ starts < MaxStarts
    /\ wanted' = n /\ starts' = starts + 1 /\ most' = Larger(most, n)
    /\ ownerPc' = "starting"
    /\ UNCHANGED <<signals, numThreads, nextLoopIndex, isRunning, made>>
    /\ UNCHANGED <<at, leaving, loops, posts, fault>>

\* new EventLoopThread, whose start() makes the thread ...
StartThread ==
    /\ ownerPc = "starting" /\ made < wanted
    /\ ThreadBegins(made + 1)
    /\ Goto(made + 1, "created")
    /\ ownerPc' = "handover"
    /\ UNCHANGED <<pool, at, leaving, callee, stop, queue, mutex, history>>

\* ... and returns its loop, which there is by then.
StartReturns ==
    /\ ownerPc = "handover" /\ threadPc[made + 1] # "created"
    /\ made' = made + 1
    /\ ownerPc' = "starting"
    /\ UNCHANGED <<signals, numThreads, nextLoopIndex, isRunning, wanted>>
    /\ UNCHANGED <<at, leaving, loops, history>>

Started ==
    /\ ownerPc = "starting" /\ made = wanted
    /\ numThreads' = wanted /\ isRunning' = TRUE
    /\ ownerPc' = "idle"
    /\ UNCHANGED <<signals, nextLoopIndex, made, wanted, at, leaving, loops>>
    /\ UNCHANGED history

Wrap(i) == IF i = numThreads THEN 0 ELSE i

\* getNextLoop(), and the call of runInLoop() on the loop.  (Without threads
\* that is the base loop, which runs the task at once.)  quit() resets neither
\* numThreads_ nor nextLoopIndex_: the index may be one that threadLoops_ has
\* not got.
getNextLoop ==
    /\ ownerPc = "idle" /\ numThreads # 0 /\ posts < MaxPosts
    /\ posts' = posts + 1
    /\ LET i == Wrap(nextLoopIndex)
       IN  IF i < made
           THEN /\ at' = i + 1
                /\ nextLoopIndex' = i + 1
                /\ ownerPc' = "posting"
                /\ UNCHANGED fault
           ELSE /\ fault' = "getNextLoop"
                /\ UNCHANGED <<nextLoopIndex, ownerPc, at>>
    /\ UNCHANGED <<signals, numThreads, isRunning, made, wanted, leaving>>
    /\ UNCHANGED <<loops, starts, most>>

\* runInLoop() pushes the task under the loop's mutex_.
push(l) == mutex[l] = Base /\ queue' = [queue EXCEPT ![l] = @ + 1]

OwnerPushes ==
    /\ ownerPc = "posting"
    /\ push(at)
    /\ ownerPc' = "idle"
    /\ UNCHANGED <<signals, pool, at, leaving, threadPc, callee, stop, mutex>>
    /\ UNCHANGED history

\* quit(), which does not ask whether the pool runs ...
quit ==
    /\ ownerPc = "idle"
    /\ ownerPc' = "quitting" /\ at' = 1
    /\ UNCHANGED <<signals, pool, leaving, loops, history>>

\* ... and ~EventLoopThreadPool(), which does and then calls it.
Destroy ==
    /\ ownerPc = "idle"
    /\ leaving' = TRUE /\ at' = 1
    /\ ownerPc' = IF isRunning THEN "quitting" ELSE "destroyed"
    /\ UNCHANGED <<signals, pool, loops, history>>

Gone(l) == threadPc[l] = "finished"

\* threads_[i]->quit(): breakLoop() stores stop_, which ends the loop ...
QuitThread ==
    /\ ownerPc = "quitting" /\ at <= numThreads
    /\ \/ /\ at <= made /\ ~Gone(at)
          /\ stop' = [stop EXCEPT ![at] = TRUE]
          /\ ownerPc' = "breaking"
          /\ UNCHANGED fault
       \/ /\ at > made \/ Gone(at)
          /\ fault' = IF at > made THEN "quit" ELSE "breakLoop"
          /\ UNCHANGED <<stop, ownerPc>>
    /\ UNCHANGED <<signals, pool, at, leaving, threadPc, callee, queue, mutex>>
    /\ UNCHANGED <<posts, starts, most>>

\* ... and asks it for its thread and wakes it up, unless it has ended ...
BreakReturns ==
    /\ ownerPc = "breaking"
    /\ \/ ~Gone(at) /\ ownerPc' = "joining" /\ UNCHANGED fault
       \/ Gone(at) /\ fault' = "breakLoop" /\ UNCHANGED ownerPc
    /\ UNCHANGED <<signals, pool, at, leaving, loops, posts, starts, most>>

\* Mutant: the thread is not waited for.
JoinForgotten ==
    /\ ownerPc = "joining"
    /\ at' = at + 1
    /\ ownerPc' = "quitting"
    /\ UNCHANGED <<signals, pool, leaving, loops, history>>

\* ... and join(); delete threads_[i].
JoinThread ==
    /\ ownerPc = "joining" /\ threadPc[at] = "finished"
    /\ at' = at + 1
    /\ ownerPc' = "quitting"
    /\ UNCHANGED <<signals, pool, leaving, loops, history>>

QuitDone ==
    /\ ownerPc = "quitting" /\ at > numThreads
    /\ made' = 0 /\ isRunning' = FALSE
    /\ ownerPc' = IF leaving THEN "destroyed" ELSE "idle"
    /\ UNCHANGED <<signals, numThreads, nextLoopIndex, wanted, at, leaving>>
    /\ UNCHANGED <<loops, history>>

\* The base loop's own events, between the calls.
BaseSignals ==
    /\ ownerPc = "idle"
    /\ \/ \E s \in Signals : registerSignalEvent(s)
       \/ EpollReturns
       \/ \E e \in active : handleEvent(e)
    /\ UNCHANGED <<pool, owner, loops, history>>

-----------------------------------------------------------------------------
(* Thread l of the pool.                                                   *)

\* eventLoopThreadFunc() constructs the loop and publishes it ...
Publish(l) ==
    /\ threadPc[l] = "created"
    /\ stop' = [stop EXCEPT ![l] = FALSE]
    /\ queue' = [queue EXCEPT ![l] = 0]
    /\ Goto(l, "published")
    /\ UNCHANGED <<signals, pool, owner, callee, mutex, history>>

\* ... and calls dispatch(), which forgets an earlier breakLoop().
EnterDispatch(l) ==
    /\ threadPc[l] = "published"
    /\ stop' = [stop EXCEPT ![l] = FALSE]
    /\ Goto(l, "looping")
    /\ UNCHANGED <<signals, pool, owner, callee, queue, mutex, history>>

\* runDeferredTasks() locks mutex_ until the tasks have run.
RunTasks(l) ==
    /\ threadPc[l] = "looping" /\ queue[l] > 0 /\ mutex[l] = Base
    /\ mutex' = [mutex EXCEPT ![l] = l]
    /\ Goto(l, "tasks")
    /\ UNCHANGED <<signals, pool, owner, callee, stop, queue, history>>

\* The running task calls runInLoop() on another loop ...
TaskCalls(l, j) ==
    /\ threadPc[l] = "tasks" /\ queue[l] > 0
    /\ <<l, j>> \in Calls /\ j <= made /\ posts < MaxPosts
    /\ callee' = [callee EXCEPT ![l] = j]
    /\ posts' = posts + 1
    /\ Goto(l, "calling")
    /\ UNCHANGED <<signals, pool, owner, stop, queue, mutex>>
    /\ UNCHANGED <<starts, most, fault>>

\* ... pushes a task, if the loop is still there, ...
TaskPushes(l) ==
    /\ threadPc[l] = "calling"
    /\ \/ ~Gone(callee[l]) /\ push(callee[l])
          /\ Goto(l, "waking") /\ UNCHANGED fault
       \/ Gone(callee[l]) /\ fault' = "runInLoop"
          /\ UNCHANGED <<queue, threadPc>>
    /\ UNCHANGED <<signals, pool, owner, callee, stop, mutex>>
    /\ UNCHANGED <<posts, starts, most>>

\* ... and wakes it up, if it still is.
TaskWakes(l) ==
    /\ threadPc[l] = "waking"
    /\ \/ ~Gone(callee[l]) /\ Goto(l, "tasks") /\ UNCHANGED fault
       \/ Gone(callee[l]) /\ fault' = "runInLoop" /\ UNCHANGED threadPc
    /\ UNCHANGED <<signals, pool, owner, callee, stop, queue, mutex>>
    /\ UNCHANGED <<posts, starts, most>>

TaskReturns(l) ==
    /\ threadPc[l] = "tasks" /\ queue[l] > 0
    /\ queue' = [queue EXCEPT ![l] = @ - 1]
    /\ UNCHANGED <<signals, pool, owner, threadPc, callee, stop, mutex>>
    /\ UNCHANGED history

\* Mutant: mutex_ stays locked.
UnlockForgotten(l) == UNCHANGED mutex

\* ~LockGuard()
unlock(l) == mutex' = [mutex EXCEPT ![l] = Base]

TasksDone(l) ==
    /\ threadPc[l] = "tasks" /\ queue[l] = 0
    /\ unlock(l)
    /\ Goto(l, "looping")
    /\ UNCHANGED <<signals, pool, owner, callee, stop, queue, history>>

\* dispatch() returns, the loop is destroyed and the thread ends.
Finish(l) ==
    /\ threadPc[l] = "looping" /\ stop[l]
    /\ Goto(l, "finished")
    /\ ThreadEnds(l)
    /\ UNCHANGED <<pool, owner, callee, stop, queue, mutex, history>>

-----------------------------------------------------------------------------

LoopStep(l) ==
    \/ Publish(l) \/ EnterDispatch(l)
    \/ RunTasks(l) \/ TaskReturns(l) \/ TasksDone(l)
    \/ TaskPushes(l) \/ TaskWakes(l) \/ \E j \in Loops : TaskCalls(l, j)
    \/ Finish(l)

Next ==
    /\ killed = None /\ fault = "none" /\ spurious = None
    /\ \/ \E n \in 0 .. MaxThreads : start(n)
       \/ StartThread \/ StartReturns \/ Started
       \/ getNextLoop \/ OwnerPushes
       \/ quit \/ Destroy \/ QuitThread \/ BreakReturns
       \/ JoinThread \/ QuitDone
       \/ BaseSignals
       \/ \E l \in Loops : LoopStep(l)
       \/ /\ \E s \in Signals : Raise(s)
          /\ UNCHANGED <<pool, owner, loops, history>>

Spec == Init /\ [][Next]_vars

\* The threads of the pool are scheduled, and tasks return.  A mutex_ cannot be
\* taken again and again, as there are finitely many tasks.
FairSpec == Spec /\ \A l \in Loops : WF_vars(LoopStep(l))

-----------------------------------------------------------------------------

\* If the tasks of a loop call only loops that are later in the pool, they find
\* them, while quit() ends one after the other, from the call to its last use
\* of the loop.  The owner's uses of threadLoops_, of threads_ and of a loop
\* fail in three ways only: getNextLoop() after quit(), or after a start() with
\* fewer threads; quit() of a pool that does not run; and the second half of
\* breakLoop(), whose loop may have been destroyed once stop_ is stored, while
\* the first half, for each thread in turn, finds it there.
UsesAreSafe ==
    /\ fault # "runInLoop"
    /\ fault = "getNextLoop" => ~isRunning \/ wanted < most
    /\ fault = "quit" => ~isRunning
    /\ fault = "breakLoop" => isRunning /\ ownerPc = "breaking"

\* If no loops call each other in a circle, a task that waits for the mutex_ of
\* another loop, with that of its own loop locked, is not stuck.
CallsReturn ==
    \A l \in Loops :
        threadPc[l] = "calling"
            ~> \/ threadPc[l] # "calling"
               \/ fault # "none" \/ killed # None \/ spurious # None
=============================================================================
