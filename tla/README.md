# yevent in TLA+

A verification development of yevent (`src/yevent_cc`), a reactor library in C++: one event
loop per thread, tasks that other threads hand to a loop, a thread pool, timers and TCP
connections. The modules are translated from the source files; the comments quote the code
they stand for.

## 1. The system

| Component | State | Operations | Talks to |
|---|---|---|---|
| `EventLoop` | `stop_`, `isNotifyPending_`, the eventfd, `deferredQueue_` under `mutex_`, `registeredEvents_`, `activeEvents_` | `dispatch`, `runInLoop`, `runDeferredTasks`, `wakeup`, `handleNotify`, `breakLoop`, `registerEvent`/`updateEvent`/`deleteEvent` | other threads (shared queue and flags), epoll, `TimerManager`, user callbacks |
| `EventLoopThread` | `running_`, `pLoop_` under `mutex_`/`cond_`, a `Thread`, the loop on that thread's stack | `start`, `quit`, destructor, `eventLoopThreadFunc` | `EventLoop`, `Thread` |
| `Thread`, `MutexLock`, `ThreadCondition` | `isRunning_`, `threadId_`; the owner of a mutex; the waiters of a condition | `start`, `join`; `lock`, `unlock`; `wait`, `notify`, `notifyAll` | pthreads |
| `ThreadPool` | `queue_` under `mutex_`/`cond_`, `running_` (unguarded), `threads_`, `numThreads_` | `start`, `stop`, `schedule`, `fetchTask`, `excuteThread` | `Thread`, user tasks |
| `EventLoopThreadPool` | `threads_`, `threadLoops_`, `nextLoopIndex_`, `numThreads_` | `start`, `quit`, `getNextLoop` | `EventLoopThread` |
| `TimerManager`, `TimerEvent`, `Timestamp` | the heap of timers, the timerfd | `addTimer`, `handleTimerEvents`, `deleteTimer` | `MinHeap`, `EventLoop`, the wall clock |
| `MinHeap` | an array, `size_`, `capacity_` | `push`, `pop`, `top`, `resize` | `TimerManager` |
| `Connection`, `Event` | the event mask, `inputBuf_`, `outputBuf_`, `isWriting_` | `send`, `handleRead`, `handleWrite`, `handleClose` | `EventLoop`, `Buffer`, `TcpServer` |
| `SignalEvent` | a signalfd, the signal mask of the thread | `signalfd_create`, `handleEvent` | `EventLoop`, the kernel |
| `MultiplexerEpoll` | the interest list in the kernel | `addEvent`, `updateEvent`, `deleteEvent`, `dispatch` | epoll, `EventLoop` |
| `Buffer` | a vector, `size_`, `readIndex_`, `writeIndex_` | `append`, `read`, `makeSpace`, `retrieve`, `getAsString`, ... | `Connection` |
| `TcpServer`, `Acceptor` | `conns_` under `mutex_`, `idleFd_` | `newConnection`, `removeConnection`, `handleRead` | `EventLoopThreadPool`, `Connection`, descriptors |

What makes this code hard: flags shared by threads without a lock (`stop_`,
`isNotifyPending_`, `running_`, `isRunning_`), a wake-up that is suppressed when another is
believed to be pending, user code that runs in the middle of an operation and calls back, an
object (the loop) that lives on another thread's stack, and handlers that delete the object
they run on.


### What makes each part correct

- `EventLoop`: a task or a stop handed to a loop is acted upon, whatever the interleaving of
  the unguarded flags; deferred tasks run once each, in the order of the queue.
- `EventLoopThread`: `start()` returns a loop that exists; `quit()` ends the thread.
- `ThreadPool`: no signal of the condition is lost; tasks are fetched once each, in order, by
  somebody; `stop()` comes back.
- `Buffer`: bytes leave in the order in which they entered, and the vector does not outgrow
  them. `MinHeap`: `pop()` returns a least entry; nothing is stored outside the array.
- `TimerManager`: every timer runs; the timerfd is set for the nearest one when the loop
  sleeps; the `TimerEvent` in the loop's table is not a deleted one.
- `Connection`: the peer gets the bytes in the order of the `send()`s; bytes that wait have
  `EV_WRITE` set and get out; the close of the peer is noticed; no method runs on a deleted
  object.
- `EventLoopThreadPool`: no index is out of range and no loop is used after its thread has
  ended, but for the calls named in sections 2 and 7; two loops do not wait for each other. `SignalEvent`: a registered signal reaches the
  callback and does not end the process; a callback means a signal.
- `TcpServer`: `conns_` and the tables of the loops stay exact while descriptor numbers are
  reused by another thread; `registerConnection()` runs for every accepted connection, and
  every one that epoll watches is removed when its peer closes it.

## 2. The modules

| Module | What it is | Composed of |
|---|---|---|
| `TaskQueue` | abstract: tasks in order, each at most once | |
| `EventLoop` | one loop and the threads that call it | implements `TaskQueue` |
| `EventLoopThread` | owner, new thread and the life of the loop | extends `EventLoop` |
| `ThreadPool` | owner, schedulers and workers | implements `TaskQueue` |
| `ByteQueue` | abstract: a queue of bytes | |
| `Buffer` | the vector and its indices | implements `ByteQueue` |
| `PriorityQueue` | abstract: a set with a least entry on top | |
| `MinHeap` | the array and the shifts | implements `PriorityQueue` |
| `TimerManager` | timers, timerfd, clock and the part of the loop that drives them | instantiates `PriorityQueue` |
| `Connection` | one connection, its mask in epoll, its socket, the user's callbacks | |
| `TcpServer` | acceptor, server and loops with their threads | |
| `SignalEvent` | signals, masks of threads, signalfds of the base loop; actions only | |
| `LoopGroup` | an `EventLoopThreadPool`, loops whose tasks call each other, signals | extends `SignalEvent` |
| `<Module>Proofs` | theorems of `EventLoopThread` (with those of `EventLoop`), `ThreadPool`, `Buffer`, `MinHeap`, `TimerManager`, `Connection`, `TcpServer`, `LoopGroup` | extend the component's module |

`MC<Module>` gives the constants of a module values that a `.cfg` cannot write. Mutated forms
of an action (comment "Mutant: ...") stand before the action; no specification uses them.
They show that each property can fail for a plausible slip in the code.

### EventLoop

Variables carry the names of the members without the underscore; `notifyfd` is the counter of
the eventfd. `loopPc` says where the loop's thread is in `dispatch()`: `out`, at the test of
`stop_` (`test`), in `epoll_wait()` (`wait`), handling `activeEvents_` (`events`), between
`read()` and the reset in `handleNotify()` (`clear`), past the events (`timers`), in
`runDeferredTasks()` (`run`). `pc[th]` says where another thread is in
`runInLoop()`/`breakLoop()`: `lock`, `push`, and then the three steps of `wakeup()`: `load`,
`store`, `write`. One step is one access to a variable that no lock guards, or one change of
the owner of `mutex_` with the work up to the next such access. User code runs at the places
`InUserCode` names and may call `runInLoop()` and `breakLoop()` there. In a build with assert
(`NDebug = FALSE`) `breakLoop()` from another thread ends the process; the runs use
`NDebug = TRUE`, the build in which the function does what its callers want.

### EventLoopThread

Extends `EventLoop` by `mutex_` (here `handover`), `pLoop_`, `isRunning_` of the `Thread`, the
place of the owner in `start()` and `quit()` and that of the new thread in
`eventLoopThreadFunc()`. The loop's steps are those of `EventLoop`; the names that `EventLoop` has
already begin with `Elt` here (`EltInit`, `EltNext`, `EltSpec`), and the owner is the only thread
that calls `breakLoop()` from outside (`OwnerOK`). The loop is a local variable of the thread's
function: `loopAlive` says whether it exists, and a call into a destroyed loop ends
the behaviour in `crashed`. Condition waits may return spuriously.

### ThreadPool

`pc[w]` is the place of worker `w` in `excuteThread()` and `fetchTask()`; `ownerPc` that of the
owner in `start()` and `stop()`. `MutexLock` and `ThreadCondition` are the operators `lock`,
`unlock`, `notify`, `notifyAll`. A pool may be started again after `stop()`; a second `stop()`,
which indexes the cleared `threads_`, ends in `crashed`, a failed assert in `aborted`. `holder` is
`holder_` of `mutex_`, which `lock()` and `unlock()` write and `pthread_cond_wait()` does not: it may
name a thread that waits or nobody while the mutex is taken, but `~MutexLock()` asserts that
it is 0 at the end (`HolderCleared`).

### Buffer and MinHeap

An operation of `Buffer` is one step: one thread uses it. Sizes are constants
(`BufferInitialSize` and the block of `read()`); `io` are the bytes that the call put in or took out.
In `MinHeap` one step is one call of `push()`, `pop()` or of the recursive shifts, because the
order is broken in between; `room` is the number of entries the allocated block really has
room for, which after the first `realloc()` is less than `capacity_`.

### TimerManager

`timers`, `nearest` and `out` are the variables of an instance of `PriorityQueue`, so that what
is shown here rests on what `MinHeap` is shown to do (and on fewer than nine timers: the heap
overruns its block with the ninth). An entry is a timer with its `when_`. The clock (`Tick`)
may move between any two steps; `armed` is the expiration of the timerfd. `registered` is the
`TimerEvent` that `registeredEvents_` has for the one `timerFd_` all timers share; with `EpollFails`
`epoll_ctl()` may refuse to add it (`addFailed`), and the next `updateEvent()` tries again. The mask
is taken to be what was asked for. Time is in
units of which `Second` make a second, so that the truncation in `Timestamp(double)` shows. The
history variable `asked` has the time a timer should run at without the truncation.

### Connection

`pc` is the place of the loop's thread with regard to one connection; the module's header
lists them. `interest` is the mask in the kernel, where `updateEvent()` adds any subset of
`Garbage` to it, because `ee.events` is not initialised. The socket is blocking as `accept()`
makes it, or non-blocking if user code made it so. `send()` and `handleClose()` may be called
by user code in any callback. `LostReturns` deletes the object and goes where the code
goes: to `dangling` when the caller uses the object again. The history variables `late`
(bytes sent from the `dataWriteDone()` of `handleWrite()`, whose `EV_WRITE` is cleared when the
callback returns) and `epollFailed` name the two cases in which bytes may stay behind.

### TcpServer

Threads are numbered as their loops, 0 for the base loop. `obj[p]` is how far the connection of
peer `p` has come. `fds` is the kernel's table of descriptors: `accept()` and `open()` take the
lowest free number, so that a number closed on an I/O thread is given out on the base thread
at once. `mutex` is the server's lock, `loopMutex[l]` that of loop `l`, held while its deferred
tasks (and the user's `connectionMake()`) run. `listen` has the failures of `socket()`,
`bind()`, `listen()` and `epoll_ctl()`, after which the server accepts nothing. For a connection
`epoll_ctl()` may fail too: `registerConnection()` goes on to `connectionMake()`, and the connection is
`unwatched`, in no table, until user code sends more than a `write()` takes (`SendWatches`) or
closes it. The close of its peer is not noticed; `ClosedIsRemoved` speaks of `live` ones.

### LoopGroup and SignalEvent

`LoopGroup` is coarser than `EventLoop`, because its question is another one: what happens
between loops. Of a loop it keeps `stop`, the number of deferred tasks and the owner of `mutex_`,
which `runDeferredTasks()` holds while the tasks run; wake-ups are left to `EventLoop`, the
hand-over of a loop to `EventLoopThread`. `start()`, `quit()`, `getNextLoop()` and the destructor
of `EventLoopThreadPool` are steps of the base thread, one for each call of a thread's `start()`
and `join()` and two for `breakLoop()`: it stores `stop_` (`QuitThread`) and then uses the loop again
(`BreakReturns`), which its thread may have destroyed by then. The `runInLoop()` of a task has two
steps for the same reason (`TaskPushes`, `TaskWakes`); that of the owner is one, as nobody else ends a
loop. A pool may be started again with more or fewer threads, quit twice and asked for a loop
after `quit()`. `fault` names the call in which something that is not there was used, which ends the
model; `UsesAreSafe` says which of these can happen, and when: never a task's `runInLoop()`;
`getNextLoop()` after `quit()` or a restart with fewer threads; `quit()` of a pool that does not
run; the second half of `breakLoop()`, in any `quit()`. `Calls` says which loops' tasks call
`runInLoop()` on which others.

`SignalEvent` adds the signals of the process: which threads exist, what each blocks, what is
pending, and the `SignalEvent`s of the base loop. A new thread inherits the mask of the base
thread, which starts it; `registerSignalEvent()` blocks the signal in the base thread alone. A
signal that some thread does not block may be given to that thread, whose default action
ends the process (`killed`). A `read()` that fails leaves the structure uninitialised, so that
the callback may or may not be called (`spurious`).

## 3. The runs

| Run | Bounds | States | Shows |
|---|---|---|---|
| `loop` | 2 threads, one of which may stop the loop, 3 tasks | 96 147 | `NoLostWakeup`, `PendingIsBacked`, `NotifyBounded`, `QueueStableWhileRunning`, `ImplementsTaskQueue`, `DeferredTasksRun`, `StopEndsDispatch` |
| `thread` | owner, one more caller, 2 tasks | 14 317 | `StartReturnsALoop`, `StartTerminates`, `QuitStopsARunningLoop` |
| `pool` | 2 workers, 3 tasks, 2 starts | 35 465 | `EnoughAwake`, `HolderCleared`, `ImplementsTaskQueue`, `TasksAreFetched`, `StopReturnsIfTasksAbound` |
| `buffer` | 3 bytes at first, chunks of 0..3 over 2 byte values, at most 4 bytes waiting | 27 360 | `GrowthBounded`, `ImplementsByteQueue` |
| `heap` | 7 entries, 4 keys, first block of 6 | 39 247 | `HeapOrdered`, `FitsUntilGrowth`, `ImplementsPriorityQueue` |
| `timers` | 3 timers (2.5 s once, every 1.5 s, 0.5 s once), clock of 3.5 s in halves, epoll may refuse | 261 677 | `LessThanASecondEarly`, `RunningIsNearest`, `TableHoldsLiveTimer`, `ArmedForNearest`, `TimersRun` |
| `connection` | 4 bytes, socket of 2, 2 unread chunks | 47 116 | `StreamOrder`, `WritingHasData`, `OutputIsWatched`, `OutputDrains`, `PeerCloseIsNoticed` |
| `server` | 3 peers, 2 descriptors, 0 to 2 I/O threads | 131 109 | `ConnsIsExact`, `TableIsExact`, `LoopsAreBalanced`, `AcceptedIsRegistered`, `ClosedIsRemoved`, `SpareAnswersPending` |
| `group` | 2 loops, tasks of the first call the second, 2 starts, 4 calls, 2 events of one signal | 548 494 | `UsesAreSafe`, `KilledOnlyIfLate`, `CallbackMeansSignal`, `CallsReturn` |
| `thread_quit` | as `thread` | | `QuitStopsTheLoop` is violated |
| `connection_delete` | 3 bytes, no user close, no garbage | | `ConnectionExists` is violated |
| `timers_stall` | one timer of 2.5 s, no other descriptor | | `TimersRun` is violated |

Each bound is the least at which the hard case happens:

- `loop`: two threads are needed for one to skip the write because of the other's flag, a third
  task for a hand-over after both; a thread may be between `load` and `store` while the other
  writes and the loop reads, which gives the eventfd more than one write.
- `pool`: two workers are needed for a signal to wake the wrong one, three tasks for one more
  task than workers; two starts for workers that meet the queue of an earlier life.
- `buffer`: with four bytes waiting in a vector of three every branch of `makeSpace()` is taken at,
  below and above its boundary, and a read spills into the extra block in every position.
- `heap`: the six entries that the block takes make a tree of three levels, with equal keys
  among siblings and between levels; the push of the seventh calls `resize()`, after which the
  block has room for fewer, and the run ends there (`overrun`).
- `timers`: a one-shot and a repeating timer fall due in the same round, in both orders; the
  clock moves past two due times between any two readings.
- `connection`: the socket takes less than a `send()`, and a second `send()` is made while
  the first one's rest waits; user code closes in each place.
- `server`: with two descriptors for three peers a number is reused, the shortage occurs with
  and without the spare, and two I/O threads make the round robin wrap.
- `group`: two loops are needed for one to call the other; with two starts a pool is restarted
  with fewer threads and with more; two events of one signal are needed for a `read()` that fails.

Every module that describes a component has a `TypeOK`. No run lists it: it is a theorem of each but
`LoopGroup`, and it holds in the instance of each run.

A run may stop (`CHECK_DEADLOCK FALSE`) where the system may: a pool that is destroyed or whose
`stop()` never returns, a thread that has ended, a deleted connection, a server whose peers
are all served, a pool of loops that is destroyed, a crash of the process (the overrun of a heap
among them). The loop, the buffer and the timers never stop.

## 4. Fairness

- A thread that can take a step takes one (weak fairness of each thread's own steps); user
  code returns. Nobody has to call anything: calls from outside and other descriptors that
  become ready are never assumed, with the exception below.
- Locks: strong fairness of one step, `LockPublish` of `EventLoopThread` and `Lock` of
  `ThreadPool`. The reason is the model's spurious wake-ups: a waiter that wakes and waits
  again without end could else hold the mutex at every moment the other thread looks at it.
- `ReadEnd` of the base loop in `TcpServer` is strongly fair: `epoll_wait()` reports all ready
  descriptors, so that the listening socket cannot hide a connection from its loop. An error of
  `accept()` other than `EMFILE`, after which `handleRead()` changes nothing, would be a step that
  stutters; that it does not come for ever is part of the fairness of the base loop.
- No fairness is asked of `SendWatches` or of an `epoll_ctl()` that has failed: no property relies on
  a second try.
- `TimerManager`: time passes and an expired timerfd is reported. `BusySpec` adds that other
  descriptors keep waking the loop. This is not a property of the code: it is the condition
  under which every timer runs, as the finding `timers_stall` shows that it fails without.
- `Connection`: the peer reads what it is sent while it is there. Without it a non-blocking
  socket never drains and a blocking one keeps the loop's thread for ever.
- `LoopGroup`: every thread of the pool is scheduled and its tasks return; nobody has to call the
  pool. Weak fairness is enough for a task that waits for the `mutex_` of another loop, because
  the calls, and with them the batches that hold it, are finitely many.

## 5. The theorems

All are proved for every value of the constants that satisfies the modules' assumptions
(`ConstantsOK`, `OwnerOK`), which only keep the special values apart and give the sizes their
type. Some theorems have a hypothesis of their own, `CallsGoForward` in `LoopGroup` and
`"ONESHOT" \notin Garbage` in `Connection`, explained below.

**EventLoop.** `TypeCorrect`, `QueueStable`, `NoWakeupIsLost`, `PendingAlwaysBacked`,
`NotifyIsBounded`, `StopIsNotForgotten` and `LoopImplementsTaskQueue`, for any number of threads
and calls. None of the properties is inductive. The invariant is built in layers, each proved on
top of the last: types, with `CarryInv` (a thread in `runInLoop()` carries a task); `MutexInv`
(`mutex_` has exactly the owner that is inside a guarded block) and `IndexInv`, which give
`QueueStable`; `WakeupInv`; and `TaskInv` (a task is in one place). The heart is `WakeupInv`: a
wake-up is owed not only while the loop sleeps but at every point from which it can fall asleep
without looking at the queue again (`out`, `test`, `wait`), and a set `isNotifyPending_` is backed
by the counter, by a thread at its `write()` or by the loop at its reset. A thread that finds the
flag set may skip its write because of the second part; the loop that clears the flag must still
run the queue because of the order of `handleNotify()` and `runDeferredTasks()`. `NotifyIsBounded`
says that the counter of the eventfd never exceeds three per calling thread, however many calls are
made: a thread writes once for each time it finds the flag down, and between two reads of the
counter the flag is down in at most three periods. The refinement maps the abstract queue to the
part of `deferredQueue_` that the iterator has not passed. `StopIsNotForgotten` is an action
property: no step but the entry into `dispatch()` clears `stop_`. It is the safety core of
`StopEndsDispatch`, and the exception is what the violation run of `EventLoopThread` shows.

**EventLoopThread.** `StartReturnsTheLoop`, `OwnerWaitsForNotify`, `LoopIsAnEventLoop`,
`NoWakeupIsLostInThread`, `ThreadRunsTasksInOrder` and `ThreadTypeCorrect`. `HandoverInv` ties
`pLoop_`, the life of the loop and `isRunning_` to the place of the new thread; the owner's part is
then a matter of `pLoop_` alone. `OwnerWaitsForNotify` is the safety core of `StartTerminates`: an
owner that waits on `cond_` waits for a `notify()` that is still to come, and `mutex_` is not held
by anybody who could keep the new thread from it (`HandoverLockInv`). That the loop inside the
thread is an `EventLoop` is a refinement (`EltSpec => Spec`), through which what is proved of
`EventLoop` is carried over, down to `TaskQueue`.

**ThreadPool.** `PoolTypeCorrect`, `HolderIsCleared`, `NoSignalIsLost` and
`PoolImplementsTaskQueue`, for any number of workers, tasks and starts. `LifeInv` says that
`stop()` has joined a worker before the next `start()` creates it again; `NoSignalIsLost`
compares, by cardinality, the tasks in the queue with the workers that are awake. The end of a
pool: `NoWorkerOutlivesStop` (a pool whose `threads_` is empty has no thread that still runs),
`CrashIsSecondStop` (`threads_` is indexed out of range by a `stop()` after a `stop()` and in no
other way) and `AbortIsEarlyJoin` (the assert of `join()` fails only for a thread that has not
begun to run). They rest on `ThreadsInv`: outside `start()`, `threads_` is empty or has as many
threads as `numThreads_` says.

**Buffer.** `BufferIndicesInOrder`, `GrowthIsBounded` and `BufferImplementsByteQueue`, for any
bytes and sizes.
`Formed` (the vector has the size `size_` repeats, the indices are in order) is inductive by
itself. The lemmas say what the operators do to the data, stated once for `makeSpace()` and
`append()` on an arbitrary content, since `read()` applies them to an intermediate one.

**MinHeap.** `MinHeapTypeCorrect`, `MinHeapIsOrdered`, `MinHeapImplementsPriorityQueue` and
`MinHeapFitsUntilGrowth`, for any entries and keys. Between two recursive calls the order has
a hole: `UpOrdered` and `DownOrdered` say which edges of the tree may violate it, and that
the children of the hole are not less than its parent, which is what a swap needs. That a
root whose children are all ordered is least (`RootIsLeast`) is shown for the least index
of an entry that is less. `RoomInv` is the invariant for the block: the allocated room is at
least `MIN_HEAP_INITIAL` until the first growth.

**TimerManager.** `TimersTypeCorrect`, `RunningStaysNearest`, `TableStaysLive`, `SleepsArmed` and
`NeverASecondEarly`, for any timers and any pace of the clock. `TopInv` says that the top of the
heap is a nearest timer, `CurInv` that the timer whose callback runs is at the top and past due:
a timer that the callback adds is never due before one that is past, so the `pop()` after it
takes the right one. `ArmedInv` adds at each place of the loop what it still has to do for the
timerfd. `NeverASecondEarly` needs that the truncation takes away less than a second, once,
however often the interval is added.

**Connection.** `ConnectionTypeCorrect`, `BytesInOrder`, `WritingIsForData`, `WaitingIsWatched`,
`DeletedConnsAreForgotten` and `PeersAreWatched`. The bytes are numbered in the order of the
`send()`s; the invariant says that what was written is an initial segment of the numbers and
`outputBuf_` the rest, so that "neither reordered, doubled nor lost" is an equation between
sequences. `EpollInv` ties the loop's table and the kernel's list to the life of the connection,
whichever `epoll_ctl()` fails: from `connectionLost()` on neither refers to it. `PeersAreWatched`
is the safety core of `PeerCloseIsNoticed`: `enableWriting()` and `disableWriting()` never take
EV_READ out of the kernel's mask. The hypothesis `"ONESHOT" \notin Garbage` is needed, as an
EPOLLONESHOT among the bits that `updateEvent()` does not initialise ends the watch with the first
report.

**TcpServer.** `ServerTypeCorrect`, `ConnsAreExact`, `TablesAreExact`, `LoopsStayBalanced`,
`ConnectionsAreNotLost`, `StagesInOrder`, `DescriptorsAreClosedLast` and `LocksAreOrdered`, for any
number of peers, descriptors and threads. `ServerInv` has a part for each thing that can
go wrong when a number is reused: `PlaceInv` (a connection that is being made or removed is in
the hands of exactly one thread), `FdInv` (a descriptor of the kernel and the connection that
has it name each other), `ConnsInv` and `TableInv` (entries of `conns_` and of the tables are of
connections that have their descriptor), `QueueInv` (a queued connection is in the queue of its
own loop, once). The order of `erase()` before `close()` is what `FdInv` with `ConnsInv` needs.
`BalanceInv` counts the connections of each loop against the index of the round robin.
`ConnectionsAreNotLost` is the other direction of the exactness, and the safety core of
`AcceptedIsRegistered` and `ClosedIsRemoved`: in each stage a connection is in the hands of a thread,
in the queue of its loop or, if `live`, in its table; one that epoll has refused is in no table (and,
by `ConnsAreExact`, in `conns_` all the same). Two action properties say what no step does: `StagesInOrder` (the stages of a
connection come once each and in order, and its descriptor and loop stay what they are) and
`DescriptorsAreClosedLast` (a number is closed by the removal of its own connection and when no
table has it). `LocksAreOrdered` says that no circle of threads waits for each other's mutexes:
whoever waits for a loop's `mutex_` has let go of the server's, whoever holds the server's waits
for nothing, so that a chain of waiting has at most two links.

**LoopGroup and SignalEvent.** `GroupTypeCorrect`, `CalleesStayAlive`, `OnlyOwnerFaults`,
`CallersNeverDeadlock`, `NoThreadOutlivesThePool`, `KillersAreLate` and `SpuriousMeansShared`, for
any number of loops, calls between them, signals and `SignalEvent`s. `SizeInv` relates
`numThreads_`, the threads that were made and `nextLoopIndex_`; `LifeInv` says which threads run in
each phase of `start()`, `quit()` and the destructor, in particular that `quit()` joins them in the
order in which they were made; `CallInv` says who holds which loop's `mutex_` and which loop each
calls. A task may call a loop that is stopped and destroyed, unless the loop it calls is joined
after its own; that is the hypothesis `CallsGoForward` (`Calls` leads from a loop to a later one),
under which `CalleesStayAlive` and with it `OnlyOwnerFaults` are proved, and which the `Calls` of the
run satisfies. `OnlyOwnerFaults` says that no task ever uses a loop that is gone, from its call to
its last use, and that the owner's faults are the three that `UsesAreSafe` names; `LifeInv` has the
reason why the first half of `breakLoop()` is none of them: the threads from the one `quit()` is
busy with have not been stopped. The same order keeps callers out of deadlock, although each holds its own loop's
`mutex_` while it wants another's: `CallersNeverDeadlock`, the safety core of `CallsReturn`, finds
behind every caller that waits for another loop a later loop whose holder does not (`LastLoop`:
of finitely many, there is a last). `KillersAreLate` rests on `BlockedInv` (every thread
blocks what the base thread blocks, but for the signals that were registered late),
`SpuriousMeansShared` on `ActiveInv`.

What stays with TLC: everything under fairness, that is the `~>` properties (`DeferredTasksRun`,
`StopEndsDispatch`, `StartTerminates`, `QuitStopsARunningLoop`, `TasksAreFetched`,
`StopReturnsIfTasksAbound`, `OutputDrains`, `PeerCloseIsNoticed`, `TimersRun`,
`AcceptedIsRegistered`, `ClosedIsRemoved`, `SpareAnswersPending`, `CallsReturn`), as the prover does
not reach liveness; and that some action of a state is enabled, so that the theorems about
deadlock speak of who holds what and not of ENABLED. Every invariant and every refinement that a
run checks is also a theorem.

## 6. What the checks found

1. **A stop that comes early is lost** (`thread_quit`). The loop is published before
   `dispatch()` stores `stop_ = false`; a `quit()` in between is overwritten and `join()` waits for ever.
2. **A method of a deleted connection** (`connection_delete`). `Event::handleEvent()` calls
   `handleWrite()` after a `handleRead()` that has deleted the object.
3. **A timer that never runs** (`timers_stall`). A timer that falls due between two readings of
   the clock sets the timerfd to zero, which disarms it.

## 7. Met while modelling, without a run of their own

- `breakLoop()` asserts that the loop's own thread calls it (EventLoop.cc:177), while its
  declaration and its only caller, `EventLoopThread::quit()`, use it from another one: with assert every
  `quit()` of a running loop aborts.
- `breakLoop()` and `runInLoop()` may still be inside `wakeup()` when the loop, a local variable
  of its thread, is destroyed: any `quit()` of a thread or of a pool may do this. `EventLoopThread` ends
  there in `crashed`, `LoopGroup` with the fault `breakLoop`.
- `Thread::join()` asserts `isRunning_`, which the new thread sets for itself. `ThreadPool::stop()`
  right after `start()` joins a thread that has not run yet and aborts (`aborted` in `ThreadPool` with
  `NDebug = FALSE`); `EventLoopThread` is safe, because `start()` waits for the loop
  (`StartReturnsALoop`).
- Two loops whose tasks call `runInLoop()` on each other stop for ever: each holds its own
  `mutex_`, as `runDeferredTasks()` does while tasks run, and waits for the other's. With
  `Calls = {<<1, 2>>, <<2, 1>>}` in `MCLoopGroup`, TLC finds `CallsReturn` violated.
- `EventLoopThreadPool::quit()` ends the loops in the order of the pool. With `Calls = {<<2, 1>>}`
  a task of the second loop calls the first one, which is gone: `UsesAreSafe` is violated.
- After `quit()`, `numThreads_` and `nextLoopIndex_` keep their values: `getNextLoop()` and a second
  `quit()` index cleared vectors, and after a restart with fewer threads `getNextLoop()` starts
  beyond the end.
- A signal that is registered when the process has other threads already may be given to one
  of them and end the process.
- `updateEvent()` of the multiplexer ORs into an uninitialised mask. Stray `EPOLLIN` and
  `EPOLLOUT` bits are harmless to the properties of `Connection`, `EPOLLONESHOT` and `EPOLLET`
  are not: the constant `Garbage` has them, the run leaves them out.
- `ThreadPool::stop()` waits for ever for a worker that sleeps in `fetchTask()`; `StopReturnsIfTasksAbound`
  states the condition under which it returns. A second `stop()`, which the destructor is, indexes a
  cleared vector.
- `MinHeap::resize()` passes entries for bytes: the ninth timer is stored beyond the block.
- The copy constructor of `Buffer` swaps its uninitialised indices with those of the original and
  never sets `size_`; `findCRLF()` returns the end of the data, not NULL, when there is no CRLF. The
  library uses neither.
- `Connection::send()` has no `return`; its callers in the library ignore the result.
- A timer of 2.5 s is run after 2 s: `Timestamp(double)` truncates.
- The first `EMFILE` finds no spare descriptor; until a connection ends, the loop spins.
- Accepted sockets are blocking, although the code tests for `EWOULDBLOCK`.
- `registerConnection()` does not learn that `epoll_ctl()` has failed: the connection is made, but
  nobody notices what its peer does, and it keeps its place in `conns_` and its descriptor
  (`unwatched` in `TcpServer`, `epollFailed` in `Connection`).
- A failed `write()` to the eventfd leaves `isNotifyPending_` set, so that no later call writes. It is
  not in `EventLoop`, whose `write()` succeeds: `NotifyBounded` shows that the counter does not
  overflow, and no other failure is modelled.
- What `dataWriteDone()` sends from `handleWrite()` is left in `outputBuf_` when `disableWriting()`
  follows; `OutputIsWatched` and `OutputDrains` except it (`late`).
- Failures of `bind()` and `listen()` close the descriptor and are then ignored.

## 8. What is not modelled

- Functions without a `return` for their type (`Connection::send`, `TimerManager::addTimer` and
  others): undefined, but their results are not used by the library.
- A second `start()` of an `EventLoopThread`, against the assert of `Thread::start()`; failures of
  `pthread_create()`.
- The wall clock being set; a timer callback that takes longer than its interval (the loop
  then serves nothing else); memory beyond an overrun block; the invalid timers of
  `getNearestValidTimer()`, which nobody makes.
- A `write()` to the eventfd that fails; errors of `accept()` other than `EMFILE` (`handleRead()` does
  nothing for them); the bits that the multiplexer's `updateEvent()` leaves to chance, outside
  `Connection`. The timerfd is set by `updateEvent()` again and again, so that a stray `EPOLLET` or
  `EPOLLONESHOT` would matter only together with an `epoll_ctl()` that fails.
- The copy of a `Buffer`, `findCRLF()`, `inputBuf_` of a `Connection` (it is a `Buffer`).
- `send()` from `connectionLost()`, whose descriptor is closed; `SIGPIPE`.
- `~TcpServer` and `~Acceptor`: `mutex_` and `conns_` are destroyed before `threadPool_`, whose
  destructor joins the I/O threads. No test or document says when a server may be destroyed.
- A callback that deletes the object of a later event of the same batch; more ready descriptors
  than `YE_MAXEVENT`. In `Connection` the same hazard shows for the one object itself.
- The files no build uses (`BlockingQueue.h`, `TcpClient.h`, `Connector.h`,
  `connection.h`, `MultiplexerSelect.h`); addresses, formatting and logging.

## 9. Plan

Done: all the components above with their runs, and the proofs of eight modules. What is left:

1. `EventTable`: `registeredEvents_` and `activeEvents_` for several descriptors, with callbacks
   that delete events of the same batch.
2. The destruction of a `TcpServer` on top of `LoopGroup`.
3. That `TimerManager` keeps its properties on `MinHeap` itself, not only on `PriorityQueue`.
4. `TcpServer` as an implementation of an abstract server, with `StagesInOrder` as its steps.
