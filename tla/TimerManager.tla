---------------------------- MODULE TimerManager ----------------------------
(***************************************************************************)
(* The timers of one EventLoop: TimerManager, its timerfd and the wall     *)
(* clock, driven by dispatch().  Everything here runs on the loop's        *)
(* thread; what makes it concurrent is the clock, which the code reads     *)
(* once to choose a timer's time, again for every comparison and once more *)
(* to arm the timerfd, and which may move between any two of these steps.  *)
(*                                                                         *)
(* The heap of timers is the PriorityQueue that MinHeap implements.  Time  *)
(* is counted in units of which Second make a second, and ends at MaxTime. *)
(* The wall clock is taken to run at the rate of the timerfd's clock and   *)
(* not to be set.  The bits that MultiplexerEpoll::updateEvent() leaves to *)
(* chance are in Connection, not here.                                     *)
(***************************************************************************)
EXTENDS Integers

CONSTANTS
    Timers,      \* one TimerEvent per call of registerTimerEvent()
    Timeout,     \* the arguments of that call, in units; an interval of 0
    Interval,    \* does not repeat
    Second,
    MaxTime,
    MaxWhen,     \* no timer is set later than this
    EpollFails,  \* epoll_ctl() may refuse to add timerFd_
    NoEntry,     \* NULL
    Never        \* the timerfd is disarmed

ASSUME ConstantsOK ==
    /\ Timeout \in [Timers -> Nat] /\ Interval \in [Timers -> Nat]
    /\ Second \in Nat \ {0} /\ MaxTime \in Nat /\ MaxWhen \in Nat
    /\ \A t \in Timers : MaxTime + Timeout[t] + Interval[t] <= MaxWhen
    /\ Never \notin Nat
    /\ EpollFails \in BOOLEAN

Times == 0 .. MaxWhen
Entries == [timer : Timers, when : Times]

ASSUME NoEntryOK == NoEntry \notin Entries \cup Timers

VARIABLES
    now,         \* what gettimeofday() returns
    timers,      \* the entries of minHeap_
    nearest,     \* minHeap_->top()
    out,         \* what minHeap_->pop() returned last
    armed,       \* when the timerfd expires or expired, until it is read
    registered,  \* the TimerEvent that registeredEvents_ holds for timerFd_;
                 \* epoll watches timerFd_ while there is one
    addFailed,   \* history: the last addEvent() of timerFd_ failed
    activeEvents,
    cur,         \* timer of handleTimerEvents()
    pc,
    back,        \* where updateTimerEvent() returns to
    asked        \* history: the time the caller of registerTimerEvent() asked
                 \* for, to the unit; Never before the call

heap == <<timers, nearest, out>>
fdVars == <<armed, registered, addFailed>>
loopVars == <<activeEvents, cur, pc, back>>
vars == <<now, heap, fdVars, loopVars, asked>>

Heap == INSTANCE PriorityQueue
            WITH queue <- timers, top <- nearest,
                 Key <- [e \in Entries |-> e.when]

\* The places where user code runs and may call registerTimerEvent(): before
\* dispatch(), in the callback of another event, of a timer, and in a task.
UserCode == {"out", "io", "callback", "tasks"}
Fds == {"timer", "io"}

TypeOK ==
    /\ now \in 0 .. MaxTime
    /\ timers \subseteq Entries
    /\ {nearest, out, cur} \subseteq Entries \cup {NoEntry}
    /\ armed \in Times \cup {Never}
    /\ registered \in Timers \cup {NoEntry}
    /\ addFailed \in BOOLEAN
    /\ activeEvents \subseteq Fds
    /\ pc \in UserCode \cup {"wait", "events", "test", "push", "update"}
    /\ back \in UserCode
    /\ asked \in [Timers -> Times \cup {Never}]

\* A new timerfd is not armed.
CreateTimerfd == armed = Never

\* TimerManager::TimerManager()
Init ==
    /\ now = 0
    /\ Heap!Init
    /\ CreateTimerfd
    /\ registered = NoEntry /\ addFailed = FALSE /\ cur = NoEntry
    /\ activeEvents = {}
    /\ pc = "out" /\ back = "out"
    /\ asked = [t \in Timers |-> Never]

-----------------------------------------------------------------------------

Tick ==
    /\ now < MaxTime
    /\ now' = now + 1
    /\ UNCHANGED <<heap, fdVars, loopVars, asked>>

\* The interval, if it is a second or more, and else the timeout.
Delay(t) == IF Interval[t] < Second THEN Timeout[t] ELSE Interval[t]

\* Mutant: the delay is taken for a time.
DueWithoutNow(t) == (Delay(t) \div Second) * Second

\* The Timestamp that addTimer() makes: the delay, cut to whole seconds, from
\* now.
Due(t) == now + (Delay(t) \div Second) * Second

\* A timer's place in the order of the heap changes with setWhen(), so the
\* entry of the heap is the timer with its when_.
TimerEvent(t, when) == [timer |-> t, when |-> when]

\* addTimer(), up to updateTimerEvent().
addTimer(t) ==
    /\ Heap!Push(TimerEvent(t, Due(t)))
    /\ pc' = "update"
    /\ UNCHANGED <<now, fdVars, activeEvents, cur>>

\* EventLoop::registerTimerEvent(), called by user code.
registerTimerEvent(t) ==
    /\ pc \in UserCode
    /\ asked[t] = Never
    /\ asked' = [asked EXCEPT ![t] = now + Delay(t)]
    /\ back' = pc
    /\ addTimer(t)

\* The top of the heap; NULL without timers.  Nobody sets isValid_ to false:
\* TimerManager::deleteTimer() has no caller.
getNearestValidTimer == nearest

\* timerfd_settime() with the time that is left: zero, which disarms, when the
\* timer is due.  Expirations that were not read are forgotten.
Armed(e) == IF e.when > now THEN e.when ELSE Never

\* Mutant: updateEvent() is not called.
TableKept(t) == UNCHANGED <<registered, addFailed>>

\* EventLoop::updateEvent() enters the timer if the table has none for timerFd_
\* and epoll takes it.
Enter(t) ==
    \/ registered # NoEntry /\ UNCHANGED <<registered, addFailed>>
    \/ registered = NoEntry /\ registered' = t /\ addFailed' = FALSE
    \/ registered = NoEntry /\ EpollFails /\ addFailed' = TRUE /\ UNCHANGED registered

\* updateTimerEvent(): the timerfd is set for the nearest timer.
updateTimerEvent ==
    /\ pc = "update"
    /\ IF getNearestValidTimer = NoEntry THEN UNCHANGED fdVars
       ELSE /\ armed' = Armed(getNearestValidTimer)
            /\ Enter(getNearestValidTimer.timer)
    /\ pc' = back
    /\ UNCHANGED <<now, heap, activeEvents, cur, back, asked>>

-----------------------------------------------------------------------------
(* dispatch()                                                              *)

Dispatch ==
    /\ pc = "out"
    /\ pc' = "wait"
    /\ UNCHANGED <<now, heap, fdVars, activeEvents, cur, back, asked>>

Readable == armed # Never /\ armed <= now

\* epoll_wait() returns; "io" stands for the descriptors of others.
EpollReturns(fds) ==
    /\ pc = "wait"
    /\ fds # {}
    /\ "timer" \in fds <=> Readable /\ registered # NoEntry
    /\ activeEvents' = fds
    /\ pc' = "events"
    /\ UNCHANGED <<now, heap, fdVars, cur, back, asked>>

\* TimerEvent::handleEvent(): read() takes the expirations, if there are any
\* left after what earlier callbacks of the round did.
ReadTimerfd ==
    /\ pc = "events" /\ "timer" \in activeEvents
    /\ armed' = IF Readable THEN Never ELSE armed
    /\ activeEvents' = activeEvents \ {"timer"}
    /\ UNCHANGED <<now, heap, registered, addFailed, cur, pc, back, asked>>

CallIo ==
    /\ pc = "events" /\ "io" \in activeEvents
    /\ activeEvents' = activeEvents \ {"io"}
    /\ pc' = "io"
    /\ UNCHANGED <<now, heap, fdVars, cur, back, asked>>

IoReturns ==
    /\ pc = "io"
    /\ pc' = "events"
    /\ UNCHANGED <<now, heap, fdVars, activeEvents, cur, back, asked>>

EventsDone ==
    /\ pc = "events" /\ activeEvents = {}
    /\ pc' = "test"
    /\ UNCHANGED <<now, heap, fdVars, activeEvents, cur, back, asked>>

-----------------------------------------------------------------------------
(* handleTimerEvents()                                                     *)

\* Mutant: a timer is due only at its very time.
IsDueExactly(e) == e.when = now

\* timer->getWhen() < Timestamp::now()
IsDue(e) == e.when < now

\* The nearest timer is due: its callback is called.
CallTimer ==
    /\ pc = "test"
    /\ getNearestValidTimer # NoEntry
    /\ IsDue(getNearestValidTimer)
    /\ cur' = getNearestValidTimer
    /\ pc' = "callback"
    /\ UNCHANGED <<now, heap, fdVars, activeEvents, back, asked>>

\* The timer repeats: pop() ...
PopRepeated ==
    /\ pc = "callback"
    /\ Interval[cur.timer] > 0
    /\ Heap!Pop
    /\ pc' = "push"
    /\ UNCHANGED <<now, fdVars, activeEvents, cur, back, asked>>

\* addTime() keeps the fraction of its double, unlike Timestamp(double).
addTime(when, seconds) == when + seconds

\* ... setWhen() and push().
PushRepeated ==
    /\ pc = "push"
    /\ Heap!Push([cur EXCEPT !.when = addTime(@, Interval[cur.timer])])
    /\ pc' = "test"
    /\ UNCHANGED <<now, fdVars, activeEvents, cur, back, asked>>

\* Mutant: the timer is deleted without deleteEvent().
EventKept == UNCHANGED registered

\* deleteEvent() takes timerFd_ out of the table and of epoll, whichever timer
\* the table holds.
deleteEvent == registered' = NoEntry

\* The timer does not repeat: deleteEvent(), pop() and delete.
DeleteTimer ==
    /\ pc = "callback"
    /\ Interval[cur.timer] = 0
    /\ deleteEvent
    /\ Heap!Pop
    /\ pc' = "test"
    /\ UNCHANGED <<now, armed, addFailed, activeEvents, cur, back, asked>>

\* No timer is due any more.  Without timers the function returns at once.
LeaveTimers ==
    /\ pc = "test"
    /\ IF getNearestValidTimer = NoEntry THEN pc' = "tasks" /\ UNCHANGED back
       ELSE ~IsDue(getNearestValidTimer) /\ pc' = "update" /\ back' = "tasks"
    /\ UNCHANGED <<now, heap, fdVars, activeEvents, cur, asked>>

\* runDeferredTasks() returns.
TasksDone ==
    /\ pc = "tasks"
    /\ pc' = "wait"
    /\ UNCHANGED <<now, heap, fdVars, activeEvents, cur, back, asked>>

LoopStep ==
    \/ \E t \in Timers : registerTimerEvent(t)
    \/ updateTimerEvent
    \/ Dispatch
    \/ ReadTimerfd \/ CallIo \/ IoReturns \/ EventsDone
    \/ CallTimer \/ PopRepeated \/ PushRepeated \/ DeleteTimer \/ LeaveTimers
    \/ TasksDone

Next ==
    \/ Tick
    \/ \E fds \in SUBSET Fds : EpollReturns(fds)
    \/ LoopStep

Spec == Init /\ [][Next]_vars

\* The loop's thread is scheduled, user code returns, time passes and
\* epoll_wait() reports an expired timerfd.
FairSpec ==
    /\ Spec
    /\ WF_vars(Tick)
    /\ WF_vars(LoopStep)
    /\ WF_vars(\E fds \in SUBSET Fds : "timer" \in fds /\ EpollReturns(fds))

\* Moreover other descriptors wake the loop for ever.
BusySpec ==
    /\ FairSpec
    /\ WF_vars(\E fds \in SUBSET Fds : "io" \in fds /\ EpollReturns(fds))

-----------------------------------------------------------------------------

\* The timer whose callback runs stays at the top of the heap whatever timers
\* the callback adds, so that the pop() that follows takes it and no other.
RunningIsNearest ==
    pc = "callback" \/ (pc = "update" /\ back = "callback") => nearest = cur

\* The TimerEvent that the table, and so activeEvents_, holds for the timerfd
\* is not deleted while it is there.
TableHoldsLiveTimer ==
    registered # NoEntry =>
        \/ \E e \in timers : e.timer = registered
        \/ pc = "push" /\ cur.timer = registered

\* Timestamp(double) cuts the timeout to whole seconds, and the clock moves
\* while the timer is on its way to the heap and to its callback: a callback is
\* less than a second too early, never more.
LessThanASecondEarly ==
    pc = "callback" => now + Second > asked[cur.timer]

\* When the loop sleeps, the timerfd is watched, unless epoll refused it, and
\* set for the nearest timer, unless that timer's time has come.
ArmedForNearest ==
    pc = "wait" /\ timers # {} =>
        /\ registered # NoEntry \/ addFailed
        /\ armed = nearest.when \/ nearest.when <= now

\* A timer whose time is past is run.
TimersRun ==
    \A t \in Timers :
        LET IsLate == \E e \in timers : e.timer = t /\ e.when < now
        IN  IsLate ~> ~IsLate
=============================================================================
