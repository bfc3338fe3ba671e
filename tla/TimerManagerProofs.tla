------------------------- MODULE TimerManagerProofs -------------------------
(***************************************************************************)
(* What TimerManager guarantees for any number of timers, any timeouts and *)
(* intervals, and any pace of the clock.                                   *)
(***************************************************************************)
EXTENDS TimerManager, TLAPS

\* A callback of a timer runs, or registers a timer.
InCallback == pc = "callback" \/ (pc = "update" /\ back = "callback")

\* The heap is well formed: nothing is at its top but a nearest timer.
TopInv ==
    /\ timers = {} <=> nearest = NoEntry
    /\ timers # {} => nearest \in timers /\ \A e \in timers : nearest.when <= e.when

\* The timer whose callback runs is due and at the top; it is outside the heap
\* only between pop() and push().
CurInv ==
    /\ InCallback => cur \in timers /\ cur = nearest /\ cur.when < now
    /\ pc = "push" => cur \in Entries /\ cur.when < now /\ Interval[cur.timer] > 0

\* No entry of the heap is a second or more too early.
EarlyInv ==
    /\ \A e \in timers : asked[e.timer] \in Nat /\ asked[e.timer] < e.when + Second
    /\ pc = "push" => asked[cur.timer] \in Nat
                      /\ asked[cur.timer] < cur.when + Second

\* The timerfd is set for the nearest timer wherever the loop goes to sleep
\* without another look at the heap.
ArmedInv ==
    pc \in {"out", "wait", "tasks"} /\ timers # {} =>
        /\ registered # NoEntry \/ addFailed
        /\ armed = nearest.when \/ nearest.when <= now

USE DEF heap, fdVars, loopVars, Enter, deleteEvent, getNearestValidTimer, IsDue

\* Cutting a delay to whole seconds takes less than a second from it.
LEMMA CutDelay ==
    ASSUME NEW d \in Nat, NEW s \in Nat \ {0}
    PROVE  /\ (d \div s) * s \in Nat
           /\ (d \div s) * s <= d
           /\ d < (d \div s) * s + s
OBVIOUS
-----------------------------------------------------------------------------
(* PriorityQueue, as the heap of timers.                                   *)

\* A new timer never displaces one whose time is past.
LEMMA PushKeepsTop ==
    ASSUME TypeOK, TopInv, NEW e \in Entries, Heap!Push(e)
    PROVE  /\ TopInv' /\ timers' = timers \cup {e} /\ out' = out
           /\ nearest' \in Entries
           /\ timers # {} /\ nearest.when < e.when => nearest' = nearest
<1>1. \A f \in Entries : [g \in Entries |-> g.when][f] = f.when
  OBVIOUS
<1>2. \A f \in Entries : f.when \in Int /\ f # NoEntry
  BY NoEntryOK DEF Entries, Times
<1>3. timers \subseteq Entries /\ (timers # {} => nearest \in timers)
  BY DEF TypeOK, TopInv
<1>4. /\ timers' = timers \cup {e} /\ out' = out
      /\ nearest' = IF timers = {} \/ e.when < nearest.when THEN e ELSE nearest
  BY <1>1, <1>3 DEF Heap!Push
<1> HIDE DEF Entries
<1> QED BY <1>2, <1>3, <1>4 DEF TopInv

\* pop() takes the top, and leaves a nearest timer there.
LEMMA PopTakesTop ==
    ASSUME TypeOK, TopInv, Heap!Pop
    PROVE  /\ TopInv' /\ timers' = timers \ {nearest}
           /\ nearest' \in Entries \cup {NoEntry} /\ out' \in Entries
<1>1. timers # {} /\ timers \subseteq Entries /\ nearest \in timers
  BY DEF TypeOK, TopInv, Heap!Pop
<1>2. /\ timers' = timers \ {nearest} /\ out' = nearest
      /\ nearest' \in IF timers' = {} THEN {NoEntry} ELSE Heap!Least(timers')
  BY DEF Heap!Pop
<1>3. \A f \in Entries : [g \in Entries |-> g.when][f] = f.when
  OBVIOUS
<1>4. timers' \subseteq Entries /\ NoEntry \notin Entries
  BY <1>1, <1>2, NoEntryOK
<1>5. timers' # {} =>
          /\ nearest' \in timers'
          /\ \A e \in timers' : nearest'.when <= e.when
  BY <1>2, <1>3, <1>4 DEF Heap!Least
<1> QED BY <1>1, <1>2, <1>4, <1>5 DEF TopInv

-----------------------------------------------------------------------------
\* The types, the order of the heap and the place of the running timer go
\* together: the running timer repeats from its own entry.
HeapInv == TypeOK /\ TopInv /\ CurInv

\* The entry that registerTimerEvent() makes.
LEMMA NewEntry ==
    ASSUME TypeOK, NEW t \in Timers
    PROVE  /\ Delay(t) \in Nat /\ now + Delay(t) \in Times /\ Due(t) \in Times
           /\ TimerEvent(t, Due(t)) \in Entries
           /\ Due(t) >= now /\ now + Delay(t) < Due(t) + Second
<1>1. Delay(t) \in Nat /\ now + Delay(t) <= MaxWhen /\ now \in Nat /\ MaxWhen \in Nat
  <2>1. /\ Timeout[t] \in Nat /\ Interval[t] \in Nat /\ now \in Nat /\ now <= MaxTime
        /\ MaxTime + Timeout[t] + Interval[t] <= MaxWhen /\ MaxTime \in Nat
    BY ConstantsOK DEF ConstantsOK, TypeOK
  <2> QED BY <2>1, ConstantsOK DEF Delay, ConstantsOK
<1>2. /\ (Delay(t) \div Second) * Second \in Nat
      /\ (Delay(t) \div Second) * Second <= Delay(t)
      /\ Delay(t) < (Delay(t) \div Second) * Second + Second
  BY <1>1, CutDelay, ConstantsOK DEF ConstantsOK
<1>3. Due(t) \in Nat /\ Due(t) <= now + Delay(t)
  BY <1>1, <1>2 DEF Due
<1>4. Due(t) >= now /\ now + Delay(t) < Due(t) + Second
  BY <1>1, <1>2, ConstantsOK DEF Due, ConstantsOK
<1> QED BY <1>1, <1>3, <1>4 DEF Times, TimerEvent, Entries
LEMMA HeapInOrder == Spec => []HeapInv
<1> USE DEF UserCode, Fds
<1>1. Init => HeapInv
  <2>1. Init => addFailed \in BOOLEAN
    BY DEF Init
  <2> QED BY <2>1, NoEntryOK, ConstantsOK
          DEF Init, HeapInv, TypeOK, TopInv, CurInv, InCallback,
              Heap!Init, CreateTimerfd, Times, ConstantsOK
<1>2. HeapInv /\ [Next]_vars => HeapInv'
  <2> SUFFICES ASSUME HeapInv, [Next]_vars PROVE HeapInv'
    OBVIOUS
  <2>1. TypeOK /\ TopInv /\ CurInv
    BY DEF HeapInv
  <2>2. CASE Tick
    <3>1. now' \in 0 .. MaxTime
      BY <2>1, <2>2, ConstantsOK DEF Tick, TypeOK, ConstantsOK
    <3>2. CurInv'
      BY <2>1, <2>2 DEF Tick, CurInv, InCallback, TypeOK, Entries, Times
    <3> QED BY <2>1, <2>2, <3>1, <3>2 DEF Tick, HeapInv, TypeOK, TopInv
  <2>3. ASSUME NEW t \in Timers, registerTimerEvent(t) PROVE HeapInv'
    <3> DEFINE e == TimerEvent(t, Due(t))
    <3>1. e \in Entries /\ e.when = Due(t) /\ Due(t) >= now /\ Due(t) \in Times
      BY <2>1, NewEntry DEF TimerEvent
    <3>2. Heap!Push(e)
      BY <2>3 DEF registerTimerEvent, addTimer
    <3>3. /\ TopInv' /\ timers' = timers \cup {e} /\ out' = out
          /\ nearest' \in Entries
          /\ timers # {} /\ nearest.when < e.when => nearest' = nearest
      BY <2>1, <3>1, <3>2, PushKeepsTop
    <3>4. TypeOK'
      BY <2>1, <2>3, <3>1, <3>3, NewEntry DEF registerTimerEvent, addTimer, TypeOK
    <3>5. CurInv'
      <4>1. pc' = "update" /\ back' = pc /\ cur' = cur /\ now' = now
        BY <2>3 DEF registerTimerEvent, addTimer
      <4>2. CASE pc = "callback"
        <5>1. cur \in timers /\ cur = nearest /\ cur.when < now
          BY <2>1, <4>2 DEF CurInv, InCallback
        <5>2. nearest.when < e.when
          BY <2>1, <3>1, <5>1 DEF TypeOK, Entries, Times
        <5> QED BY <3>3, <4>1, <5>1, <5>2 DEF CurInv
      <4>3. CASE pc # "callback"
        BY <4>1, <4>3 DEF CurInv, InCallback
      <4> QED BY <4>2, <4>3
    <3> QED BY <3>3, <3>4, <3>5 DEF HeapInv
  <2>4. CASE updateTimerEvent
    <3>1. /\ armed' \in Times \cup {Never} /\ registered' \in Timers \cup {NoEntry}
          /\ addFailed' \in BOOLEAN
      BY <2>1, <2>4 DEF updateTimerEvent, TypeOK, Armed, Entries
    <3>2. /\ UNCHANGED <<now, heap, activeEvents, cur, back, asked>>
          /\ pc = "update" /\ pc' = back
      BY <2>4 DEF updateTimerEvent
    <3>3. TypeOK'
      BY <2>1, <3>1, <3>2 DEF TypeOK
    <3> QED BY <2>1, <3>2, <3>3 DEF HeapInv, TypeOK, TopInv, CurInv, InCallback
  <2>5. CASE CallTimer
    <3>1. nearest \in timers /\ nearest \in Entries /\ nearest.when < now
      BY <2>1, <2>5 DEF CallTimer, TypeOK, TopInv
    <3>2. /\ UNCHANGED <<now, heap, fdVars, activeEvents, back, asked>>
          /\ cur' = nearest /\ pc' = "callback"
      BY <2>5 DEF CallTimer
    <3> QED BY <2>1, <3>1, <3>2 DEF HeapInv, TypeOK, TopInv, CurInv, InCallback
  <2>6. CASE PopRepeated
    <3>1. /\ TopInv' /\ timers' = timers \ {nearest}
          /\ nearest' \in Entries \cup {NoEntry} /\ out' \in Entries
      BY <2>1, <2>6, PopTakesTop DEF PopRepeated
    <3>2. cur \in Entries /\ cur.when < now
      BY <2>1, <2>6 DEF PopRepeated, CurInv, InCallback, TypeOK
    <3>3. /\ UNCHANGED <<now, fdVars, activeEvents, cur, back, asked>>
          /\ pc' = "push" /\ Interval[cur.timer] > 0
      BY <2>6 DEF PopRepeated
    <3> QED BY <2>1, <3>1, <3>2, <3>3 DEF HeapInv, TypeOK, CurInv, InCallback
  <2>7. CASE PushRepeated
    <3> DEFINE e == [cur EXCEPT !.when = addTime(@, Interval[cur.timer])]
    <3>1. cur \in Entries /\ cur.when < now /\ now \in Nat /\ now <= MaxTime
      BY <2>1, <2>7 DEF PushRepeated, CurInv, TypeOK
    <3>2. e \in Entries
      <4>1. cur.timer \in Timers /\ cur.when \in Nat
        BY <3>1 DEF Entries, Times
      <4>2. addTime(cur.when, Interval[cur.timer]) \in Times
        BY <3>1, <4>1, ConstantsOK DEF ConstantsOK, Times, addTime
      <4> QED BY <3>1, <4>1, <4>2 DEF Entries
    <3>3. Heap!Push(e)
      BY <2>7 DEF PushRepeated
    <3> HIDE DEF e
    <3>4. /\ TopInv' /\ timers' = timers \cup {e} /\ out' = out
          /\ nearest' \in Entries
      BY <2>1, <3>2, <3>3, PushKeepsTop
    <3>5. /\ UNCHANGED <<now, fdVars, activeEvents, cur, back, asked>>
          /\ pc' = "test"
      BY <2>7 DEF PushRepeated
    <3> QED BY <2>1, <3>2, <3>4, <3>5 DEF HeapInv, TypeOK, CurInv, InCallback
  <2>8. CASE DeleteTimer
    <3>1. /\ TopInv' /\ timers' = timers \ {nearest}
          /\ nearest' \in Entries \cup {NoEntry} /\ out' \in Entries
      BY <2>1, <2>8, PopTakesTop DEF DeleteTimer
    <3>2. /\ UNCHANGED <<now, armed, addFailed, activeEvents, cur, back, asked>>
          /\ pc' = "test" /\ registered' = NoEntry
      BY <2>8 DEF DeleteTimer
    <3> QED BY <2>1, <3>1, <3>2 DEF HeapInv, TypeOK, CurInv, InCallback
  <2>9. CASE LeaveTimers
    <3>1. /\ UNCHANGED <<now, heap, fdVars, activeEvents, cur, asked>>
          /\ pc' \in {"tasks", "update"} /\ back' \in UserCode
          /\ pc' = "update" => back' = "tasks"
      BY <2>1, <2>9 DEF LeaveTimers, TypeOK
    <3> QED BY <2>1, <3>1 DEF HeapInv, TypeOK, TopInv, CurInv, InCallback
  <2>10. CASE ReadTimerfd
    BY <2>1, <2>10 DEF ReadTimerfd, HeapInv, TypeOK, TopInv, CurInv, InCallback
  <2>11. ASSUME NEW fds \in SUBSET Fds, EpollReturns(fds) PROVE HeapInv'
    BY <2>1, <2>11 DEF EpollReturns, HeapInv, TypeOK, TopInv, CurInv, InCallback
  <2>12. CASE Dispatch \/ CallIo \/ IoReturns \/ EventsDone \/ TasksDone
    BY <2>1, <2>12 DEF Dispatch, CallIo, IoReturns, EventsDone, TasksDone,
        HeapInv, TypeOK, TopInv, CurInv, InCallback
  <2>13. CASE UNCHANGED vars
    BY <2>1, <2>13 DEF vars, HeapInv, TypeOK, TopInv, CurInv, InCallback
  <2> QED
    BY <2>2, <2>3, <2>4, <2>5, <2>6, <2>7, <2>8, <2>9, <2>10, <2>11, <2>12,
       <2>13 DEF Next, LoopStep
<1> QED BY <1>1, <1>2, PTL DEF Spec

THEOREM TimersTypeCorrect == Spec => []TypeOK
<1>1. HeapInv => TypeOK
  BY DEF HeapInv
<1> QED BY <1>1, HeapInOrder, PTL

\* The pop() after a callback takes the timer that ran, whatever timers the
\* callback registered: a new timer is never due before now, and the running
\* one is.
THEOREM RunningStaysNearest == Spec => []RunningIsNearest
<1>1. HeapInv => RunningIsNearest
  BY DEF HeapInv, CurInv, InCallback, RunningIsNearest
<1> QED BY <1>1, HeapInOrder, PTL
-----------------------------------------------------------------------------
(* The table of events and the timerfd.                                    *)

\* The steps that change neither the heap nor the table.
Quiet ==
    \/ Tick \/ Dispatch \/ ReadTimerfd \/ CallIo \/ IoReturns \/ EventsDone
    \/ CallTimer \/ LeaveTimers \/ TasksDone
    \/ \E fds \in SUBSET Fds : EpollReturns(fds)

LEMMA QuietSteps ==
    ASSUME Quiet
    PROVE  /\ UNCHANGED <<heap, registered, asked>>
           /\ pc' = "push" \/ pc = "push" => UNCHANGED <<pc, cur>>
<1>1. CASE Tick
  BY <1>1 DEF Tick
<1>2. CASE CallTimer \/ LeaveTimers
  BY <1>2 DEF CallTimer, LeaveTimers
<1>3. CASE Dispatch \/ ReadTimerfd \/ CallIo \/ IoReturns \/ EventsDone \/ TasksDone
  BY <1>3 DEF Dispatch, ReadTimerfd, CallIo, IoReturns, EventsDone, TasksDone
<1>4. ASSUME NEW fds \in SUBSET Fds, EpollReturns(fds)
      PROVE  pc = "wait" /\ pc' = "events" /\ UNCHANGED <<heap, registered, asked>>
  BY <1>4 DEF EpollReturns
<1> QED BY <1>1, <1>2, <1>3, <1>4 DEF Quiet

\* The entries after the steps that change the heap.
LEMMA Registered ==
    ASSUME HeapInv, NEW t \in Timers, registerTimerEvent(t)
    PROVE  timers' = timers \cup {TimerEvent(t, Due(t))}
BY DEF registerTimerEvent, addTimer, Heap!Push

LEMMA Repeated ==
    ASSUME HeapInv, PushRepeated
    PROVE  \E e \in Entries :
              /\ timers' = timers \cup {e}
              /\ e.timer = cur.timer /\ e.when = cur.when + Interval[cur.timer]
<1>1. cur \in Entries /\ cur.when < now /\ now \in Nat /\ now <= MaxTime
  BY DEF PushRepeated, HeapInv, CurInv, TypeOK
<1>2. cur.timer \in Timers /\ cur.when \in Nat
  BY <1>1 DEF Entries, Times
<1>3. cur.when + Interval[cur.timer] \in Times
  BY <1>1, <1>2, ConstantsOK DEF ConstantsOK, Times
<1> DEFINE e == TimerEvent(cur.timer, cur.when + Interval[cur.timer])
<1>4. e \in Entries /\ e.timer = cur.timer /\ e.when = cur.when + Interval[cur.timer]
  BY <1>2, <1>3 DEF TimerEvent, Entries
<1>5. [cur EXCEPT !.when = addTime(@, Interval[cur.timer])] = e
  BY <1>1 DEF addTime, TimerEvent, Entries
<1>6. timers' = timers \cup {e}
  BY <1>5 DEF PushRepeated, Heap!Push
<1> HIDE DEF e
<1> QED BY <1>4, <1>6

LEMMA Popped ==
    ASSUME HeapInv, PopRepeated \/ DeleteTimer
    PROVE  timers' = timers \ {cur} /\ cur \in timers
<1>1. Heap!Pop /\ pc = "callback"
  BY DEF PopRepeated, DeleteTimer
<1>2. TypeOK /\ TopInv /\ cur \in timers /\ cur = nearest
  BY <1>1 DEF HeapInv, CurInv, InCallback
<1> QED BY <1>1, <1>2, PopTakesTop

\* The TimerEvent in registeredEvents_ is never a deleted one, although all
\* timers share one descriptor and the table keeps the first that came.
THEOREM TableStaysLive == Spec => []TableHoldsLiveTimer
<1>1. Init => TableHoldsLiveTimer
  BY DEF Init, TableHoldsLiveTimer
<1>2. HeapInv /\ TableHoldsLiveTimer /\ [Next]_vars => TableHoldsLiveTimer'
  <2> SUFFICES ASSUME HeapInv, TableHoldsLiveTimer, [Next]_vars
               PROVE  TableHoldsLiveTimer'
    OBVIOUS
  <2> USE DEF TableHoldsLiveTimer
  <2>1. CASE Quiet
    BY <2>1, QuietSteps
  <2>2. ASSUME NEW t \in Timers, registerTimerEvent(t)
        PROVE  TableHoldsLiveTimer'
    BY <2>2, Registered DEF registerTimerEvent, addTimer, UserCode
  <2>3. CASE updateTimerEvent
    BY <2>3 DEF updateTimerEvent, HeapInv, TopInv
  <2>4. CASE PopRepeated
    BY <2>4, Popped DEF PopRepeated
  <2>5. CASE PushRepeated
    BY <2>5, Repeated DEF PushRepeated
  <2>6. CASE DeleteTimer
    BY <2>6 DEF DeleteTimer
  <2>7. CASE UNCHANGED vars
    BY <2>7 DEF vars
  <2> QED
    BY <2>1, <2>2, <2>3, <2>4, <2>5, <2>6, <2>7 DEF Next, LoopStep, Quiet
<1> QED BY <1>1, <1>2, HeapInOrder, PTL DEF Spec

\* The loop never sleeps with a timer in the heap and a timerfd that is set
\* for another time, or not watched although epoll did not refuse it, unless
\* the timer is due already.
THEOREM SleepsArmed == Spec => []ArmedForNearest
<1>1. Init => ArmedInv
  BY DEF Init, ArmedInv, Heap!Init
<1>2. HeapInv /\ ArmedInv /\ [Next]_vars => ArmedInv'
  <2> SUFFICES ASSUME HeapInv, ArmedInv, [Next]_vars PROVE ArmedInv'
    OBVIOUS
  <2> USE DEF ArmedInv
  <2>1. CASE Tick
    <3>1. timers # {} => nearest.when \in Nat
      BY DEF HeapInv, TypeOK, TopInv, Entries, Times
    <3> QED BY <2>1, <3>1 DEF Tick, HeapInv, TypeOK
  <2>2. CASE updateTimerEvent
    BY <2>2, NoEntryOK DEF updateTimerEvent, Armed, HeapInv, TypeOK, TopInv,
        Entries, Times
  <2>3. CASE LeaveTimers
    BY <2>3 DEF LeaveTimers, HeapInv, TopInv
  <2>4. ASSUME NEW t \in Timers, registerTimerEvent(t) PROVE ArmedInv'
    BY <2>4 DEF registerTimerEvent, addTimer
  <2>5. ASSUME NEW fds \in SUBSET Fds, EpollReturns(fds) PROVE ArmedInv'
    BY <2>5 DEF EpollReturns
  <2>6. CASE Dispatch \/ ReadTimerfd \/ CallIo \/ IoReturns \/ EventsDone
             \/ CallTimer \/ TasksDone
    BY <2>6 DEF Dispatch, ReadTimerfd, CallIo, IoReturns, EventsDone, CallTimer,
        TasksDone
  <2>7. CASE PopRepeated \/ PushRepeated \/ DeleteTimer
    BY <2>7 DEF PopRepeated, PushRepeated, DeleteTimer
  <2>8. CASE UNCHANGED vars
    BY <2>8 DEF vars
  <2> QED
    BY <2>1, <2>2, <2>3, <2>4, <2>5, <2>6, <2>7, <2>8 DEF Next, LoopStep
<1>3. ArmedInv => ArmedForNearest
  BY DEF ArmedInv, ArmedForNearest
<1> QED BY <1>1, <1>2, <1>3, HeapInOrder, PTL DEF Spec

\* However the clock moves, a callback runs less than a second before the time
\* that the caller asked for.
THEOREM NeverASecondEarly == Spec => []LessThanASecondEarly
<1>1. Init => EarlyInv
  BY DEF Init, EarlyInv, Heap!Init
<1>2. HeapInv /\ EarlyInv /\ [Next]_vars => EarlyInv'
  <2> SUFFICES ASSUME HeapInv, EarlyInv, [Next]_vars PROVE EarlyInv'
    OBVIOUS
  <2>0. /\ timers \subseteq Entries /\ Second \in Nat /\ Never \notin Nat
        /\ \A e \in Entries : e.timer \in Timers /\ e.when \in Nat
        /\ asked \in [Timers -> Times \cup {Never}] /\ now \in Nat
    BY ConstantsOK DEF HeapInv, TypeOK, Entries, Times, ConstantsOK
  <2>1. CASE Quiet
    BY <2>1, QuietSteps DEF EarlyInv
  <2>2. ASSUME NEW t \in Timers, registerTimerEvent(t) PROVE EarlyInv'
    <3> DEFINE e == TimerEvent(t, Due(t))
    <3>1. /\ timers' = timers \cup {e} /\ pc' = "update"
          /\ asked[t] = Never /\ asked' = [asked EXCEPT ![t] = now + Delay(t)]
      BY <2>2, Registered DEF registerTimerEvent, addTimer
    <3>2. /\ e.timer = t /\ e.when = Due(t)
          /\ now + Delay(t) \in Nat /\ now + Delay(t) < Due(t) + Second
      <4>1. Due(t) \in Times /\ now + Delay(t) \in Times /\ now + Delay(t) < Due(t) + Second
        BY NewEntry DEF HeapInv
      <4> QED BY <4>1 DEF TimerEvent, Times
    <3> HIDE DEF e
    <3>3. asked'[t] = now + Delay(t)
      BY <2>0, <3>1
    <3>4. \A f \in timers : f.timer # t /\ asked'[f.timer] = asked[f.timer]
      BY <2>0, <3>1 DEF EarlyInv
    <3> QED BY <3>1, <3>2, <3>3, <3>4 DEF EarlyInv
  <2>3. CASE updateTimerEvent
    BY <2>3 DEF updateTimerEvent, EarlyInv, UserCode, HeapInv, TypeOK
  <2>4. CASE PopRepeated
    BY <2>4, Popped DEF PopRepeated, EarlyInv
  <2>5. CASE PushRepeated
    <3>1. PICK e \in Entries :
              /\ timers' = timers \cup {e}
              /\ e.timer = cur.timer /\ e.when = cur.when + Interval[cur.timer]
      BY <2>5, Repeated
    <3>2. /\ pc = "push" /\ pc' = "test" /\ asked' = asked
          /\ Interval[cur.timer] \in Nat /\ cur.when \in Nat
      BY <2>0, <2>5, ConstantsOK DEF PushRepeated, HeapInv, CurInv, ConstantsOK
    <3> QED BY <2>0, <3>1, <3>2 DEF EarlyInv
  <2>6. CASE DeleteTimer
    BY <2>6, Popped DEF DeleteTimer, EarlyInv
  <2>7. CASE UNCHANGED vars
    BY <2>7 DEF vars, EarlyInv
  <2> QED
    BY <2>1, <2>2, <2>3, <2>4, <2>5, <2>6, <2>7 DEF Next, LoopStep, Quiet
<1>3. HeapInv /\ EarlyInv => LessThanASecondEarly
  BY ConstantsOK DEF HeapInv, TypeOK, CurInv, InCallback, EarlyInv,
      LessThanASecondEarly, Entries, Times, ConstantsOK
<1> QED BY <1>1, <1>2, <1>3, HeapInOrder, PTL DEF Spec
=============================================================================
