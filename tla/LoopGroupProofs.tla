-------------------------- MODULE LoopGroupProofs --------------------------
(***************************************************************************)
(* What LoopGroup guarantees for any number of threads, signals and calls. *)
(*                                                                         *)
(* Its parts hardly touch: the signals see of the pool only that threads   *)
(* begin and end, and the pool nothing of the signals.  So each has an     *)
(* inductive invariant of its own.  That of the pool ties the size of      *)
(* threads_ to the number the owner has in mind, and the life of every     *)
(* thread to both.                                                         *)
(***************************************************************************)
EXTENDS LoopGroup, SequenceTheorems, WellFoundedInduction, TLAPS

\* A signal that is blocked in time is blocked by every thread there is.
BlockedInv ==
    /\ \A s \in mask[Base] \ late : \A t \in running : s \in mask[t]
    /\ \A e \in DOMAIN signo : signo[e] \in mask[Base]
    /\ KilledOnlyIfLate

\* An event is in activeEvents_ because its signal is pending, or was when
\* epoll_wait() returned, and another event has read it since.
ActiveInv ==
    /\ \A e \in active :
           \/ signo[e] \in pending
           \/ \E f \in DOMAIN signo \ {e} : signo[f] = signo[e]
    /\ CallbackMeansSignal

Leaving == ownerPc \in {"quitting", "breaking", "joining"}

\* How many threads there are, and how many the owner takes for granted.
SizeInv ==
    /\ made <= wanted /\ wanted <= most /\ nextLoopIndex <= most
    /\ ownerPc \in {"idle", "posting"} =>
           IF isRunning THEN made = wanted /\ made = numThreads ELSE made = 0
    /\ ownerPc \in {"starting", "handover"} => ~isRunning
    /\ ownerPc = "handover" => made < wanted
    /\ ownerPc = "destroyed" => made = 0
    /\ ownerPc = "posting" => at \in 1 .. made
    /\ ownerPc \in {"breaking", "joining"} =>
           at \in 1 .. made /\ at <= numThreads
    /\ Leaving => at >= 1 /\ (IF isRunning THEN made = numThreads ELSE made = 0)

\* The threads that quit() has joined, or is about to.
Joined(l) == Leaving /\ l < at
Joining(l) == ownerPc \in {"breaking", "joining"} /\ l = at

\* Where a thread can be: the threads of threads_ have a loop, until quit()
\* has come to them, in their order, and there are no others but the one that
\* start() waits for.
LifeInv ==
    \A l \in Loops :
        /\ l <= made =>
               /\ threadPc[l] \notin {"none", "created"}
               /\ Joined(l) => threadPc[l] = "finished"
               /\ threadPc[l] = "finished" => Joined(l) \/ Joining(l)
        /\ l > made =>
               IF ownerPc = "handover" /\ l = made + 1
               THEN threadPc[l] \notin {"none", "finished"}
               ELSE threadPc[l] \in {"none", "finished"}
        /\ stop[l] /\ threadPc[l] \notin {"none", "created", "finished"} =>
               Joining(l)

\* A thread runs its tasks with mutex_ of its loop locked, and calls loops that
\* are in threadLoops_.
InCall(l) == threadPc[l] \in {"calling", "waking"}
Holds(l) == threadPc[l] = "tasks" \/ InCall(l)

CallInv ==
    \A l \in Loops :
        /\ mutex[l] = IF Holds(l) THEN l ELSE Base
        /\ InCall(l) => <<l, callee[l]>> \in Calls /\ callee[l] <= made

\* The threads that exist are those that have begun and not ended.
RunningInv ==
    \A l \in Loops : l \in running <=> threadPc[l] \notin {"none", "finished"}

\* A pool that does not run has no threads.
NoThreadIsLeft ==
    ownerPc = "destroyed" \/ (ownerPc = "idle" /\ ~isRunning)
        => running = {Base}

\* Tasks call only loops that are later in the pool.
CallsGoForward == \A l, j \in Loops : <<l, j>> \in Calls => l < j

\* The loop that a task calls has not been destroyed.
CalleesLive ==
    \A l \in Loops : InCall(l) => ~Gone(callee[l])

\* Nobody waits for ever for the mutex_ of another loop: of the threads that
\* come later some has a locked mutex_ and waits for none.
SomeHolderMoves ==
    \A l \in Loops :
        threadPc[l] = "calling" /\ mutex[callee[l]] # Base =>
            \E j \in Loops :
                /\ l < j /\ Holds(j)
                /\ threadPc[j] = "calling" => mutex[callee[j]] = Base

USE DEF pool, owner, loops, history, Goto, push, unlock, Larger, Wrap

-----------------------------------------------------------------------------
(* The pool.                                                               *)

\* The sizes and the types need each other.
LEMMA Sizes == Spec => [](PoolTypeOK /\ SizeInv)
<1>1. Init => PoolTypeOK /\ SizeInv
  <2> SUFFICES ASSUME Init PROVE PoolTypeOK /\ SizeInv
    OBVIOUS
  <2>1. SizeInv
    BY DEF Init, SizeInv, Leaving
  <2>2. PoolTypeOK
    <3>1. /\ threadPc \in [Loops -> {"none"}] /\ callee \in [Loops -> {Base}]
          /\ stop \in [Loops -> BOOLEAN] /\ queue \in [Loops -> Nat]
          /\ mutex \in [Loops -> {Base}]
      BY DEF Init
    <3>2. isRunning \in BOOLEAN /\ leaving \in BOOLEAN
      BY DEF Init
    <3> QED
      BY <3>1, <3>2, ConstantsOK DEF ConstantsOK, Init, PoolTypeOK
  <2> QED BY <2>1, <2>2
<1>2. PoolTypeOK /\ SizeInv /\ [Next]_vars => PoolTypeOK' /\ SizeInv'
  <2> SUFFICES ASSUME PoolTypeOK, SizeInv, [Next]_vars
               PROVE  PoolTypeOK' /\ SizeInv'
    OBVIOUS
  <2> USE ConstantsOK DEF ConstantsOK, PoolTypeOK, SizeInv, Leaving, Loops
  <2>1. ASSUME NEW n \in 0 .. MaxThreads, start(n)
        PROVE  PoolTypeOK' /\ SizeInv'
    BY <2>1 DEF start
  <2>2. CASE StartThread
    BY <2>2 DEF StartThread
  <2>3. CASE StartReturns
    BY <2>3 DEF StartReturns
  <2>4. CASE Started
    BY <2>4 DEF Started
  <2>5. CASE getNextLoop
    <3>1. fault' \in Faults \cup {"none"}
      BY <2>5 DEF getNextLoop, Faults
    <3>2. posts' \in 0 .. MaxPosts
      BY <2>5 DEF getNextLoop
    <3>3. \/ UNCHANGED <<nextLoopIndex, ownerPc, at>>
          \/ /\ at' \in 1 .. made /\ nextLoopIndex' = at'
             /\ ownerPc' = "posting"
      BY <2>5 DEF getNextLoop
    <3>4. /\ UNCHANGED <<numThreads, isRunning, made, wanted, leaving, loops>>
          /\ UNCHANGED <<starts, most>>
          /\ ownerPc = "idle"
      BY <2>5 DEF getNextLoop
    <3>5. CASE UNCHANGED <<nextLoopIndex, ownerPc, at>>
      BY <3>1, <3>2, <3>4, <3>5
    <3>6. CASE /\ at' \in 1 .. made /\ nextLoopIndex' = at'
               /\ ownerPc' = "posting"
      <4>1. isRunning
        BY <3>4, <3>6
      <4> QED BY <3>1, <3>2, <3>4, <3>6, <4>1
    <3> QED BY <3>3, <3>5, <3>6
  <2>6. CASE OwnerPushes
    BY <2>6 DEF OwnerPushes
  <2>7. CASE quit
    BY <2>7 DEF quit
  <2>8. CASE Destroy
    BY <2>8 DEF Destroy
  <2>9. CASE QuitThread
    <3>1. stop' \in [Loops -> BOOLEAN] /\ fault' \in Faults \cup {"none"}
      BY <2>9 DEF QuitThread, Faults
    <3>2. /\ \/ UNCHANGED ownerPc
             \/ ownerPc' = "breaking" /\ at <= made
          /\ at <= numThreads /\ ownerPc = "quitting"
          /\ UNCHANGED <<pool, at, leaving, threadPc, callee, queue, mutex>>
          /\ UNCHANGED <<posts, starts, most>>
      BY <2>9 DEF QuitThread
    <3> QED BY <3>1, <3>2
  <2>10. CASE JoinThread
    BY <2>10 DEF JoinThread
  <2>11. CASE QuitDone
    <3>1. /\ made' = 0 /\ ~isRunning' /\ isRunning' \in BOOLEAN
          /\ ownerPc' \in {"destroyed", "idle"}
          /\ UNCHANGED <<numThreads, nextLoopIndex, wanted, at, leaving>>
          /\ UNCHANGED <<loops, history>>
      BY <2>11 DEF QuitDone
    <3> QED BY <3>1
  <2>12. ASSUME NEW l \in Loops, Publish(l) PROVE PoolTypeOK' /\ SizeInv'
    BY <2>12 DEF Publish
  <2>13. ASSUME NEW l \in Loops, EnterDispatch(l) PROVE PoolTypeOK' /\ SizeInv'
    BY <2>13 DEF EnterDispatch
  <2>14. ASSUME NEW l \in Loops, RunTasks(l) PROVE PoolTypeOK' /\ SizeInv'
    BY <2>14 DEF RunTasks
  <2>15. ASSUME NEW l \in Loops, TaskReturns(l) PROVE PoolTypeOK' /\ SizeInv'
    BY <2>15 DEF TaskReturns
  <2>16. ASSUME NEW l \in Loops, TasksDone(l) PROVE PoolTypeOK' /\ SizeInv'
    BY <2>16 DEF TasksDone
  <2>17. ASSUME NEW l \in Loops, TaskPushes(l) PROVE PoolTypeOK' /\ SizeInv'
    <3>1. queue' \in [Loops -> Nat]
      <4>1. \/ queue' = [queue EXCEPT ![callee[l]] = queue[callee[l]] + 1]
            \/ queue' = queue
        BY <2>17 DEF TaskPushes
      <4>2. /\ queue \in [Loops -> Nat]
            /\ callee[l] \in Loops => queue[callee[l]] + 1 \in Nat
        OBVIOUS
      <4> HIDE DEF PoolTypeOK, SizeInv, Loops
      <4> QED BY <4>1, <4>2
    <3>2. threadPc' = threadPc \/ threadPc' = [threadPc EXCEPT ![l] = "waking"]
      BY <2>17 DEF TaskPushes
    <3>3. fault' \in Faults \cup {"none"}
      BY <2>17 DEF TaskPushes, Faults
    <3>4. /\ UNCHANGED <<pool, owner, callee, stop, mutex>>
          /\ UNCHANGED <<posts, starts, most>>
      BY <2>17 DEF TaskPushes
    <3> QED BY <3>1, <3>2, <3>3, <3>4
  <2>18. ASSUME NEW l \in Loops, NEW j \in Loops, TaskCalls(l, j)
        PROVE  PoolTypeOK' /\ SizeInv'
    BY <2>18 DEF TaskCalls
  <2>19. ASSUME NEW l \in Loops, Finish(l) PROVE PoolTypeOK' /\ SizeInv'
    BY <2>19 DEF Finish
  <2>21. CASE BreakReturns
    BY <2>21 DEF BreakReturns, Faults
  <2>22. ASSUME NEW l \in Loops, TaskWakes(l) PROVE PoolTypeOK' /\ SizeInv'
    BY <2>22 DEF TaskWakes, Faults
  <2>20. CASE UNCHANGED <<pool, owner, loops, history>>
    BY <2>20
  <2> QED
    BY <2>1, <2>2, <2>3, <2>4, <2>5, <2>6, <2>7, <2>8, <2>9, <2>10, <2>11,
       <2>12, <2>13, <2>14, <2>15, <2>16, <2>17, <2>18, <2>19, <2>20,
       <2>21, <2>22
    DEF Next, LoopStep, BaseSignals, vars
<1> QED BY <1>1, <1>2, PTL DEF Spec
\* Threads begin and end in their order.
LEMMA Lives == Spec => []LifeInv
<1>1. Init => LifeInv
  BY ConstantsOK DEF ConstantsOK, Init, LifeInv, Loops
<1>2. PoolTypeOK /\ SizeInv /\ LifeInv /\ [Next]_vars => LifeInv'
  <2> SUFFICES ASSUME PoolTypeOK, SizeInv, LifeInv, [Next]_vars
               PROVE  LifeInv'
    OBVIOUS
  <2> USE ConstantsOK DEF ConstantsOK, PoolTypeOK, SizeInv, LifeInv, Joined,
          Joining, Leaving, Loops
  <2>1. ASSUME NEW n \in 0 .. MaxThreads, start(n) PROVE LifeInv'
    BY <2>1 DEF start
  <2>2. CASE StartThread
    BY <2>2 DEF StartThread
  <2>3. CASE StartReturns
    <3>1. made' = made + 1 /\ made + 1 \in Loops /\ ownerPc' = "starting"
      BY <2>3 DEF StartReturns
    <3>2. /\ threadPc[made + 1] \notin {"none", "created", "finished"}
          /\ ownerPc = "handover" /\ UNCHANGED <<at, threadPc, stop>>
      BY <2>3, <3>1 DEF StartReturns
    <3>3. ASSUME NEW l \in Loops, l <= made
          PROVE  threadPc[l] \notin {"none", "created", "finished"}
      BY <3>2, <3>3
    <3>4. ASSUME NEW l \in Loops, l > made + 1
          PROVE  threadPc[l] \in {"none", "finished"}
      BY <3>4
    <3>5. \A l \in Loops :
              stop[l] => threadPc[l] \in {"none", "created", "finished"}
      BY <3>2
    <3> QED BY <3>1, <3>2, <3>3, <3>4, <3>5
  <2>4. CASE Started
    BY <2>4 DEF Started
  <2>5. CASE getNextLoop
    BY <2>5 DEF getNextLoop
  <2>6. CASE OwnerPushes
    BY <2>6 DEF OwnerPushes
  <2>7. CASE quit
    BY <2>7 DEF quit
  <2>8. CASE Destroy
    BY <2>8 DEF Destroy
  <2>9. CASE QuitThread
    BY <2>9 DEF QuitThread
  <2>10. CASE JoinThread
    <3>1. /\ ownerPc = "joining" /\ ownerPc' = "quitting" /\ at' = at + 1
          /\ at \in 1 .. made /\ threadPc[at] = "finished"
          /\ UNCHANGED <<made, threadPc, stop>>
      BY <2>10 DEF JoinThread
    <3>2. \A l \in Loops : Joined(l)' <=> Joined(l) \/ Joining(l)
      BY <3>1
    <3>3. \A l \in Loops :
              ~Joining(l)' /\ (Joining(l) => threadPc[l] = "finished")
      BY <3>1
    <3>4. ownerPc # "handover" /\ ownerPc' # "handover"
      BY <3>1
    <3> HIDE DEF Joined, Joining, Leaving, SizeInv, PoolTypeOK
    <3> QED BY <3>1, <3>2, <3>3, <3>4
  <2>11. CASE QuitDone
    BY <2>11 DEF QuitDone
  <2>12. ASSUME NEW l \in Loops, Publish(l) PROVE LifeInv'
    BY <2>12 DEF Publish
  <2>13. ASSUME NEW l \in Loops, EnterDispatch(l) PROVE LifeInv'
    BY <2>13 DEF EnterDispatch
  <2>14. ASSUME NEW l \in Loops, RunTasks(l) PROVE LifeInv'
    BY <2>14 DEF RunTasks
  <2>15. ASSUME NEW l \in Loops, TaskReturns(l) PROVE LifeInv'
    BY <2>15 DEF TaskReturns
  <2>16. ASSUME NEW l \in Loops, TasksDone(l) PROVE LifeInv'
    BY <2>16 DEF TasksDone
  <2>17. ASSUME NEW l \in Loops, TaskPushes(l) PROVE LifeInv'
    BY <2>17 DEF TaskPushes
  <2>18. ASSUME NEW l \in Loops, NEW j \in Loops, TaskCalls(l, j)
        PROVE  LifeInv'
    BY <2>18 DEF TaskCalls
  <2>19. ASSUME NEW l \in Loops, Finish(l) PROVE LifeInv'
    BY <2>19 DEF Finish
  <2>21. CASE BreakReturns
    BY <2>21 DEF BreakReturns
  <2>22. ASSUME NEW l \in Loops, TaskWakes(l) PROVE LifeInv'
    BY <2>22 DEF TaskWakes
  <2>20. CASE UNCHANGED <<pool, owner, loops, history>>
    BY <2>20
  <2> QED
    BY <2>1, <2>2, <2>3, <2>4, <2>5, <2>6, <2>7, <2>8, <2>9, <2>10, <2>11,
       <2>12, <2>13, <2>14, <2>15, <2>16, <2>17, <2>18, <2>19, <2>20,
       <2>21, <2>22
    DEF Next, LoopStep, BaseSignals, vars
<1> QED BY <1>1, <1>2, Sizes, PTL DEF Spec

\* Tasks run with mutex_ of their loop locked.
LEMMA CallsInOrder == Spec => []CallInv
<1>1. Init => CallInv
  BY DEF Init, CallInv, Holds, InCall
<1>2. PoolTypeOK /\ SizeInv /\ LifeInv /\ CallInv /\ [Next]_vars => CallInv'
  <2> SUFFICES ASSUME PoolTypeOK, SizeInv, LifeInv, CallInv, [Next]_vars
               PROVE  CallInv'
    OBVIOUS
  <2> USE ConstantsOK DEF ConstantsOK, PoolTypeOK, CallInv, Holds, InCall,
          Loops
  <2>1. ASSUME NEW n \in 0 .. MaxThreads, start(n) PROVE CallInv'
    BY <2>1 DEF start
  <2>2. CASE StartThread
    <3>1. /\ made + 1 \in Loops /\ UNCHANGED <<made, callee, mutex>>
          /\ threadPc' = [threadPc EXCEPT ![made + 1] = "created"]
      BY <2>2 DEF StartThread, SizeInv
    <3>2. threadPc[made + 1] \in {"none", "finished"}
      BY <2>2, <3>1 DEF StartThread, LifeInv
    <3> QED BY <3>1, <3>2
  <2>3. CASE StartReturns
    BY <2>3 DEF StartReturns, SizeInv
  <2>4. CASE Started
    BY <2>4 DEF Started
  <2>5. CASE getNextLoop
    BY <2>5 DEF getNextLoop
  <2>6. CASE OwnerPushes
    BY <2>6 DEF OwnerPushes
  <2>7. CASE quit
    BY <2>7 DEF quit
  <2>8. CASE Destroy
    BY <2>8 DEF Destroy
  <2>9. CASE QuitThread
    BY <2>9 DEF QuitThread
  <2>10. CASE JoinThread
    BY <2>10 DEF JoinThread
  <2>11. CASE QuitDone
    <3>1. UNCHANGED <<threadPc, callee, mutex>>
      BY <2>11 DEF QuitDone
    <3>2. \A l \in Loops : threadPc[l] \in {"none", "finished"}
      BY <2>11 DEF QuitDone, SizeInv, LifeInv, Joined, Leaving
    <3> QED BY <3>1, <3>2
  <2>12. ASSUME NEW l \in Loops, Publish(l) PROVE CallInv'
    BY <2>12 DEF Publish
  <2>13. ASSUME NEW l \in Loops, EnterDispatch(l) PROVE CallInv'
    BY <2>13 DEF EnterDispatch
  <2>14. ASSUME NEW l \in Loops, RunTasks(l) PROVE CallInv'
    BY <2>14 DEF RunTasks
  <2>15. ASSUME NEW l \in Loops, TaskReturns(l) PROVE CallInv'
    BY <2>15 DEF TaskReturns
  <2>16. ASSUME NEW l \in Loops, TasksDone(l) PROVE CallInv'
    BY <2>16 DEF TasksDone
  <2>17. ASSUME NEW l \in Loops, TaskPushes(l) PROVE CallInv'
    BY <2>17 DEF TaskPushes
  <2>18. ASSUME NEW l \in Loops, NEW j \in Loops, TaskCalls(l, j)
        PROVE  CallInv'
    BY <2>18 DEF TaskCalls
  <2>19. ASSUME NEW l \in Loops, Finish(l) PROVE CallInv'
    BY <2>19 DEF Finish
  <2>21. CASE BreakReturns
    BY <2>21 DEF BreakReturns
  <2>22. ASSUME NEW l \in Loops, TaskWakes(l) PROVE CallInv'
    BY <2>22 DEF TaskWakes
  <2>20. CASE UNCHANGED <<pool, owner, loops, history>>
    BY <2>20
  <2> QED
    BY <2>1, <2>2, <2>3, <2>4, <2>5, <2>6, <2>7, <2>8, <2>9, <2>10, <2>11,
       <2>12, <2>13, <2>14, <2>15, <2>16, <2>17, <2>18, <2>19, <2>20,
       <2>21, <2>22
    DEF Next, LoopStep, BaseSignals, vars
<1> QED BY <1>1, <1>2, Sizes, Lives, PTL DEF Spec
\* quit() ends the loops in the order of the pool: a thread that still calls
\* another has not been joined, so no later one has been.
LEMMA CalleeIsThere ==
    PoolTypeOK /\ LifeInv /\ CallInv /\ CallsGoForward => CalleesLive
<1> SUFFICES ASSUME PoolTypeOK, LifeInv, CallInv, CallsGoForward,
                    NEW l \in Loops, InCall(l), Gone(callee[l])
             PROVE  FALSE
  BY DEF CalleesLive
<1>1. /\ callee[l] \in Loops /\ l < callee[l] /\ callee[l] <= made
      /\ l <= made
  <2>1. <<l, callee[l]>> \in Calls /\ callee[l] <= made
    BY DEF CallInv
  <2>2. callee[l] \in Loops
    BY <2>1, ConstantsOK DEF ConstantsOK
  <2> QED
    BY <2>1, <2>2, ConstantsOK
    DEF ConstantsOK, CallsGoForward, PoolTypeOK, Loops
<1>2. Joined(callee[l]) \/ Joining(callee[l])
  BY <1>1 DEF LifeInv, Gone
<1>3. Joined(l)
  BY <1>1, <1>2 DEF Joined, Joining, Leaving, PoolTypeOK, Loops
<1> QED BY <1>1, <1>3 DEF LifeInv, InCall

\* A task that calls runInLoop() on another loop of the pool finds it alive,
\* even while quit() ends the loops, if calls go to later loops only.
THEOREM CalleesStayAlive ==
    ASSUME CallsGoForward PROVE Spec => []CalleesLive
BY CalleeIsThere, Sizes, Lives, CallsInOrder, PTL

\* In whatever order start(), getNextLoop(), quit() and the destructor are
\* called, with any numbers of threads, no task uses a loop that is gone, and
\* the owner's calls find what they use, but for the three that UsesAreSafe
\* names: an index that quit() or a smaller start() has left behind, a second
\* quit(), and what breakLoop() does after it has stored stop_.
THEOREM OnlyOwnerFaults ==
    ASSUME CallsGoForward PROVE Spec => []UsesAreSafe
<1>1. Init => UsesAreSafe
  BY DEF Init, UsesAreSafe
<1>2. PoolTypeOK /\ SizeInv /\ LifeInv /\ CalleesLive /\ UsesAreSafe
        /\ [Next]_vars => UsesAreSafe'
  <2> SUFFICES ASSUME PoolTypeOK, SizeInv, LifeInv, CalleesLive, UsesAreSafe,
                      [Next]_vars
               PROVE  UsesAreSafe'
    OBVIOUS
  <2>1. CASE getNextLoop /\ fault = "none"
    <3>1. CASE isRunning /\ ~(wanted < most)
      <4>1. made = numThreads /\ nextLoopIndex <= made /\ made # 0
        BY <2>1, <3>1 DEF getNextLoop, PoolTypeOK, SizeInv
      <4>2. Wrap(nextLoopIndex) < made
        BY <4>1 DEF PoolTypeOK
      <4>3. fault' = "none"
        BY <2>1, <4>2 DEF getNextLoop
      <4> QED BY <4>3 DEF UsesAreSafe
    <3>2. CASE ~isRunning \/ wanted < most
      BY <2>1, <3>2 DEF getNextLoop, UsesAreSafe
    <3> QED BY <3>1, <3>2
  <2>2. CASE QuitThread /\ fault = "none"
    <3>1. CASE at > made
      <4>1. ~isRunning /\ fault' \in {"none", "quit"}
        BY <2>2, <3>1 DEF QuitThread, SizeInv, Leaving, PoolTypeOK
      <4> QED BY <2>2, <4>1 DEF QuitThread, UsesAreSafe
    <3>2. CASE ~(at > made)
      <4>1. at \in Loops /\ at <= made /\ ~Joined(at) /\ ~Joining(at)
        BY <2>2, <3>2, ConstantsOK
        DEF QuitThread, SizeInv, Leaving, PoolTypeOK, Joined, Joining, Loops,
            ConstantsOK
      <4>2. ~Gone(at)
        BY <4>1 DEF LifeInv, Gone
      <4> QED BY <2>2, <3>2, <4>2 DEF QuitThread, UsesAreSafe
    <3> QED BY <3>1, <3>2
  <2>3. CASE BreakReturns /\ fault = "none"
    <3>1. isRunning
      BY <2>3 DEF BreakReturns, SizeInv, Leaving
    <3> QED BY <2>3, <3>1 DEF BreakReturns, UsesAreSafe
  <2>4. ASSUME NEW l \in Loops, TaskPushes(l) \/ TaskWakes(l), fault = "none"
        PROVE  UsesAreSafe'
    BY <2>4 DEF TaskPushes, TaskWakes, CalleesLive, InCall, UsesAreSafe
  <2>5. CASE fault = "none" /\ fault' = "none"
    BY <2>5 DEF UsesAreSafe
  <2>6. CASE UNCHANGED vars
    BY <2>6 DEF vars, UsesAreSafe
  <2> QED
    BY <2>1, <2>2, <2>3, <2>4, <2>5, <2>6
    DEF Next, LoopStep, start, StartThread, StartReturns, Started, quit,
        OwnerPushes, Destroy, JoinThread, QuitDone, BaseSignals, Publish,
        EnterDispatch, RunTasks, TaskReturns, TasksDone, TaskCalls, Finish
<1> QED BY <1>1, <1>2, CalleesStayAlive, Lives, Sizes, PTL DEF Spec

-----------------------------------------------------------------------------
(* Waiting for one another.                                                *)

\* A set of loops that is not empty has a last one.
LEMMA LastLoop ==
    ASSUME NEW S \in SUBSET Loops, S # {}
    PROVE  \E m \in S : \A l \in S : l <= m
<1> DEFINE T == {MaxThreads - l : l \in S}
<1>1. T \subseteq Nat /\ T # {}
  <2>1. ASSUME NEW l \in S PROVE MaxThreads - l \in Nat
    BY ConstantsOK DEF ConstantsOK, Loops
  <2> QED BY <2>1
<1>2. PICK x \in T : \A y \in T : <<y, x>> \notin OpToRel(<, Nat)
  BY <1>1, NatLessThanWellFounded, WFMin
<1>3. \A y \in T : ~(y < x)
  <2>1. \A y \in T :
            <<y, x>> \in Nat \X Nat /\ <<y, x>>[1] = y /\ <<y, x>>[2] = x
    BY <1>1
  <2> QED BY <1>2, <2>1 DEF OpToRel
<1>4. PICK m \in S : x = MaxThreads - m
  OBVIOUS
<1>5. ASSUME NEW l \in S PROVE l <= m
  <2>1. ~(MaxThreads - l < MaxThreads - m)
    BY <1>3, <1>4
  <2> QED BY <2>1, ConstantsOK DEF ConstantsOK, Loops
<1> QED BY <1>5

\* The safety part of CallsReturn, for any number of loops: tasks that call one
\* another's loops with mutex_ of their own locked are never in a deadlock, if
\* calls go to later loops only.
THEOREM CallersNeverDeadlock ==
    ASSUME CallsGoForward PROVE Spec => []SomeHolderMoves
<1>1. CallInv => SomeHolderMoves
  <2> SUFFICES ASSUME CallInv, NEW l \in Loops,
                      threadPc[l] = "calling", mutex[callee[l]] # Base
               PROVE  \E j \in Loops :
                          /\ l < j /\ Holds(j)
                          /\ threadPc[j] = "calling" => mutex[callee[j]] = Base
    BY DEF SomeHolderMoves
  <2> DEFINE Later == {j \in Loops : l < j /\ Holds(j)}
  <2>1. ASSUME NEW k \in Loops, threadPc[k] = "calling",
               mutex[callee[k]] # Base, k = l \/ l < k
        PROVE  callee[k] \in Later /\ k < callee[k]
    <3>1. <<k, callee[k]>> \in Calls
      BY <2>1 DEF CallInv, InCall
    <3>2. callee[k] \in Loops /\ k < callee[k]
      BY <3>1, ConstantsOK DEF ConstantsOK, CallsGoForward
    <3>3. Holds(callee[k])
      BY <2>1, <3>2 DEF CallInv
    <3>4. l < callee[k]
      BY <2>1, <3>2 DEF Loops
    <3> QED BY <3>2, <3>3, <3>4
  <2>2. Later # {}
    BY <2>1
  <2>3. PICK m \in Later : \A k \in Later : k <= m
    BY <2>2, LastLoop
  <2>4. threadPc[m] = "calling" => mutex[callee[m]] = Base
    <3> SUFFICES ASSUME threadPc[m] = "calling", mutex[callee[m]] # Base
                 PROVE  FALSE
      OBVIOUS
    <3>1. callee[m] \in Later /\ m < callee[m]
      BY <2>1
    <3> QED BY <2>3, <3>1 DEF Loops
  <2> QED BY <2>4
<1> QED BY <1>1, CallsInOrder, PTL
-----------------------------------------------------------------------------
(* The signals.                                                            *)

\* What the signals see of the pool.
SignalNext ==
    \/ \E s \in Signals : registerSignalEvent(s) \/ Raise(s)
    \/ EpollReturns \/ \E e \in active : handleEvent(e)
    \/ \E l \in Loops : ThreadBegins(l) \/ ThreadEnds(l)

LEMMA SignalSteps ==
    PoolTypeOK /\ SizeInv /\ [Next]_vars => [SignalNext]_signals
<1> SUFFICES ASSUME PoolTypeOK, SizeInv, [Next]_vars
             PROVE  [SignalNext]_signals
  OBVIOUS
<1>1. CASE StartThread
  <2>1. made + 1 \in Loops
    BY <1>1, ConstantsOK
    DEF ConstantsOK, StartThread, PoolTypeOK, SizeInv, Loops
  <2> QED BY <1>1, <2>1 DEF StartThread, SignalNext
<1>2. ASSUME NEW l \in Loops, Finish(l) PROVE [SignalNext]_signals
  BY <1>2 DEF Finish, SignalNext
<1>3. CASE BaseSignals
  BY <1>3 DEF BaseSignals, SignalNext
<1>4. ASSUME NEW s \in Signals, Raise(s) PROVE [SignalNext]_signals
  BY <1>4 DEF SignalNext
<1>5. CASE UNCHANGED signals
  BY <1>5
<1> QED
  BY <1>1, <1>2, <1>3, <1>4, <1>5
  DEF Next, LoopStep, vars, start, StartReturns, Started, getNextLoop,
      OwnerPushes, quit, Destroy, QuitThread, BreakReturns, JoinThread,
      QuitDone, Publish, EnterDispatch, RunTasks, TaskReturns, TasksDone,
      TaskPushes, TaskWakes, TaskCalls

\* The events are only added to, and keep their signals.
LEMMA EventsAppended ==
    ASSUME NEW s \in Signals, signo \in Seq(Signals), signalfd_create(s)
    PROVE  /\ signo' \in Seq(Signals)
           /\ DOMAIN signo \subseteq DOMAIN signo'
           /\ \A e \in DOMAIN signo :
                  signo'[e] = signo[e] /\ signo[e] \in Signals
           /\ \A e \in DOMAIN signo' \ DOMAIN signo : signo'[e] = s
<1>1. DOMAIN signo = 1 .. Len(signo) /\ Len(signo) \in Nat
  BY LenProperties
<1>2. \A e \in DOMAIN signo : signo[e] \in Signals
  BY ElementOfSeq, <1>1
<1>3. CASE signo' = signo
  BY <1>2, <1>3
<1>4. CASE signo' = Append(signo, s)
  <2>1. /\ signo' \in Seq(Signals) /\ Len(signo') = Len(signo) + 1
        /\ \A e \in 1 .. Len(signo) : signo'[e] = signo[e]
        /\ signo'[Len(signo) + 1] = s
    BY <1>4, AppendProperties
  <2>2. DOMAIN signo' = 1 .. Len(signo) + 1
    BY <2>1, LenProperties
  <2> QED BY <1>1, <1>2, <2>1, <2>2
<1> QED BY <1>3, <1>4 DEF signalfd_create

LEMMA SignalTypes == Spec => []SignalTypeOK
<1>1. Init => SignalTypeOK
  <2> SUFFICES ASSUME Init PROVE SignalTypeOK
    OBVIOUS
  <2>1. signo \in Seq(Signals)
    BY EmptySeq DEF Init, SignalInit
  <2>2. Base \in running /\ running \subseteq Threads
    BY ConstantsOK DEF ConstantsOK, Init, SignalInit
  <2> QED BY <2>1, <2>2 DEF Init, SignalInit, SignalTypeOK
<1>2. SignalTypeOK /\ [SignalNext]_signals => SignalTypeOK'
  <2> SUFFICES ASSUME SignalTypeOK, [SignalNext]_signals PROVE SignalTypeOK'
    OBVIOUS
  <2> USE DEF SignalTypeOK
  <2>1. ASSUME NEW s \in Signals, registerSignalEvent(s) PROVE SignalTypeOK'
    <3>1. signalfd_create(s)
      BY <2>1 DEF registerSignalEvent
    <3>2. signo' \in Seq(Signals) /\ DOMAIN signo \subseteq DOMAIN signo'
      BY <3>1, EventsAppended
    <3>3. mask' \in [Threads -> SUBSET Signals]
      BY <3>1 DEF signalfd_create
    <3> QED BY <2>1, <3>2, <3>3 DEF registerSignalEvent
  <2>2. ASSUME NEW s \in Signals, Raise(s) PROVE SignalTypeOK'
    BY <2>2 DEF Raise
  <2>3. CASE EpollReturns
    BY <2>3 DEF EpollReturns
  <2>4. ASSUME NEW e \in active, handleEvent(e) PROVE SignalTypeOK'
    BY <2>4 DEF handleEvent, Handled
  <2>5. ASSUME NEW l \in Loops, ThreadBegins(l) PROVE SignalTypeOK'
    BY <2>5, ConstantsOK DEF ConstantsOK, ThreadBegins, Inherited
  <2>6. ASSUME NEW l \in Loops, ThreadEnds(l) PROVE SignalTypeOK'
    BY <2>6, ConstantsOK DEF ConstantsOK, ThreadEnds, Loops
  <2>7. CASE UNCHANGED signals
    BY <2>7 DEF signals
  <2> QED BY <2>1, <2>2, <2>3, <2>4, <2>5, <2>6, <2>7 DEF SignalNext
<1> QED BY <1>1, <1>2, SignalSteps, Sizes, PTL DEF Spec

\* Every variable of LoopGroup keeps its type.
THEOREM GroupTypeCorrect == Spec => []TypeOK
<1>1. SignalTypeOK /\ PoolTypeOK => TypeOK
  BY DEF TypeOK
<1> QED BY <1>1, SignalTypes, Sizes, PTL

\* Every thread that start() has made has ended when quit() or the destructor
\* returns, also when a start() followed a quit() with another number.
THEOREM NoThreadOutlivesThePool == Spec => []NoThreadIsLeft
<1>1. Init => RunningInv
  BY ConstantsOK DEF ConstantsOK, Init, SignalInit, RunningInv, Loops
<1>2. PoolTypeOK /\ SizeInv /\ RunningInv /\ [Next]_vars => RunningInv'
  <2> SUFFICES ASSUME PoolTypeOK, SizeInv, RunningInv, [Next]_vars
               PROVE  RunningInv'
    OBVIOUS
  <2> USE ConstantsOK DEF ConstantsOK, PoolTypeOK, RunningInv, Loops, signals
  <2>1. ASSUME NEW n \in 0 .. MaxThreads, start(n) PROVE RunningInv'
    BY <2>1 DEF start
  <2>2. CASE StartThread
    BY <2>2 DEF StartThread, SizeInv, ThreadBegins
  <2>3. CASE \/ StartReturns \/ Started \/ getNextLoop \/ OwnerPushes \/ quit
             \/ Destroy \/ QuitThread \/ BreakReturns \/ JoinThread \/ QuitDone
    BY <2>3 DEF StartReturns, Started, getNextLoop, OwnerPushes, quit,
       Destroy, QuitThread, BreakReturns, JoinThread, QuitDone
  <2>4. ASSUME NEW l \in Loops,
               \/ Publish(l) \/ EnterDispatch(l) \/ RunTasks(l)
               \/ TaskReturns(l) \/ TasksDone(l) \/ TaskPushes(l)
               \/ TaskWakes(l)
        PROVE  RunningInv'
    BY <2>4 DEF Publish, EnterDispatch, RunTasks, TaskReturns, TasksDone,
       TaskPushes, TaskWakes
  <2>5. ASSUME NEW l \in Loops, NEW j \in Loops, TaskCalls(l, j)
        PROVE  RunningInv'
    BY <2>5 DEF TaskCalls
  <2>6. ASSUME NEW l \in Loops, Finish(l) PROVE RunningInv'
    BY <2>6 DEF Finish, ThreadEnds
  <2>7. CASE UNCHANGED <<running, threadPc>>
    BY <2>7
  <2> QED
    BY <2>1, <2>2, <2>3, <2>4, <2>5, <2>6, <2>7
    DEF Next, LoopStep, vars, BaseSignals, registerSignalEvent, EpollReturns,
        handleEvent, Raise
<1>3. /\ SignalTypeOK /\ PoolTypeOK /\ SizeInv /\ LifeInv /\ RunningInv
      => NoThreadIsLeft
  <2> SUFFICES ASSUME SignalTypeOK, PoolTypeOK, SizeInv, LifeInv, RunningInv,
                      ownerPc = "destroyed" \/ (ownerPc = "idle" /\ ~isRunning)
               PROVE  running = {Base}
    BY DEF NoThreadIsLeft
  <2>1. made = 0 /\ ownerPc # "handover"
    BY DEF SizeInv
  <2>2. \A l \in Loops : l \notin running
    BY <2>1 DEF LifeInv, RunningInv, Loops
  <2> QED BY <2>2, ConstantsOK DEF ConstantsOK, SignalTypeOK
<1> QED BY <1>1, <1>2, <1>3, Sizes, Lives, SignalTypes, PTL DEF Spec

\* A signal that was registered before start() ends the process never, however
\* many threads are started and ended: each blocks what the base thread blocked
\* when it was started, and the base thread unblocks nothing.
THEOREM KillersAreLate == Spec => []KilledOnlyIfLate
<1>1. Init => BlockedInv
  BY DEF Init, SignalInit, BlockedInv, KilledOnlyIfLate
<1>2. SignalTypeOK /\ BlockedInv /\ [SignalNext]_signals => BlockedInv'
  <2> SUFFICES ASSUME SignalTypeOK, BlockedInv, [SignalNext]_signals
               PROVE  BlockedInv'
    OBVIOUS
  <2> USE DEF SignalTypeOK, BlockedInv, KilledOnlyIfLate
  <2>1. ASSUME NEW s \in Signals, registerSignalEvent(s) PROVE BlockedInv'
    <3>1. signalfd_create(s)
      BY <2>1 DEF registerSignalEvent
    <3>2. /\ mask'[Base] = mask[Base] \cup {s}
          /\ \A t \in Threads : mask[t] \subseteq mask'[t]
      BY <3>1 DEF signalfd_create
    <3>3. \A e \in DOMAIN signo' : signo'[e] \in mask'[Base]
      BY <3>1, <3>2, EventsAppended
    <3>4. \A r \in mask'[Base] \ late' : \A t \in running' : r \in mask'[t]
      <4>1. CASE running = {Base}
        BY <2>1, <3>2, <4>1 DEF registerSignalEvent
      <4>2. CASE running # {Base}
        BY <2>1, <3>2, <4>2 DEF registerSignalEvent
      <4> QED BY <4>1, <4>2
    <3> QED BY <2>1, <3>3, <3>4 DEF registerSignalEvent
  <2>2. ASSUME NEW s \in Signals, Raise(s) PROVE BlockedInv'
    <3>1. s \in mask[Base]
      BY <2>2 DEF Raise
    <3>2. CASE \A t \in running : s \in mask[t]
      BY <2>2, <3>2 DEF Raise
    <3>3. CASE ~\A t \in running : s \in mask[t]
      BY <2>2, <3>1, <3>3 DEF Raise
    <3> QED BY <3>2, <3>3
  <2>3. CASE EpollReturns
    BY <2>3 DEF EpollReturns
  <2>4. ASSUME NEW e \in active, handleEvent(e) PROVE BlockedInv'
    BY <2>4 DEF handleEvent
  <2>5. ASSUME NEW l \in Loops, ThreadBegins(l) PROVE BlockedInv'
    <3>1. mask'[Base] = mask[Base] /\ mask'[l] = mask[Base]
      BY <2>5, ConstantsOK DEF ConstantsOK, ThreadBegins, Inherited
    <3>2. \A t \in running : t # l => mask'[t] = mask[t]
      BY <2>5 DEF ThreadBegins, Inherited
    <3> QED BY <2>5, <3>1, <3>2 DEF ThreadBegins
  <2>6. ASSUME NEW l \in Loops, ThreadEnds(l) PROVE BlockedInv'
    BY <2>6 DEF ThreadEnds
  <2>7. CASE UNCHANGED signals
    BY <2>7 DEF signals
  <2> QED BY <2>1, <2>2, <2>3, <2>4, <2>5, <2>6, <2>7 DEF SignalNext
<1>3. BlockedInv => KilledOnlyIfLate
  BY DEF BlockedInv
<1> QED BY <1>1, <1>2, <1>3, SignalTypes, SignalSteps, Sizes, PTL DEF Spec

\* A callback is called for no signal only where two events of one signal read
\* what one signal left to be read, in whatever order they are handled.
THEOREM SpuriousMeansShared == Spec => []CallbackMeansSignal
<1>1. Init => ActiveInv
  BY DEF Init, SignalInit, ActiveInv, CallbackMeansSignal
<1>2. SignalTypeOK /\ ActiveInv /\ [SignalNext]_signals => ActiveInv'
  <2> SUFFICES ASSUME SignalTypeOK, ActiveInv, [SignalNext]_signals
               PROVE  ActiveInv'
    OBVIOUS
  <2> USE DEF SignalTypeOK, ActiveInv, CallbackMeansSignal
  <2>1. ASSUME NEW s \in Signals, registerSignalEvent(s) PROVE ActiveInv'
    <3>1. signalfd_create(s)
      BY <2>1 DEF registerSignalEvent
    <3>2. /\ DOMAIN signo \subseteq DOMAIN signo'
          /\ \A e \in DOMAIN signo : signo'[e] = signo[e]
      BY <3>1, EventsAppended
    <3> QED BY <2>1, <3>2 DEF registerSignalEvent
  <2>2. ASSUME NEW s \in Signals, Raise(s) PROVE ActiveInv'
    BY <2>2 DEF Raise
  <2>3. CASE EpollReturns
    BY <2>3 DEF EpollReturns
  <2>4. ASSUME NEW e \in active, handleEvent(e) PROVE ActiveInv'
    <3>1. ASSUME NEW d \in active'
          PROVE  \/ signo[d] \in pending'
                 \/ \E f \in DOMAIN signo \ {d} : signo[f] = signo[d]
      BY <2>4, <3>1 DEF handleEvent, Handled
    <3>2. CASE signo[e] \in pending
      BY <2>4, <3>1, <3>2 DEF handleEvent
    <3>3. CASE signo[e] \notin pending
      BY <2>4, <3>1, <3>3 DEF handleEvent
    <3> QED BY <3>2, <3>3
  <2>5. ASSUME NEW l \in Loops, ThreadBegins(l) \/ ThreadEnds(l)
        PROVE  ActiveInv'
    BY <2>5 DEF ThreadBegins, ThreadEnds
  <2>6. CASE UNCHANGED signals
    BY <2>6 DEF signals
  <2> QED BY <2>1, <2>2, <2>3, <2>4, <2>5, <2>6 DEF SignalNext
<1>3. ActiveInv => CallbackMeansSignal
  BY DEF ActiveInv
<1> QED BY <1>1, <1>2, <1>3, SignalTypes, SignalSteps, Sizes, PTL DEF Spec
=============================================================================
