-------------------------- MODULE TcpServerProofs --------------------------
(***************************************************************************)
(* What TcpServer guarantees for any number of peers, descriptors and      *)
(* threads.                                                                *)
(***************************************************************************)
EXTENDS TcpServer, FiniteSetTheorems, WellFoundedInduction, TLAPS

USE DEF pool, kernel, server, loops, conn, threads, Goto, Stage, lock, unlock,
        erase, deleteEvent, watch, Registered

\* Where a thread is busy with the end of a connection.
Closers == {"erase", "erased", "close", "lost"}

\* The Connection p has its descriptor ...
HasFd(p) ==
    \/ obj[p] \in {"accepted", "stored", "queued"} \cup Registered
    \/ obj[p] = "closing" /\ pc[loopOf[p]] # "lost"

\* ... and is in conns_.
InMap(p) ==
    \/ obj[p] \in {"stored", "queued"} \cup Registered
    \/ obj[p] = "closing" /\ pc[loopOf[p]] = "erase"

\* No thread meddles with a connection that another one is busy with.
PlaceInv ==
    /\ \A p \in Peers :
           obj[p] = "accepted" => pc[Base] = "store" /\ cur[Base] = p
    /\ \A p \in Peers :
           obj[p] = "stored" => pc[Base] \in {"stored", "push"} /\ cur[Base] = p
    /\ \A p \in Peers : obj[p] = "closing" =>
           pc[loopOf[p]] \in Closers /\ cur[loopOf[p]] = p
    /\ \A t \in Threads :
           /\ pc[t] \in Closers =>
                  /\ cur[t] \in Peers /\ obj[cur[t]] = "closing"
                  /\ loopOf[cur[t]] = t
           /\ pc[t] = "make" =>
                  /\ cur[t] \in Peers /\ obj[cur[t]] \in Registered
                  /\ loopOf[cur[t]] = t
           /\ pc[t] \in {"store", "stored", "push"} =>
                  t = Base /\ cur[t] \in Peers
    /\ pc[Base] = "store" => obj[cur[Base]] = "accepted"
    /\ pc[Base] \in {"stored", "push"} => obj[cur[Base]] = "stored"

\* Nothing happens before start().
StartInv ==
    pc[Base] \in {"new", "listening"} =>
        /\ \A p \in Peers : obj[p] \in {"none", "pending"} /\ loopOf[p] = None
        /\ nextLoopIndex = 0
        /\ \A t \in Threads \ {Base} : pc[t] = "new"

\* Descriptors are given to one connection at a time.
FdInv ==
    /\ \A p \in Peers :
           obj[p] \notin {"none", "pending", "refused", "deleted"} =>
               fdOf[p] \in Fds /\ loopOf[p] \in Threads
    /\ \A p \in Peers : HasFd(p) => fds[fdOf[p]] = p
    /\ \A p \in Peers : obj[p] \in {"none", "pending"} => loopOf[p] = None
    /\ idleFd # None => fds[idleFd] = "spare"

ConnsInv ==
    /\ \A f \in Fds : conns[f] # None => fdOf[conns[f]] = f /\ InMap(conns[f])
    /\ \A p \in Peers : InMap(p) => conns[fdOf[p]] = p

TableInv ==
    \A t \in Threads, f \in Fds : table[t][f] # None =>
        /\ obj[table[t][f]] = "live"
        /\ loopOf[table[t][f]] = t /\ fdOf[table[t][f]] = f

\* A connection waits in one queue, once.
QueueInv ==
    \A t \in Threads : \A i \in 1 .. Len(queue[t]) :
        /\ obj[queue[t][i]] = "queued" /\ loopOf[queue[t][i]] = t
        /\ \A j \in 1 .. Len(queue[t]) : queue[t][i] = queue[t][j] => i = j

ServerInv ==
    TypeOK /\ PlaceInv /\ StartInv /\ FdInv /\ ConnsInv /\ TableInv /\ QueueInv

-----------------------------------------------------------------------------

\* A nonempty set of numbers has a least one.
LEMMA LeastExists ==
    ASSUME NEW S, S \subseteq Nat, S # {}
    PROVE  \E f \in S : \A g \in S : f <= g
<1>1. PICK f \in S : \A g \in S : <<g, f>> \notin OpToRel(<, Nat)
  BY NatLessThanWellFounded, WFMin
<1>2. \A g \in S : <<g, f>> \in Nat \X Nat /\ <<g, f>>[1] = g /\ <<g, f>>[2] = f
  OBVIOUS
<1>3. \A g \in S : ~(g < f)
  BY <1>1, <1>2 DEF OpToRel
<1>4. f \in Nat /\ \A g \in S : g \in Nat
  OBVIOUS
<1>5. \A g \in S : f <= g
  BY <1>3, <1>4
<1> QED BY <1>5

\* The kernel gives out a descriptor that was free.
LEMMA LowestIsFree ==
    ASSUME NEW open, Free(open) # {}
    PROVE  Lowest(Free(open)) \in Fds /\ open[Lowest(Free(open))] = "free"
<1>1. Free(open) \subseteq Nat
  BY ConstantsOK DEF Free, ConstantsOK
<1>2. \E f \in Free(open) : \A g \in Free(open) : f <= g
  BY <1>1, LeastExists
<1>3. Lowest(Free(open)) \in Free(open)
  BY <1>2 DEF Lowest
<1> QED BY <1>3 DEF Free

\* registerConnection() of a connection that has waited for it, on the thread of
\* its loop, puts it in the table of that loop or in none, and disturbs no other.
LEMMA RegisterStep ==
    ASSUME ServerInv, NEW t \in Threads, NEW p \in Peers, Register(t, p),
           loopOf[p] = t,
           \/ obj[p] = "queued" /\ pc[t] = "tasks"
           \/ obj[p] = "stored" /\ pc[t] = "push" /\ t = Base /\ cur[t] = p,
           UNCHANGED <<fdOf, loopOf, kernel, server>>
    PROVE  /\ table' \in [Threads -> [Fds -> Peers \cup {None}]]
           /\ obj' \in [Peers -> Stages] /\ pc' \in [Threads -> Pcs]
           /\ cur' \in [Threads -> Peers \cup {None}]
           /\ PlaceInv' /\ StartInv' /\ FdInv' /\ ConnsInv' /\ TableInv'
<1> USE DEF Register
<1>0. TypeOK /\ PlaceInv /\ StartInv /\ FdInv /\ ConnsInv /\ TableInv
  BY DEF ServerInv
<1>1. fdOf[p] \in Fds /\ fds[fdOf[p]] = p /\ conns[fdOf[p]] = p
  BY <1>0 DEF FdInv, HasFd, ConnsInv, InMap
<1>2. /\ \/ /\ obj' = [obj EXCEPT ![p] = "live"]
            /\ table' = [table EXCEPT ![t][fdOf[p]] = p]
         \/ obj' = [obj EXCEPT ![p] = "unwatched"] /\ table' = table
      /\ table' \in [Threads -> [Fds -> Peers \cup {None}]]
  <2>1. table \in [Threads -> [Fds -> Peers \cup {None}]]
    BY <1>0 DEF TypeOK
  <2>2. CASE table' = [table EXCEPT ![t][fdOf[p]] = p]
    BY <1>1, <2>1, <2>2
  <2> QED BY <2>1, <2>2
<1>3. /\ \E stage \in Registered : obj' = [obj EXCEPT ![p] = stage]
      /\ obj' \in [Peers -> Stages]
      /\ pc' = [pc EXCEPT ![t] = "make"] /\ pc' \in [Threads -> Pcs]
      /\ cur' = [cur EXCEPT ![t] = p]
      /\ cur' \in [Threads -> Peers \cup {None}]
  BY <1>0 DEF TypeOK, Stages, Pcs
<1>4. PlaceInv'
  BY <1>0, <1>3 DEF TypeOK, PlaceInv, FdInv, Threads, Base, Closers
<1>5. StartInv'
  BY <1>0, <1>3 DEF TypeOK, StartInv, Threads, Base
<1>6. FdInv'
  BY <1>0, <1>1, <1>3 DEF TypeOK, PlaceInv, FdInv, HasFd, Closers
<1>7. ConnsInv'
  BY <1>0, <1>1, <1>3 DEF TypeOK, PlaceInv, FdInv, ConnsInv, InMap, Closers
<1>8. TableInv'
  <2>1. CASE /\ obj' = [obj EXCEPT ![p] = "live"]
             /\ table' = [table EXCEPT ![t][fdOf[p]] = p]
    BY <1>0, <1>1, <2>1 DEF TypeOK, TableInv
  <2>2. CASE obj' = [obj EXCEPT ![p] = "unwatched"] /\ table' = table
    <3> HIDE DEF Register
    <3>1. \A u \in Threads, f \in Fds : table[u][f] # p
      <4>1. obj[p] # "live" /\ p # None
        BY ConstantsOK DEF ConstantsOK
      <4> QED BY <1>0, <4>1 DEF TableInv
    <3> QED BY <1>0, <2>2, <3>1 DEF TypeOK, TableInv
  <2> QED BY <1>2, <2>1, <2>2
<1> QED BY <1>2, <1>3, <1>4, <1>5, <1>6, <1>7, <1>8


\* The first task in the queue of a loop registers a connection of it, and
\* those behind it are others.
LEMMA RunTaskStep ==
    ASSUME ServerInv, NEW t \in Threads, RunTask(t)
    PROVE  ServerInv'
<1>0. TypeOK /\ PlaceInv /\ QueueInv
  BY DEF ServerInv
<1> DEFINE p == Head(queue[t])
<1>1. /\ queue[t] \in Seq(Peers) /\ queue[t] # <<>>
      /\ p \in Peers /\ p = queue[t][1]
  BY <1>0 DEF TypeOK, RunTask
<1>2. obj[p] = "queued" /\ loopOf[p] = t
  BY <1>0, <1>1 DEF QueueInv
<1>3. /\ Register(t, p) /\ pc[t] = "tasks"
      /\ UNCHANGED <<fdOf, loopOf, kernel, server>>
  BY DEF RunTask
<1>4. /\ table' \in [Threads -> [Fds -> Peers \cup {None}]]
      /\ obj' \in [Peers -> Stages] /\ pc' \in [Threads -> Pcs]
      /\ cur' \in [Threads -> Peers \cup {None}]
      /\ PlaceInv' /\ StartInv' /\ FdInv' /\ ConnsInv' /\ TableInv'
  BY <1>1, <1>2, <1>3, RegisterStep
<1>5. queue' = [queue EXCEPT ![t] = Tail(queue[t])]
  BY DEF RunTask
<1>6. queue' \in [Threads -> Seq(Peers)]
  BY <1>0, <1>1, <1>5 DEF TypeOK
<1>7. TypeOK'
  BY <1>0, <1>3, <1>4, <1>6 DEF TypeOK, RunTask
<1>8. ASSUME NEW u \in Threads, NEW i \in 1 .. Len(queue'[u])
      PROVE  \E k \in 1 .. Len(queue[u]) :
                 /\ k = IF u = t THEN i + 1 ELSE i
                 /\ queue'[u][i] = queue[u][k]
  BY <1>0, <1>1, <1>5 DEF TypeOK
<1>9. \A u \in Threads : \A i \in 1 .. Len(queue'[u]) :
          queue'[u][i] # p
  BY <1>0, <1>1, <1>2, <1>8 DEF QueueInv
<1>10. QueueInv'
  <2>1. /\ \E stage \in Registered : obj' = [obj EXCEPT ![p] = stage]
        /\ loopOf' = loopOf
    BY <1>3 DEF Register
  <2> SUFFICES ASSUME NEW u \in Threads, NEW i \in 1 .. Len(queue'[u])
               PROVE  /\ obj'[queue'[u][i]] = "queued"
                      /\ loopOf'[queue'[u][i]] = u
                      /\ \A j \in 1 .. Len(queue'[u]) :
                             queue'[u][i] = queue'[u][j] => i = j
    BY DEF QueueInv
  <2>2. PICK k \in 1 .. Len(queue[u]) :
            k = (IF u = t THEN i + 1 ELSE i) /\ queue'[u][i] = queue[u][k]
    BY <1>8
  <2>3. queue'[u][i] \in Peers /\ queue'[u][i] # p
    BY <1>0, <1>9, <2>2 DEF TypeOK
  <2>4. obj'[queue'[u][i]] = "queued" /\ loopOf'[queue'[u][i]] = u
    BY <1>0, <2>1, <2>2, <2>3 DEF QueueInv, TypeOK
  <2>5. ASSUME NEW j \in 1 .. Len(queue'[u]), queue'[u][i] = queue'[u][j]
        PROVE  i = j
    <3>1. PICK m \in 1 .. Len(queue[u]) :
              m = (IF u = t THEN j + 1 ELSE j) /\ queue'[u][j] = queue[u][m]
      BY <1>8
    <3>2. queue[u][k] = queue[u][m]
      BY <2>2, <2>5, <3>1
    <3>3. k = m
      BY <1>0, <3>2 DEF QueueInv
    <3>4. i \in Int /\ j \in Int
      BY <1>6
    <3> QED BY <2>2, <3>1, <3>3, <3>4
  <2> QED BY <2>4, <2>5
<1> QED BY <1>4, <1>7, <1>10 DEF ServerInv

\* The connection goes to the table of the base loop, or into the queue of the
\* loop that newConnection() has chosen, where it is not yet.
LEMMA RunInLoopStep ==
    ASSUME ServerInv, RunInLoop
    PROVE  ServerInv'
<1>0. /\ TypeOK /\ PlaceInv /\ StartInv /\ FdInv
      /\ ConnsInv /\ TableInv /\ QueueInv
  BY DEF ServerInv
<1> DEFINE p == cur[Base]
           l == loopOf[p]
<1>1. Base \in Threads /\ pc[Base] = "push"
  BY ConstantsOK DEF ConstantsOK, RunInLoop, Threads, Base
<1>2. p \in Peers /\ obj[p] = "stored" /\ l \in Threads
  BY <1>0, <1>1 DEF PlaceInv, FdInv
<1>3. UNCHANGED <<fdOf, loopOf, kernel, server>>
  BY DEF RunInLoop
<1>4. CASE /\ l = Base /\ Register(Base, p)
           /\ back' = [back EXCEPT ![Base] = "poll"]
           /\ UNCHANGED <<queue, loopMutex>>
  <2>1. /\ table' \in [Threads -> [Fds -> Peers \cup {None}]]
        /\ obj' \in [Peers -> Stages] /\ pc' \in [Threads -> Pcs]
        /\ cur' \in [Threads -> Peers \cup {None}]
        /\ PlaceInv' /\ StartInv' /\ FdInv' /\ ConnsInv' /\ TableInv'
    BY <1>1, <1>2, <1>3, <1>4, RegisterStep
  <2>2. TypeOK'
    BY <1>0, <1>3, <1>4, <2>1 DEF TypeOK
  <2>3. QueueInv'
    BY <1>0, <1>2, <1>4, <1>3 DEF QueueInv, Register, TypeOK
  <2> QED BY <2>1, <2>2, <2>3 DEF ServerInv
<1>5. CASE /\ l # Base
           /\ queue' = [queue EXCEPT ![l] = Append(@, p)]
           /\ Stage(p, "queued")
           /\ Goto(Base, "poll")
           /\ UNCHANGED <<table, loopMutex, cur, back>>
  <2>1. obj' \in [Peers -> Stages] /\ pc' \in [Threads -> Pcs]
    BY <1>0, <1>1, <1>2, <1>5 DEF TypeOK, Stages, Pcs
  <2>2. queue' \in [Threads -> Seq(Peers)]
    BY <1>0, <1>2, <1>5 DEF TypeOK
  <2>3. TypeOK'
    BY <1>0, <1>3, <1>5, <2>1, <2>2 DEF TypeOK
  <2>4. PlaceInv'
    BY <1>0, <1>1, <1>2, <1>3, <1>5 DEF TypeOK, PlaceInv, FdInv, Closers
  <2>5. StartInv'
    BY <1>0, <1>1, <1>5 DEF TypeOK, StartInv
  <2>6. FdInv'
    BY <1>0, <1>1, <1>2, <1>3, <1>5 DEF TypeOK, PlaceInv, FdInv, HasFd
  <2>7. ConnsInv'
    BY <1>0, <1>1, <1>2, <1>3, <1>5
    DEF TypeOK, PlaceInv, FdInv, ConnsInv, InMap
  <2>8. TableInv'
    BY <1>0, <1>2, <1>3, <1>5 DEF TypeOK, TableInv
  <2>9. QueueInv'
    BY <1>0, <1>2, <1>3, <1>5 DEF TypeOK, QueueInv
  <2> QED BY <2>3, <2>4, <2>5, <2>6, <2>7, <2>8, <2>9 DEF ServerInv
<1> QED BY <1>4, <1>5 DEF RunInLoop

\* Before the threads run there is no connection to disturb.
LEMMA StartStep ==
    ASSUME ServerInv,
           listen \/ startThreads \/ \E n \in 0 .. MaxThreads : setThreadNums(n)
    PROVE  ServerInv'
<1>0. /\ TypeOK /\ PlaceInv /\ StartInv /\ FdInv
      /\ ConnsInv /\ TableInv /\ QueueInv
  BY DEF ServerInv
<1>1. /\ Base \in Threads
      /\ \A p \in Peers : obj[p] \in {"none", "pending"} /\ loopOf[p] = None
      /\ \A t \in Threads \ {Base} : pc[t] = "new"
      /\ nextLoopIndex = 0 /\ pc[Base] \in {"new", "listening"}
  BY <1>0, ConstantsOK
  DEF ConstantsOK, StartInv, listen, setThreadNums, startThreads, Threads, Base
<1>2. UNCHANGED <<conn, gone, fds, conns, mutex, nextLoopIndex, idleFd>>
      /\ UNCHANGED <<loops, cur, back>>
  BY DEF listen, startThreads, setThreadNums
<1>3. TypeOK'
  <2>1. CASE listen
    BY <1>0, <1>1, <2>1
    DEF TypeOK, Pcs, listen, listenOn, bind, registerEvent
  <2>2. CASE startThreads
    BY <1>0, <1>1, <2>2 DEF TypeOK, Pcs, startThreads
  <2>3. CASE \E n \in 0 .. MaxThreads : setThreadNums(n)
    BY <1>0, <1>1, <2>3 DEF TypeOK, setThreadNums
  <2> QED BY <2>1, <2>2, <2>3
<1>4. /\ \A t \in Threads : pc'[t] \in {"new", "listening", "poll"}
      /\ pc'[Base] \in {"new", "listening"} =>
             \A t \in Threads \ {Base} : pc'[t] = "new"
  <2>1. CASE listen
    BY <1>0, <1>1, <2>1 DEF listen, TypeOK
  <2>2. CASE startThreads
    BY <1>0, <1>1, <2>2 DEF startThreads, TypeOK, Base
  <2>3. CASE \E n \in 0 .. MaxThreads : setThreadNums(n)
    BY <1>0, <1>1, <2>3 DEF setThreadNums, TypeOK
  <2> QED BY <2>1, <2>2, <2>3
<1>5. PlaceInv'
  BY <1>1, <1>2, <1>4 DEF PlaceInv, Closers
<1>6. StartInv' /\ FdInv'
  BY <1>0, <1>1, <1>2, <1>4 DEF StartInv, FdInv, HasFd
<1>7. ConnsInv'
  <2>1. \A q \in Peers : obj'[q] \in {"none", "pending"}
    BY <1>1, <1>2
  <2>2. \A f \in Fds : conns'[f] = None
    <3> SUFFICES ASSUME NEW f \in Fds, conns[f] # None
                 PROVE  FALSE
      BY <1>2
    <3>1. conns[f] \in Peers
      BY <1>0 DEF TypeOK
    <3>2. InMap(conns[f])
      BY <1>0 DEF ConnsInv
    <3> QED BY <1>1, <3>1, <3>2 DEF InMap
  <2> QED BY <2>1, <2>2 DEF ConnsInv, InMap
<1>8. TableInv' /\ QueueInv'
  BY <1>0, <1>2 DEF TableInv, QueueInv
<1> QED BY <1>3, <1>5, <1>6, <1>7, <1>8 DEF ServerInv

\* accept() gives a descriptor that no connection has.
LEMMA AcceptStep ==
    ASSUME ServerInv, NEW p \in Peers, Accept(p)
    PROVE  ServerInv'
<1>0. /\ TypeOK /\ PlaceInv /\ StartInv /\ FdInv
      /\ ConnsInv /\ TableInv /\ QueueInv
  BY DEF ServerInv
<1> DEFINE fd == Lowest(Free(fds))
<1>1. fd \in Fds /\ fds[fd] = "free" /\ Base \in Threads
  BY LowestIsFree, ConstantsOK DEF Accept, ConstantsOK, Threads, Base
<1>2. /\ nextLoopIndex' \in 0 .. threadNums
      /\ loopOf' \in [Peers -> Threads \cup {None}] /\ loopOf'[p] \in Threads
      /\ \A q \in Peers \ {p} : loopOf'[q] = loopOf[q]
  <2>1. /\ threadNums \in 0 .. MaxThreads /\ nextLoopIndex \in 0 .. threadNums
        /\ loopOf \in [Peers -> Threads \cup {None}] /\ MaxThreads \in Nat
        /\ UNCHANGED threadNums
    BY <1>0, ConstantsOK DEF TypeOK, ConstantsOK, Accept
  <2>2. CASE threadNums = 0
    BY <1>1, <2>1, <2>2 DEF Accept
  <2>3. CASE threadNums # 0
    <3>1. NextIndex + 1 \in 1 .. threadNums
      BY <2>1, <2>3 DEF NextIndex
    <3>2. NextIndex + 1 \in Threads
      BY <2>1, <3>1 DEF Threads
    <3>3. /\ loopOf' = [loopOf EXCEPT ![p] = NextIndex + 1]
          /\ nextLoopIndex' = NextIndex + 1
      BY <2>3 DEF Accept, Advanced
    <3> QED BY <2>1, <3>1, <3>2, <3>3
  <2> QED BY <2>2, <2>3
<1>3. /\ fds' = [fds EXCEPT ![fd] = p] /\ fdOf' = [fdOf EXCEPT ![p] = fd]
      /\ obj[p] = "pending" /\ obj' = [obj EXCEPT ![p] = "accepted"]
      /\ pc[Base] = "poll" /\ pc' = [pc EXCEPT ![Base] = "store"]
      /\ cur' = [cur EXCEPT ![Base] = p]
      /\ UNCHANGED <<gone, listenfd, conns, mutex, threadNums, idleFd>>
      /\ UNCHANGED <<loops, back>>
  BY DEF Accept
<1>4. TypeOK'
  BY <1>0, <1>1, <1>2, <1>3 DEF TypeOK, Stages, Pcs
<1>5. PlaceInv'
  BY <1>0, <1>1, <1>2, <1>3 DEF TypeOK, PlaceInv, Closers
<1>6. StartInv'
  BY <1>0, <1>1, <1>3 DEF TypeOK, StartInv
<1>7. FdInv'
  BY <1>0, <1>1, <1>2, <1>3, ConstantsOK
  DEF TypeOK, FdInv, HasFd, PlaceInv, Closers, ConstantsOK
<1>8. ConnsInv'
  BY <1>0, <1>1, <1>2, <1>3
  DEF TypeOK, FdInv, HasFd, PlaceInv, Closers, ConnsInv, InMap
<1>9. TableInv'
  BY <1>0, <1>2, <1>3 DEF TypeOK, TableInv
<1>10. QueueInv'
  BY <1>0, <1>2, <1>3 DEF TypeOK, QueueInv
<1> QED BY <1>4, <1>5, <1>6, <1>7, <1>8, <1>9, <1>10 DEF ServerInv

\* The place in conns_ is not taken: who had the descriptor has been erased.
LEMMA StoreConnStep ==
    ASSUME ServerInv, StoreConn
    PROVE  ServerInv'
<1>0. /\ TypeOK /\ PlaceInv /\ StartInv /\ FdInv
      /\ ConnsInv /\ TableInv /\ QueueInv
  BY DEF ServerInv
<1> DEFINE p == cur[Base]
<1>1. Base \in Threads /\ pc[Base] = "store"
  BY ConstantsOK DEF ConstantsOK, StoreConn, Threads, Base
<1>2. /\ p \in Peers /\ obj[p] = "accepted"
      /\ fdOf[p] \in Fds /\ loopOf[p] \in Threads /\ fds[fdOf[p]] = p
  BY <1>0, <1>1 DEF PlaceInv, FdInv, HasFd
<1>3. /\ conns' = [conns EXCEPT ![fdOf[p]] = p]
      /\ obj' = [obj EXCEPT ![p] = "stored"]
      /\ pc' = [pc EXCEPT ![Base] = "stored"] /\ mutex' = Base
      /\ UNCHANGED <<fdOf, loopOf, kernel, pool, idleFd, loops, cur, back>>
  BY DEF StoreConn
<1>4. TypeOK'
  BY <1>0, <1>1, <1>2, <1>3 DEF TypeOK, Stages, Pcs
<1>5. PlaceInv'
  BY <1>0, <1>1, <1>2, <1>3 DEF TypeOK, PlaceInv, Closers
<1>6. StartInv'
  BY <1>0, <1>1, <1>3 DEF TypeOK, StartInv
<1>7. FdInv'
  BY <1>0, <1>1, <1>2, <1>3 DEF TypeOK, FdInv, HasFd, PlaceInv, Closers
<1>8. ConnsInv'
  BY <1>0, <1>1, <1>2, <1>3
  DEF TypeOK, FdInv, HasFd, PlaceInv, Closers, ConnsInv, InMap
<1>9. TableInv' /\ QueueInv'
  BY <1>0, <1>2, <1>3 DEF TypeOK, TableInv, QueueInv
<1> QED BY <1>4, <1>5, <1>6, <1>7, <1>8, <1>9 DEF ServerInv

\* The spare descriptor is nobody else's.
LEMMA SpareStep ==
    ASSUME ServerInv, AcceptFails \/ AcceptSpare \/ OpenSpare
    PROVE  ServerInv'
<1>0. /\ TypeOK /\ PlaceInv /\ StartInv /\ FdInv
      /\ ConnsInv /\ TableInv /\ QueueInv
  BY DEF ServerInv
<1> DEFINE open == Closed(idleFd)
<1>1. /\ Base \in Threads /\ pc[Base] \in {"poll", "emfile", "reopen"}
      /\ \E place \in {"poll", "emfile", "reopen"} :
             pc' = [pc EXCEPT ![Base] = place]
  BY ConstantsOK
  DEF ConstantsOK, AcceptFails, AcceptSpare, OpenSpare, Threads, Base
<1>2. UNCHANGED <<fdOf, loopOf, gone, listenfd, conns, mutex, pool, loops,
                  cur, back>>
  BY DEF AcceptFails, AcceptSpare, OpenSpare
<1>3. \/ UNCHANGED obj
      \/ \E p \in Peers :
             obj[p] = "pending" /\ obj' = [obj EXCEPT ![p] = "refused"]
  BY DEF AcceptFails, AcceptSpare, OpenSpare
<1>4. /\ open \in [Fds -> Peers \cup {"free", "spare"}]
      /\ \A f \in Fds : fds[f] \in Peers => open[f] = fds[f]
  BY <1>0, ConstantsOK DEF TypeOK, Closed, FdInv, ConstantsOK
<1>5. /\ fds' \in [Fds -> Peers \cup {"free", "spare"}]
      /\ idleFd' \in Fds \cup {None}
      /\ \A f \in Fds : fds[f] \in Peers => fds'[f] = fds[f]
      /\ idleFd' # None => fds'[idleFd'] = "spare"
  <2>1. CASE fds' = fds /\ idleFd' = idleFd
    BY <1>0, <2>1 DEF TypeOK, FdInv
  <2>2. CASE fds' = open /\ idleFd' = None
    BY <1>4, <2>2
  <2>3. CASE /\ Free(open) # {} /\ idleFd' = Lowest(Free(open))
             /\ fds' = [open EXCEPT ![idleFd'] = "spare"]
    <3>1. idleFd' \in Fds /\ open[idleFd'] = "free"
      BY <2>3, LowestIsFree
    <3>2. \A f \in Fds : fds[f] \in Peers => f # idleFd'
      BY <1>4, <3>1, ConstantsOK DEF ConstantsOK
    <3> QED BY <1>4, <2>3, <3>1, <3>2
  <2> QED
    BY <2>1, <2>2, <2>3 DEF AcceptFails, AcceptSpare, OpenSpare
<1>6. TypeOK'
  BY <1>0, <1>1, <1>2, <1>3, <1>5 DEF TypeOK, Stages, Pcs
<1>7. PlaceInv' /\ StartInv'
  <2>1. /\ pc'[Base] \in {"poll", "emfile", "reopen"}
        /\ \A t \in Threads : t # Base => pc'[t] = pc[t]
    <3>1. pc \in [Threads -> Pcs]
      BY <1>0 DEF TypeOK
    <3>2. PICK place \in {"poll", "emfile", "reopen"} :
              pc' = [pc EXCEPT ![Base] = place]
      BY <1>1
    <3> QED BY <1>1, <3>1, <3>2
  <2>2. \A q \in Peers : \/ obj'[q] = obj[q]
                         \/ obj[q] = "pending" /\ obj'[q] = "refused"
    BY <1>0, <1>3 DEF TypeOK
  <2>3. PlaceInv'
    <3>1. \A q \in Peers : /\ obj'[q] \notin {"accepted", "stored"}
                           /\ obj'[q] = "closing" <=> obj[q] = "closing"
      BY <1>0, <1>1, <2>2 DEF PlaceInv
    <3>2. \A q \in Peers : obj'[q] = "closing" =>
              pc'[loopOf'[q]] \in Closers /\ cur'[loopOf'[q]] = q
      <4> SUFFICES ASSUME NEW q \in Peers, obj[q] = "closing"
                   PROVE  pc'[loopOf[q]] \in Closers /\ cur[loopOf[q]] = q
        BY <1>2, <3>1
      <4>1. pc[loopOf[q]] \in Closers /\ cur[loopOf[q]] = q
        BY <1>0 DEF PlaceInv
      <4>2. loopOf[q] \in Threads
        BY <1>0 DEF FdInv
      <4>3. loopOf[q] # Base
        BY <1>1, <4>1 DEF Closers
      <4> QED BY <2>1, <4>1, <4>2, <4>3
    <3>3. ASSUME NEW t \in Threads
          PROVE  /\ pc'[t] \in Closers =>
                        /\ cur'[t] \in Peers /\ obj'[cur'[t]] = "closing"
                        /\ loopOf'[cur'[t]] = t
                 /\ pc'[t] = "make" =>
                        /\ cur'[t] \in Peers /\ obj'[cur'[t]] \in Registered
                        /\ loopOf'[cur'[t]] = t
                 /\ pc'[t] \in {"store", "stored", "push"} =>
                        t = Base /\ cur'[t] \in Peers
      <4>1. CASE t = Base
        BY <2>1, <4>1 DEF Closers
      <4>2. CASE t # Base
        <5>1. pc'[t] = pc[t] /\ cur'[t] = cur[t] /\ UNCHANGED loopOf
          BY <1>2, <2>1, <4>2
        <5> QED BY <1>0, <2>2, <3>1, <5>1 DEF PlaceInv
      <4> QED BY <4>1, <4>2
    <3> QED BY <2>1, <3>1, <3>2, <3>3 DEF PlaceInv
  <2>4. StartInv'
    BY <2>1 DEF StartInv
  <2> QED BY <2>3, <2>4
<1>8. \A q \in Peers : (HasFd(q)' => HasFd(q)) /\ InMap(q)' = InMap(q)
  <2> SUFFICES ASSUME NEW q \in Peers
               PROVE  (HasFd(q)' => HasFd(q)) /\ InMap(q)' = InMap(q)
    OBVIOUS
  <2>1. CASE obj[q] = "closing"
    <3>1. obj'[q] = "closing" /\ loopOf'[q] = loopOf[q] /\ loopOf[q] \in Threads
      BY <1>0, <1>2, <1>3, <2>1 DEF TypeOK, FdInv
    <3>2. pc'[loopOf[q]] = pc[loopOf[q]] \/ loopOf[q] = Base
      BY <1>0, <1>1, <3>1 DEF TypeOK
    <3>3. pc[Base] \notin Closers /\ pc'[Base] \notin Closers
      BY <1>0, <1>1 DEF TypeOK, Closers
    <3>4. loopOf[q] # Base
      BY <1>0, <2>1, <3>3 DEF PlaceInv
    <3> QED BY <2>1, <3>1, <3>2, <3>4 DEF HasFd, InMap
  <2>2. CASE obj[q] # "closing"
    BY <1>0, <1>3, <2>2 DEF TypeOK, HasFd, InMap
  <2> QED BY <2>1, <2>2
<1>9. FdInv'
  <2>1. \A q \in Peers : HasFd(q)' => fds'[fdOf'[q]] = q
    <3>1. \A q \in Peers : HasFd(q) => fdOf[q] \in Fds /\ fds[fdOf[q]] = q
      BY <1>0 DEF FdInv, HasFd
    <3> QED BY <1>2, <1>5, <1>8, <3>1
  <2>2. \A q \in Peers :
            obj'[q] = obj[q] \/ (obj[q] = "pending" /\ obj'[q] = "refused")
    BY <1>0, <1>3 DEF TypeOK
  <2> QED BY <1>0, <1>2, <1>5, <2>1, <2>2 DEF FdInv
<1>10. ConnsInv'
  BY <1>0, <1>2, <1>8 DEF TypeOK, ConnsInv
<1>11. TableInv'
  BY <1>0, <1>2, <1>3 DEF TypeOK, TableInv
<1>12. QueueInv'
  BY <1>0, <1>2, <1>3 DEF TypeOK, QueueInv
<1> QED BY <1>6, <1>7, <1>8, <1>9, <1>10, <1>11, <1>12
  DEF ServerInv

\* A thread goes on: what holds of the connections is not touched.
LEMMA PlainStep ==
    ASSUME ServerInv, NEW t \in Threads,
           \/ UnlockStore /\ t = Base
           \/ RunTasks(t) \/ TasksDone(t) \/ MakeReturns(t)
    PROVE  ServerInv'
<1>0. /\ TypeOK /\ PlaceInv /\ StartInv /\ FdInv
      /\ ConnsInv /\ TableInv /\ QueueInv
  BY DEF ServerInv
<1>1. PICK place \in {"push", "tasks", "poll"} :
          /\ pc' = [pc EXCEPT ![t] = place]
          /\ place = "push" <=> pc[t] = "stored"
          /\ pc[t] \in {"stored", "poll", "tasks", "make"}
  BY <1>0 DEF TypeOK, UnlockStore, RunTasks, TasksDone, MakeReturns
<1>2. UNCHANGED <<conn, kernel, conns, pool, idleFd, table, queue, cur, back>>
  BY DEF UnlockStore, RunTasks, TasksDone, MakeReturns
<1>3. TypeOK'
  <2>1. mutex' \in Threads \cup {None}
    BY <1>0 DEF TypeOK, UnlockStore, RunTasks, TasksDone, MakeReturns
  <2>2. loopMutex' \in [Threads -> Threads \cup {None}]
    BY <1>0 DEF TypeOK, UnlockStore, RunTasks, TasksDone, MakeReturns
  <2> QED BY <1>0, <1>1, <1>2, <2>1, <2>2 DEF TypeOK, Pcs
<1>4. PlaceInv'
  BY <1>0, <1>1, <1>2 DEF TypeOK, PlaceInv, FdInv, Closers
<1>5. StartInv'
  BY <1>0, <1>1, <1>2 DEF TypeOK, StartInv, Threads, Base
<1>6. \A q \in Peers : HasFd(q)' = HasFd(q) /\ InMap(q)' = InMap(q)
  BY <1>0, <1>1, <1>2 DEF TypeOK, HasFd, InMap, PlaceInv, FdInv, Closers
<1>7. FdInv'
  BY <1>0, <1>2, <1>6 DEF FdInv
<1>8. ConnsInv'
  BY <1>0, <1>2, <1>6 DEF TypeOK, ConnsInv
<1>9. TableInv' /\ QueueInv'
  BY <1>0, <1>2 DEF TableInv, QueueInv
<1> QED BY <1>3, <1>4, <1>5, <1>7, <1>8, <1>9 DEF ServerInv

\* A second updateEvent() puts the connection where the first would have.
LEMMA WatchStep ==
    ASSUME ServerInv, NEW t \in Threads, NEW p \in Peers, SendWatches(t, p)
    PROVE  ServerInv'
<1>0. /\ TypeOK /\ PlaceInv /\ StartInv /\ FdInv
      /\ ConnsInv /\ TableInv /\ QueueInv
  BY DEF ServerInv
<1>1. /\ fdOf[p] \in Fds /\ fds[fdOf[p]] = p
      /\ obj[p] = "unwatched" /\ loopOf[p] = t
  BY <1>0 DEF FdInv, HasFd, SendWatches
<1>2. /\ table' = [table EXCEPT ![t][fdOf[p]] = p]
      /\ obj' = [obj EXCEPT ![p] = "live"]
      /\ UNCHANGED <<fdOf, loopOf, kernel, server, queue, loopMutex, threads>>
  BY DEF SendWatches
<1>3. table' \in [Threads -> [Fds -> Peers \cup {None}]]
  BY <1>0, <1>1, <1>2 DEF TypeOK
<1>4. TypeOK'
  BY <1>0, <1>2, <1>3 DEF TypeOK, Stages
<1>5. PlaceInv'
  BY <1>0, <1>1, <1>2 DEF TypeOK, PlaceInv, Closers
<1>6. StartInv'
  BY <1>0, <1>1, <1>2 DEF TypeOK, StartInv
<1>7. \A q \in Peers : HasFd(q)' = HasFd(q) /\ InMap(q)' = InMap(q)
  BY <1>0, <1>1, <1>2 DEF TypeOK, HasFd, InMap
<1>8. FdInv'
  BY <1>0, <1>1, <1>2, <1>7 DEF TypeOK, FdInv
<1>9. ConnsInv'
  BY <1>0, <1>2, <1>7 DEF TypeOK, ConnsInv
<1>10. TableInv'
  BY <1>0, <1>1, <1>2 DEF TypeOK, TableInv
<1>11. QueueInv'
  BY <1>0, <1>1, <1>2 DEF TypeOK, QueueInv
<1> QED BY <1>4, <1>5, <1>6, <1>8, <1>9, <1>10, <1>11 DEF ServerInv

\* handleClose() is called for a registered connection on the thread of its loop.
LEMMA CloseStep ==
    ASSUME ServerInv, NEW t \in Threads, NEW p \in Peers, handleClose(t, p),
           obj[p] \in Registered, loopOf[p] = t,
           \/ pc[t] = "poll" /\ back' = [back EXCEPT ![t] = "poll"]
           \/ pc[t] = "make" /\ cur[t] = p /\ UNCHANGED back
    PROVE  ServerInv'
<1>0. /\ TypeOK /\ PlaceInv /\ StartInv /\ FdInv
      /\ ConnsInv /\ TableInv /\ QueueInv
  BY DEF ServerInv
<1>1. fdOf[p] \in Fds /\ fds[fdOf[p]] = p /\ conns[fdOf[p]] = p
  BY <1>0 DEF FdInv, HasFd, ConnsInv, InMap
<1>2. /\ table' = [table EXCEPT ![t][fdOf[p]] = None]
      /\ cur' = [cur EXCEPT ![t] = p] /\ obj' = [obj EXCEPT ![p] = "closing"]
      /\ pc' = [pc EXCEPT ![t] = "erase"]
      /\ UNCHANGED <<fdOf, loopOf, kernel, server, queue, loopMutex>>
  BY DEF handleClose
<1>3. table' \in [Threads -> [Fds -> Peers \cup {None}]]
  BY <1>0, <1>1, <1>2 DEF TypeOK
<1>4. TypeOK'
  BY <1>0, <1>2, <1>3 DEF TypeOK, Stages, Pcs
<1>5. PlaceInv'
  BY <1>0, <1>2 DEF TypeOK, PlaceInv, FdInv, Closers
<1>6. StartInv'
  BY <1>0, <1>2 DEF TypeOK, StartInv
<1>7. \A q \in Peers : HasFd(q)' = HasFd(q) /\ InMap(q)' = InMap(q)
  BY <1>0, <1>2 DEF TypeOK, HasFd, InMap, PlaceInv, FdInv, Closers
<1>8. FdInv'
  BY <1>0, <1>2, <1>7 DEF TypeOK, FdInv
<1>9. ConnsInv'
  BY <1>0, <1>2, <1>7 DEF TypeOK, ConnsInv
<1>10. TableInv'
  BY <1>0, <1>1, <1>2 DEF TypeOK, TableInv
<1>11. QueueInv'
  BY <1>0, <1>2 DEF TypeOK, QueueInv
<1> QED BY <1>4, <1>5, <1>6, <1>8, <1>9, <1>10, <1>11 DEF ServerInv

\* The steps of removeConnection() are about a connection in no table and in
\* no queue, whose descriptor no other has until it is closed.
LEMMA RemoveStep ==
    ASSUME ServerInv, NEW t \in Threads,
           Erase(t) \/ UnlockErase(t) \/ CloseFd(t) \/ DeleteConn(t)
    PROVE  ServerInv'
<1>0. /\ TypeOK /\ PlaceInv /\ StartInv /\ FdInv
      /\ ConnsInv /\ TableInv /\ QueueInv
  BY DEF ServerInv
<1> DEFINE p == cur[t]
<1>1. /\ pc[t] \in Closers /\ p \in Peers
      /\ obj[p] = "closing" /\ loopOf[p] = t /\ fdOf[p] \in Fds
  BY <1>0 DEF PlaceInv, FdInv, Closers, Erase, UnlockErase, CloseFd, DeleteConn
<1>2. /\ UNCHANGED <<fdOf, loopOf, gone, listenfd, pool, idleFd>>
      /\ UNCHANGED <<loops, cur, back>>
  BY DEF Erase, UnlockErase, CloseFd, DeleteConn
<1>3. CASE Erase(t)
  <2>1. /\ pc[t] = "erase" /\ pc' = [pc EXCEPT ![t] = "erased"]
        /\ conns' = [conns EXCEPT ![fdOf[p]] = None] /\ mutex' = t
        /\ UNCHANGED <<obj, fds>>
    BY <1>3 DEF Erase
  <2>2. TypeOK'
    BY <1>0, <1>1, <1>2, <2>1 DEF TypeOK, Pcs
  <2>3. PlaceInv' /\ StartInv'
    BY <1>0, <1>1, <1>2, <2>1 DEF TypeOK, PlaceInv, StartInv, FdInv, Closers
  <2>4. FdInv'
    BY <1>0, <1>1, <1>2, <2>1 DEF TypeOK, FdInv, HasFd
  <2>5. ConnsInv'
    BY <1>0, <1>1, <1>2, <2>1
    DEF TypeOK, PlaceInv, FdInv, HasFd, ConnsInv, InMap, Closers
  <2>6. TableInv' /\ QueueInv'
    BY <1>0, <1>2, <2>1 DEF TableInv, QueueInv
  <2> QED BY <2>2, <2>3, <2>4, <2>5, <2>6 DEF ServerInv
<1>4. CASE UnlockErase(t)
  <2>1. /\ pc[t] = "erased" /\ pc' = [pc EXCEPT ![t] = "close"]
        /\ mutex' = None /\ UNCHANGED <<obj, fds, conns>>
    BY <1>4 DEF UnlockErase
  <2>2. TypeOK'
    BY <1>0, <1>1, <1>2, <2>1 DEF TypeOK, Pcs
  <2>3. PlaceInv' /\ StartInv'
    BY <1>0, <1>1, <1>2, <2>1 DEF TypeOK, PlaceInv, StartInv, FdInv, Closers
  <2>4. FdInv'
    BY <1>0, <1>1, <1>2, <2>1 DEF TypeOK, FdInv, HasFd
  <2>5. ConnsInv'
    BY <1>0, <1>1, <1>2, <2>1
    DEF TypeOK, PlaceInv, FdInv, ConnsInv, InMap, Closers
  <2>6. TableInv' /\ QueueInv'
    BY <1>0, <1>2, <2>1 DEF TableInv, QueueInv
  <2> QED BY <2>2, <2>3, <2>4, <2>5, <2>6 DEF ServerInv
<1>5. CASE CloseFd(t)
  <2>1. /\ pc[t] = "close" /\ pc' = [pc EXCEPT ![t] = "lost"]
        /\ fds' = [fds EXCEPT ![fdOf[p]] = "free"]
        /\ UNCHANGED <<obj, conns, mutex>>
    BY <1>5 DEF CloseFd
  <2>2. TypeOK'
    BY <1>0, <1>1, <1>2, <2>1 DEF TypeOK, Pcs
  <2>3. PlaceInv' /\ StartInv'
    BY <1>0, <1>1, <1>2, <2>1 DEF TypeOK, PlaceInv, StartInv, FdInv, Closers
  <2>4. /\ fds[fdOf[p]] = p /\ ~HasFd(p)'
        /\ \A q \in Peers : HasFd(q)' => HasFd(q) /\ fdOf[q] # fdOf[p]
    BY <1>0, <1>1, <1>2, <2>1 DEF TypeOK, PlaceInv, FdInv, HasFd, Closers
  <2>5. FdInv'
    BY <1>0, <1>1, <1>2, <2>1, <2>4, ConstantsOK
    DEF TypeOK, FdInv, HasFd, ConstantsOK
  <2>6. ConnsInv'
    BY <1>0, <1>1, <1>2, <2>1
    DEF TypeOK, PlaceInv, FdInv, ConnsInv, InMap, Closers
  <2>7. TableInv' /\ QueueInv'
    BY <1>0, <1>2, <2>1 DEF TableInv, QueueInv
  <2> QED BY <2>2, <2>3, <2>5, <2>6, <2>7 DEF ServerInv
<1>6. CASE DeleteConn(t)
  <2>1. /\ pc[t] = "lost" /\ pc' = [pc EXCEPT ![t] = back[t]]
        /\ obj' = [obj EXCEPT ![p] = "deleted"]
        /\ back[t] \in {"poll", "tasks"} /\ UNCHANGED <<fds, conns, mutex>>
    BY <1>0, <1>6 DEF DeleteConn, TypeOK
  <2>2. TypeOK'
    BY <1>0, <1>1, <1>2, <2>1 DEF TypeOK, Pcs, Stages
  <2>3. PlaceInv'
    BY <1>0, <1>1, <1>2, <2>1 DEF TypeOK, PlaceInv, FdInv, Closers
  <2>4. StartInv'
    BY <1>0, <1>1, <1>2, <2>1 DEF TypeOK, StartInv
  <2>5. FdInv'
    BY <1>0, <1>1, <1>2, <2>1 DEF TypeOK, PlaceInv, FdInv, HasFd, Closers
  <2>6. ConnsInv'
    BY <1>0, <1>1, <1>2, <2>1
    DEF TypeOK, PlaceInv, FdInv, ConnsInv, InMap, Closers
  <2>7. TableInv'
    BY <1>0, <1>1, <1>2, <2>1 DEF TypeOK, TableInv
  <2>8. QueueInv'
    BY <1>0, <1>1, <1>2, <2>1 DEF TypeOK, QueueInv
  <2> QED BY <2>2, <2>3, <2>4, <2>5, <2>6, <2>7, <2>8 DEF ServerInv
<1> QED BY <1>3, <1>4, <1>5, <1>6

\* What a peer does changes no connection that the server has.
LEMMA PeerStep ==
    ASSUME ServerInv, NEW p \in Peers, Connect(p) \/ PeerCloses(p)
    PROVE  ServerInv'
<1>0. /\ TypeOK /\ PlaceInv /\ StartInv /\ FdInv
      /\ ConnsInv /\ TableInv /\ QueueInv
  BY DEF ServerInv
<1>1. /\ \/ obj' = obj
         \/ obj[p] = "none" /\ obj' = [obj EXCEPT ![p] = "pending"]
      /\ UNCHANGED <<fdOf, loopOf, fds, listenfd, server, loops, threads>>
  <2>1. CASE Connect(p)
    BY <2>1 DEF Connect
  <2>2. CASE PeerCloses(p)
    BY <2>2 DEF PeerCloses
  <2> QED BY <2>1, <2>2
<1>2. TypeOK'
  BY <1>0, <1>1 DEF TypeOK, Stages, Connect, PeerCloses
<1>3. PlaceInv'
  <2>1. \A q \in Peers :
            obj'[q] = obj[q] \/ (obj[q] = "none" /\ obj'[q] = "pending")
    BY <1>0, <1>1 DEF TypeOK
  <2>2. Base \in Threads
    BY ConstantsOK DEF ConstantsOK, Threads, Base
  <2> QED BY <1>0, <1>1, <2>1, <2>2 DEF PlaceInv, Closers
<1>4. StartInv'
  BY <1>0, <1>1 DEF TypeOK, StartInv
<1>5. FdInv'
  BY <1>0, <1>1 DEF TypeOK, FdInv, HasFd
<1>6. ConnsInv'
  <2>1. \A q \in Peers : InMap(q)' = InMap(q)
    BY <1>0, <1>1 DEF TypeOK, InMap
  <2> QED BY <1>0, <1>1, <2>1 DEF TypeOK, ConnsInv
<1>7. TableInv'
  BY <1>0, <1>1 DEF TypeOK, TableInv
<1>8. QueueInv'
  <2>1. \A q \in Peers : obj[q] = "queued" => obj'[q] = "queued"
    BY <1>0, <1>1 DEF TypeOK
  <2>2. UNCHANGED <<queue, loopOf>> /\ queue \in [Threads -> Seq(Peers)]
    BY <1>0, <1>1 DEF TypeOK
  <2> QED BY <1>0, <2>1, <2>2 DEF QueueInv
<1> QED BY <1>2, <1>3, <1>4, <1>5, <1>6, <1>7, <1>8 DEF ServerInv

\* At first there are no connections.
LEMMA ServerInvInit == Init => ServerInv
<1> SUFFICES ASSUME Init PROVE ServerInv
  OBVIOUS
<1>1. Base \in Threads /\ 0 \in 0 .. MaxThreads
  BY ConstantsOK DEF ConstantsOK, Threads, Base
<1>2. TypeOK
  BY <1>1 DEF Init, AcceptorInit, PoolInit, createNoblockingSocket, TypeOK,
              Stages, Pcs
<1>3. PlaceInv /\ StartInv
  BY <1>1 DEF Init, PoolInit, PlaceInv, StartInv, Closers, Threads, Base
<1>4. FdInv /\ ConnsInv /\ TableInv /\ QueueInv
  BY DEF Init, AcceptorInit, FdInv, HasFd, ConnsInv, InMap, TableInv, QueueInv
<1> QED BY <1>2, <1>3, <1>4 DEF ServerInv

\* An event finds a connection that is live on the thread of its loop.
LEMMA ReadEndCloses ==
    ASSUME ServerInv, NEW t \in Threads, NEW f \in Fds, ReadEnd(t, f)
    PROVE  \E p \in Peers :
               /\ handleClose(t, p) /\ obj[p] = "live" /\ loopOf[p] = t
               /\ pc[t] = "poll" /\ back' = [back EXCEPT ![t] = "poll"]
BY DEF ServerInv, TypeOK, TableInv, ReadEnd

\* Every step keeps ServerInv.
LEMMA ServerInvStep == ServerInv /\ [Next]_vars => ServerInv'
<1> SUFFICES ASSUME ServerInv, [Next]_vars
             PROVE  ServerInv'
  OBVIOUS
<1>1. Base \in Threads
  BY ConstantsOK DEF ConstantsOK, Threads, Base
<1>2. CASE \E p \in Peers : Connect(p) \/ PeerCloses(p)
  BY <1>2, PeerStep
<1>3. CASE \E n \in 0 .. MaxThreads : setThreadNums(n)
  BY <1>3, StartStep
<1>4. CASE BaseStep
  <2>1. CASE start
    BY <2>1, StartStep DEF start
  <2>2. CASE \E p \in Peers : Accept(p)
    BY <2>2, AcceptStep
  <2>3. CASE StoreConn \/ UnlockStore \/ RunInLoop
    BY <1>1, <2>3, StoreConnStep, PlainStep, RunInLoopStep
  <2>4. CASE AcceptFails \/ AcceptSpare \/ OpenSpare
    BY <2>4, SpareStep
  <2> QED BY <1>4, <2>1, <2>2, <2>3, <2>4 DEF BaseStep
<1>5. ASSUME NEW t \in Threads, LoopStep(t)
      PROVE  ServerInv'
  <2>1. CASE RunTask(t)
    BY <2>1, RunTaskStep
  <2>2. CASE RunTasks(t) \/ TasksDone(t) \/ MakeReturns(t)
    BY <2>2, PlainStep
  <2>3. CASE MakeCloses(t)
    <3>1. /\ cur[t] \in Peers /\ obj[cur[t]] \in Registered
          /\ loopOf[cur[t]] = t
      BY <2>3 DEF MakeCloses, ServerInv, PlaceInv
    <3> QED BY <2>3, <3>1, CloseStep DEF MakeCloses
  <2>4. CASE \E f \in Fds : ReadEnd(t, f)
    BY <2>4, ReadEndCloses, CloseStep
  <2>5. CASE Erase(t) \/ UnlockErase(t) \/ CloseFd(t) \/ DeleteConn(t)
    BY <2>5, RemoveStep
  <2> QED BY <1>5, <2>1, <2>2, <2>3, <2>4, <2>5 DEF LoopStep
<1>6. CASE UNCHANGED vars
  BY <1>6 DEF vars, ServerInv, TypeOK, PlaceInv, StartInv, FdInv, HasFd,
              ConnsInv, InMap, TableInv, QueueInv, Closers
<1>7. CASE \E t \in Threads, p \in Peers : SendWatches(t, p)
  BY <1>7, WatchStep
<1> QED BY <1>2, <1>3, <1>4, <1>5, <1>6, <1>7 DEF Next

\* ServerInv is inductive.
LEMMA ServerInvHolds == Spec => []ServerInv
BY ServerInvInit, ServerInvStep, PTL DEF Spec

-----------------------------------------------------------------------------

\* TcpServer keeps to its types.
THEOREM ServerTypeCorrect == Spec => []TypeOK
BY ServerInvHolds, PTL DEF ServerInv

\* At any time conns_ has exactly the connections that are stored and not yet
\* erased, each under its own descriptor (newConnection(), removeConnection()).
THEOREM ConnsAreExact == Spec => []ConnsIsExact
<1>1. ServerInv => ConnsIsExact
  BY DEF ServerInv, TypeOK, FdInv, ConnsInv, HasFd, InMap, PlaceInv, Closers,
         ConnsIsExact
<1> QED BY <1>1, ServerInvHolds, PTL

\* At any time the table of a loop has no connection of another loop and none
\* that is being removed (EventLoop::registerEvent(), deleteEvent()).
THEOREM TablesAreExact == Spec => []TableIsExact
<1>1. ServerInv => TableIsExact
  BY DEF ServerInv, TypeOK, FdInv, TableInv, HasFd, TableIsExact
<1> QED BY <1>1, ServerInvHolds, PTL

\* The connections of a loop, removed ones included.
Share(t) == {p \in Peers : loopOf[p] = t}

\* In the round that getNextLoop() is in, the loops up to nextLoopIndex_ have
\* had one connection more than the others.
BalanceInv ==
    \E r \in Nat : \A t \in 1 .. threadNums :
        /\ IsFiniteSet(Share(t))
        /\ Cardinality(Share(t)) = IF t <= nextLoopIndex THEN r + 1 ELSE r

\* getNextLoop() gives the connection to the next loop of the round, or to the
\* first one of a new round.
LEMMA AcceptBalances ==
    ASSUME ServerInv, BalanceInv, NEW p \in Peers, Accept(p)
    PROVE  BalanceInv'
<1>1. /\ threadNums \in Nat /\ nextLoopIndex \in 0 .. threadNums
      /\ threadNums' = threadNums
      /\ loopOf \in [Peers -> Threads \cup {None}]
      /\ loopOf[p] = None
  BY ConstantsOK DEF ConstantsOK, ServerInv, TypeOK, FdInv, Accept
<1>2. CASE threadNums = 0
  BY <1>1, <1>2 DEF BalanceInv
<1>3. CASE threadNums # 0
  <2> DEFINE n == NextIndex
  <2>1. /\ n \in 0 .. threadNums - 1 /\ nextLoopIndex' = n + 1
        /\ loopOf' = [loopOf EXCEPT ![p] = n + 1]
        /\ n = (IF nextLoopIndex = threadNums THEN 0 ELSE nextLoopIndex)
    BY <1>1, <1>3 DEF Accept, NextIndex, Advanced
  <2> HIDE DEF n
  <2>2. PICK r \in Nat : \A t \in 1 .. threadNums :
            /\ IsFiniteSet(Share(t))
            /\ Cardinality(Share(t)) = IF t <= nextLoopIndex THEN r + 1 ELSE r
    BY DEF BalanceInv
  <2> DEFINE q == IF nextLoopIndex = threadNums THEN r + 1 ELSE r
  <2>3. q \in Nat /\ \A t \in 1 .. threadNums :
            Cardinality(Share(t)) = IF t <= n THEN q + 1 ELSE q
    BY <1>1, <2>1, <2>2
  <2> HIDE DEF q
  <2>4. ASSUME NEW t \in 1 .. threadNums
        PROVE  /\ IsFiniteSet(Share(t)')
               /\ Cardinality(Share(t)') = IF t <= n + 1 THEN q + 1 ELSE q
    <3>1. CASE t = n + 1
      <4>1. Share(t)' = Share(t) \cup {p} /\ p \notin Share(t)
        BY <1>1, <2>1, <3>1, ConstantsOK DEF Share, ConstantsOK
      <4>2. /\ IsFiniteSet(Share(t)')
            /\ Cardinality(Share(t)') = Cardinality(Share(t)) + 1
        BY <2>2, <4>1, FS_AddElement
      <4> QED BY <2>1, <2>3, <3>1, <4>2
    <3>2. CASE t # n + 1
      <4>1. Share(t)' = Share(t)
        BY <1>1, <2>1, <3>2, ConstantsOK DEF Share, ConstantsOK
      <4> QED BY <2>1, <2>2, <2>3, <3>2, <4>1
    <3> QED BY <3>1, <3>2
  <2> QED BY <1>1, <2>1, <2>3, <2>4 DEF BalanceInv
<1> QED BY <1>2, <1>3

\* Only newConnection() changes a share.
LEMMA BalanceStep == ServerInv /\ BalanceInv /\ [Next]_vars => BalanceInv'
<1> SUFFICES ASSUME ServerInv, BalanceInv, [Next]_vars
             PROVE  BalanceInv'
  OBVIOUS
<1>1. CASE \E p \in Peers : Accept(p)
  BY <1>1, AcceptBalances
<1>2. CASE \E n \in 0 .. MaxThreads : setThreadNums(n)
  <2>1. /\ \A p \in Peers : loopOf'[p] = None
        /\ nextLoopIndex' = 0 /\ threadNums' \in Nat
    BY <1>2, ConstantsOK DEF setThreadNums, ServerInv, StartInv, ConstantsOK
  <2>2. \A t \in 1 .. threadNums' : Share(t)' = {} /\ ~(t <= nextLoopIndex')
    <3>1. \A t \in 1 .. threadNums' : t \in Nat /\ ~(t <= nextLoopIndex')
      BY <2>1
    <3>2. None \notin Nat
      BY ConstantsOK DEF ConstantsOK
    <3>3. \A t \in 1 .. threadNums' : \A p \in Peers : loopOf'[p] # t
      BY <2>1, <3>1, <3>2
    <3> QED BY <3>1, <3>3 DEF Share
  <2>3. \A t \in 1 .. threadNums' :
            /\ IsFiniteSet(Share(t)') /\ Cardinality(Share(t)') = 0
            /\ ~(t <= nextLoopIndex')
    BY <2>2, FS_EmptySet, Zenon
  <2>4. 0 \in Nat
    OBVIOUS
  <2> QED BY <2>3, <2>4 DEF BalanceInv
<1>3. CASE UNCHANGED <<loopOf, threadNums, nextLoopIndex>>
  BY <1>3 DEF BalanceInv, Share
<1>4. \/ \E p \in Peers : Accept(p)
      \/ \E n \in 0 .. MaxThreads : setThreadNums(n)
      \/ UNCHANGED <<loopOf, threadNums, nextLoopIndex>>
  BY DEF Next, BaseStep, LoopStep, vars, Connect, PeerCloses, start, listen,
         startThreads, StoreConn, UnlockStore, RunInLoop, AcceptFails,
         AcceptSpare, OpenSpare, RunTasks, RunTask, TasksDone, MakeReturns,
         MakeCloses, ReadEnd, handleClose, Erase, UnlockErase, CloseFd,
         DeleteConn, SendWatches
<1> QED BY <1>1, <1>2, <1>3, <1>4

\* However many connections have come, no I/O thread has been given two more
\* than another (EventLoopThreadPool::getNextLoop()).
THEOREM LoopsStayBalanced == Spec => []LoopsAreBalanced
<1>1. Init => BalanceInv
  BY DEF Init, PoolInit, BalanceInv
<1>2. ServerInv /\ BalanceInv => LoopsAreBalanced
  <2> SUFFICES ASSUME ServerInv, BalanceInv,
                      NEW t \in 1 .. threadNums, NEW u \in 1 .. threadNums
               PROVE  Cardinality(Share(t)) - Cardinality(Share(u)) <= 1
    BY DEF LoopsAreBalanced, Share
  <2>1. PICK r \in Nat : \A v \in 1 .. threadNums :
            Cardinality(Share(v)) = IF v <= nextLoopIndex THEN r + 1 ELSE r
    BY DEF BalanceInv
  <2> QED BY <2>1
<1> QED BY <1>1, <1>2, BalanceStep, ServerInvHolds, PTL DEF Spec

-----------------------------------------------------------------------------
(* No connection is lost on its way.                                       *)

\* The loops that get connections are dispatched.
DispatchInv ==
    /\ pc[Base] \notin {"new", "listening"} =>
           \A t \in 0 .. threadNums : pc[t] # "new"
    /\ \A p \in Peers : loopOf[p] # None => loopOf[p] \in 0 .. threadNums

Waits(q, p) == \E i \in 1 .. Len(q) : q[i] = p

\* A connection is where its stage says, and can be found from there.
ReachInv ==
    /\ \A p \in Peers : obj[p] = "queued" => Waits(queue[loopOf[p]], p)
    /\ \A p \in Peers : obj[p] = "live" => table[loopOf[p]][fdOf[p]] = p

\* Every connection that was accepted is in the hands of a thread that is
\* running: the base loop's, which still makes it, or that of its loop, which
\* has it in its queue, or in its table unless epoll has refused it, or is
\* removing it; and a connection that epoll has refused is in no table.
NoneIsLost ==
    \A p \in Peers :
        /\ obj[p] \in {"accepted", "stored"} =>
               pc[Base] \in {"store", "stored", "push"} /\ cur[Base] = p
        /\ obj[p] \in {"queued", "closing"} \cup Registered =>
               loopOf[p] \in Threads /\ pc[loopOf[p]] # "new"
        /\ obj[p] = "queued" => Waits(queue[loopOf[p]], p)
        /\ obj[p] = "live" => table[loopOf[p]][fdOf[p]] = p
        /\ obj[p] = "unwatched" =>
               \A t \in Threads, f \in Fds : table[t][f] # p
        /\ obj[p] = "closing" =>
               pc[loopOf[p]] \in Closers /\ cur[loopOf[p]] = p

LEMMA DispatchStep ==
    ASSUME ServerInv, DispatchInv, [Next]_vars
    PROVE  DispatchInv'
<1> USE DEF DispatchInv
<1>1. /\ pc \in [Threads -> Pcs] /\ Base \in Threads
      /\ threadNums \in 0 .. MaxThreads /\ Threads = 0 .. MaxThreads
      /\ MaxThreads \in Nat /\ nextLoopIndex \in 0 .. threadNums
      /\ loopOf \in [Peers -> Threads \cup {None}]
      /\ back \in [Threads -> {"poll", "tasks"}]
  BY ConstantsOK DEF ServerInv, TypeOK, ConstantsOK, Threads, Base
<1>2. CASE setThreadNums(threadNums') \/ listen
  <2>1. \A p \in Peers : loopOf'[p] = None
    BY <1>2 DEF ServerInv, StartInv, setThreadNums, listen
  <2> QED BY <1>1, <1>2, <2>1 DEF setThreadNums, listen
<1>3. CASE startThreads
  BY <1>1, <1>3 DEF startThreads
<1>4. ASSUME NEW p \in Peers, Accept(p)
      PROVE  DispatchInv'
  <2>1. /\ pc[Base] = "poll" /\ pc' = [pc EXCEPT ![Base] = "store"]
        /\ threadNums' = threadNums
        /\ \E l \in 0 .. threadNums : loopOf' = [loopOf EXCEPT ![p] = l]
    <3>1. CASE threadNums = 0
      BY <1>1, <1>4, <3>1 DEF Accept, Base
    <3>2. CASE threadNums # 0
      <4>1. NextIndex + 1 \in 0 .. threadNums
        BY <1>1, <3>2 DEF NextIndex
      <4> QED BY <1>4, <3>2, <4>1 DEF Accept
    <3> QED BY <3>1, <3>2
  <2> QED BY <1>1, <2>1
<1>5. ASSUME NEW t \in Threads, NEW place \in Pcs \ {"new", "listening"},
             Goto(t, place), UNCHANGED <<loopOf, threadNums>>,
             pc[Base] \in {"new", "listening"} => t # Base
      PROVE  DispatchInv'
  BY <1>1, <1>5
<1>6. CASE UNCHANGED <<pc, loopOf, threadNums>>
  BY <1>6
<1>7. CASE StoreConn \/ UnlockStore \/ RunInLoop \/ AcceptFails \/ AcceptSpare
           \/ OpenSpare
  BY <1>1, <1>5, <1>7 DEF StoreConn, UnlockStore, RunInLoop, Register,
      AcceptFails, AcceptSpare, OpenSpare, Pcs
<1>8. ASSUME NEW t \in Threads, LoopStep(t)
      PROVE  DispatchInv'
  <2>1. CASE RunTasks(t) \/ RunTask(t) \/ TasksDone(t) \/ MakeReturns(t)
    BY <1>1, <1>5, <2>1 DEF RunTasks, RunTask, Register, TasksDone,
        MakeReturns, Pcs
  <2>2. CASE MakeCloses(t) \/ \E f \in Fds : ReadEnd(t, f)
    BY <1>1, <1>5, <2>2 DEF MakeCloses, ReadEnd, handleClose, Pcs
  <2>3. CASE Erase(t) \/ UnlockErase(t) \/ CloseFd(t) \/ DeleteConn(t)
    BY <1>1, <1>5, <2>3 DEF Erase, UnlockErase, CloseFd, DeleteConn, Pcs
  <2> QED BY <1>8, <2>1, <2>2, <2>3 DEF LoopStep
<1>9. CASE \E p \in Peers :
               \/ Connect(p) \/ PeerCloses(p)
               \/ \E t \in Threads : SendWatches(t, p)
  BY <1>6, <1>9 DEF Connect, PeerCloses, SendWatches
<1>10. CASE UNCHANGED vars
  BY <1>6, <1>10 DEF vars
<1>11. CASE \E n \in 0 .. MaxThreads : setThreadNums(n)
  BY <1>2, <1>11 DEF setThreadNums
<1> QED BY <1>2, <1>3, <1>4, <1>7, <1>8, <1>9, <1>10, <1>11
        DEF Next, BaseStep, start

\* registerConnection() finds the place of the descriptor in the table free of
\* every other connection that is live.
LEMMA RegisterReaches ==
    ASSUME ServerInv, ReachInv, NEW t \in Threads, NEW p \in Peers,
           watch(t, p) \/ Register(t, p), loopOf[p] = t,
           obj[p] \in {"queued", "stored", "unwatched"},
           UNCHANGED <<fdOf, loopOf>>
    PROVE  \A q \in Peers : obj'[q] = "live" => table'[loopOf'[q]][fdOf'[q]] = q
<1>1. /\ table \in [Threads -> [Fds -> Peers \cup {None}]]
      /\ obj \in [Peers -> Stages]
  BY DEF ServerInv, TypeOK
<1>2. \A q \in Peers : obj[q] \in {"queued", "stored"} \cup Registered =>
          fdOf[q] \in Fds /\ loopOf[q] \in Threads /\ fds[fdOf[q]] = q
  BY DEF ServerInv, FdInv, HasFd
<1> QED BY <1>1, <1>2 DEF ReachInv, Register

\* A task that leaves the front of a queue takes no other with it.
LEMMA WaitsBehind ==
    ASSUME NEW q \in Seq(Peers), q # <<>>, NEW p \in Peers, Waits(q, p),
           p # Head(q)
    PROVE  Waits(Tail(q), p)
<1>1. PICK i \in 1 .. Len(q) : q[i] = p
  BY DEF Waits
<1>2. i # 1 /\ Len(q) \in Nat /\ Len(Tail(q)) = Len(q) - 1
  BY <1>1
<1>3. i - 1 \in 1 .. Len(Tail(q)) /\ Tail(q)[i - 1] = p
  BY <1>1, <1>2
<1> QED BY <1>3 DEF Waits

LEMMA WaitsAppended ==
    ASSUME NEW q \in Seq(Peers), NEW e \in Peers, NEW p \in Peers,
           Waits(q, p) \/ p = e
    PROVE  Waits(Append(q, e), p)
<1>1. Len(Append(q, e)) = Len(q) + 1 /\ Len(q) \in Nat
  OBVIOUS
<1>2. CASE p = e
  <2>1. Append(q, e)[Len(q) + 1] = e /\ Len(q) + 1 \in 1 .. Len(Append(q, e))
    BY <1>1
  <2> QED BY <1>2, <2>1 DEF Waits
<1>3. ASSUME NEW i \in 1 .. Len(q), q[i] = p
      PROVE  Waits(Append(q, e), p)
  <2>1. Append(q, e)[i] = p /\ i \in 1 .. Len(Append(q, e))
    BY <1>1, <1>3
  <2> QED BY <2>1 DEF Waits
<1> QED BY <1>2, <1>3 DEF Waits

\* handleClose() takes out of the table the entry of one connection.
LEMMA CloseReaches ==
    ASSUME ServerInv, ReachInv, NEW t \in Threads, NEW p \in Peers,
           handleClose(t, p), obj[p] \in Registered, loopOf[p] = t
    PROVE  ReachInv'
<1>1. /\ table \in [Threads -> [Fds -> Peers \cup {None}]]
      /\ obj \in [Peers -> Stages]
      /\ obj' = [obj EXCEPT ![p] = "closing"]
      /\ table' = [table EXCEPT ![t][fdOf[p]] = None]
      /\ UNCHANGED <<fdOf, loopOf, queue>>
  BY DEF ServerInv, TypeOK, handleClose
<1>2. \A q \in Peers : obj[q] \in Registered =>
          fdOf[q] \in Fds /\ loopOf[q] \in Threads /\ fds[fdOf[q]] = q
  BY DEF ServerInv, FdInv, HasFd
<1>3. \A q \in Peers : obj'[q] = "live" => table'[loopOf'[q]][fdOf'[q]] = q
  BY <1>1, <1>2 DEF ReachInv
<1>4. \A q \in Peers : obj'[q] = "queued" => Waits(queue'[loopOf'[q]], q)
  BY <1>1 DEF ReachInv
<1> QED BY <1>3, <1>4 DEF ReachInv

LEMMA ReachStep ==
    ASSUME ServerInv, ReachInv, [Next]_vars
    PROVE  ReachInv'
<1>1. /\ obj \in [Peers -> Stages] /\ queue \in [Threads -> Seq(Peers)]
      /\ Base \in Threads
  BY ConstantsOK DEF ServerInv, TypeOK, ConstantsOK, Threads, Base
<1>2. \A p \in Peers : obj[p] \in {"stored", "queued", "live"} =>
          loopOf[p] \in Threads
  BY DEF ServerInv, FdInv
<1>3. ASSUME UNCHANGED <<fdOf, loopOf, table, queue>>,
             \A p \in Peers : obj'[p] \in {"queued", "live"} => obj'[p] = obj[p]
      PROVE  ReachInv'
  BY <1>3 DEF ReachInv
<1>4. ASSUME NEW p \in Peers, Accept(p)
      PROVE  ReachInv'
  <2>1. /\ obj' = [obj EXCEPT ![p] = "accepted"] /\ UNCHANGED <<table, queue>>
        /\ \A q \in Peers \ {p} : fdOf'[q] = fdOf[q] /\ loopOf'[q] = loopOf[q]
    <3>1. \E l : loopOf' = [loopOf EXCEPT ![p] = l]
      BY <1>4 DEF Accept
    <3>2. /\ fdOf \in [Peers -> Fds \cup {None}]
          /\ loopOf \in [Peers -> Threads \cup {None}]
      BY DEF ServerInv, TypeOK
    <3> QED BY <1>4, <3>1, <3>2 DEF Accept
  <2> QED BY <1>1, <2>1 DEF ReachInv
<1>5. CASE RunInLoop
  <2> DEFINE p == cur[Base]
  <2>1. p \in Peers /\ obj[p] = "stored" /\ UNCHANGED <<fdOf, loopOf>>
    BY <1>1, <1>5 DEF ServerInv, PlaceInv, RunInLoop
  <2>2. CASE loopOf[p] = Base /\ Register(Base, p) /\ UNCHANGED queue
    <3>1. \A q \in Peers :
              obj'[q] = "live" => table'[loopOf'[q]][fdOf'[q]] = q
      BY <1>1, <2>1, <2>2, RegisterReaches
    <3>2. \E stage \in Registered : obj' = [obj EXCEPT ![p] = stage]
      BY <2>2 DEF Register
    <3> QED BY <1>1, <2>1, <2>2, <3>1, <3>2 DEF ReachInv
  <2>3. CASE /\ queue' = [queue EXCEPT ![loopOf[p]] = Append(@, p)]
             /\ Stage(p, "queued") /\ UNCHANGED table
    <3>1. ASSUME NEW q \in Peers, obj'[q] = "queued"
          PROVE  Waits(queue'[loopOf[q]], q)
      <4>1. loopOf[p] \in Threads /\ loopOf[q] \in Threads
            /\ (q = p \/ Waits(queue[loopOf[q]], q))
        BY <1>1, <1>2, <2>1, <2>3, <3>1 DEF ReachInv
      <4>2. CASE loopOf[q] = loopOf[p]
        <5>1. queue'[loopOf[q]] = Append(queue[loopOf[q]], p)
          BY <1>1, <2>3, <4>1, <4>2
        <5>2. queue[loopOf[q]] \in Seq(Peers)
          BY <1>1, <4>1
        <5>3. Waits(Append(queue[loopOf[q]], p), q)
          BY <2>1, <4>1, <5>2, WaitsAppended
        <5> QED BY <5>1, <5>3
      <4>3. CASE loopOf[q] # loopOf[p]
        <5>1. queue'[loopOf[q]] = queue[loopOf[q]]
          BY <1>1, <2>3, <4>1, <4>3
        <5> QED BY <4>1, <4>3, <5>1
      <4> QED BY <4>2, <4>3
    <3>2. \A q \in Peers : obj'[q] = "live" => obj[q] = "live"
      BY <1>1, <2>1, <2>3
    <3> QED BY <2>1, <2>3, <3>1, <3>2 DEF ReachInv
  <2> QED BY <1>5, <2>2, <2>3 DEF RunInLoop
<1>6. ASSUME NEW t \in Threads, RunTask(t)
      PROVE  ReachInv'
  <2> DEFINE p == Head(queue[t])
  <2>1. queue[t] \in Seq(Peers) /\ queue[t] # <<>> /\ p \in Peers /\ p = queue[t][1]
        /\ 1 \in 1 .. Len(queue[t])
    BY <1>1, <1>6 DEF RunTask
  <2>2. obj[p] = "queued" /\ loopOf[p] = t
    BY <2>1 DEF ServerInv, QueueInv
  <2>3. /\ Register(t, p) /\ UNCHANGED <<fdOf, loopOf>>
        /\ queue' = [queue EXCEPT ![t] = Tail(queue[t])]
        /\ \E stage \in Registered : obj' = [obj EXCEPT ![p] = stage]
    BY <1>6 DEF RunTask, Register
  <2>4. \A q \in Peers : obj'[q] = "live" => table'[loopOf'[q]][fdOf'[q]] = q
    BY <2>1, <2>2, <2>3, RegisterReaches
  <2>5. ASSUME NEW q \in Peers, obj'[q] = "queued"
        PROVE  Waits(queue'[loopOf[q]], q)
    <3>1. q # p /\ obj[q] = "queued"
      BY <1>1, <2>1, <2>3, <2>5
    <3>2. Waits(queue[loopOf[q]], q) /\ loopOf[q] \in Threads
      BY <1>2, <3>1 DEF ReachInv
    <3>3. CASE loopOf[q] = t
      <4>1. Waits(Tail(queue[t]), q)
        BY <2>1, <3>1, <3>2, <3>3, WaitsBehind
      <4> QED BY <1>1, <2>3, <3>3, <4>1
    <3>4. CASE loopOf[q] # t
      BY <1>1, <2>3, <3>2, <3>4
    <3> QED BY <3>3, <3>4
  <2> QED BY <2>3, <2>4, <2>5 DEF ReachInv
<1>7. ASSUME NEW t \in Threads, MakeCloses(t)
      PROVE  ReachInv'
  <2>1. cur[t] \in Peers /\ obj[cur[t]] \in Registered /\ loopOf[cur[t]] = t
    BY <1>7 DEF MakeCloses, ServerInv, PlaceInv
  <2> QED BY <1>7, <2>1, CloseReaches DEF MakeCloses
<1>8. ASSUME NEW t \in Threads, NEW f \in Fds, ReadEnd(t, f)
      PROVE  ReachInv'
  BY <1>8, ReadEndCloses, CloseReaches
<1>9. CASE StoreConn \/ UnlockStore \/ AcceptFails \/ AcceptSpare \/ OpenSpare
  BY <1>1, <1>3, <1>9
  DEF StoreConn, UnlockStore, AcceptFails, AcceptSpare, OpenSpare
<1>10. ASSUME NEW t \in Threads,
              RunTasks(t) \/ TasksDone(t) \/ MakeReturns(t) \/ Erase(t)
              \/ UnlockErase(t) \/ CloseFd(t) \/ DeleteConn(t)
       PROVE  ReachInv'
  BY <1>1, <1>3, <1>10 DEF RunTasks, TasksDone, MakeReturns, Erase, UnlockErase,
      CloseFd, DeleteConn
<1>11. CASE \/ \E p \in Peers : Connect(p) \/ PeerCloses(p)
            \/ \E n \in 0 .. MaxThreads : setThreadNums(n)
            \/ start \/ UNCHANGED vars
  BY <1>1, <1>3, <1>11
  DEF Connect, PeerCloses, setThreadNums, start, listen, startThreads, vars
<1>12. ASSUME NEW t \in Threads, NEW p \in Peers, SendWatches(t, p)
       PROVE  ReachInv'
  <2>1. /\ watch(t, p) /\ loopOf[p] = t /\ obj[p] = "unwatched"
        /\ UNCHANGED <<fdOf, loopOf, queue>>
    BY <1>12 DEF SendWatches
  <2>2. \A q \in Peers : obj'[q] = "live" => table'[loopOf'[q]][fdOf'[q]] = q
    BY <2>1, RegisterReaches
  <2> QED BY <1>1, <2>1, <2>2 DEF ReachInv
<1> QED BY <1>4, <1>5, <1>6, <1>7, <1>8, <1>9, <1>10, <1>11, <1>12
        DEF Next, BaseStep, LoopStep

\* No connection that was accepted is forgotten between newConnection() and
\* removeConnection(), whatever threads close meanwhile: in every stage the
\* thread that has to take the next step is dispatched and finds it, unless
\* epoll_ctl() failed when the connection was registered.  Such a connection is
\* made all the same, but no loop can find it.
THEOREM ConnectionsAreNotLost == Spec => []NoneIsLost
<1>1. Init => DispatchInv /\ ReachInv
  BY ConstantsOK
     DEF Init, PoolInit, DispatchInv, ReachInv, ConstantsOK, Threads, Base
<1>2. ServerInv /\ DispatchInv /\ [Next]_vars => DispatchInv'
  BY DispatchStep
<1>3. ServerInv /\ ReachInv /\ [Next]_vars => ReachInv'
  BY ReachStep
<1>4. ASSUME ServerInv, NEW p \in Peers, obj[p] = "unwatched"
      PROVE  \A t \in Threads, f \in Fds : table[t][f] # p
  BY <1>4, ConstantsOK DEF ServerInv, TableInv, ConstantsOK
<1>5. ServerInv /\ DispatchInv /\ ReachInv => NoneIsLost
  <2> SUFFICES ASSUME ServerInv, DispatchInv, ReachInv, NEW p \in Peers,
                      obj[p] \in {"queued", "closing"} \cup Registered
               PROVE  loopOf[p] \in Threads /\ pc[loopOf[p]] # "new"
    BY <1>4 DEF NoneIsLost, ReachInv, ServerInv, PlaceInv
  <2>1. loopOf[p] \in Threads /\ None \notin Threads
    BY ConstantsOK DEF ServerInv, FdInv, ConstantsOK, Threads
  <2>2. pc[Base] \notin {"new", "listening"}
    BY DEF ServerInv, StartInv
  <2> QED BY <2>1, <2>2 DEF DispatchInv
<1> QED BY <1>1, <1>2, <1>3, <1>5, ServerInvHolds, PTL DEF Spec

-----------------------------------------------------------------------------
(* What a step may never do to a connection or a descriptor.               *)

\* The life of a connection.
Life == {<<"none", "pending">>, <<"pending", "refused">>,
         <<"pending", "accepted">>, <<"accepted", "stored">>,
         <<"stored", "queued">>, <<"unwatched", "live">>,
         <<"closing", "deleted">>}
        \cup {"stored", "queued"} \X Registered
        \cup Registered \X {"closing"}

\* Every stage comes at most once and in order, and a Connection keeps the
\* descriptor and the loop that newConnection() gave it.
LivesOnce ==
    [][\A p \in Peers :
           /\ obj'[p] # obj[p] => <<obj[p], obj'[p]>> \in Life
           /\ obj[p] \notin {"none", "pending"} =>
                  fdOf'[p] = fdOf[p] /\ loopOf'[p] = loopOf[p]]_vars

\* The descriptor of a connection is closed by the removal of that connection,
\* when neither conns_ nor the table of any loop has the number any more.
ClosedLast ==
    [][\A f \in Fds : fds[f] \in Peers /\ fds'[f] # fds[f] =>
           /\ fds'[f] = "free"
           /\ obj[fds[f]] = "closing"
           /\ conns[f] = None
           /\ \A t \in Threads : table[t][f] = None]_vars

\* A Connection is made, registered, closed and deleted once each.
THEOREM StagesInOrder == Spec => LivesOnce
<1> DEFINE OneStage ==
        \A p \in Peers :
            /\ obj'[p] # obj[p] => <<obj[p], obj'[p]>> \in Life
            /\ obj[p] \notin {"none", "pending"} =>
                   fdOf'[p] = fdOf[p] /\ loopOf'[p] = loopOf[p]
<1>1. ServerInv /\ [Next]_vars => [OneStage]_vars
  <2> SUFFICES ASSUME ServerInv, Next PROVE OneStage
    OBVIOUS
  <2>1. /\ obj \in [Peers -> Stages] /\ fdOf \in [Peers -> Fds \cup {None}]
        /\ loopOf \in [Peers -> Threads \cup {None}]
        /\ Base \in Threads /\ queue \in [Threads -> Seq(Peers)]
    BY ConstantsOK DEF ServerInv, TypeOK, ConstantsOK, Threads, Base
  <2>2. ASSUME NEW p \in Peers, NEW stage, Stage(p, stage),
               <<obj[p], stage>> \in Life, UNCHANGED <<fdOf, loopOf>>
        PROVE  OneStage
    BY <2>1, <2>2
  <2>3. CASE UNCHANGED conn
    BY <2>3
  <2>4. ASSUME NEW p \in Peers, Connect(p) \/ PeerCloses(p)
        PROVE  OneStage
    BY <2>2, <2>3, <2>4 DEF Connect, PeerCloses, Life
  <2>5. ASSUME NEW p \in Peers, Accept(p)
        PROVE  OneStage
    <3>1. /\ obj[p] = "pending" /\ obj' = [obj EXCEPT ![p] = "accepted"]
          /\ \E f : fdOf' = [fdOf EXCEPT ![p] = f]
          /\ \E l : loopOf' = [loopOf EXCEPT ![p] = l]
      BY <2>5 DEF Accept
    <3> QED BY <2>1, <3>1 DEF Life
  <2>6. CASE StoreConn
    <3>1. cur[Base] \in Peers /\ obj[cur[Base]] = "accepted"
      BY <2>1, <2>6 DEF StoreConn, ServerInv, PlaceInv
    <3> QED BY <2>2, <2>6, <3>1 DEF StoreConn, Life
  <2>7. CASE RunInLoop
    <3>1. cur[Base] \in Peers /\ obj[cur[Base]] = "stored"
      BY <2>1, <2>7 DEF RunInLoop, ServerInv, PlaceInv
    <3> QED BY <2>2, <2>7, <3>1 DEF RunInLoop, Register, Life
  <2>8. CASE UnlockStore \/ AcceptFails \/ AcceptSpare \/ OpenSpare
    BY <2>2, <2>3, <2>8
    DEF UnlockStore, AcceptFails, AcceptSpare, OpenSpare, Life
  <2>9. ASSUME NEW t \in Threads, LoopStep(t)
        PROVE  OneStage
    <3>1. CASE RunTask(t)
      <4>1. Head(queue[t]) \in Peers /\ obj[Head(queue[t])] = "queued"
        <5>1. /\ queue[t] \in Seq(Peers) /\ 1 \in 1 .. Len(queue[t])
              /\ Head(queue[t]) = queue[t][1]
          BY <2>1, <3>1 DEF RunTask
        <5> QED BY <5>1 DEF ServerInv, QueueInv
      <4> QED BY <2>2, <3>1, <4>1 DEF RunTask, Register, Life
    <3>2. CASE MakeCloses(t)
      <4>1. cur[t] \in Peers /\ obj[cur[t]] \in Registered
        BY <3>2 DEF MakeCloses, ServerInv, PlaceInv
      <4> QED BY <2>2, <3>2, <4>1 DEF MakeCloses, handleClose, Life
    <3>3. CASE \E f \in Fds : ReadEnd(t, f)
      <4>1. PICK p \in Peers : handleClose(t, p) /\ obj[p] = "live"
        BY <3>3, ReadEndCloses
      <4> QED BY <2>2, <4>1 DEF handleClose, Life
    <3>4. CASE DeleteConn(t)
      <4>1. cur[t] \in Peers /\ obj[cur[t]] = "closing"
        BY <3>4 DEF DeleteConn, ServerInv, PlaceInv, Closers
      <4> QED BY <2>2, <3>4, <4>1 DEF DeleteConn, Life
    <3>5. CASE RunTasks(t) \/ TasksDone(t) \/ MakeReturns(t) \/ Erase(t)
               \/ UnlockErase(t) \/ CloseFd(t)
      BY <2>3, <3>5 DEF RunTasks, TasksDone, MakeReturns, Erase, UnlockErase,
          CloseFd
    <3> QED BY <2>9, <3>1, <3>2, <3>3, <3>4, <3>5 DEF LoopStep
  <2>10. CASE start \/ \E n \in 0 .. MaxThreads : setThreadNums(n)
    BY <2>3, <2>10 DEF start, listen, startThreads, setThreadNums
  <2>11. ASSUME NEW t \in Threads, NEW p \in Peers, SendWatches(t, p)
         PROVE  OneStage
    BY <2>2, <2>11 DEF SendWatches, Life
  <2> QED BY <2>4, <2>5, <2>6, <2>7, <2>8, <2>9, <2>10, <2>11
          DEF Next, BaseStep
<1> QED BY <1>1, ServerInvHolds, PTL DEF Spec, LivesOnce

\* No thread closes a number that another connection has been given since, and
\* none that a lookup by number could still find: removeConnection() erases
\* before it closes, after handleClose() has taken the event out of the table;
\* and the Acceptor closes no descriptor but its spare one.
THEOREM DescriptorsAreClosedLast == Spec => ClosedLast
<1> DEFINE Closing(f) ==
        /\ fds'[f] = "free"
        /\ obj[fds[f]] = "closing"
        /\ conns[f] = None
        /\ \A t \in Threads : table[t][f] = None
<1>1. ASSUME ServerInv, Next, NEW f \in Fds, fds[f] \in Peers,
             fds'[f] # fds[f]
      PROVE  Closing(f)
  <2>1. fds \in [Fds -> Peers \cup {"free", "spare"}]
    BY <1>1 DEF ServerInv, TypeOK
  <2>2. fds[f] # "free" /\ fds[f] # "spare"
    BY <1>1, ConstantsOK DEF ConstantsOK
  <2>3. ASSUME NEW g \in Fds, fds[g] = "free", NEW e,
               fds' = [fds EXCEPT ![g] = e]
        PROVE  FALSE
    BY <1>1, <2>1, <2>2, <2>3
  <2>4. ASSUME NEW p \in Peers, Accept(p)
        PROVE  FALSE
    <3>1. Free(fds) # {} /\ fds' = [fds EXCEPT ![Lowest(Free(fds))] = p]
      BY <2>4 DEF Accept
    <3> QED BY <2>3, <3>1, LowestIsFree
  <2>5. CASE AcceptSpare \/ OpenSpare
    <3>1. /\ Closed(idleFd)[f] = fds[f]
          /\ Closed(idleFd) \in [Fds -> Peers \cup {"free", "spare"}]
      <4>1. idleFd # f
        <5>1. f \in Nat /\ None \notin Nat
          BY ConstantsOK DEF ConstantsOK
        <5> QED BY <1>1, <2>2, <5>1 DEF ServerInv, FdInv
      <4> QED BY <2>1, <4>1 DEF Closed
    <3>2. CASE fds' = Closed(idleFd)
      BY <1>1, <3>1, <3>2
    <3>3. CASE /\ Free(Closed(idleFd)) # {}
               /\ fds' = [Closed(idleFd) EXCEPT
                              ![Lowest(Free(Closed(idleFd)))] = "spare"]
      <4>1. Closed(idleFd)[Lowest(Free(Closed(idleFd)))] = "free"
        BY <3>3, LowestIsFree
      <4> QED BY <1>1, <2>2, <3>1, <3>3, <4>1
    <3> QED BY <2>5, <3>2, <3>3 DEF AcceptSpare, OpenSpare
  <2>6. ASSUME NEW t \in Threads, CloseFd(t)
        PROVE  Closing(f)
    <3> DEFINE p == cur[t]
    <3>1. /\ p \in Peers /\ obj[p] = "closing" /\ loopOf[p] = t
          /\ pc[t] = "close" /\ fds' = [fds EXCEPT ![fdOf[p]] = "free"]
      BY <1>1, <2>6 DEF CloseFd, ServerInv, PlaceInv, Closers
    <3>2. fds[fdOf[p]] = p /\ fdOf[p] \in Fds
      BY <1>1, <3>1 DEF ServerInv, FdInv, HasFd
    <3>3. f = fdOf[p] /\ fds'[f] = "free" /\ obj[fds[f]] = "closing"
      BY <1>1, <2>1, <3>1, <3>2
    <3>4. conns[f] = None
      <4>1. SUFFICES ASSUME conns[f] # None PROVE FALSE
        OBVIOUS
      <4>2. /\ conns[f] \in Peers /\ fdOf[conns[f]] = f /\ InMap(conns[f])
        BY <1>1, <4>1 DEF ServerInv, TypeOK, ConnsInv
      <4>3. fds[f] = conns[f]
        BY <1>1, <4>2 DEF ServerInv, FdInv, HasFd, InMap
      <4> QED BY <3>1, <3>2, <3>3, <4>2, <4>3 DEF InMap
    <3>5. ASSUME NEW u \in Threads, table[u][f] # None
          PROVE  FALSE
      <4>1. /\ table[u][f] \in Peers /\ obj[table[u][f]] = "live"
            /\ fdOf[table[u][f]] = f
        BY <1>1, <3>5 DEF ServerInv, TypeOK, TableInv
      <4>2. fds[f] = table[u][f]
        BY <1>1, <4>1 DEF ServerInv, FdInv, HasFd
      <4> QED BY <3>1, <3>2, <3>3, <4>1, <4>2
    <3> QED BY <3>3, <3>4, <3>5
  <2>7. CASE UNCHANGED fds
    BY <1>1, <2>7
  <2> QED
    BY <1>1, <2>4, <2>5, <2>6, <2>7
    DEF Next, BaseStep, LoopStep, start, listen, startThreads, setThreadNums,
        Connect, PeerCloses, StoreConn, UnlockStore, RunInLoop, AcceptFails,
        RunTasks, RunTask, TasksDone, MakeReturns, MakeCloses, ReadEnd,
        handleClose, Erase, UnlockErase, DeleteConn, SendWatches
<1> DEFINE AllLast ==
        \A f \in Fds : fds[f] \in Peers /\ fds'[f] # fds[f] => Closing(f)
<1>2. ServerInv /\ [Next]_vars => [AllLast]_vars
  BY <1>1
<1> QED BY <1>2, ServerInvHolds, PTL DEF Spec, ClosedLast

-----------------------------------------------------------------------------
(* The mutexes: the server's and one for each loop.                        *)

\* The server's mutex_ is held by the thread that is at its conns_, and the
\* mutex_ of a loop by no thread but its own, while its tasks run.
LockInv ==
    /\ \A t \in Threads : mutex = t <=> pc[t] \in {"stored", "erased"}
    /\ \A t \in Threads : loopMutex[t] # None =>
           /\ loopMutex[t] = t /\ t # Base
           /\ \/ pc[t] = "tasks"
              \/ pc[t] \in {"make"} \cup Closers /\ back[t] = "tasks"

\* Thread t waits for a mutex that u holds: in newConnection(), in
\* removeConnection(), or in the runInLoop() of a loop that is not its own.
Awaits(t, u) ==
    \/ pc[t] \in {"store", "erase"} /\ mutex = u
    \/ /\ t = Base /\ pc[t] = "push" /\ loopOf[cur[t]] # Base
       /\ loopMutex[loopOf[cur[t]]] = u

\* Waiting ends: whoever waits, waits for a thread that waits for no other, or
\* for one that waits for such a thread.
ChainsEnd ==
    \A t, u, v, w \in Threads : Awaits(t, u) /\ Awaits(u, v) => ~Awaits(v, w)

\* A step of a thread changes what that thread holds and nothing else.
LEMMA LockStep == ServerInv /\ LockInv /\ [Next]_vars => LockInv'
<1> SUFFICES ASSUME ServerInv, LockInv, [Next]_vars
             PROVE  LockInv'
  OBVIOUS
<1> USE DEF LockInv, Closers
<1>1. /\ pc \in [Threads -> Pcs] /\ back \in [Threads -> {"poll", "tasks"}]
      /\ loopMutex \in [Threads -> Threads \cup {None}]
      /\ Base \in Threads /\ None \notin Threads
      /\ mutex \in Threads \cup {None}
  BY ConstantsOK DEF ServerInv, TypeOK, ConstantsOK, Threads, Base
<1>2. CASE UNCHANGED <<mutex, loopMutex, pc, back>>
  BY <1>2
<1>3. CASE listen \/ StoreConn \/ UnlockStore
  BY <1>1, <1>3 DEF listen, StoreConn, UnlockStore
<1>4. CASE startThreads
  BY <1>1, <1>4 DEF startThreads, ServerInv, StartInv
<1>5. CASE \E p \in Peers : Accept(p)
  BY <1>1, <1>5 DEF Accept
<1>6. CASE RunInLoop
  BY <1>1, <1>6 DEF RunInLoop, Register
<1>7. CASE AcceptFails \/ AcceptSpare \/ OpenSpare
  BY <1>1, <1>7 DEF AcceptFails, AcceptSpare, OpenSpare
<1>8. ASSUME NEW t \in Threads, LoopStep(t)
      PROVE  LockInv'
  <2>1. CASE RunTasks(t) \/ TasksDone(t)
    BY <1>1, <2>1 DEF RunTasks, TasksDone
  <2>2. CASE RunTask(t)
    BY <1>1, <2>2 DEF RunTask, Register
  <2>3. CASE MakeReturns(t)
    BY <1>1, <2>3 DEF MakeReturns
  <2>4. CASE MakeCloses(t)
    BY <1>1, <2>4 DEF MakeCloses, handleClose
  <2>5. CASE \E f \in Fds : ReadEnd(t, f)
    BY <1>1, <2>5 DEF ReadEnd, handleClose
  <2>6. CASE Erase(t)
    BY <1>1, <2>6 DEF Erase
  <2>7. CASE UnlockErase(t)
    BY <1>1, <2>7 DEF UnlockErase
  <2>8. CASE CloseFd(t) \/ DeleteConn(t)
    BY <1>1, <2>8 DEF CloseFd, DeleteConn
  <2> QED BY <1>8, <2>1, <2>2, <2>3, <2>4, <2>5, <2>6, <2>7, <2>8 DEF LoopStep
<1>9. CASE \/ \E p \in Peers : Connect(p) \/ PeerCloses(p)
           \/ \E t \in Threads, p \in Peers : SendWatches(t, p)
           \/ \E n \in 0 .. MaxThreads : setThreadNums(n)
           \/ UNCHANGED vars
  BY <1>2, <1>9 DEF Connect, PeerCloses, SendWatches, setThreadNums, vars
<1> QED BY <1>3, <1>4, <1>5, <1>6, <1>7, <1>8, <1>9 DEF Next, BaseStep, start

\* The server's threads never wait for each other in a circle, nor any of them
\* for itself, however connections are made, removed and closed from user code:
\* newConnection() has unlocked the server's mutex_ when it calls runInLoop(),
\* which wants the mutex_ of a loop; removeConnection() locks the server's
\* mutex_ while its thread may hold the mutex_ of its loop.
THEOREM LocksAreOrdered == Spec => []ChainsEnd
<1>1. Init => LockInv
  BY ConstantsOK DEF Init, LockInv, ConstantsOK, Threads
<1>2. ServerInv /\ LockInv => ChainsEnd
  <2> SUFFICES ASSUME ServerInv, LockInv,
                      NEW t \in Threads, NEW u \in Threads, NEW v \in Threads,
                      NEW w \in Threads,
                      Awaits(t, u), Awaits(u, v), Awaits(v, w)
               PROVE  FALSE
    BY DEF ChainsEnd
  <2>1. pc[u] # "push" /\ pc[v] # "push"
    <3>1. ASSUME NEW x \in Threads, NEW y \in Threads, Awaits(x, y)
          PROVE  pc[y] # "push"
      <4>1. pc[Base] = "push" => cur[Base] \in Peers /\ obj[cur[Base]] = "stored"
        BY ConstantsOK
           DEF ServerInv, PlaceInv, ConstantsOK, Threads, Base
      <4>2. pc[Base] = "push" => loopOf[cur[Base]] \in Threads
        BY <4>1 DEF ServerInv, FdInv
      <4> QED BY <3>1, <4>2, ConstantsOK
              DEF Awaits, LockInv, Closers, ConstantsOK, Threads
    <3> QED BY <3>1
  <2>2. mutex = v /\ mutex = w
    BY <2>1 DEF Awaits
  <2>3. pc[v] \in {"stored", "erased"}
    BY <2>2 DEF LockInv
  <2> QED BY <2>1, <2>3 DEF Awaits
<1> QED BY <1>1, <1>2, LockStep, ServerInvHolds, PTL DEF Spec
=============================================================================
