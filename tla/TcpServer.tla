----------------------------- MODULE TcpServer -----------------------------
(***************************************************************************)
(* A TcpServer with its Acceptor and its EventLoopThreadPool: connections  *)
(* are accepted on the thread of the base loop, handed to the loop of an   *)
(* I/O thread, and removed on that thread, while accept() may be given the *)
(* number of a descriptor that another thread has just closed.             *)
(*                                                                         *)
(* A connection is known by its peer, and has one Connection object from   *)
(* newConnection() to removeConnection().  Of an EventLoop the model keeps *)
(* its table, its deferred tasks and its mutex_, which is held while tasks *)
(* run; EventLoop shows that every task is run.  Of a Connection it keeps  *)
(* its registration and its end; Connection has the rest.                  *)
(*                                                                         *)
(* Threads are numbered as the loops they run: 0 is the base loop's.       *)
(***************************************************************************)
EXTENDS Integers, Sequences, FiniteSets

CONSTANTS
    Peers,       \* one connection attempt each: bounds the accepts
    Fds,         \* the descriptors the process may have for them
    MaxThreads,  \* bounds the argument of setThreadNums()
    None         \* no descriptor, no connection, no thread

ASSUME ConstantsOK ==
    /\ Fds \subseteq Nat
    /\ MaxThreads \in Nat
    /\ None \notin Peers \cup Nat
    /\ {"free", "spare"} \cap Peers = {}

Base == 0
Threads == 0 .. MaxThreads

VARIABLES
    obj,            \* how far a connection is
    gone,           \* the peers that have closed their side
    fdOf,           \* the descriptor of a Connection
    listenfd,       \* how far listenfd_ is
    loopOf,         \* its loop
    fds,            \* what the kernel has a descriptor open for
    idleFd,         \* idleFd_
    conns,          \* conns_; None: the map has no such key
    mutex,          \* the thread that owns the server's mutex_
    threadNums,     \* threadNums_, and numThreads_ of the pool once started
    nextLoopIndex,  \* nextLoopIndex_
    table,          \* registeredEvents_ of each loop
    queue,          \* deferredQueue_ of each loop
    loopMutex,      \* the thread that owns the loop's mutex_
    pc,             \* where each thread is
    cur,            \* the connection it is busy with
    back            \* where it goes on afterwards

kernel == <<gone, fds, listenfd>>
pool == <<threadNums, nextLoopIndex>>
server == <<conns, mutex, pool, idleFd>>
loops == <<table, queue, loopMutex>>
conn == <<obj, fdOf, loopOf>>
threads == <<pc, cur, back>>
vars == <<conn, kernel, server, loops, threads>>

\* A connection is live if its loop has it in its table, and unwatched if epoll
\* has not taken its descriptor.
Registered == {"live", "unwatched"}
Stages == {"none", "pending", "refused", "accepted", "stored", "queued",
           "closing", "deleted"} \cup Registered
Pcs == {"new", "listening", "poll", "store", "stored", "push", "emfile",
        "reopen", "tasks", "make", "erase", "erased", "close", "lost"}

TypeOK ==
    /\ obj \in [Peers -> Stages]
    /\ gone \subseteq Peers
    /\ fdOf \in [Peers -> Fds \cup {None}]
    /\ loopOf \in [Peers -> Threads \cup {None}]
    /\ listenfd \in {"open", "bound", "listening", "watched", "closed"}
    /\ fds \in [Fds -> Peers \cup {"free", "spare"}]
    /\ idleFd \in Fds \cup {None}
    /\ conns \in [Fds -> Peers \cup {None}]
    /\ mutex \in Threads \cup {None}
    /\ threadNums \in 0 .. MaxThreads
    /\ nextLoopIndex \in 0 .. threadNums
    /\ table \in [Threads -> [Fds -> Peers \cup {None}]]
    /\ queue \in [Threads -> Seq(Peers)]
    /\ loopMutex \in [Threads -> Threads \cup {None}]
    /\ pc \in [Threads -> Pcs]
    /\ cur \in [Threads -> Peers \cup {None}]
    /\ back \in [Threads -> {"poll", "tasks"}]

\* socket::createNoblockingSocket(); for want of descriptors there is none.
createNoblockingSocket == {"open", "closed"}

\* Acceptor::Acceptor()
AcceptorInit ==
    /\ listenfd \in createNoblockingSocket /\ idleFd = None

\* EventLoopThreadPool::EventLoopThreadPool()
PoolInit == threadNums = 0 /\ nextLoopIndex = 0

\* TcpServer::TcpServer()
Init ==
    /\ AcceptorInit /\ PoolInit
    /\ obj = [p \in Peers |-> "none"] /\ gone = {}
    /\ fdOf = [p \in Peers |-> None] /\ loopOf = [p \in Peers |-> None]
    /\ fds = [f \in Fds |-> "free"]
    /\ conns = [f \in Fds |-> None] /\ mutex = None
    /\ table = [t \in Threads |-> [f \in Fds |-> None]]
    /\ queue = [t \in Threads |-> <<>>]
    /\ loopMutex = [t \in Threads |-> None]
    /\ pc = [t \in Threads |-> "new"]
    /\ cur = [t \in Threads |-> None] /\ back = [t \in Threads |-> "poll"]

Goto(t, place) == pc' = [pc EXCEPT ![t] = place]
Stage(p, stage) == obj' = [obj EXCEPT ![p] = stage]

\* The kernel gives out the lowest number that is free.
Free(open) == {f \in Fds : open[f] = "free"}
Lowest(S) == CHOOSE f \in S : \A g \in S : f <= g

-----------------------------------------------------------------------------
(* The peers.                                                              *)

Connect(p) ==
    /\ listenfd \in {"listening", "watched"}
    /\ obj[p] = "none"
    /\ Stage(p, "pending")
    /\ UNCHANGED <<fdOf, loopOf, kernel, server, loops, threads>>

\* A close that comes earlier is noticed only when the connection is registered.
PeerCloses(p) ==
    /\ obj[p] \in Registered
    /\ gone' = gone \cup {p}
    /\ UNCHANGED <<conn, fds, listenfd, server, loops, threads>>

-----------------------------------------------------------------------------
(* The thread of the base loop.                                            *)

\* What socket::bind() and socket::listen() make of the descriptor: when they
\* fail they close it, but Acceptor::listen() goes on.
bind(fd) == IF fd = "open" THEN {"bound", "closed"} ELSE {"closed"}
listenOn(fd) == IF fd = "bound" THEN {"listening", "closed"} ELSE {"closed"}

\* EventLoop::registerEvent(): epoll does not take a closed descriptor, and may
\* fail for want of memory.
registerEvent(fd) == IF fd = "listening" THEN {"watched", fd} ELSE {fd}

\* Acceptor::listen(), on the thread that calls start().
listen ==
    /\ pc[Base] = "new"
    /\ \E bound \in bind(listenfd) : \E fd \in listenOn(bound) :
           listenfd' \in registerEvent(fd)
    /\ Goto(Base, "listening")
    /\ UNCHANGED <<conn, gone, fds, server, loops, cur, back>>

\* Before start(): without it the base loop has all the connections.
setThreadNums(n) ==
    /\ pc[Base] = "new"
    /\ threadNums' = n
    /\ UNCHANGED <<conn, kernel, conns, mutex, nextLoopIndex, idleFd>>
    /\ UNCHANGED <<loops, threads>>

\* EventLoopThreadPool::start(); when it returns the loops of the threads exist
\* and the base loop is dispatched.  The descriptors of the server itself are
\* not among Fds.
startThreads ==
    /\ pc[Base] = "listening"
    /\ pc' = [t \in Threads |-> IF t <= threadNums THEN "poll" ELSE "new"]
    /\ UNCHANGED <<conn, kernel, server, loops, cur, back>>

\* TcpServer::start()
start == listen \/ startThreads

\* Mutant: the index is not advanced.
AdvancedNot(i) == i

\* getNextLoop(): the index it uses, and what it leaves in nextLoopIndex_.
NextIndex == IF nextLoopIndex = threadNums THEN 0 ELSE nextLoopIndex
Advanced(i) == i + 1

\* Acceptor::handleRead(), and newConnection() up to its use of conns_.
Accept(p) ==
    /\ pc[Base] = "poll" /\ listenfd = "watched"
    /\ obj[p] = "pending"
    /\ Free(fds) # {}
    /\ LET fd == Lowest(Free(fds))
       IN  /\ fds' = [fds EXCEPT ![fd] = p]
           /\ fdOf' = [fdOf EXCEPT ![p] = fd]
    /\ IF threadNums = 0
       THEN /\ loopOf' = [loopOf EXCEPT ![p] = Base]
            /\ UNCHANGED nextLoopIndex
       ELSE /\ loopOf' = [loopOf EXCEPT ![p] = NextIndex + 1]
            /\ nextLoopIndex' = Advanced(NextIndex)
    /\ Stage(p, "accepted")
    /\ cur' = [cur EXCEPT ![Base] = p]
    /\ Goto(Base, "store")
    /\ UNCHANGED <<gone, listenfd, conns, mutex, threadNums, idleFd>>
    /\ UNCHANGED <<loops, back>>

\* Mutant: mutex_ stays locked.
UnlockForgotten == UNCHANGED mutex

\* The server's mutex_; ~LockGuard() unlocks it.
lock(t) == mutex = None /\ mutex' = t
unlock == mutex' = None

\* conns_[connfd] = conn under mutex_.
StoreConn ==
    /\ pc[Base] = "store"
    /\ lock(Base)
    /\ conns' = [conns EXCEPT ![fdOf[cur[Base]]] = cur[Base]]
    /\ Stage(cur[Base], "stored")
    /\ Goto(Base, "stored")
    /\ UNCHANGED <<fdOf, loopOf, kernel, pool, idleFd, loops, cur, back>>

UnlockStore ==
    /\ pc[Base] = "stored"
    /\ unlock
    /\ Goto(Base, "push")
    /\ UNCHANGED <<conn, kernel, conns, pool, idleFd, loops, cur, back>>

watch(t, p) == Stage(p, "live") /\ table' = [table EXCEPT ![t][fdOf[p]] = p]

\* registerConnection() on thread t, up to connectionMake(), which comes also
\* when epoll_ctl() fails and EventLoop::updateEvent() does without the event.
Register(t, p) ==
    /\ watch(t, p) \/ (Stage(p, "unwatched") /\ UNCHANGED table)
    /\ cur' = [cur EXCEPT ![t] = p]
    /\ Goto(t, "make")

\* runInLoop(registerConnection): at once if the loop is the base loop, and
\* else as a deferred task of its loop.
RunInLoop ==
    LET p == cur[Base]
        l == loopOf[p]
    IN  /\ pc[Base] = "push"
        /\ \/ /\ l = Base
              /\ Register(Base, p)
              /\ back' = [back EXCEPT ![Base] = "poll"]
              /\ UNCHANGED <<queue, loopMutex>>
           \/ /\ l # Base
              /\ loopMutex[l] = None
              /\ queue' = [queue EXCEPT ![l] = Append(@, p)]
              /\ Stage(p, "queued")
              /\ Goto(Base, "poll")
              /\ UNCHANGED <<table, loopMutex, cur, back>>
        /\ UNCHANGED <<fdOf, loopOf, kernel, server>>

\* accept() fails with EMFILE.  After any other error, as ENFILE, handleRead()
\* returns with nothing changed, to be called again: a step that stutters.
AcceptFails ==
    /\ pc[Base] = "poll" /\ listenfd = "watched"
    /\ \E p \in Peers : obj[p] = "pending"
    /\ Free(fds) = {}
    /\ Goto(Base, "emfile")
    /\ UNCHANGED <<conn, kernel, server, loops, cur, back>>

\* Mutant: the spare descriptor is not closed.
ClosedNot(fd) == fds

\* ::close(fd); an fd of -1 is an error that is ignored.
Closed(fd) == [f \in Fds |-> IF f = fd THEN "free" ELSE fds[f]]

\* ::close(idleFd_) and ::accept().
AcceptSpare ==
    /\ pc[Base] = "emfile"
    /\ LET open == Closed(idleFd)
       IN  IF Free(open) = {}
           THEN fds' = open /\ idleFd' = None /\ UNCHANGED obj
           ELSE \E p \in Peers :
                    /\ obj[p] = "pending"
                    /\ Stage(p, "refused")
                    /\ idleFd' = Lowest(Free(open))
                    /\ fds' = [open EXCEPT ![idleFd'] = "spare"]
    /\ Goto(Base, "reopen")
    /\ UNCHANGED <<fdOf, loopOf, gone, listenfd, conns, mutex, pool>>
    /\ UNCHANGED <<loops, cur, back>>

\* ::close(idleFd_) and ::open("/dev/null").
OpenSpare ==
    /\ pc[Base] = "reopen"
    /\ LET open == Closed(idleFd)
       IN  IF Free(open) = {}
           THEN fds' = open /\ idleFd' = None
           ELSE /\ idleFd' = Lowest(Free(open))
                /\ fds' = [open EXCEPT ![idleFd'] = "spare"]
    /\ Goto(Base, "poll")
    /\ UNCHANGED <<conn, gone, listenfd, conns, mutex, pool, loops, cur, back>>

-----------------------------------------------------------------------------
(* Any loop's thread.                                                      *)

\* runDeferredTasks() locks mutex_ of the loop until the tasks have run.
RunTasks(t) ==
    /\ t # Base /\ pc[t] = "poll"
    /\ queue[t] # <<>> /\ loopMutex[t] = None
    /\ loopMutex' = [loopMutex EXCEPT ![t] = t]
    /\ Goto(t, "tasks")
    /\ UNCHANGED <<conn, kernel, server, table, queue, cur, back>>

RunTask(t) ==
    /\ pc[t] = "tasks" /\ queue[t] # <<>>
    /\ queue' = [queue EXCEPT ![t] = Tail(@)]
    /\ Register(t, Head(queue[t]))
    /\ back' = [back EXCEPT ![t] = "tasks"]
    /\ UNCHANGED <<fdOf, loopOf, kernel, server, loopMutex>>

TasksDone(t) ==
    /\ pc[t] = "tasks" /\ queue[t] = <<>>
    /\ loopMutex' = [loopMutex EXCEPT ![t] = None]
    /\ Goto(t, "poll")
    /\ UNCHANGED <<conn, kernel, server, table, queue, cur, back>>

MakeReturns(t) ==
    /\ pc[t] = "make"
    /\ Goto(t, back[t])
    /\ UNCHANGED <<conn, kernel, server, loops, cur, back>>

\* User code on the thread of an unwatched connection sends more than a write()
\* takes: enableWriting() comes to updateEvent() again, and now epoll takes it.
SendWatches(t, p) ==
    /\ obj[p] = "unwatched" /\ loopOf[p] = t
    /\ pc[t] \in {"poll", "tasks", "make", "lost"}
    /\ watch(t, p)
    /\ UNCHANGED <<fdOf, loopOf, kernel, server, queue, loopMutex, threads>>

\* Mutant: the event stays in the table.
EventKept(t, f) == table

\* EventLoop::deleteEvent()
deleteEvent(t, f) == [table EXCEPT ![t][f] = None]

\* Connection::handleClose(): deleteEvent() takes the descriptor out of the
\* loop's table; then removeConnection().
handleClose(t, p) ==
    /\ table' = deleteEvent(t, fdOf[p])
    /\ cur' = [cur EXCEPT ![t] = p]
    /\ Stage(p, "closing")
    /\ Goto(t, "erase")
    /\ UNCHANGED <<fdOf, loopOf, kernel, server, queue, loopMutex>>

\* The event of a descriptor finds its connection in the table, and that reads
\* the end of the stream.
ReadEnd(t, f) ==
    /\ pc[t] = "poll" /\ fds[f] \in gone /\ table[t][f] # None
    /\ handleClose(t, table[t][f])
    /\ back' = [back EXCEPT ![t] = "poll"]

\* connectionMake() closes the connection.
MakeCloses(t) ==
    /\ pc[t] = "make"
    /\ handleClose(t, cur[t])
    /\ UNCHANGED back

\* Mutant: the connection stays in conns_.
EraseForgotten(f) == conns

\* conns_.erase()
erase(f) == [conns EXCEPT ![f] = None]

\* removeConnection(): conns_.erase() under mutex_ ...
Erase(t) ==
    /\ pc[t] = "erase"
    /\ lock(t)
    /\ conns' = erase(fdOf[cur[t]])
    /\ Goto(t, "erased")
    /\ UNCHANGED <<conn, kernel, pool, idleFd, loops, cur, back>>

UnlockErase(t) ==
    /\ pc[t] = "erased"
    /\ unlock
    /\ Goto(t, "close")
    /\ UNCHANGED <<conn, kernel, conns, pool, idleFd, loops, cur, back>>

\* ... socket::close() ...
CloseFd(t) ==
    /\ pc[t] = "close"
    /\ fds' = [fds EXCEPT ![fdOf[cur[t]]] = "free"]
    /\ Goto(t, "lost")
    /\ UNCHANGED <<conn, gone, listenfd, server, loops, cur, back>>

\* ... connectionLost() and delete.
DeleteConn(t) ==
    /\ pc[t] = "lost"
    /\ Stage(cur[t], "deleted")
    /\ Goto(t, back[t])
    /\ UNCHANGED <<fdOf, loopOf, kernel, server, loops, cur, back>>

BaseStep ==
    \/ start
    \/ \E p \in Peers : Accept(p)
    \/ StoreConn \/ UnlockStore \/ RunInLoop
    \/ AcceptFails \/ AcceptSpare \/ OpenSpare

LoopStep(t) ==
    \/ RunTasks(t) \/ RunTask(t) \/ TasksDone(t)
    \/ MakeReturns(t) \/ MakeCloses(t)
    \/ \E f \in Fds : ReadEnd(t, f)
    \/ Erase(t) \/ UnlockErase(t) \/ CloseFd(t) \/ DeleteConn(t)

Next ==
    \/ \E p \in Peers : Connect(p) \/ PeerCloses(p)
    \/ \E n \in 0 .. MaxThreads : setThreadNums(n)
    \/ BaseStep
    \/ \E t \in Threads : LoopStep(t) \/ \E p \in Peers : SendWatches(t, p)

Spec == Init /\ [][Next]_vars

\* The threads are scheduled and user code returns.  A thread that waits for a
\* mutex is not overtaken for ever, as there are finitely many peers; and the
\* listening socket does not keep the base loop from its connections, as
\* epoll_wait() reports every descriptor that is ready.  An error of accept()
\* other than EMFILE does not last.
FairSpec ==
    /\ Spec
    /\ WF_vars(BaseStep)
    /\ \A t \in Threads : WF_vars(LoopStep(t))
    /\ SF_vars(\E f \in Fds : ReadEnd(Base, f))

-----------------------------------------------------------------------------

\* conns_ has exactly the connections that newConnection() has stored and
\* removeConnection() has not erased, each under its own descriptor, which is
\* open and its own: erasing comes before closing, and closing before another
\* connection can have the number.
ConnsIsExact ==
    /\ \A f \in Fds : conns[f] # None =>
           /\ fdOf[conns[f]] = f
           /\ fds[f] = conns[f]
    /\ \A p \in Peers :
           obj[p] \in {"stored", "queued"} \cup Registered => conns[fdOf[p]] = p

\* What a loop's table has for a descriptor is the connection whose descriptor
\* it is, never one of another loop or one that is being removed.
TableIsExact ==
    \A t \in Threads, f \in Fds : table[t][f] # None =>
        /\ fds[f] = table[t][f]
        /\ loopOf[fds[f]] = t
        /\ obj[fds[f]] = "live"

\* The connections are dealt out evenly over the I/O threads.
LoopsAreBalanced ==
    LET share(t) == Cardinality({p \in Peers : loopOf[p] = t})
    IN  \A t, u \in 1 .. threadNums : share(t) - share(u) <= 1

\* For every connection that was accepted registerConnection() is run, and the
\* user's connectionMake(), whether epoll takes the connection or not.
AcceptedIsRegistered ==
    \A p \in Peers :
        obj[p] \in {"accepted", "stored", "queued"}
            ~> obj[p] \notin {"accepted", "stored", "queued"}

\* A connection whose peer has closed is removed, if epoll has taken it when it
\* was registered, or later.  (If not, it stays in conns_ and keeps its
\* descriptor, and nobody is told.)
ClosedIsRemoved ==
    \A p \in Peers : obj[p] = "live" /\ p \in gone ~> obj[p] = "deleted"

\* A connection that arrives is accepted or turned away, not left waiting with
\* the loop called for it again and again, while the Acceptor has its spare
\* descriptor, and accept() fails for want of a descriptor only (see FairSpec).
SpareAnswersPending ==
    \A p \in Peers :
        obj[p] = "pending" /\ idleFd # None ~> obj[p] # "pending"
=============================================================================
