----------------------------- MODULE Connection -----------------------------
(***************************************************************************)
(* The life of one Connection on the thread of its loop: its registration, *)
(* the events that epoll reports, the callbacks of TcpServer in which user *)
(* code runs, send(), and the close that deletes the object.               *)
(*                                                                         *)
(* pc is where the loop's thread is with regard to this connection:        *)
(*   new       the connection waits in deferredQueue_ of its loop          *)
(*   wait      epoll_wait()                                                *)
(*   read, write, test                                                     *)
(*             handleRead(), handleWrite(), the test of EV_WRITE in        *)
(*             Event::handleEvent()                                        *)
(*   make, data, done, lost                                                *)
(*             user code in connectionMake(), dataReceived(),              *)
(*             dataWriteDone() as called by handleWrite(), connectionLost()*)
(*   batch     user code of events that the same epoll_wait() reported and *)
(*             that are handled before this connection's                   *)
(*   task      user code of timers and deferred tasks                      *)
(*   deleted   removeConnection() has deleted the object                   *)
(*   dangling  a method of the deleted object is called                    *)
(*                                                                         *)
(* User code may call send() and handleClose() in the places SendIn and    *)
(* CloseIn.  The bytes it sends are numbered in the order of the calls.    *)
(*                                                                         *)
(* accept() makes a blocking socket, and the library leaves it so: a write *)
(* keeps the loop's thread until the peer has made room or a signal comes. *)
(* User code may make the socket non-blocking before it sends.             *)
(***************************************************************************)
EXTENDS Naturals, Sequences

CONSTANTS
    SendIn,       \* places in which user code calls send()
    CloseIn,      \* places in which user code calls handleClose()
    Garbage,      \* bits that may be set in the uninitialised ee.events
    MaxSent,      \* bounds the bytes passed to send()
    MaxUnread,    \* bounds the chunks from the peer that wait in the socket
    Room          \* capacity of the socket towards the peer

Places == {"make", "batch", "data", "done", "task"}
Bits == {"READ", "WRITE", "ET", "ONESHOT"}

ASSUME ConstantsOK ==
    /\ SendIn \subseteq Places
    /\ CloseIn \subseteq Places
    /\ Garbage \subseteq Bits
    /\ MaxSent \in Nat
    /\ MaxUnread \in Nat
    /\ Room \in Nat \ {0}

VARIABLES
    event,        \* event_
    isWriting,    \* isWriting_
    outputBuf,    \* what is readable in outputBuf_
    revent,       \* revent_, as the last epoll_wait() left it
    registered,   \* registeredEvents_ has the descriptor
    interest,     \* the mask in the kernel's interest list
    pc,
    caller,       \* the place from which handleClose() was called
    sent,         \* history: bytes passed to send()
    written,      \* history: bytes written to the socket
    late,         \* history: outputBuf_ grew in the dataWriteDone() that
                  \* handleWrite() calls, and has not been empty since
    epollFailed,  \* history: an epoll_ctl() failed, for want of memory
    peer,         \* "open", "fin": it closed, "reset": it is gone
    unread,       \* chunks from the peer that wait in the socket
    room,         \* bytes that the socket takes without blocking
    blocking      \* the socket is as accept() made it

epollVars == <<event, isWriting, registered, interest, epollFailed>>
streamVars == <<outputBuf, sent, written, late>>
socketVars == <<unread, room, blocking>>
peerVars == <<peer, socketVars>>
connVars == <<epollVars, streamVars, revent, pc, caller>>
vars == <<connVars, peerVars>>

TypeOK ==
    /\ event \subseteq {"READ", "WRITE"} /\ revent \subseteq {"READ", "WRITE"}
    /\ interest \subseteq Bits
    /\ {isWriting, registered, late, epollFailed, blocking} \subseteq BOOLEAN
    /\ outputBuf \in Seq(1 .. sent) /\ written \in Seq(1 .. sent)
    /\ pc \in Places \cup {"new", "wait", "read", "test", "write", "lost",
                           "deleted", "dangling"}
    /\ caller \in Places \cup {"read"}
    /\ sent \in 0 .. MaxSent
    /\ peer \in {"open", "fin", "reset"}
    /\ unread \in 0 .. MaxUnread /\ room \in 0 .. Room

\* Event::Event()
EventInit(mask) == event = mask /\ revent = {}

\* Connection::Connection(), called by newConnection() on the main thread.
Init ==
    /\ EventInit({"READ"})
    /\ isWriting = FALSE /\ late = FALSE
    /\ outputBuf = <<>> /\ sent = 0 /\ written = <<>>
    /\ registered = FALSE /\ interest = {} /\ epollFailed = FALSE
    /\ pc = "new" /\ caller = "read"
    /\ peer = "open" /\ unread = 0 /\ room = Room /\ blocking = TRUE

-----------------------------------------------------------------------------
(* The tables of the loop and of the kernel.                               *)

\* MultiplexerEpoll::addEvent()
addEvent(mask) ==
    registered' = TRUE /\ interest' = mask /\ UNCHANGED epollFailed

\* Mutant: the kernel is not told.
ModEventSilently(mask) == UNCHANGED <<registered, interest, epollFailed>>

\* MultiplexerEpoll::updateEvent() sets its bits in an ee.events that nobody
\* has initialised.
modEvent(mask) ==
    /\ UNCHANGED <<registered, epollFailed>>
    /\ \E bits \in SUBSET Garbage : interest' = mask \cup bits

\* Event::updateEvent() and EventLoop::updateEvent()
updateEvent(mask) ==
    \/ ~registered /\ addEvent(mask)
    \/ registered /\ modEvent(mask)
    \/ epollFailed' = TRUE /\ UNCHANGED <<registered, interest>>

\* MultiplexerEpoll::deleteEvent(); EPOLL_CTL_DEL needs no memory.
delEvent == interest' = {}

\* Event::deleteEvent() and EventLoop::deleteEvent(): the descriptor leaves the
\* table whatever the multiplexer says.
deleteEvent ==
    /\ IF registered THEN delEvent ELSE UNCHANGED interest
    /\ registered' = FALSE
    /\ UNCHANGED epollFailed

\* setEvent() and updateEvent(), and isWriting_.
SetEvent(mask, writing) ==
    event' = mask /\ updateEvent(mask) /\ isWriting' = writing

\* Mutant: event_ is set to EV_WRITE alone.
EnableWritingOnly ==
    IF "WRITE" \in event THEN UNCHANGED epollVars ELSE SetEvent({"WRITE"}, TRUE)

enableWriting ==
    IF "WRITE" \in event THEN UNCHANGED epollVars
    ELSE SetEvent(event \cup {"WRITE"}, TRUE)

\* Mutant: isWriting_ is not reset.
DisableKeepsWriting ==
    IF "WRITE" \in event THEN SetEvent(event \ {"WRITE"}, isWriting)
    ELSE UNCHANGED epollVars

disableWriting ==
    IF "WRITE" \in event THEN SetEvent(event \ {"WRITE"}, FALSE)
    ELSE UNCHANGED epollVars

-----------------------------------------------------------------------------
(* The socket and the peer.                                                *)

\* How many of len bytes a write() may take; 0 stands for an error.  One that
\* blocks takes them all, unless a signal or a reset interrupts it.
Writes(len) ==
    IF len = 0 \/ peer = "reset" THEN {0}
    ELSE IF blocking THEN {n \in 0 .. len : n > 0 \/ room = 0}
    ELSE IF room = 0 THEN {0}
    ELSE {n \in 1 .. len : n <= room}

RoomAfter(n) == IF n < room THEN room - n ELSE 0

PeerSends ==
    /\ peer = "open" /\ unread < MaxUnread
    /\ unread' = unread + 1
    /\ UNCHANGED <<connVars, peer, room, blocking>>

PeerReads ==
    /\ peer = "open" /\ room < Room
    /\ room' = Room
    /\ UNCHANGED <<connVars, peer, unread, blocking>>

PeerCloses ==
    /\ peer = "open"
    /\ \/ peer' = "fin" /\ UNCHANGED unread
       \/ peer' = "reset" /\ unread' = 0
    /\ UNCHANGED <<connVars, room, blocking>>

\* What a level-triggered epoll would report.
Ready ==
    (IF unread > 0 \/ peer # "open" THEN {"READ"} ELSE {}) \cup
    (IF room > 0 \/ peer = "reset" THEN {"WRITE"} ELSE {})

-----------------------------------------------------------------------------
(* The thread of the loop.                                                 *)

\* Nothing of the connection changes but where the thread is.
Goto(place) ==
    pc' = place /\ UNCHANGED <<epollVars, streamVars, revent, caller, peerVars>>

\* registerConnection(), run as a deferred task; it returns when the user's
\* connectionMake() does.
registerConnection ==
    /\ pc = "new"
    /\ updateEvent(event)
    /\ pc' = "make"
    /\ UNCHANGED <<event, isWriting, streamVars, revent, caller, peerVars>>

MakeReturns == pc = "make" /\ Goto("wait")

\* epoll_wait() returns with mask for this connection; with no bit at all
\* when only other descriptors are reported, or a signal interrupts the wait.
EpollReturns(mask) ==
    /\ pc = "wait"
    /\ IF interest \cap {"ET", "ONESHOT"} = {}
       THEN mask = Ready \cap interest
       ELSE mask \subseteq Ready \cap interest
    /\ revent' = IF mask = {} THEN revent ELSE mask
    /\ interest' = IF mask # {} /\ "ONESHOT" \in interest THEN {} ELSE interest
    /\ pc' = IF mask = {} THEN "task" ELSE "batch"
    /\ UNCHANGED <<event, isWriting, registered, epollFailed>>
    /\ UNCHANGED <<streamVars, caller, peerVars>>

\* Event::handleEvent(): handleRead() if EV_READ was reported ...
handleEvent ==
    pc = "batch" /\ Goto(IF "READ" \in revent THEN "read" ELSE "test")

\* ... and then handleWrite() if EV_WRITE was.
TestWrite ==
    /\ pc \in {"test", "data"}
    /\ Goto(IF "WRITE" \in revent THEN "write" ELSE "task")

\* handleClose(), down to the connectionLost() in removeConnection().
handleClose(place) ==
    /\ deleteEvent
    /\ caller' = place
    /\ pc' = "lost"
    /\ UNCHANGED <<event, isWriting, streamVars, revent, peerVars>>

\* handleRead(): data goes to dataReceived() ...
ReadData ==
    /\ pc = "read" /\ unread > 0
    /\ \E n \in 1 .. unread : unread' = unread - n
    /\ pc' = "data"
    /\ UNCHANGED <<epollVars, streamVars, revent, caller, peer, room, blocking>>

\* ... the end of the stream, or an error, closes the connection ...
ReadEnd ==
    /\ pc = "read" /\ unread = 0 /\ peer # "open"
    /\ handleClose("read")

\* ... and EAGAIN, which a report by epoll does not exclude, is ignored.
ReadNothing ==
    pc = "read" /\ ~blocking /\ peer = "open" /\ Goto("test")

\* handleWrite(), up to the return of write(); n is what it took.
HandleWrite(n) ==
    /\ pc = "write"
    /\ IF isWriting
       THEN /\ n \in Writes(Len(outputBuf))
            /\ written' = written \o SubSeq(outputBuf, 1, n)
            /\ outputBuf' = SubSeq(outputBuf, n + 1, Len(outputBuf))
            /\ late' = (late /\ n < Len(outputBuf))
            /\ room' = RoomAfter(n)
            /\ pc' = IF n > 0 /\ n = Len(outputBuf) THEN "done" ELSE "task"
       ELSE /\ n = 0 /\ pc' = "task"
            /\ UNCHANGED <<written, outputBuf, room, late>>
    /\ UNCHANGED <<epollVars, revent, caller, sent, peer, unread, blocking>>

\* handleWrite() goes on when dataWriteDone() returns.
WriteDoneReturns ==
    /\ pc = "done"
    /\ disableWriting
    /\ pc' = "task"
    /\ UNCHANGED <<streamVars, revent, caller, peerVars>>

TasksDone == pc = "task" /\ Goto("wait")

\* Mutant: older bytes in outputBuf_ are overtaken.
WritesOftener == ~isWriting

\* Mutant: EV_WRITE is asked for only if the socket took a part.
AsksAfterPart(len, n) == 0 < n /\ n < len /\ ~isWriting

\* send() writes at once only if nothing older waits.
WritesAtOnce == ~isWriting /\ outputBuf = <<>>

\* What send() appends to outputBuf_, of len bytes of which n were written.
Rest(len, n) == [i \in 1 .. len - n |-> sent + n + i]

AsksForWrite(len, n) == n < len /\ ~isWriting

\* send() of len bytes, of which a direct write() takes n; the dataWriteDone()
\* that it calls when n = len is user code in the same place.
send(place, len, n) ==
    /\ pc = place
    /\ sent + len <= MaxSent
    /\ IF WritesAtOnce THEN n \in Writes(len) ELSE n = 0
    /\ sent' = sent + len
    /\ written' = written \o [i \in 1 .. n |-> sent + i]
    /\ outputBuf' = outputBuf \o Rest(len, n)
    /\ late' = (late \/ (place = "done" /\ n < len))
    /\ room' = RoomAfter(n)
    /\ IF AsksForWrite(len, n) THEN enableWriting ELSE UNCHANGED epollVars
    /\ UNCHANGED <<revent, pc, caller, peer, unread, blocking>>

UserCloses(place) == pc = place /\ handleClose(place)

\* removeConnection() deletes the object when connectionLost() returns, and
\* handleClose() returns to its caller.  handleRead() returns to the test of
\* revent_, which the freed memory still holds; handleWrite() returns to
\* disableWriting(); an event of the batch is still in activeEvents_.
LostReturns ==
    /\ pc = "lost"
    /\ Goto(IF \/ caller \in {"read", "data"} /\ "WRITE" \in revent
               \/ caller \in {"done", "batch"}
            THEN "dangling" ELSE "deleted")

\* fcntl() on the descriptor of the connection, in connectionMake().
UserSetsNonblocking ==
    /\ pc = "make"
    /\ blocking' = FALSE
    /\ UNCHANGED <<connVars, peer, unread, room>>

UserCode ==
    \/ UserSetsNonblocking
    \/ \E place \in SendIn, len \in 1 .. MaxSent, n \in 0 .. MaxSent :
           send(place, len, n)
    \/ \E place \in CloseIn : UserCloses(place)

LoopNext ==
    \/ registerConnection \/ MakeReturns
    \/ \E mask \in SUBSET {"READ", "WRITE"} : EpollReturns(mask)
    \/ handleEvent \/ TestWrite
    \/ ReadData \/ ReadEnd \/ ReadNothing
    \/ \E n \in 0 .. MaxSent : HandleWrite(n)
    \/ WriteDoneReturns \/ TasksDone \/ LostReturns

Next == LoopNext \/ UserCode \/ PeerSends \/ PeerReads \/ PeerCloses

Spec == Init /\ [][Next]_vars

\* The thread of the loop is scheduled, user code returns, and a peer that is
\* there reads what it is sent.
FairSpec == Spec /\ WF_vars(LoopNext) /\ WF_vars(PeerReads)

-----------------------------------------------------------------------------

\* The peer gets the bytes in the order of the calls of send(), none left out
\* and none twice: what was written, and then what waits in outputBuf_, is
\* what was sent.
StreamOrder == written \o outputBuf = [i \in 1 .. sent |-> i]

\* No dataWriteDone() of handleWrite() is running and the object exists.
AtRest == pc \notin {"done", "lost", "deleted", "dangling"}

\* isWriting_ is set with nothing in outputBuf_ at no time but during the
\* dataWriteDone() of handleWrite(): otherwise handleWrite() would write zero
\* bytes, take that for an error and be called again and again.
WritingHasData ==
    /\ isWriting <=> "WRITE" \in event
    /\ AtRest /\ isWriting => outputBuf # <<>>

\* Bytes in outputBuf_ have EV_WRITE set for them.  The exception is `late':
\* what user code sends from the dataWriteDone() of handleWrite() is buffered
\* before disableWriting() clears EV_WRITE, and waits for the next send().
OutputIsWatched == AtRest /\ outputBuf # <<>> /\ ~late => "WRITE" \in event

\* Bytes that were left in outputBuf_ get out, unless the connection ends, or
\* they are late in that sense, or the kernel was not told of EV_WRITE.
OutputDrains ==
    outputBuf # <<>> ~> \/ outputBuf = <<>>
                        \/ late \/ epollFailed
                        \/ peer # "open" \/ ~AtRest

\* A peer that has gone is noticed, whatever else happens on the connection,
\* if the kernel was told to watch it.
PeerCloseIsNoticed ==
    peer # "open" ~> pc \in {"deleted", "dangling"} \/ epollFailed

\* "write error, maybe connection is lost", says handleWrite(): it is called
\* on a connection that may be lost, but still exists.  (Without the help of a
\* failing epoll_ctl().)
ConnectionExists == pc # "dangling" \/ epollFailed
=============================================================================
