---------------------------- MODULE SignalEvent ----------------------------
(***************************************************************************)
(* SignalEvents: signals of the process that a loop's thread reads from    *)
(* signalfds instead of being interrupted.                                 *)
(*                                                                         *)
(* The signals have the default action that ends the process, and are sent *)
(* to the process: the kernel gives one to any thread that does not block  *)
(* it, or keeps it pending, once however often it is sent.  The module has *)
(* the actions; which threads there are and when they act is for the       *)
(* module that extends it.                                                 *)
(***************************************************************************)
EXTENDS Integers, Sequences, FiniteSets

CONSTANTS
    Base,          \* the thread of the loop that has the SignalEvents
    Threads,       \* all threads
    Signals,
    MaxEvents,     \* bounds the calls of registerSignalEvent()
    None           \* no signal, no event

VARIABLES
    running,       \* the threads that exist
    mask,          \* the signals that a thread blocks
    pending,       \* the signals that are pending
    signo,         \* signo_ of the events in registeredEvents_, by number
    active,        \* activeEvents_
    killed,        \* the signal that has ended the process
    late,          \* the signals registered while there were other threads
    spurious       \* the event that was called back for no signal

signals == <<running, mask, pending, signo, active, killed, late, spurious>>

SignalTypeOK ==
    /\ Base \in running /\ running \subseteq Threads
    /\ mask \in [Threads -> SUBSET Signals]
    /\ pending \subseteq Signals /\ late \subseteq Signals
    /\ signo \in Seq(Signals)
    /\ active \subseteq DOMAIN signo
    /\ spurious \in DOMAIN signo \cup {None}
    /\ killed \in Signals \cup {None}

SignalInit ==
    /\ running = {Base}
    /\ mask = [t \in Threads |-> {}] /\ pending = {}
    /\ signo = <<>> /\ active = {}
    /\ killed = None /\ late = {} /\ spurious = None

\* sigprocmask() blocks the signal in the calling thread only.  When signalfd()
\* fails after it the signal stays blocked, and epoll does not take the event.
signalfd_create(s) ==
    /\ mask' = [mask EXCEPT ![Base] = @ \cup {s}]
    /\ signo' \in {signo, Append(signo, s)}

registerSignalEvent(s) ==
    /\ Len(signo) < MaxEvents
    /\ signalfd_create(s)
    /\ late' = IF running = {Base} THEN late ELSE late \cup {s}
    /\ UNCHANGED <<running, pending, active, killed, spurious>>

\* Mutant: a new thread blocks nothing.
MaskNotInherited(t) == [mask EXCEPT ![t] = {}]

\* A new thread blocks what its creator, here the loop's thread, blocks.
Inherited(t) == [mask EXCEPT ![t] = mask[Base]]

ThreadBegins(t) ==
    /\ running' = running \cup {t}
    /\ mask' = Inherited(t)
    /\ UNCHANGED <<pending, signo, active, killed, late, spurious>>

ThreadEnds(t) ==
    /\ running' = running \ {t}
    /\ UNCHANGED <<mask, pending, signo, active, killed, late, spurious>>

\* A signal that was registered is sent.
Raise(s) ==
    /\ \E e \in DOMAIN signo : signo[e] = s
    /\ IF \A t \in running : s \in mask[t]
       THEN pending' = pending \cup {s} /\ UNCHANGED killed
       ELSE killed' = s /\ UNCHANGED pending
    /\ UNCHANGED <<running, mask, signo, active, late, spurious>>

\* epoll_wait() reports every signalfd whose signal is pending.
EpollReturns ==
    /\ active = {}
    /\ active' = {e \in DOMAIN signo : signo[e] \in pending}
    /\ active' # {}
    /\ UNCHANGED <<running, mask, pending, signo, killed, late, spurious>>

\* Mutant: activeEvents_ is not cleared.
ActiveKept(e) == active

Handled(e) == active \ {e}

\* SignalEvent::handleEvent().  When read() fails, because another event of the
\* same signal was first, the test of ssi_signo reads an uninitialized value.
handleEvent(e) ==
    /\ e \in active
    /\ active' = Handled(e)
    /\ pending' = pending \ {signo[e]}
    /\ spurious' \in IF signo[e] \in pending THEN {None} ELSE {None, e}
    /\ UNCHANGED <<running, mask, signo, killed, late>>

\* A signal that was registered before the other threads were started never
\* ends the process: they block it as their creator did.
KilledOnlyIfLate == killed # None => killed \in late

\* A callback means a signal, unless two events were registered for it.
CallbackMeansSignal ==
    spurious # None =>
        \E f \in DOMAIN signo \ {spurious} : signo[f] = signo[spurious]
=============================================================================
