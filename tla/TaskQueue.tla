----------------------------- MODULE TaskQueue -----------------------------
(***************************************************************************)
(* What the deferred-execution components of yevent promise, without their *)
(* threads, locks and wake-ups: a task that is handed over is appended to  *)
(* a queue, tasks leave the queue in the order in which they entered it,   *)
(* and each call hands over a task that is run at most once.  A call made  *)
(* on the thread that owns the queue does not enter it: its task is run on *)
(* the spot, ahead of everything that waits.                               *)
(*                                                                         *)
(* EventLoop and ThreadPool are shown to implement this module.            *)
(***************************************************************************)
EXTENDS Naturals, Sequences

CONSTANT Tasks      \* the Task objects; every call has one of its own

VARIABLES pending,  \* handed over, not started yet
          ran       \* started, oldest first

qvars == <<pending, ran>>

Elems(s) == {s[i] : i \in DOMAIN s}

Unused(t) == t \notin Elems(pending) \cup Elems(ran)

Init ==
    /\ pending = <<>>
    /\ ran = <<>>

Defer(t) ==
    /\ Unused(t)
    /\ pending' = Append(pending, t)
    /\ ran' = ran

RunNow(t) ==
    /\ Unused(t)
    /\ ran' = Append(ran, t)
    /\ pending' = pending

RunNext ==
    /\ pending # <<>>
    /\ ran' = Append(ran, Head(pending))
    /\ pending' = Tail(pending)

Next == RunNext \/ \E t \in Tasks : Defer(t) \/ RunNow(t)

Spec == Init /\ [][Next]_qvars
=============================================================================
