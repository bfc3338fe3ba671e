------------------------- MODULE MCEventLoopThread -------------------------
(* Instances of EventLoopThread for TLC: the owner and one more thread that *)
(* hands tasks to the loop, and two calls of runInLoop().                   *)
EXTENDS EventLoopThread

CONSTANTS owner, th1, t1, t2

MCThreads == {owner, th1}
MCQuitters == {owner}
MCTasks == {t1, t2}
=============================================================================
