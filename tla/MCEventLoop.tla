---------------------------- MODULE MCEventLoop ----------------------------
(* Instances of EventLoop for TLC: two threads, of which one may call      *)
(* breakLoop(), and three calls of runInLoop().                            *)
EXTENDS EventLoop

CONSTANTS th1, th2, t1, t2, t3

MCThreads == {th1, th2}
MCQuitters == {th1}
MCTasks == {t1, t2, t3}
=============================================================================
