---------------------------- MODULE MCThreadPool ----------------------------
(* Instances of ThreadPool for TLC: two workers, three tasks, two starts.  *)
EXTENDS ThreadPool

CONSTANTS t1, t2, t3

MCTasks == {t1, t2, t3}
=============================================================================
