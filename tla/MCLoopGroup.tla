---------------------------- MODULE MCLoopGroup ----------------------------
(* Two loops, tasks of the first call the second; two events, one signal. *)
EXTENDS LoopGroup

MCThreads == {0, 1, 2}
MCCalls == {<<1, 2>>}
=============================================================================
