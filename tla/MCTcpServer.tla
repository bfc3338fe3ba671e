---------------------------- MODULE MCTcpServer ----------------------------
(* Three peers, two descriptors, up to two threads.                        *)
EXTENDS TcpServer

CONSTANTS p1, p2, p3
=============================================================================
