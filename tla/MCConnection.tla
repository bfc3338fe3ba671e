---------------------------- MODULE MCConnection ----------------------------
(* One connection, four bytes, a socket that takes two at a time.         *)
EXTENDS Connection

AllPlaces == Places
ReadWrite == {"READ", "WRITE"}
=============================================================================
