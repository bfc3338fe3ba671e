----------------------------- MODULE ByteQueue -----------------------------
(***************************************************************************)
(* What a Buffer promises, without its vector and its indices: bytes come  *)
(* out in the order in which they went in, none is lost, none is invented. *)
(* io are the bytes that the last operation put in or took out.            *)
(***************************************************************************)
EXTENDS Naturals, Sequences

CONSTANT Chunks     \* what may be appended in one call

VARIABLES queue, io

bqvars == <<queue, io>>

Init == queue = <<>> /\ io = <<>>

Put(chunk) ==
    /\ queue' = queue \o chunk
    /\ io' = chunk

Take(n) ==
    /\ queue' = SubSeq(queue, n + 1, Len(queue))
    /\ io' = SubSeq(queue, 1, n)

Next == (\E chunk \in Chunks : Put(chunk)) \/ \E n \in 0 .. Len(queue) : Take(n)

Spec == Init /\ [][Next]_bqvars
=============================================================================
